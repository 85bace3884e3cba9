SPECIFICATION Spec
CONSTANTS
  NULL = NULL
  Address = {a1, a2, a3, a4}
  Item <- MCNumbers
  Object = {x, y}
  Key = {"a", "A", "b", "c"}
  Datum = {d}
  Name <- MCName
  Hash <- MCHash
  Size = 3
  Byte = {0, 255}
  MaxSize = 4
  Absent = Absent
  Offsets <- MCOffsets
  Counts <- MCCounts
  Objects <- MCObjects
  TBL_STRING_MAX_LEN = 3
  MAX_LINE_LENGTH = 2
  Texts <- MCTexts
  Uses <- MCUses
  Newline <- MCNewline
SYMMETRY Addresses
CHECK_DEADLOCK FALSE
INVARIANTS
  AccessesInside
  ResourcesLoaded
  TokensAreTheText
PROPERTIES
  ImplementsFifo
  ListsImplementListing
  TablesImplementDictionary
