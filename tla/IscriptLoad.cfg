SPECIFICATION FairSpec
CONSTANTS
  Files <- MCFiles
  LocalJmpDistance = 1
  NULL = NULL
  Size = 5
INVARIANTS
  TypeOK
  NothingUnreachable
  NothingMissed
  PointersAgree
  LinkedAsExecuted
  LoadsWellFormed
PROPERTY LoadEnds
