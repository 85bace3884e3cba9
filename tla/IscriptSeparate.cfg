SPECIFICATION FairSpec
CONSTANTS
  NULL = NULL
  Programs <- MCPrograms
  Size = 4
  Choices <- MCChoices
  Tables <- MCTables
INVARIANTS
  SeparatedAgree
  NothingShared
PROPERTIES
  ImplementsArchive
  SeparationEnds
