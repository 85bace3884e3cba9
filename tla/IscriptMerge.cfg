SPECIFICATION FairSpec
CONSTANTS
  NULL = NULL
  Inputs <- MCInputs
  Size = 3
  Choices <- MCChoices
  Tables <- MCTables
  Later <- MCLater
INVARIANTS
  MergedAgree
  NoDeadCode
  ReachedByIsExact
  FreedOnce
PROPERTIES
  ImplementsArchive
  MergeEnds
