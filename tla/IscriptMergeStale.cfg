SPECIFICATION Spec
CONSTANTS
  NULL = NULL
  Inputs <- MCInputs
  Size = 3
  Choices <- MCChoices
  Tables <- MCTables
  Later <- MCLater
INVARIANT SafeToFree
