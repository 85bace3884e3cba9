SPECIFICATION Spec
CONSTANTS
  NULL = NULL
  ScriptName <- MCScriptName
  Programs <- MCPrograms
  MaxAnims = 3
  Size = 4
  Choices <- MCChoices
  Tables <- MCTables
INVARIANT Recompiles
