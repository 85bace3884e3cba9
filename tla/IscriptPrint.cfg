SPECIFICATION FairSpec
CONSTANTS
  NULL = NULL
  ScriptName <- MCScriptName
  Programs <- MCPrograms
  MaxAnims = 3
  Size = 4
  Choices <- MCChoices
  Tables <- MCTables
INVARIANTS
  PrintedIsTheProgram
PROPERTY PrintEnds
