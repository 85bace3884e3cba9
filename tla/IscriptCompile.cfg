SPECIFICATION StepsSpec
CONSTANTS
  NULL = NULL
  NoLabel = "[NONE]"
  Illegal = {".headerstart", ".headerend"}
  NumAnims <- MCNumAnims
  Sources <- MCSources
  Size = 4
INVARIANTS
  RefusesErrors
  CompiledIsTheSource
  NoDeadCode
  CompiledAgree
PROPERTIES
  ImplementsCompiler
  CompileEnds
