SPECIFICATION Spec
CONSTANTS
  NULL = NULL
  MaxCommands = 2
  Name <- MCName
  Disks <- MCDisks
  Stdin <- MCStdin
  Compiled <- MCCompiled
  Bin <- MCBin
  Resources <- MCResources
  Anything <- MCAnything
  Commands <- MCCommands
  Dashed <- MCDashed
  Numbers <- MCNumbers
  Configs <- MCConfigs
  LocalName <- MCLocalName
  DataDir <- MCDataDir
  DefaultConfig = "/etc/ini"
  DefaultDir = "d"
CHECK_DEADLOCK FALSE
INVARIANTS
  OutputIsWhatWasAsked
  FailureKeepsFiles
  TablesWhole
