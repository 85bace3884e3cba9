SPECIFICATION Spec
CONSTANTS
  Files <- MCBadFiles
  LocalJmpDistance = 1
  NULL = NULL
  Size = 5
INVARIANT FreedOnce
