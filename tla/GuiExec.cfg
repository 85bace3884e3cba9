SPECIFICATION FairGuiSpec
CONSTANTS
  Threads = {1, 2}
  Jobs <- MCJobs
  PipeSize = 2
CHECK_DEADLOCK FALSE
INVARIANTS
  ErrorsAreShown
PROPERTY CommandsEnd
