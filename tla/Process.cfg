\* Instances started and stopped one at a time, killed at any time.
SPECIFICATION FairSpec
CONSTANTS
  Instance = {i1, i2, i3}
  Pid <- MCPid
  Word = {"", "stop", "shutdown", "exit", "info", "other"}
  Careful = TRUE
  ReusePids = FALSE
  MaxStarts <- MCStarts
INVARIANTS
  TypeOK
  OneInstance
  LockNamesRunner
  RefusedOnlyBesideAnother
  StaleOnlyAfterKill
PROPERTIES
  StopTerminates
CHECK_DEADLOCK FALSE
