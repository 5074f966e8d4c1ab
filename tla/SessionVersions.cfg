\* The zero in acceptedProtocols lets a client of version 0 in.
SPECIFICATION Spec
CONSTANTS
  Version <- MCVersion
  EagerVersion = {}
  ForceResources = FALSE
  MaxSent = 0
  MaxBatch = 0
INVARIANTS
  OnlyCurrentVersionLogsIn
