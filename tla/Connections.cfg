\* Three clients compete for two places; one of them may come back before the
\* server saw it leave.
SPECIFICATION FairSpec
CONSTANTS
  Guid = {g1, g2, g3}
  Quick = {g3}
  MaxPlayers = 2
  MaxConnects = 3
  MaxFrames = 2
INVARIANTS
  TypeOK
  LiveConnectionHasSession
  ActiveWithinLimit
  NoStaleSession
PROPERTIES
  FlushedBeforeErased
  StopEndsRun
  DepartedAreForgotten
  ImplementsTable
CHECK_DEADLOCK FALSE
