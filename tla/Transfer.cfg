\* Two packs under every order of requests; the archive of one may be rewritten,
\* replaced or removed at any time.
SPECIFICATION FairSpec
CONSTANTS
  a = a
  b = b
  Pack = {a, b}
  UnknownPack = unknown
  NoPack = nil
  MaxChunkSize = 2
  InitialSize <- MCInitialSize
  Mutable = {a}
  NewSizes = {2, 5}
  MaxIndex = 2
  ForceResources = TRUE
  MaxEntries = 2
  PackQueueBound = 2
INVARIANTS
  TypeOK
  ServedOnceInOrder
  IdleMeansServed
  NextToSendIsFirstUnsent
  CurrentPackQueued
  FinishedPackIsWhole
  AnnouncedCountHolds
  
PROPERTIES
  MetadataIsKept
  LoopEnds
  Delivers
CHECK_DEADLOCK FALSE
