\* Two sessions download one pack, whose archive may be rewritten, replaced or
\* removed, and leave or are dropped at any time.
SPECIFICATION ServerSpec
CONSTANTS
  Connection = {c1, c2}
  Pack = {a}
  UnknownPack = unknown
  NoPack = nil
  MaxChunkSize = 2
  InitialSize <- MCInitialSize
  Mutable = {a}
  NewSizes = {1, 2}
  MaxIndex = 0
  ForceResources = TRUE
  MaxEntries = 1
  PackQueueBound = 1
PROPERTIES
  EachSessionTransfers
SYMMETRY Alike
CHECK_DEADLOCK FALSE
