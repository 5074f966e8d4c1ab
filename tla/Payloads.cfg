\* Every packet with up to two special fields and two entries in each list, and
\* any two of the encodings no packet uses, cut anywhere.
SPECIFICATION PayloadSpec
CONSTANTS
  ByteBits = 4
  WordBytes = 4
  LongBytes = 7
  PacketName <- EveryPacket
  Numbers <- MCNumbers
  Strings <- MCStrings
  Ids <- MCIds
  IdBytes = 4
  Underscore = 9
  MaxEntries = 2
  MaxSpecial = 2
INVARIANTS
  ReadBack
  ThrowsExactlyWhenCut
CHECK_DEADLOCK FALSE
