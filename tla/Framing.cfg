\* Frames of one or two packets, around the compression threshold.
SPECIFICATION Spec
CONSTANTS
  ByteBits = 4
  WordBytes = 2
  LongBytes = 4
  IdBits = 4
  NetworkId = {1, 15}
  Registered = {1}
  SubClient = {0, 3}
  Text <- MCText
  Extra <- MCExtra
  Threshold = 8
  MaxPackets = 2
  MaxFrames = 2
INVARIANTS
  HandledAsSent
CHECK_DEADLOCK FALSE
