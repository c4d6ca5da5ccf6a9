\* The encoder delivers MaxPackets packets at most: no deadlock check.
CONSTANTS
  Modulus = 8
  Buffers = 3
  Capacity = 2
  MaxPayload = 2
  FrameSizes = {2, 4, 5}
  MaxPackets = 10
SPECIFICATION Spec
INVARIANTS
  TypeOK
  SendsOwn
  ResendIsAsked
  WholeFrame
CHECK_DEADLOCK FALSE
