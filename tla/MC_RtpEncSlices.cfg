CONSTANTS
  PktSiz = 40
  MaxPkts = 400
  MaxNals = 6
  Lengths = {1}
  Frames <- MCFrames
SPECIFICATION Spec
INVARIANTS
  EnoughForFrame
CHECK_DEADLOCK FALSE
