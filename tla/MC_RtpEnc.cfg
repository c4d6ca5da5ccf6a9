\* A packet holds 28 bytes, a fragment 26 or 25.
\* The largest frames need more packets than there are.
CONSTANTS
  PktSiz = 40
  MaxPkts = 12
  MaxNals = 5
  Lengths = {1, 26, 28, 29, 54}
  Frames <- MCFrames
SPECIFICATION Spec
INVARIANTS
  TypeOK
  Fits
  Reassembly
  EnoughForFive
CHECK_DEADLOCK FALSE
