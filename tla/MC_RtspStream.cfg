CONSTANTS
  NbPkts = 4
  Conns = {c1, c2}
  NoRtp = NoRtp
  MaxReserve = 3
  MaxPackets = 7
SPECIFICATION Spec
SYMMETRY ConnSymmetry
INVARIANTS
  TypeOK
  RingSound
PROPERTIES
  LogSpec
