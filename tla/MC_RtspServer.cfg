\* The program may end in a crash, hence no deadlock check.
CONSTANTS
  Conn = {c1, c2, c3}
  Mem = {m1, m2, m3}
  Null = Null
SPECIFICATION Spec
SYMMETRY BlockSymmetry
INVARIANTS
  TypeOK
  PassInv
  ConnectionsAgree
CHECK_DEADLOCK FALSE
