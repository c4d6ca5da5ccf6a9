SPECIFICATION Spec
CONSTANTS
  Getter = {g1}
  Uploader = {u1}
  Idler = {i1}
  MaxRequests = 3
  Chunks = {0, 2}
  None = None
  Stdin = Stdin
INVARIANTS
  TypeOK
  TableInv
  RecvReady
PROPERTIES
  ClosedWhenServed
CHECK_DEADLOCK FALSE
