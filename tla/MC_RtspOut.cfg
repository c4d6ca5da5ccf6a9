\* The server may always stop trying: MaxUnits bounds it.
CONSTANTS
  HeaderLen = 2
  MsgLens = {1, 3}
  PktLens = {1, 2}
  BufSize = 4
  MaxUnits = 5
SPECIFICATION OutSpec
INVARIANTS
  OutTypeOK
  Framing
CHECK_DEADLOCK FALSE
