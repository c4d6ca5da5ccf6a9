CONSTANTS
  Block = {b1, b2}
  MaxConns = 2
  Ends = {6, 8}
  Size = 8
  Total = 9
  Cuts = {9}
  Units = 2
  MaxFile = 1
SPECIFICATION HttpSpec
INVARIANTS
  SearchAnswered
CHECK_DEADLOCK FALSE
