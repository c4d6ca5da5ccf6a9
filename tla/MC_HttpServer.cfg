\* The process may crash, hence no deadlock check.
CONSTANTS
  Block = {b1, b2}
  MaxConns = 2
  Ends = {6, 8}
  Size = 8
  Total = 9
  Cuts = {3, 4, 7, 9}
  Units = 2
  MaxFile = 1
SPECIFICATION HttpFairSpec
INVARIANTS
  HttpTypeOK
  OneAnswer
PROPERTIES
  DroppedForMethod
  AnswersComplete
CHECK_DEADLOCK FALSE
