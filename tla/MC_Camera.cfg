\* The process may be gone, hence no deadlock check.
CONSTANTS
  Frame = {f1}
  NoFrame = NoFrame
  Capacity = 2
  Threshold = 2
SPECIFICATION FairSpec
INVARIANTS
  TypeOK
PROPERTIES
  NoFalseAlarm
  SigintStops
  EndedIsNoticed
  NobodyWaits
CHECK_DEADLOCK FALSE
