\* The camera delivers MaxFrames frames and the process may exit: no deadlock check.
CONSTANTS
  Cache = 2
  MaxFrames = 4
  NoFrame = NoFrame
SPECIFICATION FairSpec
INVARIANTS
  TypeOK
  HeldIntact
  NoLostWakeup
PROPERTIES
  PreviewIsFifo
  SkipsOnlyRestamped
  PreviewMoves
CHECK_DEADLOCK FALSE
