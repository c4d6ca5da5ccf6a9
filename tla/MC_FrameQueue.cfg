\* The program's two threads, with progress.
CONSTANTS
  Producers = {p1}
  Consumers = {c1}
  Frame = {f1, f2, f3}
  NoFrame = NoFrame
  NoThread = NoThread
  Capacity = 3
  MaxSpurious = 2
SPECIFICATION FairSpec
INVARIANTS
  TypeOK
  RingInv
  NoLostWakeup
PROPERTIES
  FifoFairSpec
