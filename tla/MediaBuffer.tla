---------------------------- MODULE MediaBuffer -----------------------------
(***************************************************************************)
(* YangMediaBuffer.cpp: the ring of preallocated frames that the capture,  *)
(* encoder and publish threads hand video over by.  putFrame copies the    *)
(* frame into a slot under m_lock and turns it away if the ring is full.   *)
(* getFrameRef hands out a pointer to the slot's payload and gives the     *)
(* slot back at once, so the reader still uses a slot that is free to be   *)
(* written.  Each operation is one critical section of m_lock.             *)
(***************************************************************************)
EXTENDS Naturals, Sequences

CONSTANTS
  Cache,     \* m_cache_num
  NoFrame    \* what a slot holds before its first frame

ASSUME CacheAssumption == Cache \in Nat \ {0}

Slot == 0..Cache - 1

EmptyBuffer == [frames |-> [s \in Slot |-> NoFrame], put |-> 0, get |-> 0, size |-> 0]

\* mutant: the frames are still counted
ResetIndexOnly(b) == [b EXCEPT !.put = 0, !.get = 0]
\* resetIndex leaves the payloads where they are.
ResetIndex(b) == [b EXCEPT !.put = 0, !.get = 0, !.size = 0]

\* mutant: the last slot is left out
FollowingEarly(s) == IF s + 1 >= Cache - 1 THEN 0 ELSE s + 1
Following(s) == IF s + 1 >= Cache THEN 0 ELSE s + 1

\* mutant: the oldest frame makes room
PutFrameOver(b, f) ==
  [b EXCEPT !.frames[b.put] = f, !.put = Following(@), !.size = IF @ < Cache THEN @ + 1 ELSE @]
PutFrame(b, f) ==
  IF b.size >= Cache THEN b
  ELSE [b EXCEPT !.frames[b.put] = f, !.put = Following(@), !.size = @ + 1]

\* The frame getFrameRef hands out, and what it leaves.
GetFrameRef(b) == b.frames[b.get]

Taken(b) == [b EXCEPT !.get = Following(@), !.size = @ - 1]

\* The slot that is i places behind the oldest frame, and the frames that wait.
Place(b, i) == IF b.get + i < Cache THEN b.get + i ELSE b.get + i - Cache
Contents(b) == [i \in 1..b.size |-> b.frames[Place(b, i - 1)]]
=============================================================================
