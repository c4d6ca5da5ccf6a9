---------------------------- MODULE StreamQueue -----------------------------
(***************************************************************************)
(* librtsp/stream_queue.c: the arithmetic of the packet ring of one media  *)
(* stream.  The ring has NbPkts slots; the packets in use are those from   *)
(* head up to, not including, tail, so it is empty when head = tail and    *)
(* holds at most NbPkts - 1 packets.                                       *)
(***************************************************************************)
EXTENDS Integers

CONSTANT NbPkts    \* q->nbpkts (VRTP_MAX_NBPKTS + 1 = 401 for video)

ASSUME NbPktsAssumption == NbPkts \in Nat /\ NbPkts >= 2

Slots == 0 .. NbPkts - 1

(* streamq_next                                                            *)
NextIndex(i) == (i + 1) % NbPkts

(* streamq_inused                                                          *)
Inused(head, tail, i) ==
  \/ head <= i /\ i < tail
  \/ head > tail /\ (i >= head \/ i < tail)

(* streamq_push: the new tail; a full ring is left as it is.               *)
Pushed(head, tail) == IF NextIndex(tail) = head THEN tail ELSE NextIndex(tail)

(* streamq_pop: the new head; an empty ring is left as it is.              *)
Popped(head, tail) == IF head = tail THEN head ELSE NextIndex(head)

(* How many steps of streamq_next lead from slot i to slot j.              *)
Distance(i, j) == IF i <= j THEN j - i ELSE j - i + NbPkts
=============================================================================
