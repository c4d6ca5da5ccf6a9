----------------------------- MODULE LossyFifo ------------------------------
(***************************************************************************)
(* What a YangMediaBuffer promises its writer and its reader: the frames   *)
(* come out in the order they went in, each at most once, and a frame is   *)
(* lost only by being turned away when Capacity frames wait already.       *)
(***************************************************************************)
EXTENDS Naturals, Sequences

CONSTANTS Frame, Capacity

VARIABLE waiting

Init == waiting = <<>>

Put(f) == waiting' = IF Len(waiting) < Capacity THEN Append(waiting, f) ELSE waiting
Get == waiting # <<>> /\ waiting' = Tail(waiting)

Next == Get \/ \E f \in Frame : Put(f)

Spec == Init /\ [][Next]_waiting
=============================================================================
