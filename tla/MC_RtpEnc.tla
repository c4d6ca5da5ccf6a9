----------------------------- MODULE MC_RtpEnc -----------------------------
(* Frames of up to MaxNals units, of lengths around the limits of a packet  *)
(* and of a fragment, each behind a start code of 3 bytes.                  *)
EXTENDS RtpEnc, SequencesExt
CONSTANTS MaxNals, Lengths
EndOf(l, n) == FoldLeft(LAMBDA x, y : x + y + 3, 0, SubSeq(l, 1, n))
FrameOf(l) == [n \in 1..Len(l) |-> [start |-> EndOf(l, n) - l[n], end |-> EndOf(l, n)]]
MCFrames == {FrameOf(l) : l \in UNION {[1..k -> Lengths] : k \in 1..MaxNals}}
=============================================================================
