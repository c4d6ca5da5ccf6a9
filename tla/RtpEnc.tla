------------------------------- MODULE RtpEnc -------------------------------
(***************************************************************************)
(* librtsp/rtp_enc.c and the encoding loop of rtsp_tx_video: a frame's NAL *)
(* units are put into RTP packets one after another, whole or in           *)
(* fragments, while the packets reserved for the frame last.  Their number *)
(* is guessed from the frame's length before its units are counted.        *)
(*                                                                         *)
(* A frame is the sequence of its units, each by the offsets of its first  *)
(* byte after the start code and of the byte behind it; a packet is the    *)
(* bytes it carries and its S and E bits.  rtp_enc_h264 and rtp_enc_h265   *)
(* differ in the length of a unit's header, hdr.  A behavior is one call;  *)
(* nothing but the sequence number, left out here, outlives it.            *)
(***************************************************************************)
EXTENDS Integers, Sequences

CONSTANTS
  Frames,   \* frames the encoder may produce
  PktSiz,   \* RTP_MAX_PKTSIZ
  MaxPkts   \* VRTP_MAX_NBPKTS

RtpHdr == 12

\* Units are not empty and a start code takes 3 bytes at least.
Behind(f, n) == IF n = 1 THEN 0 ELSE f[n - 1].end
IsFrame(f) ==
  /\ f \in Seq([start : Nat, end : Nat]) /\ f # <<>>
  /\ \A n \in 1..Len(f) : Behind(f, n) + 3 <= f[n].start /\ f[n].start < f[n].end

ASSUME PacketAssumption == PktSiz \in Nat /\ PktSiz > 16 /\ MaxPkts \in Nat
ASSUME FramesAssumption == \A f \in Frames : IsFrame(f)

VARIABLES
  frame,    \* the frame being sent
  hdr,      \* length of a unit's header: 1 for H.264, 2 for H.265
  nal,      \* the unit being encoded
  pos,      \* offset of the next byte to encode
  first,    \* count == 0 in rtp_enc_h264
  packets,  \* packets filled for the frame
  pc        \* find: the loop of rtsp_tx_video, enc: that of rtp_enc, done

vars == <<frame, hdr, nal, pos, first, packets, pc>>

Init ==
  /\ frame \in Frames /\ hdr \in {1, 2}
  /\ nal = 1 /\ pos = 0 /\ first = TRUE /\ packets = <<>> /\ pc = "find"

Bytes(f) == f[Len(f)].end
\* mutant: one packet fewer beyond the length
GuessLess(f) == (Bytes(f) + PktSiz - 12 - 4 - 1) \div (PktSiz - 12 - 4) + 3
\* "XXX guess request the number of rtp packet for this frame."
Guess(f) == (Bytes(f) + PktSiz - 12 - 4 - 1) \div (PktSiz - 12 - 4) + 4
Reserved == IF Guess(frame) < MaxPkts THEN Guess(frame) ELSE MaxPkts

\* mutant: the end of packets is not seen
MoreUnchecked == pos < frame[nal].end
Left == frame[nal].end - pos
More == pos < frame[nal].end /\ Len(packets) < Reserved
Room == PktSiz - RtpHdr - (hdr + 1)

Packet(from, to, kind) == [nal |-> nal, from |-> from, to |-> to, kind |-> kind]

Find ==
  /\ pc = "find"
  /\ nal <= Len(frame) /\ Len(packets) < Reserved
  /\ pos' = frame[nal].start /\ first' = TRUE /\ pc' = "enc"
  /\ UNCHANGED <<frame, hdr, nal, packets>>

Finish ==
  /\ pc = "find"
  /\ ~(nal <= Len(frame) /\ Len(packets) < Reserved)
  /\ pc' = "done"
  /\ UNCHANGED <<frame, hdr, nal, pos, first, packets>>

Filled(p) ==
  /\ packets' = Append(packets, p)
  /\ pos' = p.to /\ first' = FALSE
  /\ UNCHANGED <<frame, hdr, nal, pc>>

\* mutants: what is left is sent whole; the fragment header is forgotten
SinglyAlways == Left <= PktSiz - RtpHdr
FinalForgetful == ~first /\ Left <= PktSiz - RtpHdr

\* A unit that fits is one packet.
Singly == first /\ Left <= PktSiz - RtpHdr
Final == ~first /\ Left <= Room

Single ==
  /\ pc = "enc" /\ More /\ Singly
  /\ Filled(Packet(pos, frame[nal].end, "single"))

\* The first fragment drops the unit's header, which FU-A repeats.
FragmentStart ==
  /\ pc = "enc" /\ More /\ ~Singly /\ first
  /\ Filled(Packet(pos + hdr, pos + hdr + Room, "start"))

FragmentMiddle ==
  /\ pc = "enc" /\ More /\ ~Singly /\ ~first /\ ~Final
  /\ Filled(Packet(pos, pos + Room, "middle"))

FragmentEnd ==
  /\ pc = "enc" /\ More /\ ~Singly /\ ~first /\ Final
  /\ Filled(Packet(pos, frame[nal].end, "end"))

Return ==
  /\ pc = "enc" /\ ~More
  /\ nal' = nal + 1 /\ pc' = "find"
  /\ UNCHANGED <<frame, hdr, pos, first, packets>>

Next ==
  \/ Find \/ Finish \/ Return
  \/ Single \/ FragmentStart \/ FragmentMiddle \/ FragmentEnd

Spec == Init /\ [][Next]_vars

-----------------------------------------------------------------------------
(* Properties.                                                             *)

PacketType == [nal : Nat, from : Nat, to : Nat, kind : {"single", "start", "middle", "end"}]

\* Types; no more packets are filled than were reserved.
TypeOK ==
  /\ IsFrame(frame) /\ hdr \in {1, 2}
  /\ nal \in 1..Len(frame) + 1 /\ pos \in Nat /\ first \in BOOLEAN
  /\ packets \in Seq(PacketType) /\ Len(packets) <= Reserved
  /\ pc \in {"find", "enc", "done"} /\ (pc = "enc" => nal <= Len(frame))

\* A packet never reads outside its unit nor writes outside its buffer.
Fits ==
  \A i \in 1..Len(packets) :
    LET p == packets[i] IN
    /\ frame[p.nal].start <= p.from /\ p.from < p.to /\ p.to <= frame[p.nal].end
    /\ p.to - p.from <= IF p.kind = "single" THEN PktSiz - RtpHdr ELSE Room

\* A receiver can put together every unit but the last one touched: it came
\* whole, or as a start that follows its header, fragments that join without a
\* gap, and an end; no unit is left without its end before another begins.
Reassembly ==
  \A i \in 1..Len(packets) :
    LET p == packets[i] IN
    /\ p.kind \in {"single", "end"} => p.to = frame[p.nal].end
    /\ p.kind = "single" => p.from = frame[p.nal].start
    /\ p.kind = "start" => p.from = frame[p.nal].start + hdr
    /\ p.kind \in {"single", "start"} =>
         p.nal = 1 \/ (i > 1 /\ packets[i - 1].kind \in {"single", "end"} /\ packets[i - 1].nal = p.nal - 1)
    /\ p.kind \in {"middle", "end"} =>
         /\ i > 1 /\ packets[i - 1].kind \in {"start", "middle"}
         /\ packets[i - 1].nal = p.nal /\ packets[i - 1].to = p.from

Sent(n) == \E i \in 1..Len(packets) : packets[i].nal = n /\ packets[i].to = frame[n].end

\* A frame of SPS, PPS, VPS, SEI and one picture, five units, is sent to its
\* last byte whatever their lengths, unless it takes more packets than there are.
EnoughForFive ==
  pc = "done" /\ Len(frame) <= 5 /\ Guess(frame) <= MaxPkts
    => \A n \in 1..Len(frame) : Sent(n)

\* The packets requested "for this frame" hold the frame, whatever its units.
EnoughForFrame ==
  pc = "done" /\ Guess(frame) <= MaxPkts => \A n \in 1..Len(frame) : Sent(n)
=============================================================================
