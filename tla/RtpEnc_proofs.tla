---------------------------- MODULE RtpEnc_proofs ---------------------------
(***************************************************************************)
(* Proofs about RTP packetisation for every size of a packet and every     *)
(* frame.                                                                  *)
(***************************************************************************)
EXTENDS RtpEnc, SequenceTheorems, TLAPS

(* What a frame's offsets are.                                             *)
LEMMA FrameFacts ==
  ASSUME NEW f, IsFrame(f), NEW n \in 1 .. Len(f)
  PROVE  /\ Len(f) \in Nat /\ f[n].start \in Nat /\ f[n].end \in Nat
         /\ Behind(f, n) \in Nat
         /\ Behind(f, n) < f[n].start /\ f[n].start < f[n].end
         /\ Behind(f, n + 1) = f[n].end
<1>1. Len(f) \in Nat /\ \A m \in 1 .. Len(f) : f[m] \in [start : Nat, end : Nat]
  <2> DEFINE Offsets == [start : Nat, end : Nat]
  <2>1. f \in Seq(Offsets)
    BY DEF IsFrame
  <2> HIDE DEF Offsets
  <2>2. Len(f) \in Nat /\ \A m \in 1 .. Len(f) : f[m] \in Offsets
    BY <2>1
  <2> QED BY <2>2 DEF Offsets
<1>2. Behind(f, n) \in Nat
  BY <1>1 DEF Behind
<1>3. Behind(f, n) + 3 <= f[n].start /\ f[n].start < f[n].end
  BY DEF IsFrame
<1>4. f[n].start \in Nat /\ f[n].end \in Nat
  BY <1>1
<1>5. Behind(f, n + 1) = f[n].end
  BY DEF Behind
<1> QED BY <1>1, <1>2, <1>3, <1>4, <1>5

(* The bytes that one packet of the guess stands for.                      *)
Share == PktSiz - 12 - 4

(* The shares guessed hold the frame; rounding up loses nothing.           *)
LEMMA Shares ==
  ASSUME NEW k \in Nat, k > 0, NEW b \in Nat
  PROVE  (b + k - 1) \div k \in Nat /\ k * ((b + k - 1) \div k) >= b
  OBVIOUS

(* Fewer bytes than g shares hold fewer than g whole shares.               *)
LEMMA FewerShares ==
  ASSUME NEW k \in Nat, k > 0, NEW a \in Int, NEW g \in Int, k * a < k * g
  PROVE  a < g
<1>1. SUFFICES ASSUME g <= a PROVE FALSE
  OBVIOUS
<1>2. PICK d \in Nat : a = g + d
  BY <1>1
<1>3. k * a = k * g + k * d
  BY <1>2
<1>4. k * d \in Nat
  OBVIOUS
<1> QED BY <1>3, <1>4

(* One packet more is one share more.                                      *)
LEMMA OneShareMore ==
  ASSUME NEW k \in Nat, NEW a \in Int
  PROVE  k * (a + 1) = k * a + k
  OBVIOUS

LEMMA ReservedIsNat ==
  ASSUME NEW f, IsFrame(f)
  PROVE  Bytes(f) \in Nat /\ Guess(f) \in Nat
         /\ Share * (Guess(f) - 4) >= Bytes(f)
<1>1. Len(f) \in 1 .. Len(f)
  BY EmptySeq DEF IsFrame
<1>2. Bytes(f) \in Nat
  BY <1>1, FrameFacts DEF Bytes
<1>3. Share \in Nat /\ Share > 0
  BY PacketAssumption DEF Share
<1> DEFINE g == (Bytes(f) + Share - 1) \div Share
<1>4. g \in Nat /\ Share * g >= Bytes(f)
  BY <1>2, <1>3, Shares
<1>5. Bytes(f) + PktSiz - 12 - 4 - 1 = Bytes(f) + Share - 1
  BY <1>2, PacketAssumption DEF Share
<1>6. Guess(f) = g + 4
  BY <1>5 DEF Guess, Share
<1> HIDE DEF g
<1>7. Guess(f) - 4 = g
  BY <1>4, <1>6
<1> QED BY <1>2, <1>4, <1>6, <1>7

-----------------------------------------------------------------------------
(* Types.                                                                  *)

LEMMA RoomIsNat == TypeOK => Room \in Nat /\ Room + hdr = PktSiz - 13 /\ Share <= Room + 1
  BY PacketAssumption DEF TypeOK, Room, RtpHdr, Share

LEMMA ReservedType == TypeOK => Reserved \in Nat
<1> SUFFICES ASSUME TypeOK PROVE Reserved \in Nat
  OBVIOUS
<1>1. Guess(frame) \in Nat
  BY ReservedIsNat DEF TypeOK
<1> QED BY <1>1, PacketAssumption DEF Reserved

LEMMA InitType == Init => TypeOK
<1> SUFFICES ASSUME Init PROVE TypeOK
  OBVIOUS
<1>1. IsFrame(frame)
  BY FramesAssumption DEF Init
<1>2. Len(frame) \in Nat /\ frame # <<>>
  BY <1>1 DEF IsFrame
<1>3. Guess(frame) \in Nat
  BY <1>1, ReservedIsNat
<1>4. Reserved \in Nat
  BY <1>3, PacketAssumption DEF Reserved
<1>5. packets \in Seq(PacketType) /\ Len(packets) = 0
  BY DEF Init
<1> QED BY <1>1, <1>2, <1>4, <1>5 DEF Init, TypeOK

(* A packet filled keeps the types: what Single and the fragments share.   *)
LEMMA FilledType ==
  ASSUME TypeOK, pc = "enc", More,
         NEW p \in PacketType, Filled(p)
  PROVE  TypeOK'
<1>1. Reserved' = Reserved /\ Reserved \in Nat
  BY ReservedType DEF Filled, Reserved
<1>2. packets \in Seq(PacketType) /\ packets' = Append(packets, p)
  BY DEF TypeOK, Filled
<1>3. packets' \in Seq(PacketType) /\ Len(packets') = Len(packets) + 1
  BY <1>2
<1>4. Len(packets') <= Reserved
  BY <1>1, <1>2, <1>3 DEF More
<1>5. pos' \in Nat /\ first' = FALSE /\ UNCHANGED <<frame, hdr, nal, pc>>
  BY DEF Filled, PacketType
<1> QED BY <1>1, <1>3, <1>4, <1>5 DEF TypeOK
(* Inside rtp_enc the unit exists and its offsets are numbers.             *)
LEMMA UnitFacts ==
  ASSUME TypeOK, nal <= Len(frame)
  PROVE  /\ nal \in 1 .. Len(frame)
         /\ frame[nal].start \in Nat /\ frame[nal].end \in Nat
         /\ Behind(frame, nal) \in Nat
         /\ Behind(frame, nal) < frame[nal].start
         /\ frame[nal].start < frame[nal].end
         /\ Behind(frame, nal + 1) = frame[nal].end
<1>1. Len(frame) \in Nat /\ IsFrame(frame)
  BY DEF TypeOK, IsFrame
<1>2. nal \in 1 .. Len(frame)
  BY <1>1 DEF TypeOK
<1> QED BY <1>1, <1>2, FrameFacts

LEMMA TypeStep == TypeOK /\ [Next]_vars => TypeOK'
<1> SUFFICES ASSUME TypeOK, [Next]_vars PROVE TypeOK'
  OBVIOUS
<1>1. CASE Find
  <2>1. frame[nal].start \in Nat
    BY <1>1, UnitFacts DEF Find
  <2> QED BY <1>1, <2>1 DEF Find, TypeOK, Reserved
<1>2. CASE Finish
  BY <1>2 DEF Finish, TypeOK, Reserved
<1>3. CASE Return
  <2>1. nal \in 1 .. Len(frame) /\ Len(frame) \in Nat
    BY <1>3, UnitFacts DEF Return, TypeOK, IsFrame
  <2>2. nal + 1 \in 1 .. Len(frame) + 1
    BY <2>1
  <2> QED BY <1>3, <2>2 DEF Return, TypeOK, Reserved
<1>4. CASE Single
  <2>1. Packet(pos, frame[nal].end, "single") \in PacketType
    BY <1>4, UnitFacts DEF Single, TypeOK, Packet, PacketType
  <2> QED BY <1>4, <2>1, FilledType DEF Single
<1>5. CASE FragmentStart
  <2>1. Packet(pos + hdr, pos + hdr + Room, "start") \in PacketType
    BY <1>5, UnitFacts, RoomIsNat DEF FragmentStart, TypeOK, Packet, PacketType
  <2> QED BY <1>5, <2>1, FilledType DEF FragmentStart
<1>6. CASE FragmentMiddle
  <2>1. Packet(pos, pos + Room, "middle") \in PacketType
    BY <1>6, UnitFacts, RoomIsNat DEF FragmentMiddle, TypeOK, Packet, PacketType
  <2> QED BY <1>6, <2>1, FilledType DEF FragmentMiddle
<1>7. CASE FragmentEnd
  <2>1. Packet(pos, frame[nal].end, "end") \in PacketType
    BY <1>7, UnitFacts DEF FragmentEnd, TypeOK, Packet, PacketType
  <2> QED BY <1>7, <2>1, FilledType DEF FragmentEnd
<1>8. CASE UNCHANGED vars
  BY <1>8 DEF vars, TypeOK, Reserved
<1> QED BY <1>1, <1>2, <1>3, <1>4, <1>5, <1>6, <1>7, <1>8 DEF Next

(* The variables keep their types, and rtsp_tx_video fills no more packets *)
(* than it has reserved.                                                   *)
THEOREM TypeCorrect == Spec => []TypeOK
  BY InitType, TypeStep, PTL DEF Spec

-----------------------------------------------------------------------------
(* How units are cut.                                                      *)

Complete(p) == p.kind \in {"single", "end"}
LastPacket == packets[Len(packets)]

(* Between units, while packets last, the last packet completes the unit   *)
(* before; inside one, it ends where the encoder stands.                   *)
Stands ==
  /\ (pc = "find" /\ Len(packets) < Reserved) \/ (pc = "enc" /\ first)
       => nal = 1 \/ (Len(packets) > 0 /\ Complete(LastPacket) /\ LastPacket.nal = nal - 1)
  /\ pc = "enc" => frame[nal].start <= pos /\ pos <= frame[nal].end
  /\ pc = "enc" /\ first => pos = frame[nal].start
  /\ pc = "enc" /\ ~first =>
       /\ Len(packets) > 0 /\ LastPacket.nal = nal /\ LastPacket.to = pos
       /\ Complete(LastPacket) <=> pos = frame[nal].end
UnitsExist == \A i \in 1 .. Len(packets) : packets[i].nal \in 1 .. Len(frame)

CutInv == TypeOK /\ Stands /\ UnitsExist /\ Fits /\ Reassembly

LEMMA InitCut == Init => CutInv
<1> SUFFICES ASSUME Init PROVE CutInv
  OBVIOUS
<1>1. Len(packets) = 0 /\ nal = 1 /\ pc = "find"
  BY DEF Init
<1>2. 1 .. Len(packets) = {}
  BY <1>1
<1>3. Stands
  BY <1>1 DEF Stands
<1> QED BY <1>2, <1>3, InitType DEF CutInv, UnitsExist, Fits, Reassembly
(* What filling a packet does to the packets.                              *)
LEMMA FilledPackets ==
  ASSUME TypeOK, NEW p \in PacketType, Filled(p)
  PROVE  /\ Len(packets) \in Nat /\ Len(packets') = Len(packets) + 1
         /\ packets'[Len(packets) + 1] = p
         /\ \A i \in 1 .. Len(packets) : packets'[i] = packets[i] /\ packets[i] \in PacketType
         /\ \A i \in 1 .. Len(packets') : i \in 1 .. Len(packets) \/ i = Len(packets) + 1
<1>1. packets \in Seq(PacketType) /\ packets' = Append(packets, p)
  BY DEF TypeOK, Filled
<1> HIDE DEF PacketType
<1> QED BY <1>1

(* A packet cut from the unit at the encoder's place, as Single and the    *)
(* fragments cut it, keeps the invariant.                                  *)
LEMMA FilledCut ==
  ASSUME CutInv, pc = "enc", More,
         NEW p \in PacketType, Filled(p), TypeOK',
         p.nal = nal,
         frame[nal].start <= p.from, p.from < p.to, p.to <= frame[nal].end,
         p.to - p.from <= IF p.kind = "single" THEN PktSiz - RtpHdr ELSE Room,
         Complete(p) <=> p.to = frame[nal].end,
         p.kind = "single" => p.from = frame[nal].start,
         p.kind = "start" => p.from = frame[nal].start + hdr,
         p.kind \in {"single", "start"} => first,
         p.kind \in {"middle", "end"} => ~first /\ p.from = pos
  PROVE  CutInv'
<1> DEFINE l == Len(packets)
<1>1. /\ l \in Nat /\ Len(packets') = l + 1 /\ packets'[l + 1] = p
      /\ \A i \in 1 .. l : packets'[i] = packets[i] /\ packets[i] \in PacketType
      /\ \A i \in 1 .. Len(packets') : i \in 1 .. l \/ i = l + 1
  BY FilledPackets DEF CutInv
<1>2. /\ UNCHANGED <<frame, hdr, nal, pc>> /\ pos' = p.to /\ first' = FALSE
  BY DEF Filled
<1>3. nal \in 1 .. Len(frame) /\ nal \in Nat
  BY UnitFacts DEF CutInv, TypeOK
<1>4. Room' = Room
  BY <1>2 DEF Room
<1>5. Stands'
  <2>1. LastPacket' = p
    BY <1>1 DEF LastPacket
  <2>2. pc' = "enc" /\ first' = FALSE /\ nal' = nal /\ frame' = frame /\ pos' = p.to
    BY <1>2
  <2>3. pos' \in Nat /\ frame[nal].start <= p.to
    BY UnitFacts DEF CutInv, TypeOK, PacketType
  <2> QED BY <1>1, <2>1, <2>2, <2>3 DEF Stands, Complete
<1>6. UnitsExist'
  BY <1>1, <1>2, <1>3 DEF CutInv, UnitsExist
<1>7. Fits'
  <2> SUFFICES ASSUME NEW i \in 1 .. Len(packets')
               PROVE  LET q == packets'[i] IN
                      /\ frame[q.nal].start <= q.from /\ q.from < q.to /\ q.to <= frame[q.nal].end
                      /\ q.to - q.from <= IF q.kind = "single" THEN PktSiz - RtpHdr ELSE Room
    BY <1>2, <1>4 DEF Fits
  <2>1. CASE i \in 1 .. l
    BY <1>1, <2>1 DEF CutInv, Fits
  <2>2. CASE i = l + 1
    BY <1>1, <2>2
  <2> QED BY <1>1, <2>1, <2>2
<1>8. Reassembly'
  <2> SUFFICES ASSUME NEW i \in 1 .. Len(packets')
               PROVE  LET q == packets'[i] IN
                      /\ q.kind \in {"single", "end"} => q.to = frame[q.nal].end
                      /\ q.kind = "single" => q.from = frame[q.nal].start
                      /\ q.kind = "start" => q.from = frame[q.nal].start + hdr
                      /\ q.kind \in {"single", "start"} =>
                           q.nal = 1 \/ (i > 1 /\ packets'[i - 1].kind \in {"single", "end"}
                                        /\ packets'[i - 1].nal = q.nal - 1)
                      /\ q.kind \in {"middle", "end"} =>
                           /\ i > 1 /\ packets'[i - 1].kind \in {"start", "middle"}
                           /\ packets'[i - 1].nal = q.nal /\ packets'[i - 1].to = q.from
    BY <1>2 DEF Reassembly
  <2>1. CASE i \in 1 .. l
    <3>1. packets'[i] = packets[i]
      BY <1>1, <2>1
    <3>2. i > 1 => packets'[i - 1] = packets[i - 1]
      BY <1>1, <2>1
    <3> QED BY <1>1, <2>1, <3>1, <3>2 DEF CutInv, Reassembly
  <2>2. CASE i = l + 1
    <3>1. packets'[i] = p
      BY <1>1, <2>2
    <3>2. l > 0 => i > 1 /\ packets'[i - 1] = packets[l] /\ packets[l] \in PacketType
      BY <1>1, <2>2
    <3>3. p.kind \in {"single", "start"} =>
            nal = 1 \/ (l > 0 /\ packets[l].kind \in {"single", "end"} /\ packets[l].nal = nal - 1)
      BY DEF CutInv, Stands, LastPacket, Complete
    <3>4. p.kind \in {"middle", "end"} =>
            /\ l > 0 /\ packets[l].nal = nal /\ packets[l].to = pos
            /\ packets[l].kind \in {"single", "end"} <=> pos = frame[nal].end
      BY DEF CutInv, Stands, LastPacket, Complete
    <3>5. pos # frame[nal].end
      BY UnitFacts DEF More, CutInv, TypeOK
    <3>6. p.kind \in {"middle", "end"} => packets[l].kind \in {"start", "middle"}
      BY <3>2, <3>4, <3>5 DEF PacketType
    <3> HIDE DEF l
    <3> QED BY <3>1, <3>2, <3>3, <3>4, <3>6 DEF Complete
  <2> QED BY <1>1, <2>1, <2>2
<1> QED BY <1>5, <1>6, <1>7, <1>8 DEF CutInv

LEMMA CutStep == CutInv /\ [Next]_vars => CutInv'
<1> SUFFICES ASSUME CutInv, [Next]_vars PROVE CutInv'
  OBVIOUS
<1>0. TypeOK'
  BY TypeStep DEF CutInv
<1>1. CASE Find
  <2>1. /\ pc = "find" /\ Len(packets) < Reserved /\ nal <= Len(frame)
        /\ pc' = "enc" /\ first' = TRUE /\ pos' = frame[nal].start
        /\ UNCHANGED <<frame, hdr, nal, packets>>
    BY <1>1 DEF Find
  <2>2. Stands'
    BY <2>1, UnitFacts DEF CutInv, Stands, LastPacket
  <2> QED BY <1>0, <2>1, <2>2 DEF CutInv, UnitsExist, Fits, Reassembly, Room
<1>2. CASE Finish
  <2>1. pc' = "done" /\ UNCHANGED <<frame, hdr, nal, pos, first, packets>>
    BY <1>2 DEF Finish
  <2>2. Stands'
    BY <2>1 DEF Stands
  <2> QED BY <1>0, <2>1, <2>2 DEF CutInv, UnitsExist, Fits, Reassembly, Room
<1>3. CASE Return
  <2>1. /\ pc = "enc" /\ ~More /\ nal' = nal + 1 /\ pc' = "find"
        /\ UNCHANGED <<frame, hdr, pos, first, packets>>
    BY <1>3 DEF Return
  <2>2. Reserved' = Reserved /\ Reserved \in Nat /\ Len(packets) \in Nat
    BY <2>1, ReservedType DEF Reserved, CutInv, TypeOK
  <2>3. Len(packets) < Reserved => pos = frame[nal].end /\ ~first
    BY <2>1, <2>2, UnitFacts DEF More, CutInv, TypeOK, Stands
  <2>4. Stands'
    BY <2>1, <2>2, <2>3, UnitFacts DEF CutInv, TypeOK, Stands, LastPacket
  <2> QED BY <1>0, <2>1, <2>4 DEF CutInv, UnitsExist, Fits, Reassembly, Room
<1>4. CASE Single
  <2> DEFINE p == Packet(pos, frame[nal].end, "single")
  <2>1. pc = "enc" /\ More /\ Filled(p)
    BY <1>4 DEF Single
  <2>2. p.nal = nal /\ p.from = pos /\ p.to = frame[nal].end /\ p.kind = "single"
    BY DEF Packet
  <2>3. first /\ pos = frame[nal].start /\ pos < frame[nal].end /\ frame[nal].end - pos <= PktSiz - RtpHdr
    <3>1. pos \in Nat /\ hdr \in {1, 2} /\ frame[nal].start \in Nat /\ frame[nal].end \in Nat
          /\ frame[nal].start <= pos /\ (first => pos = frame[nal].start)
      BY <2>1, UnitFacts DEF CutInv, TypeOK, Stands
    <3>2. Room \in Nat /\ Room > 0 /\ Room + hdr = PktSiz - 13 /\ PktSiz \in Nat
      BY <3>1, RoomIsNat, PacketAssumption DEF CutInv, Room, RtpHdr
    <3> QED BY <1>4, <2>1, <3>1, <3>2 DEF Single, Singly, Left, More
  <2>4. frame[nal].start \in Nat /\ frame[nal].end \in Nat /\ pos \in Nat /\ hdr \in Nat /\ nal \in Nat
    BY <2>1, UnitFacts DEF CutInv, TypeOK
  <2>5. p \in PacketType
    BY <2>3, <2>4 DEF Packet, PacketType
  <2> HIDE DEF p
  <2>6. /\ frame[nal].start <= p.from /\ p.from < p.to /\ p.to <= frame[nal].end
        /\ p.to - p.from <= IF p.kind = "single" THEN PktSiz - RtpHdr ELSE Room
        /\ Complete(p) <=> p.to = frame[nal].end
    BY <2>2, <2>3, <2>4 DEF Complete
  <2> QED BY <1>0, <2>1, <2>2, <2>3, <2>5, <2>6, FilledCut
<1>5. CASE FragmentStart
  <2> DEFINE p == Packet(pos + hdr, pos + hdr + Room, "start")
  <2>1. pc = "enc" /\ More /\ Filled(p)
    BY <1>5 DEF FragmentStart
  <2>2. p.nal = nal /\ p.from = pos + hdr /\ p.to = pos + hdr + Room /\ p.kind = "start"
    BY DEF Packet
  <2>3. first /\ pos = frame[nal].start /\ Room \in Nat /\ Room > 0 /\ pos + hdr + Room < frame[nal].end
    <3>1. pos \in Nat /\ hdr \in {1, 2} /\ frame[nal].start \in Nat /\ frame[nal].end \in Nat
          /\ frame[nal].start <= pos /\ (first => pos = frame[nal].start)
      BY <2>1, UnitFacts DEF CutInv, TypeOK, Stands
    <3>2. Room \in Nat /\ Room > 0 /\ Room + hdr = PktSiz - 13 /\ PktSiz \in Nat
      BY <3>1, RoomIsNat, PacketAssumption DEF CutInv, Room, RtpHdr
    <3> QED BY <1>5, <2>1, <3>1, <3>2 DEF FragmentStart, Singly, Left, RtpHdr
  <2>4. frame[nal].start \in Nat /\ frame[nal].end \in Nat /\ pos \in Nat /\ hdr \in Nat /\ nal \in Nat
    BY <2>1, UnitFacts DEF CutInv, TypeOK
  <2>5. p \in PacketType
    BY <2>3, <2>4 DEF Packet, PacketType
  <2> HIDE DEF p
  <2>6. /\ frame[nal].start <= p.from /\ p.from < p.to /\ p.to <= frame[nal].end
        /\ p.to - p.from <= IF p.kind = "single" THEN PktSiz - RtpHdr ELSE Room
        /\ Complete(p) <=> p.to = frame[nal].end
    BY <2>2, <2>3, <2>4 DEF Complete
  <2> QED BY <1>0, <2>1, <2>2, <2>3, <2>5, <2>6, FilledCut
<1>6. CASE FragmentMiddle
  <2> DEFINE p == Packet(pos, pos + Room, "middle")
  <2>1. pc = "enc" /\ More /\ Filled(p)
    BY <1>6 DEF FragmentMiddle
  <2>2. p.nal = nal /\ p.from = pos /\ p.to = pos + Room /\ p.kind = "middle"
    BY DEF Packet
  <2>3. ~first /\ frame[nal].start <= pos /\ Room \in Nat /\ Room > 0 /\ pos + Room < frame[nal].end
    <3>1. pos \in Nat /\ hdr \in {1, 2} /\ frame[nal].start \in Nat /\ frame[nal].end \in Nat
          /\ frame[nal].start <= pos /\ (first => pos = frame[nal].start)
      BY <2>1, UnitFacts DEF CutInv, TypeOK, Stands
    <3>2. Room \in Nat /\ Room > 0 /\ Room + hdr = PktSiz - 13 /\ PktSiz \in Nat
      BY <3>1, RoomIsNat, PacketAssumption DEF CutInv, Room, RtpHdr
    <3> QED BY <1>6, <2>1, <3>1, <3>2 DEF FragmentMiddle, Final, Left
  <2>4. frame[nal].start \in Nat /\ frame[nal].end \in Nat /\ pos \in Nat /\ hdr \in Nat /\ nal \in Nat
    BY <2>1, UnitFacts DEF CutInv, TypeOK
  <2>5. p \in PacketType
    BY <2>3, <2>4 DEF Packet, PacketType
  <2> HIDE DEF p
  <2>6. /\ frame[nal].start <= p.from /\ p.from < p.to /\ p.to <= frame[nal].end
        /\ p.to - p.from <= IF p.kind = "single" THEN PktSiz - RtpHdr ELSE Room
        /\ Complete(p) <=> p.to = frame[nal].end
    BY <2>2, <2>3, <2>4 DEF Complete
  <2> QED BY <1>0, <2>1, <2>2, <2>3, <2>5, <2>6, FilledCut
<1>7. CASE FragmentEnd
  <2> DEFINE p == Packet(pos, frame[nal].end, "end")
  <2>1. pc = "enc" /\ More /\ Filled(p)
    BY <1>7 DEF FragmentEnd
  <2>2. p.nal = nal /\ p.from = pos /\ p.to = frame[nal].end /\ p.kind = "end"
    BY DEF Packet
  <2>3. ~first /\ frame[nal].start <= pos /\ pos < frame[nal].end /\ frame[nal].end - pos <= Room
    <3>1. pos \in Nat /\ hdr \in {1, 2} /\ frame[nal].start \in Nat /\ frame[nal].end \in Nat
          /\ frame[nal].start <= pos /\ (first => pos = frame[nal].start)
      BY <2>1, UnitFacts DEF CutInv, TypeOK, Stands
    <3>2. Room \in Nat /\ Room > 0 /\ Room + hdr = PktSiz - 13 /\ PktSiz \in Nat
      BY <3>1, RoomIsNat, PacketAssumption DEF CutInv, Room, RtpHdr
    <3> QED BY <1>7, <2>1, <3>1, <3>2 DEF FragmentEnd, Final, Left, More
  <2>4. frame[nal].start \in Nat /\ frame[nal].end \in Nat /\ pos \in Nat /\ hdr \in Nat /\ nal \in Nat
    BY <2>1, UnitFacts DEF CutInv, TypeOK
  <2>5. p \in PacketType
    BY <2>3, <2>4 DEF Packet, PacketType
  <2> HIDE DEF p
  <2>6. /\ frame[nal].start <= p.from /\ p.from < p.to /\ p.to <= frame[nal].end
        /\ p.to - p.from <= IF p.kind = "single" THEN PktSiz - RtpHdr ELSE Room
        /\ Complete(p) <=> p.to = frame[nal].end
    BY <2>2, <2>3, <2>4 DEF Complete
  <2> QED BY <1>0, <2>1, <2>2, <2>3, <2>5, <2>6, FilledCut
<1>8. CASE UNCHANGED vars
  BY <1>0, <1>8 DEF vars, CutInv, Stands, UnitsExist, Fits, Reassembly, Room, LastPacket, Reserved
<1> QED BY <1>1, <1>2, <1>3, <1>4, <1>5, <1>6, <1>7, <1>8 DEF Next

LEMMA CutAlways == Spec => []CutInv
  BY InitCut, CutStep, PTL DEF Spec

(* No packet reads outside its unit or overflows its buffer.               *)
THEOREM FitsCorrect == Spec => []Fits
<1>1. CutInv => Fits
  BY DEF CutInv
<1> QED BY <1>1, CutAlways, PTL

(* Every unit but the last one touched can be put together from its        *)
(* packets.                                                                *)
THEOREM ReassemblyCorrect == Spec => []Reassembly
<1>1. CutInv => Reassembly
  BY DEF CutInv
<1> QED BY <1>1, CutAlways, PTL
-----------------------------------------------------------------------------
(* The guess is enough for five units.                                     *)

Roomy == Len(frame) <= 5 /\ Guess(frame) <= MaxPkts

(* Every packet but one for each unit begun carries a full share, so the   *)
(* shares filled never pass the encoder's place in the frame.  The guess   *)
(* has four packets to spare, one for each unit before the fifth.          *)
Count ==
  /\ \A n \in 1 .. nal - 1 : Sent(n)
  /\ pc = "find" => Share * (Len(packets) - (nal - 1)) <= Behind(frame, nal)
  /\ pc = "enc" /\ pos < frame[nal].end => Share * (Len(packets) - (nal - 1)) <= pos
  /\ pc = "enc" /\ pos = frame[nal].end => Share * (Len(packets) - nal) <= pos
  /\ pc = "done" => nal = Len(frame) + 1

CountInv == Roomy => Count

(* A place in one of five units lies before the frame's end.               *)
LEMMA BeforeTheEnd ==
  ASSUME NEW f, IsFrame(f), Len(f) <= 5, NEW n \in 1 .. Len(f)
  PROVE  f[n].end <= Bytes(f)
<1>1. Len(f) \in Nat
  BY FrameFacts
<1>2. \A m \in 1 .. Len(f) : f[m].end \in Nat
  BY FrameFacts
<1>3. \A m \in 1 .. Len(f) : m + 1 \in 1 .. Len(f) => f[m].end <= f[m + 1].end
  <2> SUFFICES ASSUME NEW m \in 1 .. Len(f), m + 1 \in 1 .. Len(f)
               PROVE  f[m].end <= f[m + 1].end
    OBVIOUS
  <2>1. f[m + 1].start \in Nat /\ Behind(f, m + 1) < f[m + 1].start /\ f[m + 1].start < f[m + 1].end
    BY FrameFacts
  <2>2. Behind(f, m + 1) = f[m].end
    BY FrameFacts
  <2> QED BY <1>2, <2>1, <2>2
<1>4. \A k \in Nat : \A m \in 1 .. k : k <= 5 => k \in {1, 2, 3, 4, 5} /\ m \in {1, 2, 3, 4, 5} /\ m <= k
  OBVIOUS
<1>5. Len(f) \in {1, 2, 3, 4, 5} /\ n \in {1, 2, 3, 4, 5} /\ n <= Len(f)
  BY <1>1, <1>4
<1>6. /\ Len(f) >= 2 => f[1].end <= f[2].end
      /\ Len(f) >= 3 => f[2].end <= f[3].end
      /\ Len(f) >= 4 => f[3].end <= f[4].end
      /\ Len(f) >= 5 => f[4].end <= f[5].end
  BY <1>3, <1>5
<1>7. Bytes(f) = f[Len(f)].end /\ \A m \in {1, 2, 3, 4, 5} : m <= Len(f) => f[m].end \in Nat
  BY <1>1, <1>2 DEF Bytes
<1>8. CASE Len(f) = 1
  BY <1>5, <1>7, <1>8
<1>12. CASE Len(f) = 2
  BY <1>5, <1>6, <1>7, <1>12
<1>9. CASE Len(f) = 3
  BY <1>5, <1>6, <1>7, <1>9
<1>10. CASE Len(f) = 4
  BY <1>5, <1>6, <1>7, <1>10
<1>11. CASE Len(f) = 5
  BY <1>5, <1>6, <1>7, <1>11
<1> QED BY <1>5, <1>8, <1>9, <1>10, <1>11, <1>12

(* Before the end of a frame of five units, packets last.                  *)
LEMMA PacketsLast ==
  ASSUME TypeOK, Roomy, nal <= Len(frame),
         NEW place \in Nat, place < frame[nal].end,
         Share * (Len(packets) - (nal - 1)) <= place
  PROVE  Len(packets) < Reserved
<1>1. /\ Share \in Nat /\ Share > 0 /\ Len(packets) \in Nat
      /\ nal \in 1 .. Len(frame) /\ nal \in Nat /\ nal <= 5 /\ frame[nal].end \in Nat
  BY PacketAssumption, UnitFacts DEF TypeOK, Share, Roomy, IsFrame
<1>2. Bytes(frame) \in Nat /\ Guess(frame) \in Nat /\ Share * (Guess(frame) - 4) >= Bytes(frame)
  BY ReservedIsNat DEF TypeOK
<1>3. frame[nal].end <= Bytes(frame)
  BY <1>1, BeforeTheEnd DEF TypeOK, Roomy
<1> DEFINE a == Len(packets) - (nal - 1)
           g == Guess(frame) - 4
<1>4. a \in Int /\ g \in Int
  BY <1>1, <1>2
<1>5. Share * a \in Int /\ Share * g \in Int
  BY <1>1, <1>4
<1>6. Share * a < Share * g
  BY <1>1, <1>2, <1>3, <1>5
<1> HIDE DEF a, g
<1>7. a < g
  BY <1>1, <1>4, <1>6, FewerShares
<1>8. Len(packets) - (nal - 1) < Guess(frame) - 4
  BY <1>7 DEF a, g
<1>9. Reserved = Guess(frame)
  BY <1>2, PacketAssumption DEF Reserved, Roomy
<1> QED BY <1>1, <1>2, <1>8, <1>9

LEMMA InitCount == Init => CountInv
<1> SUFFICES ASSUME Init PROVE Count
  BY DEF CountInv
<1>1. Len(packets) = 0 /\ nal = 1 /\ pc = "find" /\ Behind(frame, 1) = 0 /\ 1 .. nal - 1 = {}
  BY DEF Init, Behind
<1>2. Share \in Nat /\ Share * 0 = 0
  BY PacketAssumption DEF Share
<1> QED BY <1>1, <1>2 DEF Count

(* Packets are only added, so a unit sent stays sent.                      *)
LEMMA SentStays ==
  ASSUME TypeOK, NEW p \in PacketType, Filled(p), NEW n, Sent(n)
  PROVE  Sent(n)'
<1>1. PICK i \in 1 .. Len(packets) : packets[i].nal = n /\ packets[i].to = frame[n].end
  BY DEF Sent
<1>2. i \in 1 .. Len(packets') /\ packets'[i] = packets[i] /\ frame' = frame
  BY <1>1, FilledPackets DEF Filled
<1> QED BY <1>1, <1>2 DEF Sent

(* A packet that carries a share, or ends its unit, keeps the count.       *)
LEMMA FilledCount ==
  ASSUME TypeOK, Count, pc = "enc", More, NEW p \in PacketType, Filled(p),
         p.to = frame[nal].end \/ (p.to < frame[nal].end /\ pos + Share <= p.to),
         pos <= p.to
  PROVE  Count'
<1>1. /\ UNCHANGED <<frame, hdr, nal, pc>> /\ pos' = p.to
      /\ Len(packets) \in Nat /\ Len(packets') = Len(packets) + 1
      /\ Share \in Nat /\ nal \in Nat /\ pos \in Nat /\ p.to \in Nat /\ frame[nal].end \in Nat
  <2>1. UNCHANGED <<frame, hdr, nal, pc>> /\ pos' = p.to
    BY DEF Filled
  <2>2. Len(packets) \in Nat /\ Len(packets') = Len(packets) + 1
    BY FilledPackets
  <2>3. Share \in Nat
    BY PacketAssumption DEF Share
  <2>4. nal \in 1 .. Len(frame) /\ frame[nal].end \in Nat /\ pos \in Nat
    BY UnitFacts DEF TypeOK
  <2>5. p.to \in Nat
    BY DEF PacketType
  <2> QED BY <2>1, <2>2, <2>3, <2>4, <2>5
<1>2. \A n \in 1 .. nal' - 1 : Sent(n)'
  BY <1>1, SentStays DEF Count
<1> DEFINE a == Len(packets) - (nal - 1)
<1>3. a \in Int /\ Share * a \in Int /\ Share * a <= pos
  BY <1>1 DEF Count, More
<1>4. Len(packets') - (nal' - 1) = a + 1 /\ Len(packets') - nal' = a
  BY <1>1
<1>5. Share * (a + 1) = Share * a + Share
  BY <1>1, <1>3, OneShareMore
<1>6. pos' < frame'[nal'].end => Share * (Len(packets') - (nal' - 1)) <= pos'
  <2>1. pos' < frame'[nal'].end => pos + Share <= pos'
    BY <1>1
  <2>2. Share * (Len(packets') - (nal' - 1)) = Share * a + Share
    BY <1>4, <1>5
  <2> HIDE DEF a
  <2> QED BY <1>1, <1>3, <2>1, <2>2
<1>7. pos' = frame'[nal'].end => Share * (Len(packets') - nal') <= pos'
  <2> HIDE DEF a
  <2> QED BY <1>1, <1>3, <1>4
<1> QED BY <1>1, <1>2, <1>6, <1>7 DEF Count, Share
LEMMA CountStep == CutInv /\ CountInv /\ [Next]_vars => CountInv'
<1> SUFFICES ASSUME CutInv, CountInv, [Next]_vars, Roomy' PROVE Count'
  BY DEF CountInv
<1>0. frame' = frame
  BY DEF Next, vars, Find, Finish, Return, Single, FragmentStart, FragmentMiddle, FragmentEnd, Filled
<1>a. TypeOK /\ Stands /\ Roomy /\ Count
  BY <1>0 DEF CutInv, CountInv, Roomy
<1>b. Share \in Nat /\ Share > 0 /\ Len(packets) \in Nat /\ nal \in Nat /\ Len(frame) \in Nat
      /\ nal <= Len(frame) + 1
  BY <1>a, PacketAssumption DEF Share, TypeOK, IsFrame
<1>1. CASE Find
  <2>1. /\ pc = "find" /\ nal <= Len(frame)
        /\ pc' = "enc" /\ pos' = frame[nal].start /\ UNCHANGED <<frame, hdr, nal, packets>>
    BY <1>1 DEF Find
  <2>2. /\ Behind(frame, nal) < frame[nal].start /\ frame[nal].start < frame[nal].end
        /\ Behind(frame, nal) \in Nat /\ frame[nal].start \in Nat /\ frame[nal].end \in Nat
    BY <1>a, <2>1, UnitFacts
  <2>3. Share * (Len(packets) - (nal - 1)) <= Behind(frame, nal)
    BY <1>a, <2>1 DEF Count
  <2>4. Share * (Len(packets) - (nal - 1)) \in Int
    BY <1>b
  <2>5. Share * (Len(packets) - (nal - 1)) <= frame[nal].start
    BY <2>2, <2>3, <2>4
  <2>6. \A n \in 1 .. nal' - 1 : Sent(n)'
    BY <1>a, <2>1 DEF Count, Sent
  <2> QED BY <2>1, <2>2, <2>5, <2>6 DEF Count, Share
<1>2. CASE Finish
  <2>1. /\ pc = "find" /\ ~(nal <= Len(frame) /\ Len(packets) < Reserved)
        /\ pc' = "done" /\ UNCHANGED <<frame, hdr, nal, pos, first, packets>>
    BY <1>2 DEF Finish
  <2>2. ASSUME nal <= Len(frame) PROVE FALSE
    <3>1. Behind(frame, nal) \in Nat /\ Behind(frame, nal) < frame[nal].end
      BY <1>a, <2>2, UnitFacts
    <3>2. Share * (Len(packets) - (nal - 1)) <= Behind(frame, nal)
      BY <1>a, <2>1 DEF Count
    <3> QED BY <1>a, <2>1, <2>2, <3>1, <3>2, PacketsLast
  <2>3. nal = Len(frame) + 1
    BY <1>b, <2>2
  <2>4. \A n \in 1 .. nal' - 1 : Sent(n)'
    BY <1>a, <2>1 DEF Count, Sent
  <2> QED BY <2>1, <2>3, <2>4 DEF Count
<1>3. CASE Return
  <2>1. /\ pc = "enc" /\ ~More /\ nal' = nal + 1 /\ pc' = "find"
        /\ UNCHANGED <<frame, hdr, pos, first, packets>>
    BY <1>3 DEF Return
  <2>2. /\ nal <= Len(frame) /\ nal \in 1 .. Len(frame)
        /\ frame[nal].start \in Nat /\ frame[nal].end \in Nat
        /\ frame[nal].start < frame[nal].end /\ pos \in Nat
        /\ Behind(frame, nal + 1) = frame[nal].end
    BY <1>a, <2>1, UnitFacts DEF TypeOK
  <2>3. pos <= frame[nal].end /\ (first => pos = frame[nal].start)
    BY <1>a, <2>1 DEF Stands
  <2>4. ASSUME pos < frame[nal].end PROVE FALSE
    <3>1. Share * (Len(packets) - (nal - 1)) <= pos
      BY <1>a, <2>1, <2>4 DEF Count
    <3> QED BY <1>a, <2>1, <2>2, <2>4, <3>1, PacketsLast DEF More
  <2>5. pos = frame[nal].end /\ ~first
    BY <2>2, <2>3, <2>4
  <2>6. Sent(nal)
    BY <1>a, <1>b, <2>1, <2>5 DEF Stands, LastPacket, Sent
  <2>7. \A n \in 1 .. nal' - 1 : Sent(n)'
    <3>1. \A n \in 1 .. nal' - 1 : n \in 1 .. nal - 1 \/ n = nal
      BY <1>b, <2>1
    <3>2. \A n \in 1 .. nal - 1 : Sent(n)
      BY <1>a DEF Count
    <3> QED BY <2>1, <2>6, <3>1, <3>2 DEF Sent
  <2>8. Share * (Len(packets) - nal) <= Behind(frame, nal + 1)
    BY <1>a, <2>1, <2>2, <2>5 DEF Count
  <2>9. Len(packets) - (nal' - 1) = Len(packets) - nal
    BY <1>b, <2>1
  <2>10. (pc = "find" => Share * (Len(packets) - (nal - 1)) <= Behind(frame, nal))'
    BY <2>1, <2>8, <2>9 DEF Share, Behind
  <2> QED BY <2>1, <2>7, <2>10 DEF Count
<1>4. ASSUME NEW p \in PacketType, pc = "enc", More, Filled(p),
             p.to = frame[nal].end \/ (p.to < frame[nal].end /\ pos + Share <= p.to), pos <= p.to
      PROVE  Count'
  BY <1>a, <1>4, FilledCount
<1>5. pc = "enc" => /\ pos \in Nat /\ hdr \in Nat /\ nal \in Nat
                    /\ frame[nal].start \in Nat /\ frame[nal].end \in Nat
                    /\ pos <= frame[nal].end /\ (first => pos = frame[nal].start)
                    /\ Room \in Nat /\ Room + hdr = PktSiz - 13 /\ Share <= Room + 1
                    /\ Share <= Room /\ PktSiz \in Nat
  BY <1>a, UnitFacts, RoomIsNat, PacketAssumption DEF TypeOK, Stands, Room, Share, RtpHdr
<1>6. CASE Single
  <2> DEFINE p == Packet(pos, frame[nal].end, "single")
  <2>1. p \in PacketType /\ p.to = frame[nal].end
    BY <1>5, <1>6 DEF Single, Packet, PacketType
  <2> QED BY <1>4, <1>5, <1>6, <2>1 DEF Single
<1>7. CASE FragmentStart
  <2> DEFINE p == Packet(pos + hdr, pos + hdr + Room, "start")
  <2>1. p \in PacketType /\ p.to = pos + hdr + Room
    BY <1>5, <1>7 DEF FragmentStart, Packet, PacketType
  <2>2. frame[nal].end - pos > PktSiz - 12
    BY <1>5, <1>7 DEF FragmentStart, Singly, Left, RtpHdr
  <2>3. p.to < frame[nal].end /\ pos + Share <= p.to /\ pos <= p.to
    <3> HIDE DEF p
    <3>1. pc = "enc"
      BY <1>7 DEF FragmentStart
    <3>2. p.to = pos + (PktSiz - 13) /\ Share <= PktSiz - 13
      BY <1>b, <1>5, <2>1, <3>1
    <3>3. pos \in Nat /\ PktSiz \in Nat /\ frame[nal].end \in Nat /\ PktSiz > 16
      BY <1>5, <3>1, PacketAssumption
    <3> QED BY <1>b, <2>2, <3>2, <3>3
  <2> QED BY <1>4, <1>7, <2>1, <2>3 DEF FragmentStart
<1>8. CASE FragmentMiddle
  <2> DEFINE p == Packet(pos, pos + Room, "middle")
  <2>1. p \in PacketType /\ p.to = pos + Room
    BY <1>5, <1>8 DEF FragmentMiddle, Packet, PacketType
  <2>2. frame[nal].end - pos > Room
    BY <1>5, <1>8 DEF FragmentMiddle, Final, Left
  <2>3. p.to < frame[nal].end /\ pos + Share <= p.to /\ pos <= p.to
    <3> HIDE DEF p
    <3>1. pc = "enc"
      BY <1>8 DEF FragmentMiddle
    <3>2. /\ pos \in Nat /\ frame[nal].end \in Nat /\ Room \in Nat
          /\ PktSiz \in Nat /\ Share <= Room
      BY <1>5, <3>1
    <3>3. Share \in Int
      BY <3>2 DEF Share
    <3> QED BY <2>1, <2>2, <3>2, <3>3
  <2> QED BY <1>4, <1>8, <2>1, <2>3 DEF FragmentMiddle
<1>9. CASE FragmentEnd
  <2> DEFINE p == Packet(pos, frame[nal].end, "end")
  <2>1. p \in PacketType /\ p.to = frame[nal].end
    BY <1>5, <1>9 DEF FragmentEnd, Packet, PacketType
  <2> QED BY <1>4, <1>5, <1>9, <2>1 DEF FragmentEnd
<1>10. CASE UNCHANGED vars
  BY <1>a, <1>10 DEF vars, Count, Sent, Share, Behind
<1> QED BY <1>1, <1>2, <1>3, <1>6, <1>7, <1>8, <1>9, <1>10 DEF Next

(* The guess of rtsp_tx_video is enough for SPS, PPS, VPS, SEI and one     *)
(* picture: a frame of up to five units is sent to its last byte, whatever *)
(* the packets' size and the units' lengths.                               *)
THEOREM EnoughCorrect == Spec => []EnoughForFive
<1>1. TypeOK /\ CountInv => EnoughForFive
  <2> SUFFICES ASSUME TypeOK, CountInv, pc = "done", Len(frame) <= 5, Guess(frame) <= MaxPkts
               PROVE  \A n \in 1 .. Len(frame) : Sent(n)
    BY DEF EnoughForFive
  <2>1. nal = Len(frame) + 1 /\ \A n \in 1 .. nal - 1 : Sent(n)
    BY DEF CountInv, Roomy, Count
  <2>2. Len(frame) \in Nat
    BY DEF TypeOK, IsFrame
  <2> QED BY <2>1, <2>2
<1> QED BY <1>1, InitCount, CountStep, CutAlways, TypeCorrect, PTL DEF Spec
=============================================================================
