-------------------------- MODULE RtspStream_proofs -------------------------
(***************************************************************************)
(* Proofs about the video stream for every length of the packet ring, any  *)
(* set of connections and frames of any size the reservation allows.       *)
(***************************************************************************)
EXTENDS RtspStream, TLAPS

USE NbPktsAssumption DEF Slots

-----------------------------------------------------------------------------
(* The ring's arithmetic.  Everything below needs only these facts.        *)

(* Up to one lap from a slot "%" wraps at most once.                       *)
LEMMA Wrap ==
  ASSUME NEW i \in Slots, NEW k \in 0 .. NbPkts
  PROVE  /\ (i + k) % NbPkts = IF i + k < NbPkts THEN i + k ELSE i + k - NbPkts
         /\ (i + k) % NbPkts \in Slots
  BY SMT

(* streamq_next goes to the slot at distance 1.                            *)
LEMMA NextSlot ==
  ASSUME NEW i \in Slots
  PROVE  /\ NextIndex(i) = IF i + 1 = NbPkts THEN 0 ELSE i + 1
         /\ NextIndex(i) \in Slots
<1>1. (i + 1) % NbPkts = IF i + 1 < NbPkts THEN i + 1 ELSE i + 1 - NbPkts
  BY Wrap
<1> QED BY <1>1 DEF NextIndex

(* Distances are less than a lap, and only a slot itself is at distance 0. *)
LEMMA DistanceRange ==
  ASSUME NEW i \in Slots, NEW j \in Slots
  PROVE  Distance(i, j) \in 0 .. NbPkts - 1 /\ (Distance(i, j) = 0 <=> i = j)
  BY DEF Distance

(* streamq_inused, said with distances: no further from tail than head is. *)
LEMMA InusedIsNear ==
  ASSUME NEW h \in Slots, NEW t \in Slots, NEW i \in Slots
  PROVE  Inused(h, t, i) <=> 0 < Distance(i, t) /\ Distance(i, t) <= Distance(h, t)
  BY DEF Inused, Distance

(* The way there and the way back make a lap.                              *)
LEMMA WayBack ==
  ASSUME NEW i \in Slots, NEW j \in Slots, i # j
  PROVE  Distance(i, j) + Distance(j, i) = NbPkts
  BY DEF Distance

(* A step of the far end, short of a full lap.                             *)
LEMMA FarEndSteps ==
  ASSUME NEW i \in Slots, NEW j \in Slots, Distance(i, j) < NbPkts - 1
  PROVE  Distance(i, NextIndex(j)) = Distance(i, j) + 1
<1>1. NextIndex(j) = IF j + 1 = NbPkts THEN 0 ELSE j + 1
  BY NextSlot
<1> QED BY <1>1 DEF Distance

(* A walk of the near end towards the far one.                             *)
LEMMA NearEndWalks ==
  ASSUME NEW i \in Slots, NEW j \in Slots, NEW k \in 0 .. Distance(i, j)
  PROVE  /\ (i + k) % NbPkts \in Slots
         /\ Distance((i + k) % NbPkts, j) = Distance(i, j) - k
<1>1. k \in 0 .. NbPkts
  BY DistanceRange
<1> DEFINE l == (i + k) % NbPkts
<1>2. l \in Slots /\ l = IF i + k < NbPkts THEN i + k ELSE i + k - NbPkts
  BY <1>1, Wrap
<1> HIDE DEF l
<1>3. Distance(l, j) = Distance(i, j) - k
  BY <1>2 DEF Distance
<1> QED BY <1>2, <1>3 DEF l

(* One step of the near end.                                               *)
LEMMA NearEndSteps ==
  ASSUME NEW i \in Slots, NEW j \in Slots, i # j
  PROVE  NextIndex(i) \in Slots /\ Distance(NextIndex(i), j) = Distance(i, j) - 1
<1>1. 1 \in 0 .. Distance(i, j)
  BY DistanceRange
<1> QED BY <1>1, NearEndWalks DEF NextIndex

(* A slot that is k behind tail is at distance k, and the one after it is  *)
(* head exactly when the packets in use and those k fill the ring.         *)
LEMMA FullWhen ==
  ASSUME NEW h \in Slots, NEW t \in Slots, NEW k \in 0 .. NbPkts - 1,
         Distance(h, t) + k <= NbPkts - 1
  PROVE  NextIndex((t + k) % NbPkts) = h <=> Distance(h, t) + k = NbPkts - 1
<1> DEFINE l == (t + k) % NbPkts
<1>1. l \in Slots /\ l = IF t + k < NbPkts THEN t + k ELSE t + k - NbPkts
  BY Wrap
<1> HIDE DEF l
<1>2. NextIndex(l) = IF l + 1 = NbPkts THEN 0 ELSE l + 1
  BY <1>1, NextSlot
<1>3. NextIndex(l) = h <=> Distance(h, t) + k = NbPkts - 1
  BY <1>1, <1>2 DEF Distance
<1> QED BY <1>3 DEF l

(* A slot is at no distance from itself, and another one is at some.       *)
LEMMA NoDistance ==
  ASSUME NEW i \in Slots, NEW j \in Slots
  PROVE  Distance(i, i) = 0 /\ (Distance(i, j) = 0 => i = j)
  BY DistanceRange

HIDE DEF Slots

-----------------------------------------------------------------------------
(* The inductive invariant.                                                *)

(* What the encoder made lies behind tail until it is pushed.              *)
MadeInv ==
  pc = "push" => \A i \in Slots : Distance(tail, i) < made => num[i] = next + Distance(tail, i)

(* The ring alone, and the ring with its readers.                          *)
RingIInv == TypeOK /\ RingSound /\ MadeInv
IInv == RingIInv /\ Delivery

LEMMA InitIInv == Init => IInv
<1> SUFFICES ASSUME Init PROVE IInv
  OBVIOUS
<1> USE DEF Init, Slots
<1>1. TypeOK
  BY ReserveAssumption DEF TypeOK
<1>2. RingSound /\ MadeInv
  BY DEF RingSound, ReservedAreFree, RingHoldsNewest, MadeInv, Count, InUse, Inused, Distance
<1>3. Delivery
  BY DEF Delivery, Reading
<1> QED BY <1>1, <1>2, <1>3 DEF IInv, RingIInv

(* What the steps of a request leave of the ring.                          *)
LEMMA RingUntouched ==
  ASSUME RingIInv, UNCHANGED <<queue, call>>,
         state' \in [Conns -> {"NONE", "INIT", "READY", "PLAYING"}],
         index' \in [Conns -> Slots \cup {NoRtp}], last' \in [Conns -> Nat]
  PROVE  RingIInv'
  BY DEF RingIInv, TypeOK, RingSound, ReservedAreFree, RingHoldsNewest, MadeInv,
         Count, InUse, queue, call

(* The types of the ring's variables, with the number of packets in use.   *)
LEMMA RingTypes ==
  ASSUME RingIInv
  PROVE  /\ head \in Slots /\ tail \in Slots /\ Count \in 0 .. NbPkts - 1
         /\ (Count = 0 <=> head = tail)
         /\ next \in Nat \ {0} /\ num \in [Slots -> Nat] /\ Count < next
         /\ reserved \in Nat /\ made \in Nat /\ made <= reserved
         /\ need \in Nat /\ reserved <= need /\ need <= NbPkts - 1
         /\ \A i \in Slots : Distance(i, tail) \in 0 .. NbPkts - 1
                            /\ Distance(tail, i) \in 0 .. NbPkts - 1
<1>1. head \in Slots /\ tail \in Slots
  BY DEF RingIInv, TypeOK
<1>2. Count \in 0 .. NbPkts - 1 /\ (Count = 0 <=> head = tail)
  BY <1>1, DistanceRange DEF Count
<1>3. \A i \in Slots : /\ Distance(i, tail) \in 0 .. NbPkts - 1
                     /\ Distance(tail, i) \in 0 .. NbPkts - 1
  BY <1>1, DistanceRange
<1>4. Count < next
  BY DEF RingIInv, RingSound, RingHoldsNewest
<1>5. need \in 0 .. MaxReserve /\ reserved \in 0 .. need /\ made \in 0 .. reserved
  BY DEF RingIInv, TypeOK
<1>6. MaxReserve \in Nat /\ MaxReserve <= NbPkts - 1
  BY ReserveAssumption
<1>7. /\ reserved \in Nat /\ made \in Nat /\ made <= reserved
      /\ need \in Nat /\ reserved <= need /\ need <= NbPkts - 1
  BY <1>5, <1>6
<1>8. next \in Nat \ {0} /\ num \in [Slots -> Nat]
  BY DEF RingIInv, TypeOK
<1> QED BY <1>1, <1>2, <1>3, <1>4, <1>7, <1>8

(* A packet in use: its number.                                            *)
LEMMA Numbered ==
  ASSUME RingIInv, NEW i \in Slots, 0 < Distance(i, tail), Distance(i, tail) <= Count
  PROVE  num[i] = next - Distance(i, tail)
<1>1. InUse(i)
  BY InusedIsNear DEF InUse, Count, RingIInv, TypeOK
<1> QED BY <1>1 DEF RingIInv, RingSound, RingHoldsNewest

-----------------------------------------------------------------------------
(* The ring under the steps of rtsp_tx_video.                              *)

(* head moves only over packets in use, and makes the room it has to.      *)
LEMMA ReserveStep ==
  ASSUME RingIInv, TxReserve
  PROVE  /\ RingIInv'
         /\ Count' \in {Count, Count - 1} /\ Count' \in Nat
<1> DEFINE full == NextIndex((tail + reserved) % NbPkts) = head
<1>1. /\ head \in Slots /\ tail \in Slots /\ Count \in 0 .. NbPkts - 1
      /\ (Count = 0 <=> head = tail)
      /\ reserved \in Nat /\ need \in Nat /\ reserved < need /\ need <= NbPkts - 1
      /\ Count + reserved <= NbPkts - 1
  BY RingTypes DEF RingIInv, RingSound, ReservedAreFree, TxReserve
<1>2. full <=> Count + reserved = NbPkts - 1
  <2>1. reserved \in 0 .. NbPkts - 1
    BY <1>1
  <2> QED BY <1>1, <2>1, FullWhen DEF Count
<1>3. head' = (IF full THEN Popped(head, tail) ELSE head) /\ reserved' = reserved + 1
      /\ UNCHANGED <<tail, num, next, pc, need, made, conn>> /\ pc = "reserve"
  BY DEF TxReserve
<1>4. CASE full
  <2>1. head # tail /\ head' = NextIndex(head)
    BY <1>1, <1>2, <1>3, <1>4 DEF Popped
  <2>2. head' \in Slots /\ Count' = Count - 1
    BY <1>1, <1>3, <2>1, NearEndSteps DEF Count
  <2>3. ASSUME NEW i \in Slots, InUse(i)' PROVE num'[i] = next' - Distance(i, tail)'
    <3>1. 0 < Distance(i, tail) /\ Distance(i, tail) <= Count'
      BY <1>1, <1>3, <2>2, <2>3, InusedIsNear DEF InUse, Count
    <3>2. Distance(i, tail) <= Count
      BY <1>1, <2>2, <3>1, DistanceRange
    <3> QED BY <1>3, <3>1, <3>2, Numbered DEF Distance
  <2>4. TypeOK'
    BY <1>1, <1>3, <2>2 DEF RingIInv, TypeOK, conn
  <2>5. ReservedAreFree' /\ RingHoldsNewest' /\ MadeInv'
    BY <1>1, <1>3, <2>2, <2>3
    DEF RingIInv, TypeOK, RingSound, ReservedAreFree, RingHoldsNewest, MadeInv
  <2> QED BY <1>1, <1>2, <1>4, <2>2, <2>4, <2>5 DEF RingIInv, RingSound
<1>5. CASE ~full
  <2>1. Count' = Count
    BY <1>3, <1>5 DEF Count
  <2>2. TypeOK'
    BY <1>1, <1>3, <1>5 DEF RingIInv, TypeOK, conn
  <2>3. RingHoldsNewest' /\ MadeInv'
    BY <1>3, <1>5, <2>1 DEF RingIInv, RingSound, RingHoldsNewest, MadeInv, InUse
  <2>4. ReservedAreFree'
    BY <1>1, <1>2, <1>3, <1>5, <2>1 DEF ReservedAreFree
  <2> QED BY <1>1, <2>1, <2>2, <2>3, <2>4 DEF RingIInv, RingSound
<1> QED BY <1>4, <1>5

(* The encoder writes no slot in use.                                      *)
LEMMA EncodeStep ==
  ASSUME RingIInv, NEW k \in 0 .. MaxReserve, NEW ok \in BOOLEAN, TxEncode(k, ok)
  PROVE  RingIInv'
<1>1. /\ head \in Slots /\ tail \in Slots /\ Count \in 0 .. NbPkts - 1
      /\ reserved \in Nat /\ k <= reserved /\ Count + reserved <= NbPkts - 1
      /\ next \in Nat \ {0} /\ num \in [Slots -> Nat]
      /\ \A i \in Slots : Distance(i, tail) \in 0 .. NbPkts - 1
                         /\ Distance(tail, i) \in 0 .. NbPkts - 1
  BY RingTypes DEF RingIInv, RingSound, ReservedAreFree, TxEncode
<1>2. /\ num' = [i \in Slots |-> IF Distance(tail, i) < k
                                 THEN next + Distance(tail, i) ELSE num[i]]
      /\ made' = (IF ok THEN k ELSE 0) /\ pc' = (IF ok THEN "push" ELSE "idle")
      /\ UNCHANGED <<head, tail, next, reserved, need, conn>>
  BY DEF TxEncode
<1>3. TypeOK'
  <2>1. num' \in [Slots -> Nat]
    <3>1. \A i \in Slots : Distance(tail, i) \in Nat
      BY <1>1, DistanceRange
    <3> QED BY <1>1, <1>2, <3>1
  <2>2. made' \in 0 .. reserved'
    BY <1>1, <1>2
  <2> QED BY <1>2, <2>1, <2>2 DEF RingIInv, TypeOK, conn
<1>4. Count' = Count
  BY <1>2 DEF Count
<1>5. RingHoldsNewest'
  <2>1. ASSUME NEW i \in Slots, InUse(i)' PROVE num'[i] = next' - Distance(i, tail)'
    <3>1. InUse(i)
      BY <1>2, <2>1 DEF InUse
    <3>2. 0 < Distance(i, tail) /\ Distance(i, tail) <= Count
      BY <1>1, <3>1, InusedIsNear DEF InUse, Count
    <3>3. Distance(tail, i) >= k
      <4>1. i # tail
        BY <1>1, <3>2, DistanceRange
      <4>2. Distance(i, tail) + Distance(tail, i) = NbPkts
        BY <1>1, <4>1, WayBack
      <4> QED BY <1>1, <3>2, <4>2
    <3>4. num'[i] = num[i]
      BY <1>1, <1>2, <3>3
    <3> QED BY <1>2, <3>2, <3>4, Numbered
  <2> QED BY <1>2, <1>4, <2>1 DEF RingHoldsNewest, RingIInv, RingSound
<1>6. ReservedAreFree'
  BY <1>1, <1>2, <1>4 DEF ReservedAreFree
<1>7. MadeInv'
  BY <1>2 DEF MadeInv
<1> QED BY <1>3, <1>5, <1>6, <1>7 DEF RingIInv, RingSound

(* A push adds the next packet at the end.                                 *)
LEMMA PushStep ==
  ASSUME RingIInv, TxPush
  PROVE  RingIInv' /\ Count' = Count + 1 /\ Count < NbPkts - 1 /\ tail' = NextIndex(tail)
<1>1. /\ head \in Slots /\ tail \in Slots /\ Count \in 0 .. NbPkts - 1
      /\ made \in Nat /\ made > 0 /\ Count + made <= NbPkts - 1
      /\ reserved \in Nat /\ made <= reserved
      /\ next \in Nat \ {0} /\ num \in [Slots -> Nat] /\ Count < next
      /\ \A i \in Slots : Distance(i, tail) \in 0 .. NbPkts - 1
                         /\ Distance(tail, i) \in 0 .. NbPkts - 1
  BY RingTypes DEF RingIInv, RingSound, ReservedAreFree, TxPush
<1>2. /\ tail' = Pushed(head, tail) /\ next' = next + 1 /\ made' = made - 1 /\ pc = "push"
      /\ UNCHANGED <<head, num, pc, reserved, need, conn>>
  BY DEF TxPush
<1>3. Count < NbPkts - 1
  BY <1>1
<1>4. Distance(head, NextIndex(tail)) = Count + 1
  BY <1>1, <1>3, FarEndSteps DEF Count
<1>5. tail' = NextIndex(tail) /\ tail' \in Slots
  <2>1. NextIndex(tail) \in Slots
    BY <1>1, NextSlot
  <2>2. NextIndex(tail) # head
    BY <1>1, <1>4, <2>1, DistanceRange
  <2> QED BY <1>2, <2>1, <2>2 DEF Pushed
<1>6. Count' = Count + 1
  BY <1>2, <1>4, <1>5 DEF Count
<1>7. TypeOK'
  BY <1>1, <1>2, <1>5 DEF RingIInv, TypeOK, conn
<1>8. RingHoldsNewest'
  <2>1. ASSUME NEW i \in Slots, InUse(i)' PROVE num'[i] = next' - Distance(i, tail)'
    <3>1. 0 < Distance(i, tail') /\ Distance(i, tail') <= Count + 1
      BY <1>2, <1>1, <1>4, <1>5, <1>6, <2>1, InusedIsNear DEF InUse
    <3>2. CASE i = tail
      <4>1. Distance(tail, tail) = 0
        BY <1>1, DistanceRange
      <4>2. Distance(i, tail') = 1
        BY <1>1, <1>3, <1>5, <3>2, <4>1, FarEndSteps
      <4>3. num[i] = next
        BY <1>1, <1>2, <3>2, <4>1 DEF RingIInv, MadeInv
      <4> QED BY <1>1, <1>2, <4>2, <4>3 DEF Distance
    <3>3. CASE i # tail
      <4>1. Distance(i, tail) < NbPkts - 1
        <5>1. Distance(i, tail) \in 0 .. NbPkts - 1
          BY <1>1, DistanceRange
        <5>2. CASE Distance(i, tail) = NbPkts - 1
          <6>1. Distance(tail, i) = 1
            <7>1. Distance(i, tail) + Distance(tail, i) = NbPkts
              BY <1>1, <3>3, WayBack
            <7> QED BY <1>1, <5>2, <7>1
          <6>2. tail' = i
            <7>1. tail \in 0 .. NbPkts - 1 /\ i \in 0 .. NbPkts - 1
              BY <1>1 DEF Slots
            <7>2. tail' = IF tail + 1 = NbPkts THEN 0 ELSE tail + 1
              BY <1>1, <1>5, NextSlot
            <7>3. 1 = IF tail <= i THEN i - tail ELSE i - tail + NbPkts
              BY <6>1 DEF Distance
            <7> QED BY <7>1, <7>2, <7>3
          <6> QED BY <1>5, <3>1, <6>2, DistanceRange
        <5> QED BY <5>1, <5>2
      <4>2. Distance(i, tail') = Distance(i, tail) + 1
        BY <1>1, <1>5, <4>1, FarEndSteps
      <4>3. 0 < Distance(i, tail) /\ Distance(i, tail) <= Count
        <5>1. Distance(i, tail) # 0
          BY <1>1, <3>3, DistanceRange
        <5> QED BY <1>1, <3>1, <4>2, <5>1
      <4>4. num[i] = next - Distance(i, tail)
        BY <4>3, Numbered
      <4>5. Distance(i, tail) \in Nat
        BY <1>1, DistanceRange
      <4> QED BY <1>1, <1>2, <4>2, <4>4, <4>5
    <3> QED BY <3>2, <3>3
  <2> QED BY <1>1, <1>2, <1>6, <2>1 DEF RingHoldsNewest
<1>9. MadeInv'
  <2> SUFFICES ASSUME NEW i \in Slots, Distance(tail', i) < made - 1
               PROVE  num[i] = next + 1 + Distance(tail', i)
    BY <1>2 DEF MadeInv
  <2>1. i # tail
    <3>1. Distance(tail, tail) = 0
      BY <1>1, DistanceRange
    <3>2. Distance(tail, tail') = 1
      BY <1>1, <1>3, <1>5, <3>1, FarEndSteps
    <3>3. tail # tail'
      BY <1>5, <3>1, <3>2
    <3>4. Distance(tail', tail) + Distance(tail, tail') = NbPkts
      BY <1>1, <1>5, <3>3, WayBack
    <3>5. Distance(tail', tail) \in 0 .. NbPkts - 1
      BY <1>1, <1>5
    <3> QED BY <1>1, <3>2, <3>4, <3>5
  <2>2. Distance(tail', i) = Distance(tail, i) - 1
    BY <1>1, <1>5, <2>1, NearEndSteps
  <2>3. Distance(tail, i) \in Nat
    BY <1>1
  <2>4. num[i] = next + Distance(tail, i)
    BY <1>1, <1>2, <2>2, <2>3 DEF RingIInv, MadeInv
  <2> QED BY <1>1, <2>2, <2>3, <2>4
<1>10. ReservedAreFree'
  BY <1>1, <1>2, <1>6 DEF ReservedAreFree
<1> QED BY <1>3, <1>5, <1>6, <1>7, <1>8, <1>9, <1>10 DEF RingIInv, RingSound

-----------------------------------------------------------------------------
(* The readers.                                                            *)

(* A connection that joins, here or by SETUP, joins behind the newest      *)
(* packet; any other it leaves as it was, or ends its reading.             *)
Joins(c) == index'[c] = tail /\ last'[c] = next - 1
Stays(c) == Reading(c)' => Reading(c) /\ index'[c] = index[c] /\ last'[c] = last[c]

(* A packet that is sent: it is the one the connection is at, which is in  *)
(* the ring, and the connection is at the next one then.                   *)
LEMMA Sending ==
  ASSUME IInv, NEW c \in Conns, Send(c)
  PROVE  /\ UNCHANGED <<head, tail, num, next, pc, reserved, need, made, state>>
         /\ index[c] \in Slots /\ NextIndex(index[c]) \in Slots
         /\ Position(c) \in Nat /\ Position(c) < next /\ Position(c) >= Oldest
         /\ index' = [index EXCEPT ![c] = NextIndex(index[c])]
         /\ last' = [last EXCEPT ![c] = Position(c)]
         /\ next - Distance(NextIndex(index[c]), tail) = Position(c) + 1
<1> DEFINE d == Distance(index[c], tail)
<1>1. /\ Reading(c) /\ InUse(index[c])
      /\ index' = [index EXCEPT ![c] = NextIndex(index[c])]
      /\ last' = [last EXCEPT ![c] = num[index[c]]]
      /\ UNCHANGED <<head, tail, num, next, pc, reserved, need, made, state>>
  BY DEF Send, queue, call
<1>2. /\ index[c] \in Slots /\ tail \in Slots /\ head \in Slots /\ next \in Nat
      /\ Count \in Nat /\ Count < next /\ d \in Nat /\ num \in [Slots -> Nat]
  <2>1. index[c] \in Slots
    BY <1>1 DEF IInv, RingIInv, TypeOK, Reading
  <2> QED BY <2>1, RingTypes DEF IInv
<1>3. 0 < d /\ d <= Count
  BY <1>1, <1>2, InusedIsNear DEF InUse, Count
<1>4. num[index[c]] = next - d
  BY <1>2, <1>3, Numbered DEF IInv
<1>5. index[c] # tail
  BY <1>2, <1>3, NoDistance
<1>6. NextIndex(index[c]) \in Slots /\ Distance(NextIndex(index[c]), tail) = d - 1
  BY <1>2, <1>5, NearEndSteps
<1>7. Position(c) = next - d /\ Oldest = next - Count
  BY DEF Position, Oldest
<1> HIDE DEF d
<1> QED BY <1>1, <1>2, <1>3, <1>4, <1>6, <1>7

LEMMA SendDelivers ==
  ASSUME IInv, pc # "reserve", NEW c \in Conns, Send(c)
  PROVE  IInv'
<1>1. UNCHANGED <<head, tail, num, next, pc, reserved, need, made, state>>
  BY Sending
<1>2. index' \in [Conns -> Slots \cup {NoRtp}] /\ last' \in [Conns -> Nat]
  BY Sending DEF IInv, RingIInv, TypeOK
<1>3. RingIInv'
  BY <1>1, <1>2, RingUntouched DEF IInv, queue, call, RingIInv, TypeOK
<1>4. Delivery'
  <2> SUFFICES ASSUME NEW b \in Conns, Reading(b)'
               PROVE  /\ last'[b] < Position(b)'
                      /\ Position(b)' > last'[b] + 1 => Position(b)' <= Oldest'
                      /\ Position(b)' >= Oldest'
    BY DEF Delivery
  <2>1. Oldest' = Oldest /\ Position(b)' = next - Distance(index'[b], tail)
    BY <1>1 DEF Oldest, Count, Position
  <2>2. CASE b = c
    <3>1. index'[b] = NextIndex(index[c]) /\ last'[b] = Position(c)
      BY <2>2, Sending DEF IInv, RingIInv, TypeOK
    <3>2. Oldest \in Int
      BY RingTypes DEF IInv, Oldest
    <3>3. Position(b)' = Position(c) + 1 /\ Position(c) \in Nat /\ Position(c) >= Oldest
      BY <2>1, <3>1, Sending
    <3> HIDE DEF Position
    <3> QED BY <2>1, <3>1, <3>2, <3>3
  <2>3. CASE b # c
    <3>1. index'[b] = index[b] /\ last'[b] = last[b]
      BY <2>3, Sending DEF IInv, RingIInv, TypeOK
    <3>2. Reading(b)
      BY <1>1, <3>1 DEF Reading
    <3> QED BY <2>1, <3>1, <3>2 DEF IInv, Delivery, Position
  <2> QED BY <2>2, <2>3
<1> QED BY <1>3, <1>4 DEF IInv

(* The end of rtsp_tx_video.                                               *)
LEMMA ReturnDelivers ==
  ASSUME IInv, TxReturn
  PROVE  IInv'
<1>1. /\ UNCHANGED <<head, tail, num, next, reserved, need, made, state, index, last>>
      /\ pc = "push" /\ pc' = "idle"
  BY DEF TxReturn, queue, conn
<1>2. RingIInv'
  BY <1>1
  DEF IInv, RingIInv, TypeOK, RingSound, ReservedAreFree, RingHoldsNewest, MadeInv, Count, InUse
<1>3. Delivery'
  BY <1>1 DEF IInv, Delivery, Reading, Position, Oldest, Count
<1> QED BY <1>2, <1>3 DEF IInv

(* A request moves a reader in at the newest packet, or out, or not.       *)
LEMMA RequestStep ==
  ASSUME IInv, UNCHANGED <<queue, call>>, pc = "idle",
         state' \in [Conns -> {"NONE", "INIT", "READY", "PLAYING"}],
         index' \in [Conns -> Slots \cup {NoRtp}], last' \in [Conns -> Nat],
         \A c \in Conns : Stays(c) \/ Joins(c)
  PROVE  IInv'
<1>1. RingIInv'
  BY RingUntouched DEF IInv
<1>2. UNCHANGED <<head, tail, num, next, pc>>
  BY DEF queue, call
<1>3. Count' = Count /\ Oldest' = Oldest /\ next \in Nat /\ Count \in Nat /\ Oldest = next - Count
  BY <1>2, RingTypes DEF IInv, Count, Oldest
<1>4. Delivery'
  <2> SUFFICES ASSUME NEW c \in Conns, Reading(c)'
               PROVE  /\ last'[c] < Position(c)'
                      /\ Position(c)' > last'[c] + 1 => Position(c)' <= Oldest'
                      /\ Position(c)' >= Oldest'
    BY DEF Delivery
  <2>1. CASE Stays(c)
    <3>1. Reading(c) /\ index'[c] = index[c] /\ last'[c] = last[c]
      BY <2>1 DEF Stays
    <3>2. /\ last[c] < Position(c)
          /\ Position(c) > last[c] + 1 => Position(c) <= Oldest
          /\ Position(c) >= Oldest
      BY <3>1 DEF IInv, Delivery
    <3>3. Position(c)' = Position(c)
      BY <1>2, <3>1 DEF Position
    <3> QED BY <1>3, <3>1, <3>2, <3>3
  <2>2. CASE Joins(c)
    <3>1. Position(c)' = next
      <4>1. Distance(tail, tail) = 0
        BY RingTypes, NoDistance DEF IInv
      <4> QED BY <1>2, <1>3, <2>2, <4>1 DEF Position, Joins
    <3> QED BY <1>3, <2>2, <3>1 DEF Joins
  <2> QED BY <2>1, <2>2
<1> QED BY <1>1, <1>4 DEF IInv

-----------------------------------------------------------------------------
(* Every step keeps the invariant.                                         *)

(* The steps of a frame, up to its push: readers wait.                     *)
LEMMA ReserveDelivers ==
  ASSUME IInv, TxReserve
  PROVE  IInv'
<1>1. RingIInv' /\ Count' \in {Count, Count - 1} /\ Count' \in Nat
  BY ReserveStep DEF IInv
<1>2. UNCHANGED <<tail, next, pc, state, index, last>> /\ pc = "reserve"
  BY DEF TxReserve, conn
<1>3. Delivery'
  <2> SUFFICES ASSUME NEW c \in Conns, Reading(c)'
               PROVE  /\ last'[c] < Position(c)'
                      /\ Position(c)' > last'[c] + 1 => Position(c)' <= Oldest'
    BY <1>2 DEF Delivery
  <2>1. Reading(c) /\ last'[c] = last[c] /\ Position(c)' = Position(c)
    BY <1>2 DEF Reading, Position
  <2>2. /\ last[c] < Position(c)
        /\ Position(c) > last[c] + 1 => Position(c) <= Oldest
    BY <2>1 DEF IInv, Delivery
  <2>3. Oldest = next - Count /\ Oldest' = next - Count'
    BY <1>2 DEF Oldest
  <2>4. next \in Nat /\ Count \in Nat /\ last[c] \in Nat /\ Position(c) \in Int
    <3>1. index[c] \in Slots /\ last[c] \in Nat
      BY <2>1 DEF IInv, RingIInv, TypeOK, Reading
    <3>2. Distance(index[c], tail) \in Nat
      BY <3>1, RingTypes DEF IInv
    <3> QED BY <3>1, <3>2, RingTypes DEF IInv, Position
  <2> QED BY <1>1, <2>1, <2>2, <2>3, <2>4
<1> QED BY <1>1, <1>3 DEF IInv

LEMMA FixSlowDelivers ==
  ASSUME IInv, TxFixSlow
  PROVE  IInv'
<1>1. /\ UNCHANGED <<head, tail, num, next, reserved, need, made, state, last>>
      /\ pc = "reserve" /\ pc' = "encode"
      /\ index' = [c \in Conns |-> IF Reading(c) /\ ~InUse(index[c]) /\ index[c] # tail
                                  THEN head ELSE index[c]]
  BY DEF TxFixSlow, queue
<1>2. /\ head \in Slots /\ tail \in Slots /\ Count \in 0 .. NbPkts - 1 /\ next \in Nat
      /\ index \in [Conns -> Slots \cup {NoRtp}] /\ last \in [Conns -> Nat]
  BY RingTypes DEF IInv, RingIInv, TypeOK
<1>3. TypeOK'
  BY <1>1, <1>2 DEF IInv, RingIInv, TypeOK
<1>4. RingSound' /\ MadeInv'
  BY <1>1 DEF IInv, RingIInv, RingSound, ReservedAreFree, RingHoldsNewest, MadeInv, Count, InUse
<1>5. Delivery'
  <2> SUFFICES ASSUME NEW c \in Conns, Reading(c)'
               PROVE  /\ last'[c] < Position(c)'
                      /\ Position(c)' > last'[c] + 1 => Position(c)' <= Oldest'
                      /\ Position(c)' >= Oldest'
    BY DEF Delivery
  <2>1. Reading(c)
    <3>1. state[c] = "PLAYING" /\ index'[c] # NoRtp
      BY <1>1 DEF Reading
    <3>2. CASE index[c] = NoRtp
      BY <1>1, <3>1, <3>2 DEF Reading
    <3> QED BY <3>1, <3>2 DEF Reading
  <2>2. /\ last[c] < Position(c)
        /\ Position(c) > last[c] + 1 => Position(c) <= Oldest
    BY <2>1 DEF IInv, Delivery
  <2>3. index[c] \in Slots /\ Distance(index[c], tail) \in Nat /\ last[c] \in Nat
    <3>1. index[c] \in Slots /\ last[c] \in Nat
      BY <1>2, <2>1 DEF Reading
    <3> QED BY <1>2, <3>1, DistanceRange
  <2>4. /\ Oldest = next - Count /\ Oldest' = next - Count
        /\ Position(c) = next - Distance(index[c], tail)
        /\ Position(c)' = next - Distance(index'[c], tail)
    BY <1>1 DEF Oldest, Position, Count
  <2>5. CASE ~InUse(index[c]) /\ index[c] # tail
    <3>1. index'[c] = head
      BY <1>1, <2>1, <2>5
    <3>2. Distance(index'[c], tail) = Count
      BY <3>1 DEF Count
    <3>3. Distance(index[c], tail) > Count
      <4>1. Distance(index[c], tail) # 0
        BY <1>2, <2>3, <2>5, NoDistance
      <4>2. ~(0 < Distance(index[c], tail) /\ Distance(index[c], tail) <= Count)
        BY <1>2, <2>3, <2>5, InusedIsNear DEF InUse, Count
      <4> QED BY <1>2, <2>3, <4>1, <4>2
    <3> QED BY <1>1, <1>2, <2>2, <2>3, <2>4, <3>2, <3>3
  <2>6. CASE InUse(index[c]) \/ index[c] = tail
    <3>1. index'[c] = index[c]
      BY <1>1, <1>2, <2>6
    <3>2. Distance(index[c], tail) <= Count
      <4>1. CASE InUse(index[c])
        BY <1>2, <2>3, <4>1, InusedIsNear DEF InUse, Count
      <4>2. CASE index[c] = tail
        BY <1>2, <4>2, NoDistance
      <4> QED BY <2>6, <4>1, <4>2
    <3> QED BY <1>1, <1>2, <2>2, <2>3, <2>4, <3>1, <3>2
  <2> QED BY <2>5, <2>6
<1> QED BY <1>3, <1>4, <1>5 DEF IInv, RingIInv

LEMMA EncodeDelivers ==
  ASSUME IInv, NEW k \in 0 .. MaxReserve, NEW ok \in BOOLEAN, TxEncode(k, ok)
  PROVE  IInv'
<1>1. RingIInv'
  BY EncodeStep DEF IInv
<1>2. UNCHANGED <<head, tail, next, state, index, last>> /\ pc = "encode" /\ pc' # "reserve"
  BY DEF TxEncode, conn
<1>3. Delivery'
  BY <1>2 DEF IInv, Delivery, Reading, Position, Oldest, Count
<1> QED BY <1>1, <1>3 DEF IInv

LEMMA PushDelivers ==
  ASSUME IInv, TxPush
  PROVE  IInv'
<1>1. RingIInv' /\ Count' = Count + 1 /\ Count < NbPkts - 1 /\ tail' = NextIndex(tail)
  BY PushStep DEF IInv
<1>2. UNCHANGED <<pc, state, index, last>> /\ pc = "push" /\ next' = next + 1
  BY DEF TxPush, conn
<1>3. Delivery'
  <2> SUFFICES ASSUME NEW c \in Conns, Reading(c)'
               PROVE  /\ last'[c] < Position(c)'
                      /\ Position(c)' > last'[c] + 1 => Position(c)' <= Oldest'
                      /\ Position(c)' >= Oldest'
    BY DEF Delivery
  <2>1. Reading(c)
    BY <1>2 DEF Reading
  <2>2. /\ last[c] < Position(c)
        /\ Position(c) > last[c] + 1 => Position(c) <= Oldest
        /\ Position(c) >= Oldest
    BY <1>2, <2>1 DEF IInv, Delivery
  <2>3. /\ index[c] \in Slots /\ tail \in Slots /\ Count \in Nat /\ next \in Nat
        /\ Distance(index[c], tail) \in Nat
    <3>1. index[c] \in Slots
      BY <2>1 DEF IInv, RingIInv, TypeOK, Reading
    <3> QED BY <3>1, RingTypes DEF IInv
  <2>4. Distance(index[c], tail') = Distance(index[c], tail) + 1
    <3>1. Distance(index[c], tail) < NbPkts - 1
      BY <1>1, <2>2, <2>3 DEF Position, Oldest
    <3> QED BY <1>1, <2>3, <3>1, FarEndSteps
  <2>5. Position(c)' = Position(c) /\ Oldest' = Oldest
    BY <1>1, <1>2, <2>3, <2>4 DEF Position, Oldest
  <2> QED BY <1>2, <2>2, <2>5
<1> QED BY <1>1, <1>3 DEF IInv

(* The requests of one connection.                                         *)
Request(c) ==
  \/ Connect(c) \/ Setup(c) \/ SetupFails(c) \/ Play(c) \/ Pause(c)
  \/ Teardown(c) \/ Disconnect(c)

(* What a request does to its connection and leaves of the others.         *)
LEMMA RequestMoves ==
  ASSUME IInv, NEW c \in Conns, Request(c)
  PROVE  /\ UNCHANGED <<queue, call>> /\ pc = "idle"
         /\ state' \in [Conns -> {"NONE", "INIT", "READY", "PLAYING"}]
         /\ index' \in [Conns -> Slots \cup {NoRtp}] /\ last' \in [Conns -> Nat]
         /\ \A b \in Conns \ {c} : /\ state'[b] = state[b]
                                  /\ index'[b] = index[b] /\ last'[b] = last[b]
         /\ (Stays(c) /\ (Reading(c)' <=> Reading(c))) \/ ~Reading(c)' \/ (Joins(c) /\ Reading(c)')
<1>1. /\ state \in [Conns -> {"NONE", "INIT", "READY", "PLAYING"}]
      /\ index \in [Conns -> Slots \cup {NoRtp}] /\ last \in [Conns -> Nat]
      /\ tail \in Slots /\ next - 1 \in Nat /\ 0 \in Slots
  BY NbPktsAssumption DEF IInv, RingIInv, TypeOK, Slots
<1>2. tail # NoRtp /\ 0 # NoRtp
  BY <1>1, NoRtpAssumption DEF Slots
<1> USE <1>1, <1>2 DEF Stays, Joins, Reading
<1>3. CASE Connect(c)
  BY <1>3 DEF Connect
<1>4. CASE Setup(c)
  <2>1. /\ state' = [state EXCEPT ![c] = IF @ = "INIT" THEN "READY" ELSE @]
        /\ index' = [index EXCEPT ![c] = IF state[c] = "PLAYING" THEN tail ELSE 0]
        /\ last' = [last EXCEPT ![c] = next - 1]
        /\ UNCHANGED <<queue, call>> /\ pc = "idle"
    BY <1>4 DEF Setup
  <2>2. CASE state[c] = "PLAYING"
    BY <2>1, <2>2
  <2>3. CASE state[c] # "PLAYING"
    BY <2>1, <2>3
  <2> QED BY <2>2, <2>3
<1>5. CASE SetupFails(c)
  BY <1>5 DEF SetupFails
<1>6. CASE Play(c)
  BY <1>6 DEF Play
<1>7. CASE Pause(c)
  BY <1>7 DEF Pause
<1>8. CASE Teardown(c)
  BY <1>8 DEF Teardown
<1>9. CASE Disconnect(c)
  BY <1>9 DEF Disconnect
<1> QED BY <1>3, <1>4, <1>5, <1>6, <1>7, <1>8, <1>9 DEF Request

LEMMA RequestDelivers ==
  ASSUME IInv, NEW c \in Conns, Request(c)
  PROVE  IInv'
<1>1. /\ UNCHANGED <<queue, call>> /\ pc = "idle"
      /\ state' \in [Conns -> {"NONE", "INIT", "READY", "PLAYING"}]
      /\ index' \in [Conns -> Slots \cup {NoRtp}] /\ last' \in [Conns -> Nat]
  BY RequestMoves
<1>2. \A b \in Conns : Stays(b) \/ Joins(b)
  BY RequestMoves DEF Stays, Reading
<1> QED BY <1>1, <1>2, RequestStep

(* The steps of the specification, sorted for the two proofs below.        *)
LEMMA Steps ==
  ASSUME [Next]_vars
  PROVE  \/ \E n \in 1 .. MaxReserve : TxStart(n)
         \/ TxReserve \/ TxFixSlow \/ TxPush \/ TxReturn
         \/ \E k \in 0 .. MaxReserve, ok \in BOOLEAN : TxEncode(k, ok)
         \/ \E c \in Conns : Send(c) /\ pc # "reserve"
         \/ \E c \in Conns : Request(c)
         \/ UNCHANGED vars
  BY DEF Next, Tx, Request, TxSend, Resend

LEMMA StepIInv ==
  ASSUME IInv, [Next]_vars
  PROVE  IInv'
<1>1. CASE \E n \in 1 .. MaxReserve : TxStart(n)
  <2>1. PICK n \in 1 .. MaxReserve : TxStart(n)
    BY <1>1
  <2>2. /\ pc = "idle" /\ pc' = "reserve" /\ need' = n /\ reserved' = 0 /\ made' = 0
        /\ UNCHANGED <<head, tail, num, next, state, index, last>>
    BY <2>1 DEF TxStart, queue, conn
  <2>3. Count \in 0 .. NbPkts - 1 /\ n \in 0 .. MaxReserve
    BY RingTypes, ReserveAssumption DEF IInv
  <2>4. RingIInv'
    <3>1. TypeOK'
      BY <2>2, <2>3 DEF IInv, RingIInv, TypeOK
    <3>2. RingSound' /\ MadeInv'
      BY <2>2, <2>3 DEF IInv, RingIInv, RingSound, ReservedAreFree, RingHoldsNewest,
                        MadeInv, Count, InUse
    <3> QED BY <3>1, <3>2 DEF RingIInv
  <2>5. Delivery'
    BY <2>2 DEF IInv, Delivery, Reading, Position, Oldest, Count
  <2> QED BY <2>4, <2>5 DEF IInv
<1>2. CASE \E c \in Conns : Send(c) /\ pc # "reserve"
  BY <1>2, SendDelivers
<1>3. CASE \E c \in Conns : Request(c)
  BY <1>3, RequestDelivers
<1>4. CASE UNCHANGED vars
  <2>1. RingIInv'
    BY <1>4, RingUntouched DEF vars, conn, IInv, RingIInv, TypeOK
  <2>2. Delivery'
    BY <1>4 DEF vars, queue, call, conn, IInv, Delivery, Reading, Position, Oldest, Count
  <2> QED BY <2>1, <2>2 DEF IInv
<1> QED
  BY <1>1, <1>2, <1>3, <1>4, Steps, ReserveDelivers,
     FixSlowDelivers, EncodeDelivers, PushDelivers, ReturnDelivers

-----------------------------------------------------------------------------
(* The refinement: the ring with its readers implements the log.           *)

Sent == [c \in Conns |-> IF Reading(c) THEN last[c] ELSE NoRtp]

(* A step that changes neither the window nor a reader.                    *)
LEMMA Stutters ==
  ASSUME UNCHANGED <<next, state, last>>, Oldest' = Oldest,
         \A c \in Conns : index'[c] = NoRtp <=> index[c] = NoRtp
  PROVE  UNCHANGED Log!vars
  BY DEF Log!vars, Reading

LEMMA LogInit == Init => Log!Init
  BY NbPktsAssumption DEF Init, Log!Init, Oldest, Count, Distance, Reading

(* What is sent is the packet due: Delivery says where the connection is.  *)
LEMMA LogSend ==
  ASSUME IInv, pc # "reserve", NEW c \in Conns, Send(c)
  PROVE  Log!Deliver(c)
<1>1. UNCHANGED <<head, tail, next, pc, state>> /\ Reading(c)
  BY Sending DEF Send
<1>2. Oldest' = Oldest
  BY <1>1 DEF Oldest, Count
<1>3. /\ next \in Nat /\ Oldest \in Int /\ last[c] \in Nat /\ NoRtp \notin Nat
      /\ Position(c) \in Nat /\ Position(c) < next
  BY Sending, RingTypes, NoRtpAssumption DEF IInv, RingIInv, TypeOK, Oldest
<1>4. /\ last[c] < Position(c)
      /\ Position(c) > last[c] + 1 => Position(c) <= Oldest
      /\ Position(c) >= Oldest
  BY <1>1 DEF IInv, Delivery
<1>5. Position(c) = IF last[c] + 1 < Oldest THEN Oldest ELSE last[c] + 1
  BY <1>3, <1>4
<1>6. \A b \in Conns : Reading(b)' <=> Reading(b)
  <2>1. NextIndex(index[c]) # NoRtp /\ index[c] # NoRtp
    BY Sending, NoRtpAssumption DEF Slots
  <2> QED BY <1>1, <2>1, Sending DEF IInv, RingIInv, TypeOK, Reading
<1>7. Sent' = [Sent EXCEPT ![c] = Position(c)]
  BY <1>1, <1>6, Sending DEF Sent, IInv, RingIInv, TypeOK
<1>8. Sent[c] = last[c]
  BY <1>1 DEF Sent
<1> QED BY <1>1, <1>2, <1>3, <1>5, <1>7, <1>8 DEF Log!Deliver, Log!Due, Sent

LEMMA LogRequest ==
  ASSUME IInv, NEW c \in Conns, Request(c)
  PROVE  Log!Next \/ UNCHANGED Log!vars
<1>1. /\ UNCHANGED <<head, tail, next>>
      /\ \A b \in Conns \ {c} : /\ state'[b] = state[b]
                                /\ index'[b] = index[b] /\ last'[b] = last[b]
      /\ (Stays(c) /\ (Reading(c)' <=> Reading(c))) \/ ~Reading(c)' \/ (Joins(c) /\ Reading(c)')
  BY RequestMoves DEF queue
<1>2. next' = next /\ Oldest' = Oldest
  BY <1>1 DEF Oldest, Count
<1>3. \A b \in Conns \ {c} : Sent'[b] = Sent[b]
  BY <1>1 DEF Sent, Reading
<1>4. CASE Stays(c) /\ (Reading(c)' <=> Reading(c))
  <2>1. Sent' = Sent
    BY <1>3, <1>4 DEF Sent, Stays
  <2> QED BY <1>2, <2>1 DEF Log!vars, Sent
<1>5. CASE ~Reading(c)'
  <2>1. Sent' = [Sent EXCEPT ![c] = NoRtp]
    BY <1>3, <1>5 DEF Sent
  <2> QED BY <1>2, <2>1 DEF Log!Next, Log!Leave, Sent
<1>6. CASE Joins(c) /\ Reading(c)'
  <2>1. Sent' = [Sent EXCEPT ![c] = next - 1]
    BY <1>3, <1>6 DEF Sent, Joins
  <2> QED BY <1>2, <2>1 DEF Log!Next, Log!Join, Sent
<1> QED BY <1>1, <1>4, <1>5, <1>6

LEMMA LogStep ==
  ASSUME IInv, [Next]_vars
  PROVE  [Log!Next]_(Log!vars)
<1>1. CASE \E n \in 1 .. MaxReserve : TxStart(n)
  BY <1>1, Stutters DEF TxStart, queue, conn, Oldest, Count
<1>2. CASE TxReserve
  <2>1. /\ Count' \in {Count, Count - 1} /\ Count' \in Nat /\ Count \in Nat /\ next \in Nat
        /\ UNCHANGED <<next, state, index, last>>
    BY <1>2, ReserveStep, RingTypes DEF IInv, TxReserve, conn
  <2>2. CASE Count' = Count
    BY <2>1, <2>2, Stutters DEF Oldest
  <2>3. CASE Count' = Count - 1
    <3>1. Oldest < next /\ Oldest' = Oldest + 1
      BY <2>1, <2>3 DEF Oldest
    <3>2. Log!Discard
      BY <2>1, <3>1 DEF Log!Discard, Reading
    <3> QED BY <3>2 DEF Log!Next
  <2> QED BY <2>1, <2>2, <2>3
<1>3. CASE TxFixSlow
  <2>1. head \in Slots /\ tail \in Slots /\ NoRtp \notin Slots
    BY RingTypes, NoRtpAssumption DEF IInv, Slots
  <2>2. /\ UNCHANGED <<head, tail, next, state, last>>
        /\ \A c \in Conns : index'[c] = NoRtp <=> index[c] = NoRtp
    BY <1>3, <2>1 DEF TxFixSlow, queue, Reading
  <2> QED BY <2>2, Stutters DEF Oldest, Count
<1>4. CASE TxPush
  <2>1. /\ Count' = Count + 1 /\ Count < NbPkts - 1 /\ Count \in Nat
        /\ next' = next + 1 /\ next \in Nat /\ UNCHANGED <<state, index, last>>
    BY <1>4, PushStep, RingTypes DEF IInv, TxPush, conn
  <2>2. next - Oldest < NbPkts - 1 /\ Oldest' = Oldest
    BY <2>1 DEF Oldest
  <2>3. Log!Append
    BY <2>1, <2>2 DEF Log!Append, Reading
  <2> QED BY <2>3 DEF Log!Next
<1>5. CASE \E k \in 0 .. MaxReserve, ok \in BOOLEAN : TxEncode(k, ok)
  BY <1>5, Stutters DEF TxEncode, conn, Oldest, Count
<1>6. CASE \E c \in Conns : Send(c) /\ pc # "reserve"
  BY <1>6, LogSend DEF Log!Next
<1>7. CASE \E c \in Conns : Request(c)
  BY <1>7, LogRequest
<1>8. CASE TxReturn
  BY <1>8, Stutters DEF TxReturn, queue, conn, Oldest, Count
<1>9. CASE UNCHANGED vars
  BY <1>9, Stutters DEF vars, queue, call, conn, Oldest, Count
<1> QED BY <1>1, <1>2, <1>3, <1>4, <1>5, <1>6, <1>7, <1>8, <1>9, Steps

-----------------------------------------------------------------------------
(* The theorems.                                                           *)

LEMMA Invariance == Spec => []IInv
  BY InitIInv, StepIInv, PTL DEF Spec

(* The variables of rtsp_tx_video and of its readers keep their types.     *)
THEOREM TypeCorrect == Spec => []TypeOK
  BY Invariance, PTL DEF IInv, RingIInv

(* However frames, failed encodings and slow readers follow each other,    *)
(* rtsp_tx_video never encodes into a slot a connection may still read,    *)
(* and the ring holds exactly the newest packets.                          *)
THEOREM RingCorrect == Spec => []RingSound
  BY Invariance, PTL DEF IInv, RingIInv

(* A playing connection is always at the oldest packet it has not been     *)
(* sent that is still there.                                               *)
THEOREM DeliveryCorrect == Spec => []Delivery
  BY Invariance, PTL DEF IInv

(* The ring with its readers implements the log with its subscribers.      *)
THEOREM Refinement == Spec => LogSpec
  BY LogInit, LogStep, Invariance, PTL DEF Spec, LogSpec, Log!Spec
=============================================================================
