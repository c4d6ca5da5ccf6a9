------------------------ MODULE UploadServer_proofs -------------------------
(***************************************************************************)
(* Proofs about UploadServer: the request table and the poll set agree in  *)
(* every reachable state, recv is called only when there is something to   *)
(* read, and no connection is closed before it was served, for any number  *)
(* of slots, any clients and any downloads.                                *)
(***************************************************************************)
EXTENDS UploadServer, WellFoundedInduction, TLAPS

Request == [done : BOOLEAN, sock : Client \cup {None, Stdin}, data : Client \cup {None},
            full : BOOLEAN, length : Chunks \cup {0}, sent : Nat, age : {"fresh", "idle", "over"}]
PollEntry == [fd : Client \cup {None}, ev : {"in", "out"}, rev : {"none", "in", "out", "other"}]
Link == [msg : {"none", "part", "page", "download", "form", "last"}, gone : {"no", "fin", "reset"}]

LEMMA Constants ==
  /\ None \notin Client /\ Stdin \notin Client /\ None # Stdin
  /\ MaxRequests \in Nat \ {0} /\ Chunks \subseteq Nat
  BY TableAssumption

LEMMA Indexes ==
  /\ Entry \subseteq Slot /\ Slot \subseteq Nat /\ Slot \subseteq 0..MaxRequests /\ None \notin Client
  /\ \A n \in 0..MaxRequests - 1 : \A i \in Nat : i < n => i \in Entry
  BY Constants DEF Entry, Slot

(* The least element of a set of numbers is one of them.                   *)
LEMMA Least ==
  ASSUME NEW S, S \subseteq Nat, S # {}
  PROVE  Min(S) \in S /\ \A x \in S : Min(S) <= x
<1> DEFINE R == {ss \in Nat \X Nat : ss[1] < ss[2]}
<1>1. IsWellFoundedOn(R, Nat)
  BY NatLessThanWellFounded DEF OpToRel
<1> HIDE DEF R
<1>2. PICK m \in S : \A x \in S : ~(<<x, m>> \in R)
  BY <1>1, WFMin
<1>3. \A x \in S : ~(x < m)
  BY <1>2 DEF R
<1>4. \A x \in S : m <= x
  BY <1>3
<1> QED BY <1>4 DEF Min
-----------------------------------------------------------------------------
(* The inductive invariant.  A slot is in use when the loop over the table *)
(* reaches it and its request is not done.                                 *)
InUse(i) == i < count /\ ~req[i].done

(* The poll set watches slots in use only, each by its own socket.         *)
Watched ==
  \A i \in Entry :
    /\ fds[i].fd # None =>
         InUse(i) /\ (fds[i].fd = req[i].sock \/ (req[i].sock = Stdin /\ fds[i].fd \in evicted))
    /\ fds[i].rev # "none" => InUse(i)
    /\ i >= count => fds[i] = Unused

(* A slot not in use holds nothing; one in use a socket, and at most the   *)
(* file of that connection.                                                *)
Held ==
  /\ \A i \in Slot : InUse(i) => req[i].sock # None
  /\ \A i \in Slot : ~InUse(i) => req[i].sock \notin Client /\ req[i].data = None
  /\ \A i \in Slot : req[i].data \in {None, req[i].sock}
  /\ \A i, j \in Slot : req[i].sock = req[j].sock /\ req[i].sock \in Client => i = j

(* What is open is in a slot, or was lost with one.                        *)
Descriptors ==
  /\ \A c \in Client : where[c] = "open" /\ c \notin evicted <=> \E i \in Slot : req[i].sock = c
  /\ \A c \in Client : c \in files \ evicted <=> \E i \in Slot : req[i].data = c
  /\ \A c \in evicted : where[c] = "open"

(* What poll answered still holds for the slots the call has yet to serve. *)
Ready ==
  pc = "loop" =>
    /\ idx \in Entry /\ idx < count /\ fds[idx].rev # "none"
    /\ \A i \in Entry : idx <= i /\ i # reused /\ req[i].sock \in Client =>
         /\ fds[i].rev = "in" => link[req[i].sock] # Silent
         /\ fds[i].rev = "out" => fds[i].ev = "out"

(* A slot waits until its socket is writable when a piece was sent: that   *)
(* was the last one, or the file is still open.                            *)
Pieces ==
  \A i \in Entry : fds[i].ev = "out" /\ req[i].sock \in Client =>
    IF req[i].length <= req[i].sent THEN answer[req[i].sock] = "whole"
                                    ELSE req[i].data = req[i].sock

Table == Watched /\ Held /\ Descriptors
IInv == TypeOK /\ Table /\ Ready /\ Pieces

LEMMA TypeIs ==
  TypeOK => /\ req \in [Slot -> Request] /\ fds \in [Entry -> PollEntry]
            /\ link \in [Client -> Link] /\ count \in Nat /\ count \in 0..MaxRequests - 1
            /\ idx \in Nat
  BY Constants DEF TypeOK, Request, PollEntry, Link

(* The records, field by field.                                            *)
LEMMA RequestIs ==
  \A r \in Request :
    /\ r.done \in BOOLEAN /\ r.sock \in Client \cup {None, Stdin} /\ r.data \in Client \cup {None}
    /\ r.full \in BOOLEAN /\ r.length \in Chunks \cup {0} /\ r.length \in Nat /\ r.sent \in Nat
    /\ r.age \in {"fresh", "idle", "over"}
<1>1. Chunks \cup {0} \subseteq Nat
  BY Constants
<1> QED BY <1>1 DEF Request

LEMMA EntryIs ==
  \A e \in PollEntry : e.fd \in Client \cup {None} /\ e.ev \in {"in", "out"}
                       /\ e.rev \in {"none", "in", "out", "other"}
  BY DEF PollEntry

LEMMA EmptyIs == Empty \in Request /\ Unused \in PollEntry /\ Silent \in Link
  BY Constants DEF Empty, Unused, Silent, Request, PollEntry, Link

(* The invariant gives the two properties about the table.                 *)
LEMMA TableIs == TypeOK /\ Table => TableInv
<1> SUFFICES ASSUME TypeOK, Table PROVE TableInv
  OBVIOUS
<1>1. /\ req \in [Slot -> Request] /\ fds \in [Entry -> PollEntry] /\ count \in Nat
      /\ Entry \subseteq Slot /\ Slot \subseteq Nat
      /\ files \subseteq Client /\ evicted \subseteq Client /\ where \in [Client -> {"new", "queued", "open", "closed"}]
  BY TypeIs, Indexes DEF TypeOK
<1>2. \A i \in Slot : i \in Live <=> InUse(i)
  BY <1>1 DEF Live, InUse
<1>3. \A i \in Live : i \in Slot
  BY TypeIs, Constants DEF Live, Slot
<1>4. \A i \in Slot : req[i] \in Request
  BY <1>1
<1> HIDE DEF Live
<1>5. \A i \in Entry : fds[i].fd # None =>
        i \in Live /\ (fds[i].fd = req[i].sock \/ (req[i].sock = Stdin /\ fds[i].fd \in evicted))
  BY <1>1, <1>2 DEF Table, Watched
<1>6. \A i \in Entry : i >= count => fds[i] = Unused
  BY DEF Table, Watched
<1>7. \A i \in Slot : req[i].sock \in Client => i \in Live
  BY <1>2 DEF Table, Held
<1>8. \A i, j \in Live : req[i].sock = req[j].sock => i = j \/ req[i].sock = Stdin
  BY <1>2, <1>3, <1>4, RequestIs DEF Table, Held
<1>9. {c \in Client : where[c] = "open"} \ evicted = {req[i].sock : i \in Live} \ {Stdin}
  <2>1. ASSUME NEW c, c \in {req[i].sock : i \in Live} \ {Stdin}
        PROVE  c \in Client /\ where[c] = "open" /\ c \notin evicted
    BY <2>1, <1>2, <1>3, <1>4, RequestIs DEF Table, Held, Descriptors
  <2>2. ASSUME NEW c \in Client, where[c] = "open", c \notin evicted
        PROVE  c \in {req[i].sock : i \in Live} \ {Stdin}
    BY <2>2, <1>7, Constants DEF Table, Descriptors
  <2> QED BY <2>1, <2>2
<1>10. files \ evicted = {req[i].data : i \in Live} \ {None}
  <2>1. ASSUME NEW c, c \in {req[i].data : i \in Live} \ {None}
        PROVE  c \in files \ evicted
    BY <2>1, <1>2, <1>3, <1>4, RequestIs DEF Table, Held, Descriptors
  <2>2. ASSUME NEW c \in files \ evicted
        PROVE  c \in {req[i].data : i \in Live} \ {None}
    <3>1. PICK i \in Slot : req[i].data = c
      BY <1>1 DEF Table, Descriptors
    <3> QED BY <3>1, <1>1, <1>2, Constants DEF Table, Held
  <2> QED BY <2>1, <2>2
<1>11. \A c \in evicted : where[c] = "open"
  BY DEF Table, Descriptors
<1> QED BY <1>5, <1>6, <1>7, <1>8, <1>9, <1>10, <1>11 DEF TableInv

LEMMA ReadyIs == TypeOK /\ Ready => RecvReady
<1> SUFFICES ASSUME TypeOK, Ready PROVE RecvReady
  OBVIOUS
<1>1. idx \in Nat
  BY TypeIs
<1> QED BY <1>1 DEF Ready, RecvReady, At

LEMMA Start == Init => IInv
<1> SUFFICES ASSUME Init PROVE IInv
  OBVIOUS
<1>1. \A i \in Slot : req[i] = Empty
  BY DEF Init
<1>2. \A i \in Entry : fds[i] = Unused
  BY DEF Init
<1>3. TypeOK
  BY Constants DEF Init, TypeOK, Silent, Empty, Unused, Slot
<1>4. Watched
  BY <1>2 DEF Watched, Unused
<1>5. Held
  BY <1>1, Constants DEF Held, Init, InUse, Empty, Slot
<1>6. Descriptors
  BY <1>1, Constants DEF Descriptors, Init, Empty
<1>7. Ready /\ Pieces
  BY <1>2, Constants DEF Ready, Pieces, Init, Unused
<1> QED BY <1>3, <1>4, <1>5, <1>6, <1>7 DEF IInv, Table

-----------------------------------------------------------------------------
(* The loop over the slots goes on at a slot that poll found something at. *)
LEMMA GoOnIs ==
  ASSUME NEW i \in Nat, NEW over \in Slot \cup {None}, count' \in 0..MaxRequests - 1, GoOn(i, over)
  PROVE  /\ pc' \in {"poll", "loop"} /\ idx' \in 0..MaxRequests /\ reused' \in Slot \cup {None}
         /\ pc' = "loop" => /\ idx' \in Entry /\ i <= idx' /\ idx' < count'
                            /\ fds'[idx'].rev # "none" /\ reused' = over
<1> DEFINE found == {j \in Entry : i <= j /\ j < count' /\ fds'[j].rev # "none"}
<1>1. CASE found = {}
  BY <1>1, Constants DEF GoOn
<1>2. CASE found # {}
  <2>1. found \subseteq Nat
    BY Indexes
  <2>2. Min(found) \in found
    BY <1>2, <2>1, Least
  <2>3. pc' = "loop" /\ idx' = Min(found) /\ reused' = over
    BY <1>2 DEF GoOn
  <2> QED BY <2>2, <2>3, Indexes
<1> QED BY <1>1, <1>2

(* Everything but pc, idx and reused.                                      *)
Types ==
  /\ where \in [Client -> {"new", "queued", "open", "closed"}]
  /\ link \in [Client -> Link] /\ answer \in [Client -> {"none", "part", "whole"}]
  /\ req \in [Slot -> Request] /\ fds \in [Entry -> PollEntry]
  /\ count \in 0..MaxRequests - 1 /\ files \subseteq Client /\ evicted \subseteq Client

LEMMA TypesIs ==
  TypeOK <=> Types /\ pc \in {"poll", "loop"} /\ idx \in 0..MaxRequests /\ reused \in Slot \cup {None}
  BY DEF TypeOK, Types, Request, PollEntry, Link

(* What serving the slot idx leaves alone.                                 *)
OnlyHere ==
  /\ \A j \in Entry : j # idx => fds'[j] = fds[j]
  /\ \A j \in Slot : j # idx => req'[j] = req[j]
  /\ \A c \in Client : c # req[idx].sock =>
       link'[c] = link[c] /\ answer'[c] = answer[c] /\ where'[c] = where[c] /\ (c \in files' <=> c \in files)
  /\ evicted' = evicted

LEMMA Apart ==
  ASSUME TypeOK, Held, idx \in Entry
  PROVE  \A j \in Slot : j # idx /\ req[j].sock \in Client => req[j].sock # req[idx].sock
  BY Indexes DEF Held

LEMMA ServedReady ==
  ASSUME TypeOK, Held, Ready, pc = "loop", OnlyHere, Types', GoOn(idx + 1, reused)
  PROVE  TypeOK' /\ Ready'
<1>1. /\ idx \in Nat /\ idx + 1 \in Nat /\ reused \in Slot \cup {None} /\ count' \in 0..MaxRequests - 1
      /\ idx \in Entry /\ Entry \subseteq Slot /\ Entry \subseteq Nat
  BY TypeIs, Indexes DEF TypeOK, Types, Ready
<1>2. /\ pc' \in {"poll", "loop"} /\ idx' \in 0..MaxRequests /\ reused' \in Slot \cup {None}
      /\ pc' = "loop" => /\ idx' \in Entry /\ idx + 1 <= idx' /\ idx' < count'
                         /\ fds'[idx'].rev # "none" /\ reused' = reused
  BY <1>1, GoOnIs
<1>3. TypeOK'
  <2>1. Types' /\ pc' \in {"poll", "loop"} /\ idx' \in 0..MaxRequests /\ reused' \in Slot \cup {None}
    BY <1>2
  <2> QED BY <2>1 DEF TypeOK, Types, Request, PollEntry, Link
<1>4. ASSUME pc' = "loop", NEW i \in Entry, idx' <= i, i # reused', req'[i].sock \in Client
      PROVE  /\ fds'[i].rev = "in" => link'[req'[i].sock] # Silent
             /\ fds'[i].rev = "out" => fds'[i].ev = "out"
  <2>1. i # idx /\ idx <= i /\ i # reused /\ i \in Slot
    BY <1>1, <1>2, <1>4
  <2>2. req'[i] = req[i] /\ fds'[i] = fds[i] /\ link'[req[i].sock] = link[req[i].sock]
    BY <1>1, <1>4, <2>1, Apart DEF OnlyHere
  <2> QED BY <1>4, <2>1, <2>2 DEF Ready
<1> QED BY <1>2, <1>3, <1>4 DEF Ready

(* The slot is cleaned.                                                    *)
LEMMA Cleaned ==
  ASSUME TypeOK, Table, Pieces, idx \in Entry, InUse(idx), OnlyHere, Types',
         req'[idx] = [Empty EXCEPT !.done = TRUE], fds'[idx] = Unused,
         count' = IF idx + 1 = count THEN count - 1 ELSE count,
         \A c \in Client : c = req[idx].sock => where'[c] = "closed" /\ c \notin files'
  PROVE  Table' /\ Pieces'
<1>1. /\ req'[idx].done /\ req'[idx].sock = None /\ req'[idx].data = None
      /\ fds'[idx].fd = None /\ fds'[idx].rev = "none" /\ fds'[idx].ev = "in"
  BY DEF Empty, Unused
<1>2. /\ idx \in Slot /\ Entry \subseteq Slot /\ Slot \subseteq Nat /\ count \in Nat /\ idx < count
      /\ None \notin Client /\ req \in [Slot -> Request]
  BY Indexes, TypeIs DEF InUse
<1>3. \A j \in Slot : InUse(j)' <=> InUse(j) /\ j # idx
  <2>1. ASSUME NEW j \in Slot, j # idx PROVE InUse(j)' <=> InUse(j)
    BY <1>2, <2>1 DEF OnlyHere, InUse
  <2> QED BY <1>1, <2>1 DEF InUse
<1>4. Watched'
  <2>1. ASSUME NEW i \in Entry, i >= count' PROVE fds'[i] = Unused
    BY <1>2, <2>1 DEF Table, Watched, OnlyHere
  <2>2. \A i \in Entry : i # idx => fds'[i] = fds[i] /\ req'[i] = req[i]
    BY <1>2 DEF OnlyHere
  <2> QED BY <1>1, <1>2, <1>3, <2>1, <2>2 DEF Table, Watched, OnlyHere
<1>10. \A j \in Slot : j # idx => req'[j] = req[j]
  BY DEF OnlyHere
<1>11. \A j \in Slot : j # idx /\ req[j].sock \in Client => req[j].sock # req[idx].sock
  BY Apart DEF Table
<1>12. \A j \in Slot : req[j].data \in {None, req[j].sock} /\ req[j].data \in Client \cup {None}
  BY <1>2, RequestIs DEF Table, Held
<1>5. Held'
  <2>1. \A i \in Slot : InUse(i)' => req'[i].sock # None
    BY <1>3, <1>10 DEF Table, Held
  <2>2. ASSUME NEW i \in Slot, ~InUse(i)'
        PROVE  req'[i].sock \notin Client /\ req'[i].data = None
    <3>1. CASE i = idx
      BY <1>1, <1>2, <3>1
    <3>2. CASE i # idx
      BY <1>3, <1>10, <2>2, <3>2 DEF Table, Held
    <3> QED BY <3>1, <3>2
  <2>3. \A i \in Slot : req'[i].data \in {None, req'[i].sock}
    BY <1>1, <1>10, <1>12
  <2>4. ASSUME NEW i \in Slot, NEW j \in Slot,
               req'[i].sock = req'[j].sock, req'[i].sock \in Client
        PROVE  i = j
    <3>0. req'[idx].sock \notin Client
      BY <1>1, <1>2
    <3>1. i # idx /\ j # idx
      BY <2>4, <3>0
    <3> QED BY <1>10, <2>4, <3>1 DEF Table, Held
  <2> QED BY <2>1, <2>2, <2>3, <2>4 DEF Held
<1>6. Descriptors'
  <2>1. ASSUME NEW c \in Client, c # req[idx].sock
        PROVE  /\ (\E i \in Slot : req'[i].sock = c) <=> (\E i \in Slot : req[i].sock = c)
               /\ (\E i \in Slot : req'[i].data = c) <=> (\E i \in Slot : req[i].data = c)
    <3>1. req[idx].data # c /\ req'[idx].data # c /\ req'[idx].sock # c
      BY <1>1, <1>2, <1>12, <2>1
    <3> QED BY <1>10, <2>1, <3>1
  <2>2. ASSUME NEW c \in Client, c = req[idx].sock
        PROVE  (\A i \in Slot : req'[i].sock # c /\ req'[i].data # c) /\ c \notin evicted
    <3>1. c \notin evicted
      BY <1>2, <2>2 DEF Table, Descriptors
    <3>2. ASSUME NEW i \in Slot, i # idx PROVE req[i].sock # c /\ req[i].data # c
      BY <1>2, <1>11, <1>12, <2>2, <3>2
    <3>3. req'[idx].sock # c /\ req'[idx].data # c
      BY <1>1, <1>2, <2>2
    <3> QED BY <1>10, <3>1, <3>2, <3>3
  <2>3. evicted \subseteq Client
    BY DEF TypeOK
  <2> QED BY <2>1, <2>2, <2>3 DEF OnlyHere, Table, Descriptors
<1>7. Pieces'
  BY <1>1, <1>2, Apart DEF Pieces, OnlyHere, Table
<1> QED BY <1>4, <1>5, <1>6, <1>7 DEF Table

(* The slot stays in use.                                                  *)
LEMMA Kept ==
  ASSUME TypeOK, Table, Pieces, idx \in Entry, InUse(idx), OnlyHere, Types',
         count' = count, where' = where,
         ~req'[idx].done, req'[idx].sock = req[idx].sock, req'[idx].data \in {None, req[idx].sock},
         fds'[idx].fd \in {None, fds[idx].fd},
         \A c \in Client : c = req[idx].sock => (c \in files' <=> req'[idx].data = c),
         fds'[idx].ev = "out" /\ req[idx].sock \in Client =>
           IF req'[idx].length <= req'[idx].sent THEN answer'[req[idx].sock] = "whole"
                                                 ELSE req'[idx].data = req[idx].sock
  PROVE  Table' /\ Pieces'
<1>1. /\ idx \in Slot /\ Entry \subseteq Slot /\ Slot \subseteq Nat /\ count \in Nat /\ idx < count
      /\ None \notin Client /\ Stdin \notin Client
      /\ req \in [Slot -> Request] /\ req' \in [Slot -> Request]
  BY Indexes, Constants, TypeIs DEF InUse, Types
<1>2. \A j \in Slot : InUse(j)' <=> InUse(j)
  BY DEF OnlyHere, InUse
<1>3. req'[idx].data \in Client \cup {None}
  BY <1>1, RequestIs
<1>4. \A i \in Slot : req'[i].sock = req[i].sock
  BY DEF OnlyHere
<1>5. Watched'
  <2>1. \A i \in Entry : i # idx => fds'[i] = fds[i]
    BY DEF OnlyHere
  <2>2. \A i \in Entry : i >= count => i # idx
    BY <1>1
  <2> QED BY <1>1, <1>2, <1>4, <2>1, <2>2 DEF Table, Watched, OnlyHere
<1>6. Held'
  <2>1. \A i \in Slot : i # idx => req'[i].data = req[i].data
    BY DEF OnlyHere
  <2> QED BY <1>1, <1>2, <1>4, <2>1 DEF Table, Held
<1>7. Descriptors'
  <2>1. ASSUME NEW c \in Client, c # req[idx].sock
        PROVE  (\E i \in Slot : req'[i].data = c) <=> (\E i \in Slot : req[i].data = c)
    BY <1>1, <2>1 DEF OnlyHere, Table, Held
  <2>2. ASSUME NEW c \in Client, c = req[idx].sock
        PROVE  /\ (\E i \in Slot : req'[i].data = c) <=> req'[idx].data = c
               /\ c \notin evicted
    BY <1>1, <2>2 DEF OnlyHere, Table, Held, Descriptors
  <2>3. \A c \in Client : (\E i \in Slot : req'[i].sock = c) <=> (\E i \in Slot : req[i].sock = c)
    BY <1>4
  <2>4. evicted \subseteq Client
    BY DEF TypeOK
  <2> QED BY <2>1, <2>2, <2>3, <2>4 DEF OnlyHere, Table, Descriptors
<1>8. Pieces'
  BY <1>1, <1>4, Apart DEF Pieces, OnlyHere, Table
<1> QED BY <1>5, <1>6, <1>7, <1>8 DEF Table

-----------------------------------------------------------------------------
(* Serving a slot.                                                         *)
LEMMA Here ==
  ASSUME IInv, NEW rev, At(rev), rev # "none"
  PROVE  /\ TypeOK /\ Table /\ Pieces /\ Ready /\ Held /\ pc = "loop" /\ idx \in Entry /\ idx \in Slot
         /\ InUse(idx) /\ fds[idx].rev = rev /\ req[idx] \in Request /\ fds[idx] \in PollEntry
         /\ ~req[idx].done /\ idx < count
         /\ req[idx].data \in {None, req[idx].sock}
         /\ (\A c \in Client : c = req[idx].sock => where[c] = "open" /\ c \notin evicted
               /\ (c \in files <=> req[idx].data = c))
<1>1. TypeOK /\ Table /\ Pieces /\ Ready /\ pc = "loop" /\ Held /\ Watched /\ Descriptors
  BY DEF IInv, Table, At
<1>2. idx \in Entry /\ fds[idx].rev = rev /\ idx \in Slot
  BY <1>1, Indexes DEF Ready, At
<1>3. InUse(idx)
  BY <1>1, <1>2 DEF Watched
<1>4. req[idx] \in Request /\ fds[idx] \in PollEntry /\ req \in [Slot -> Request] /\ None \notin Client
  BY <1>1, <1>2, TypeIs, Constants
<1>5. ~req[idx].done /\ idx < count /\ req[idx].data \in {None, req[idx].sock}
  BY <1>1, <1>2, <1>3 DEF InUse, Held
<1>6. ASSUME NEW c \in Client, c = req[idx].sock
      PROVE  where[c] = "open" /\ c \notin evicted /\ (c \in files <=> req[idx].data = c)
  <2>1. where[c] = "open" /\ c \notin evicted
    BY <1>1, <1>2, <1>6 DEF Descriptors
  <2>2. c \in files <=> \E i \in Slot : req[i].data = c
    BY <1>1, <2>1 DEF Descriptors
  <2>3. \A i \in Slot : req[i].data = c => i = idx
    BY <1>1, <1>2, <1>4, <1>6 DEF Held
  <2> QED BY <1>2, <2>1, <2>2, <2>3
<1> QED BY <1>1, <1>2, <1>3, <1>4, <1>5, <1>6

LEMMA CleanStep ==
  ASSUME IInv, NEW rev, At(rev), rev # "none", NEW how,
         req[idx].sock \in Client => how \in {"none", "part", "whole"},
         Clean(how), evicted' = evicted
  PROVE  /\ OnlyHere /\ Types' /\ Table' /\ Pieces'
         /\ \A c \in Client : where[c] = "open" /\ where'[c] = "closed" =>
              c = req[idx].sock /\ answer'[c] = how
<1> DEFINE r == req[idx]
<1>1. /\ TypeOK /\ Table /\ Pieces /\ Held /\ idx \in Entry /\ idx \in Slot /\ InUse(idx)
      /\ r \in Request /\ r.data \in {None, r.sock} /\ idx < count
      /\ \A c \in Client : c = r.sock => c \in files <=> r.data = c
  BY Here
<1>2. /\ files' = files \ {r.data}
      /\ where' = [c \in Client |-> IF c = r.sock THEN "closed" ELSE where[c]]
      /\ link' = [c \in Client |-> IF c = r.sock THEN Silent ELSE link[c]]
      /\ answer' = [c \in Client |-> IF c = r.sock THEN how ELSE answer[c]]
      /\ req' = [req EXCEPT ![idx] = [Empty EXCEPT !.done = TRUE]]
      /\ count' = IF idx + 1 = count THEN count - 1 ELSE count
      /\ fds' = [fds EXCEPT ![idx] = Unused]
  BY DEF Clean
<1>3. /\ req \in [Slot -> Request] /\ fds \in [Entry -> PollEntry] /\ link \in [Client -> Link]
      /\ where \in [Client -> {"new", "queued", "open", "closed"}]
      /\ answer \in [Client -> {"none", "part", "whole"}]
      /\ count \in 0..MaxRequests - 1 /\ files \subseteq Client /\ evicted \subseteq Client
      /\ None \notin Client /\ idx \in Nat /\ count \in Nat /\ MaxRequests \in Nat
  BY <1>1, TypeIs, Constants DEF TypeOK
<1>4. [Empty EXCEPT !.done = TRUE] \in Request
  BY Constants DEF Empty, Request
<1>5. OnlyHere
  BY <1>1, <1>2, <1>3 DEF OnlyHere
<1>6. Types'
  <2>1. req' \in [Slot -> Request]
    BY <1>2, <1>3, <1>4
  <2>2. fds' \in [Entry -> PollEntry]
    BY <1>2, <1>3, EmptyIs
  <2>3. link' \in [Client -> Link]
    BY <1>2, <1>3, EmptyIs
  <2>4. answer' \in [Client -> {"none", "part", "whole"}]
    BY <1>2, <1>3
  <2>5. count' \in 0..MaxRequests - 1
    BY <1>1, <1>2, <1>3
  <2>6. where' \in [Client -> {"new", "queued", "open", "closed"}]
    BY <1>2, <1>3
  <2> QED BY <1>2, <1>3, <2>1, <2>2, <2>3, <2>4, <2>5, <2>6 DEF Types
<1>7. req'[idx] = [Empty EXCEPT !.done = TRUE] /\ fds'[idx] = Unused
  BY <1>1, <1>2, <1>3
<1>8. \A c \in Client : c = r.sock => where'[c] = "closed" /\ c \notin files'
  BY <1>1, <1>2
<1>9. Table' /\ Pieces'
  BY <1>1, <1>2, <1>5, <1>6, <1>7, <1>8, Cleaned
<1>10. \A c \in Client : where[c] = "open" /\ where'[c] = "closed" => c = r.sock /\ answer'[c] = how
  BY <1>2
<1> QED BY <1>5, <1>6, <1>9, <1>10

LEMMA SendStep ==
  ASSUME IInv, NEW rev, At(rev), rev # "none",
         NEW r \in Request, r.sock = req[idx].sock, ~r.done, r.data \in {None, r.sock},
         NEW after \in [Client -> Link], \A c \in Client : c # r.sock => after[c] = link[c],
         SendData(r, after), evicted' = evicted
  PROVE  /\ OnlyHere /\ Types' /\ Table' /\ Pieces'
         /\ \A c \in Client : where[c] = "open" /\ where'[c] = "closed" =>
              c = req[idx].sock /\ (answer'[c] = "whole" \/ link[c].gone # "no" \/ r.data = None)
<1>1. /\ TypeOK /\ Table /\ Pieces /\ Held /\ idx \in Entry /\ idx \in Slot /\ InUse(idx)
      /\ req[idx] \in Request /\ idx < count
  BY Here
<1>3. /\ req \in [Slot -> Request] /\ fds \in [Entry -> PollEntry] /\ link \in [Client -> Link]
      /\ where \in [Client -> {"new", "queued", "open", "closed"}]
      /\ answer \in [Client -> {"none", "part", "whole"}]
      /\ count \in 0..MaxRequests - 1 /\ files \subseteq Client /\ evicted \subseteq Client
      /\ None \notin Client /\ Stdin \notin Client
  BY <1>1, TypeIs, Constants DEF TypeOK
<1>4. CASE /\ r.data = None \/ r.length = 0 \/ link[r.sock].gone = "reset"
           /\ Clean(IF r.length = 0 THEN "whole" ELSE answer[r.sock])
  <2> DEFINE how == IF r.length = 0 THEN "whole" ELSE answer[r.sock]
  <2>1. req[idx].sock \in Client => how \in {"none", "part", "whole"}
    BY <1>3
  <2> HIDE DEF how
  <2>2. /\ OnlyHere /\ Types' /\ Table' /\ Pieces'
        /\ \A c \in Client : where[c] = "open" /\ where'[c] = "closed" =>
             c = req[idx].sock /\ answer'[c] = how
    BY <1>4, <2>1, CleanStep DEF how
  <2> QED BY <1>4, <2>2 DEF how
<1>5. CASE /\ r.data # None /\ r.length > 0 /\ link[r.sock].gone # "reset"
           /\ LET all == r.sent + 1 >= r.length IN
              /\ req' = [req EXCEPT ![idx] = [r EXCEPT !.sent = r.sent + 1, !.data = IF all THEN None ELSE r.data]]
              /\ files' = IF all THEN files \ {r.data} ELSE files \cup {r.data}
              /\ answer' = [answer EXCEPT ![r.sock] = IF all THEN "whole" ELSE "part"]
              /\ fds' = [fds EXCEPT ![idx].ev = "out"]
           /\ link' = after
           /\ UNCHANGED <<where, count>>
  <2> DEFINE all == r.sent + 1 >= r.length
             q == [r EXCEPT !.sent = r.sent + 1, !.data = IF all THEN None ELSE r.data]
  <2>1. r.sock \in Client /\ r.data = r.sock /\ r.length \in Nat /\ r.sent \in Nat
    BY <1>3, <1>5, RequestIs
  <2>2. /\ q \in Request /\ q.sock = r.sock /\ ~q.done /\ q.sent = r.sent + 1 /\ q.length = r.length
        /\ q.data = IF all THEN None ELSE r.data
    <3> DEFINE d == IF all THEN None ELSE r.data
               n == r.sent + 1
    <3>1. d \in Client \cup {None} /\ n \in Nat
      BY <2>1
    <3>2. q = [r EXCEPT !.sent = n, !.data = d]
      OBVIOUS
    <3> HIDE DEF d, n, q
    <3>3. q \in Request /\ q.sock = r.sock /\ q.done = r.done /\ q.sent = n /\ q.length = r.length
          /\ q.data = d
      BY <3>1, <3>2 DEF Request
    <3> QED BY <3>3 DEF d, n
  <2>3. /\ req' = [req EXCEPT ![idx] = q]
        /\ files' = IF all THEN files \ {r.data} ELSE files \cup {r.data}
        /\ answer' = [answer EXCEPT ![r.sock] = IF all THEN "whole" ELSE "part"]
        /\ fds' = [fds EXCEPT ![idx].ev = "out"]
        /\ link' = after /\ where' = where /\ count' = count
    BY <1>5
  <2>4. /\ all <=> q.length <= q.sent
        /\ q.data \in {None, r.sock} /\ (q.data = r.sock <=> ~all) /\ all \in BOOLEAN
    BY <1>3, <2>1, <2>2
  <2> HIDE DEF q, all
  <2>5. OnlyHere
    BY <1>1, <1>3, <2>1, <2>3 DEF OnlyHere
  <2>6. fds'[idx].fd = fds[idx].fd /\ req'[idx] = q /\ fds' \in [Entry -> PollEntry]
    BY <1>1, <1>3, <2>3 DEF PollEntry
  <2>7. Types'
    <3>1. req' \in [Slot -> Request]
      BY <1>3, <2>2, <2>3
    <3>2. answer' \in [Client -> {"none", "part", "whole"}]
      BY <1>3, <2>3
    <3>3. files' \subseteq Client
      BY <1>3, <2>1, <2>3
    <3> QED BY <1>3, <2>3, <2>6, <3>1, <3>2, <3>3 DEF Types
  <2>8. answer'[r.sock] = IF all THEN "whole" ELSE "part"
    BY <1>3, <2>1, <2>3
  <2>9. \A c \in Client : c = req[idx].sock => (c \in files' <=> req'[idx].data = c)
    BY <2>1, <2>3, <2>4, <2>6
  <2>10. Table' /\ Pieces'
    BY <1>1, <2>1, <2>2, <2>3, <2>4, <2>5, <2>6, <2>7, <2>8, <2>9, Kept
  <2> QED BY <2>3, <2>5, <2>7, <2>10
<1> QED BY <1>4, <1>5 DEF SendData

(* A slot that only receives, or is switched off.                          *)
LEMMA KeptStep ==
  ASSUME IInv, NEW rev, At(rev), rev # "none",
         NEW r \in Request, req' = [req EXCEPT ![idx] = r],
         r.sock = req[idx].sock, ~r.done, r.length = req[idx].length, r.sent = req[idx].sent,
         r.data \in {req[idx].data, req[idx].sock}, r.data \in Client \cup {None},
         files' = IF r.data = None THEN files ELSE files \cup {r.data},
         NEW e \in PollEntry, fds' = [fds EXCEPT ![idx] = e], e.fd \in {None, fds[idx].fd},
         e.ev \in {"in", fds[idx].ev},
         link' \in [Client -> Link], \A c \in Client : c # req[idx].sock => link'[c] = link[c],
         UNCHANGED <<where, answer, count, evicted>>
  PROVE  OnlyHere /\ Types' /\ Table' /\ Pieces'
<1>1. /\ TypeOK /\ Table /\ Pieces /\ Held /\ idx \in Entry /\ idx \in Slot /\ InUse(idx)
      /\ req[idx] \in Request /\ req[idx].data \in {None, req[idx].sock}
      /\ \A c \in Client : c = req[idx].sock => (c \in files <=> req[idx].data = c)
  BY Here
<1>2. /\ req \in [Slot -> Request] /\ fds \in [Entry -> PollEntry]
      /\ where \in [Client -> {"new", "queued", "open", "closed"}]
      /\ answer \in [Client -> {"none", "part", "whole"}]
      /\ count \in 0..MaxRequests - 1 /\ files \subseteq Client /\ evicted \subseteq Client
      /\ None \notin Client /\ Stdin \notin Client
  BY <1>1, TypeIs, Constants DEF TypeOK
<1>3. req'[idx] = r /\ fds'[idx] = e
  BY <1>1, <1>2
<1>4. r.data \in {None, req[idx].sock}
  BY <1>1
<1>5. \A c \in Client : c # req[idx].sock => (c \in files' <=> c \in files)
  BY <1>1, <1>2
<1>6. OnlyHere
  BY <1>1, <1>2, <1>5 DEF OnlyHere
<1>7. Types'
  <2>1. req' \in [Slot -> Request] /\ fds' \in [Entry -> PollEntry] /\ files' \subseteq Client
    BY <1>2
  <2> QED BY <1>2, <2>1 DEF Types
<1>8. \A c \in Client : c = req[idx].sock => (c \in files' <=> req'[idx].data = c)
  BY <1>1, <1>2, <1>3, <1>4
<1>9. fds'[idx].ev = "out" /\ req[idx].sock \in Client =>
        IF req'[idx].length <= req'[idx].sent THEN answer'[req[idx].sock] = "whole"
                                              ELSE req'[idx].data = req[idx].sock
  BY <1>1, <1>3 DEF Pieces
<1> QED BY <1>1, <1>3, <1>4, <1>6, <1>7, <1>8, <1>9, Kept

(* A connection is closed when it was served, its client has left or sent  *)
(* too much, or it came in this call into a slot taken over.               *)
Closing ==
  \A c \in Client : where[c] = "open" /\ where'[c] = "closed"
    => answer'[c] = "whole" \/ link[c].gone # "no" \/ req[idx].full \/ idx = reused

LEMMA ActiveIs ==
  \A r \in Request : /\ Active(r) \in Request /\ Active(r).sock = r.sock /\ Active(r).done = r.done
                     /\ Active(r).data = r.data /\ Active(r).length = r.length /\ Active(r).sent = r.sent
  BY DEF Active, Request

LEMMA RestIs ==
  ASSUME TypeOK, NEW c \in Client
  PROVE  [link EXCEPT ![c].msg = "none"] \in [Client -> Link]
  BY TypeIs DEF Link

LEMMA ServeStep == IInv /\ Serve => IInv' /\ Closing
<1> SUFFICES ASSUME IInv, Serve PROVE IInv' /\ Closing
  OBVIOUS
<1> USE DEF Advance
<1>t. /\ link \in [Client -> Link] /\ answer \in [Client -> {"none", "part", "whole"}]
      /\ None \notin Client /\ Stdin \notin Client /\ TypeOK
  BY TypeIs, Constants DEF IInv, TypeOK
<1>a. req[idx].sock \in Client => Answered = answer[req[idx].sock] /\ Answered \in {"none", "part", "whole"}
  BY <1>t DEF Answered
<1>g. ASSUME Held, Ready, pc = "loop", OnlyHere, Types', Table', Pieces', GoOn(idx + 1, reused)
      PROVE  IInv'
  <2>1. TypeOK' /\ Ready'
    BY <1>t, <1>g, ServedReady
  <2> QED BY <1>g, <2>1 DEF IInv
<1>1. CASE Writable
  <2>1. At("out")
    BY <1>1 DEF Writable
  <2>2. /\ Ready /\ Pieces /\ Held /\ pc = "loop" /\ idx \in Entry /\ req[idx] \in Request /\ fds[idx].rev = "out"
        /\ ~req[idx].done /\ req[idx].data \in {None, req[idx].sock} /\ idx \in Nat
    BY <2>1, Here, Indexes
  <2>3. ASSUME idx # reused, req[idx].sock \in Client PROVE fds[idx].ev = "out"
    BY <2>2, <2>3 DEF Ready
  <2>4. CASE req[idx].length <= req[idx].sent
    <3>1. Clean(Answered) /\ evicted' = evicted /\ GoOn(idx + 1, reused)
      BY <1>1, <2>4 DEF Writable
    <3>2. /\ OnlyHere /\ Types' /\ Table' /\ Pieces'
          /\ \A c \in Client : where[c] = "open" /\ where'[c] = "closed" =>
               c = req[idx].sock /\ answer'[c] = Answered
      BY <1>a, <2>1, <3>1, CleanStep
    <3>3. ASSUME idx # reused, req[idx].sock \in Client PROVE Answered = "whole"
      BY <1>a, <2>2, <2>3, <2>4, <3>3 DEF Pieces
    <3>4. Closing
      BY <3>2, <3>3 DEF Closing
    <3> QED BY <1>g, <2>2, <3>1, <3>2, <3>4
  <2>5. CASE ~(req[idx].length <= req[idx].sent)
    <3> DEFINE r == Active(req[idx])
    <3>1. SendData(r, link) /\ evicted' = evicted /\ GoOn(idx + 1, reused)
      BY <1>1, <2>5 DEF Writable
    <3>2. r \in Request /\ r.sock = req[idx].sock /\ ~r.done /\ r.data = req[idx].data
      BY <2>2, ActiveIs
    <3> HIDE DEF r
    <3>3. /\ OnlyHere /\ Types' /\ Table' /\ Pieces'
          /\ \A c \in Client : where[c] = "open" /\ where'[c] = "closed" =>
               c = req[idx].sock /\ (answer'[c] = "whole" \/ link[c].gone # "no" \/ r.data = None)
      BY <1>t, <2>1, <2>2, <3>1, <3>2, SendStep
    <3>4. ASSUME idx # reused, req[idx].sock \in Client PROVE r.data # None
      BY <1>t, <2>2, <2>3, <2>5, <3>2, <3>4 DEF Pieces
    <3>5. Closing
      BY <3>3, <3>4 DEF Closing
    <3> QED BY <1>g, <2>2, <3>1, <3>3, <3>5
  <2> QED BY <2>4, <2>5
<1>2. CASE OtherEvents
  <2> DEFINE e == [fds[idx] EXCEPT !.fd = None, !.ev = "in"]
  <2>1. At("other")
    BY <1>2 DEF OtherEvents
  <2>2. /\ Ready /\ Held /\ pc = "loop" /\ idx \in Slot /\ req[idx] \in Request /\ fds[idx] \in PollEntry
        /\ ~req[idx].done /\ req[idx].data \in {None, req[idx].sock}
        /\ \A c \in Client : c = req[idx].sock => (c \in files <=> req[idx].data = c)
    BY <2>1, Here
  <2>3. e \in PollEntry /\ e.fd = None /\ e.ev = "in"
    BY <2>2 DEF PollEntry
  <2>4. /\ fds' = [fds EXCEPT ![idx] = e] /\ GoOn(idx + 1, reused)
        /\ UNCHANGED <<link, where, answer, req, count, files, evicted>>
    BY <1>2 DEF OtherEvents
  <2>5. req' = [req EXCEPT ![idx] = req[idx]]
    BY <1>t, <2>2, <2>4, TypeIs
  <2>6. files' = IF req[idx].data = None THEN files ELSE files \cup {req[idx].data}
    BY <2>2, <2>4, RequestIs
  <2> HIDE DEF e
  <2>7. OnlyHere /\ Types' /\ Table' /\ Pieces'
    BY <1>t, <2>1, <2>2, <2>3, <2>4, <2>5, <2>6, RequestIs, KeptStep
  <2> QED BY <1>g, <2>2, <2>4, <2>7 DEF Closing
<1>3. CASE RecvEnd
  <2>1. At("in") /\ Clean(Answered) /\ evicted' = evicted /\ GoOn(idx + 1, reused)
    BY <1>3 DEF RecvEnd
  <2>2. /\ OnlyHere /\ Types' /\ Table' /\ Pieces'
        /\ \A c \in Client : where[c] = "open" /\ where'[c] = "closed" => c = req[idx].sock
    BY <1>a, <2>1, CleanStep
  <2>3. Closing
    BY <1>3, <1>t, <2>2 DEF Closing, RecvEnd
  <2> QED BY <1>g, <2>1, <2>2, <2>3, Here
<1>r. ASSUME NEW m, Received(m)
      PROVE  /\ At("in") /\ req[idx].sock \in Client /\ Rest \in [Client -> Link]
             /\ \A c \in Client : c # req[idx].sock => Rest[c] = link[c]
  BY <1>r, <1>t, RestIs DEF Received, Rest
<1>w. ASSUME NEW m, Received(m), Clean("whole"), evicted' = evicted, GoOn(idx + 1, reused)
      PROVE  IInv' /\ Closing
  <2>1. At("in")
    BY <1>r, <1>w
  <2>2. /\ OnlyHere /\ Types' /\ Table' /\ Pieces'
        /\ \A c \in Client : where[c] = "open" /\ where'[c] = "closed" => answer'[c] = "whole"
    BY <1>w, <2>1, CleanStep
  <2> QED BY <1>g, <1>w, <2>1, <2>2, Here DEF Closing
<1>4. ASSUME NEW m, RecvPart(m) PROVE IInv' /\ Closing
  <2>1. Received(m) /\ At("in")
    BY <1>4, <1>r DEF RecvPart
  <2>2. /\ Ready /\ Held /\ pc = "loop" /\ idx \in Slot /\ idx \in Entry /\ req[idx] \in Request
        /\ fds[idx] \in PollEntry
        /\ ~req[idx].done /\ req[idx].data \in {None, req[idx].sock}
        /\ \A c \in Client : c = req[idx].sock => (c \in files <=> req[idx].data = c)
    BY <2>1, Here
  <2> DEFINE r == Active(req[idx])
  <2>3. /\ r \in Request /\ r.sock = req[idx].sock /\ ~r.done /\ r.data = req[idx].data
        /\ r.length = req[idx].length /\ r.sent = req[idx].sent
    BY <2>2, ActiveIs
  <2>4. /\ link' = Rest /\ req' = [req EXCEPT ![idx] = r] /\ GoOn(idx + 1, reused)
        /\ UNCHANGED <<where, answer, fds, count, files, evicted>>
    BY <1>4 DEF RecvPart
  <2> HIDE DEF r
  <2>5. files' = IF r.data = None THEN files ELSE files \cup {r.data}
    BY <2>2, <2>3, <2>4, RequestIs
  <2>6. fds' = [fds EXCEPT ![idx] = fds[idx]]
    BY <1>t, <2>2, <2>4, TypeIs
  <2>7. OnlyHere /\ Types' /\ Table' /\ Pieces'
    BY <1>r, <2>1, <2>2, <2>3, <2>4, <2>5, <2>6, RequestIs, KeptStep
  <2> QED BY <1>g, <2>2, <2>4, <2>7 DEF Closing
<1>9. ASSUME NEW m, RecvFills(m) PROVE IInv' /\ Closing
  <2>1. Received(m) /\ At("in")
    BY <1>9, <1>r DEF RecvFills
  <2>2. /\ Ready /\ Held /\ pc = "loop" /\ idx \in Slot /\ idx \in Entry /\ req[idx] \in Request
        /\ fds[idx] \in PollEntry
        /\ ~req[idx].done /\ req[idx].data = None
    BY <1>9, <2>1, Here DEF RecvFills
  <2> DEFINE r == [Active(req[idx]) EXCEPT !.full = TRUE]
  <2>3. /\ r \in Request /\ r.sock = req[idx].sock /\ ~r.done /\ r.data = req[idx].data
        /\ r.length = req[idx].length /\ r.sent = req[idx].sent
    BY <2>2, ActiveIs DEF Request
  <2>4. /\ link' \in {link, Rest} /\ req' = [req EXCEPT ![idx] = r] /\ GoOn(idx + 1, reused)
        /\ UNCHANGED <<where, answer, fds, count, files, evicted>>
    BY <1>9 DEF RecvFills
  <2> HIDE DEF r
  <2>5. files' = IF r.data = None THEN files ELSE files \cup {r.data}
    BY <2>2, <2>3, <2>4
  <2>6. fds' = [fds EXCEPT ![idx] = fds[idx]]
    BY <1>t, <2>2, <2>4, TypeIs
  <2>7. link' \in [Client -> Link] /\ \A c \in Client : c # req[idx].sock => link'[c] = link[c]
    BY <1>r, <1>t, <2>1, <2>4
  <2>8. OnlyHere /\ Types' /\ Table' /\ Pieces'
    BY <2>1, <2>2, <2>3, <2>4, <2>5, <2>6, <2>7, RequestIs, KeptStep
  <2> QED BY <1>g, <2>2, <2>4, <2>8 DEF Closing
<1>5. CASE RecvForm
  <2>1. Received("form") /\ At("in")
    BY <1>5, <1>r DEF RecvForm
  <2>2. /\ Ready /\ Held /\ pc = "loop" /\ idx \in Slot /\ idx \in Entry /\ req[idx] \in Request
        /\ fds[idx] \in PollEntry /\ ~req[idx].done
        /\ req[idx].sock \in Client
    BY <1>r, <2>1, Here
  <2> DEFINE r == [Active(req[idx]) EXCEPT !.data = req[idx].sock]
  <2>3. /\ r \in Request /\ r.sock = req[idx].sock /\ ~r.done /\ r.data = req[idx].sock
        /\ r.length = req[idx].length /\ r.sent = req[idx].sent
    BY <2>2, ActiveIs DEF Request
  <2>4. /\ link' = Rest /\ req' = [req EXCEPT ![idx] = r] /\ GoOn(idx + 1, reused)
        /\ files' = files \cup {req[idx].sock}
        /\ UNCHANGED <<where, answer, fds, count, evicted>>
    BY <1>5 DEF RecvForm
  <2> HIDE DEF r
  <2>5. files' = IF r.data = None THEN files ELSE files \cup {r.data}
    BY <1>t, <2>2, <2>3, <2>4
  <2>6. fds' = [fds EXCEPT ![idx] = fds[idx]]
    BY <1>t, <2>2, <2>4, TypeIs
  <2>7. OnlyHere /\ Types' /\ Table' /\ Pieces'
    BY <1>r, <2>1, <2>2, <2>3, <2>4, <2>5, <2>6, RequestIs, KeptStep
  <2> QED BY <1>g, <2>2, <2>4, <2>7 DEF Closing
<1>6. CASE RecvLast
  BY <1>6, <1>w DEF RecvLast
<1>7. CASE RecvPage
  BY <1>7, <1>w DEF RecvPage
<1>8. CASE RecvDownload
  <2>1. Received("download") /\ At("in") /\ evicted' = evicted /\ GoOn(idx + 1, reused)
    BY <1>8, <1>r DEF RecvDownload
  <2>2. /\ Ready /\ Held /\ pc = "loop" /\ req[idx] \in Request /\ ~req[idx].done
        /\ req[idx].sock \in Client
    BY <1>r, <2>1, Here
  <2>3. PICK n \in Chunks :
          SendData([Active(req[idx]) EXCEPT !.length = n, !.data = req[idx].sock], Rest)
    BY <1>8 DEF RecvDownload
  <2> DEFINE r == [Active(req[idx]) EXCEPT !.length = n, !.data = req[idx].sock]
  <2>4. r \in Request /\ r.sock = req[idx].sock /\ ~r.done /\ r.data = req[idx].sock
    BY <2>2, ActiveIs DEF Request
  <2> HIDE DEF r
  <2>5. /\ OnlyHere /\ Types' /\ Table' /\ Pieces'
        /\ \A c \in Client : where[c] = "open" /\ where'[c] = "closed" =>
             c = req[idx].sock /\ (answer'[c] = "whole" \/ link[c].gone # "no" \/ r.data = None)
    BY <1>r, <2>1, <2>2, <2>3, <2>4, SendStep DEF r
  <2>6. Closing
    BY <1>t, <2>2, <2>4, <2>5 DEF Closing
  <2> QED BY <1>g, <2>1, <2>2, <2>5, <2>6
<1> QED BY <1>1, <1>2, <1>3, <1>4, <1>5, <1>6, <1>7, <1>8, <1>9 DEF Serve

-----------------------------------------------------------------------------
(* The clients, and time.                                                  *)
LEMMA ClientStep ==
  ASSUME IInv, NEW c \in Client,
         \/ Connect(c) \/ \E m \in Messages(c) : Send(c, m)
         \/ Leave(c, "fin") \/ Leave(c, "reset")
  PROVE  IInv' /\ Closing
<1>1. UNCHANGED <<answer, table, pc, idx, evicted, reused>>
  BY DEF Connect, Send, Leave
<1>2. /\ TypeOK /\ Types /\ link \in [Client -> Link] /\ Entry \subseteq Slot
      /\ where \in [Client -> {"new", "queued", "open", "closed"}]
      /\ pc \in {"poll", "loop"} /\ idx \in 0..MaxRequests /\ reused \in Slot \cup {None}
  BY TypesIs, Indexes DEF IInv, Types
<1>3. /\ where' \in [Client -> {"new", "queued", "open", "closed"}]
      /\ \A d \in Client : where'[d] = where[d] \/ (where[d] = "new" /\ where'[d] = "queued")
  BY <1>2 DEF Connect, Send, Leave
<1>4. link' \in [Client -> Link] /\ \A d \in Client : link[d] # Silent => link'[d] # Silent
  <2>1. CASE Connect(c)
    BY <1>2, <2>1 DEF Connect
  <2>2. ASSUME NEW m \in Messages(c), Send(c, m)
        PROVE  link' \in [Client -> Link] /\ \A d \in Client : link[d] # Silent => link'[d] # Silent
    <3>1. m \in {"part", "page", "download", "form", "last"}
      BY TableAssumption DEF Messages, Client
    <3> QED BY <1>2, <2>2, <3>1 DEF Send, Link
  <2>3. ASSUME NEW how \in {"fin", "reset"}, Leave(c, how)
        PROVE  link' \in [Client -> Link] /\ \A d \in Client : link[d] # Silent => link'[d] # Silent
    BY <1>2, <2>3 DEF Leave, Link, Silent
  <2> QED BY <2>1, <2>2, <2>3
<1>5. TypeOK'
  <2>1. Types'
    BY <1>1, <1>2, <1>3, <1>4 DEF Types, table
  <2> QED BY <1>1, <1>2, <2>1 DEF TypeOK, Types, Request, PollEntry, Link
<1>6. Table'
  <2>1. Watched' /\ Held'
    BY <1>1 DEF IInv, Table, Watched, Held, InUse, table
  <2>2. evicted \subseteq Client
    BY <1>2 DEF Types
  <2>3. Descriptors'
    BY <1>1, <1>3, <2>2 DEF IInv, Table, Descriptors, table
  <2> QED BY <2>1, <2>3 DEF Table
<1>7. Ready' /\ Pieces'
  BY <1>1, <1>4 DEF IInv, Ready, Pieces, table
<1> QED BY <1>3, <1>5, <1>6, <1>7 DEF IInv, Closing

LEMMA AgeStep ==
  ASSUME IInv, NEW i \in Slot, NEW a \in {"idle", "over"}, Age(i, a)
  PROVE  IInv' /\ Closing
<1> DEFINE r == [req[i] EXCEPT !.age = a]
<1>1. /\ TypeOK /\ Types /\ req \in [Slot -> Request] /\ pc = "poll" /\ Entry \subseteq Slot
      /\ pc \in {"poll", "loop"} /\ idx \in 0..MaxRequests /\ reused \in Slot \cup {None}
  BY TypesIs, TypeIs, Indexes DEF IInv, Age
<1>2. /\ UNCHANGED <<where, link, answer, fds, count, files, pc, idx, evicted, reused>>
      /\ req' = [req EXCEPT ![i] = r]
  BY DEF Age, client
<1>3. /\ r \in Request /\ r.done = req[i].done /\ r.sock = req[i].sock /\ r.data = req[i].data
      /\ r.length = req[i].length /\ r.sent = req[i].sent
  BY <1>1 DEF Request
<1> HIDE DEF r
<1>4. \A j \in Slot : /\ req'[j].done = req[j].done /\ req'[j].sock = req[j].sock
                      /\ req'[j].data = req[j].data /\ req'[j].length = req[j].length
                      /\ req'[j].sent = req[j].sent
  BY <1>1, <1>2, <1>3
<1>5. TypeOK'
  <2>1. Types'
    BY <1>1, <1>2, <1>3 DEF Types
  <2> QED BY <1>1, <1>2, <2>1 DEF TypeOK, Types, Request, PollEntry, Link
<1>6. \A j \in Slot : InUse(j)' <=> InUse(j)
  BY <1>2, <1>4 DEF InUse
<1>7. Table'
  <2>1. Watched'
    BY <1>1, <1>2, <1>4, <1>6 DEF IInv, Table, Watched
  <2>2. Held'
    BY <1>2, <1>4, <1>6 DEF IInv, Table, Held
  <2>3. Descriptors'
    BY <1>2, <1>4 DEF IInv, Table, Descriptors
  <2> QED BY <2>1, <2>2, <2>3 DEF Table
<1>8. Ready' /\ Pieces'
  BY <1>1, <1>2, <1>4 DEF IInv, Ready, Pieces
<1> QED BY <1>2, <1>5, <1>7, <1>8 DEF IInv, Closing

-----------------------------------------------------------------------------
(* poll and accept.                                                        *)
LEMMA PolledIs ==
  ASSUME TypeOK, NEW f \in Polled
  PROVE  /\ f \in [Entry -> PollEntry]
         /\ \A i \in Entry : /\ f[i].fd = fds[i].fd /\ f[i].ev = fds[i].ev
                             /\ i >= count => f[i] = fds[i]
                             /\ i < count => f[i].rev \in Revents(fds[i])
<1> DEFINE In == {i \in Entry : i < count}
<1>1. PICK rev \in [In -> UNION {Revents(fds[i]) : i \in In}] :
        /\ \A i \in In : rev[i] \in Revents(fds[i])
        /\ f = [i \in Entry |-> IF i \in In THEN [fds[i] EXCEPT !.rev = rev[i]] ELSE fds[i]]
  BY DEF Polled
<1>2. fds \in [Entry -> PollEntry] /\ Entry \subseteq Nat /\ count \in Nat
  BY TypeIs, Indexes
<1>3. \A i \in Entry : Revents(fds[i]) \subseteq {"none", "in", "out", "other"}
  BY DEF Revents
<1>4. ASSUME NEW i \in Entry, i < count
      PROVE  /\ f[i] \in PollEntry /\ f[i].fd = fds[i].fd /\ f[i].ev = fds[i].ev
             /\ f[i].rev \in Revents(fds[i])
  <2> DEFINE v == rev[i]
  <2>1. v \in Revents(fds[i]) /\ v \in {"none", "in", "out", "other"} /\ fds[i] \in PollEntry
    BY <1>1, <1>2, <1>3, <1>4
  <2>2. f[i] = [fds[i] EXCEPT !.rev = v]
    BY <1>1, <1>4
  <2> HIDE DEF v
  <2> QED BY <2>1, <2>2 DEF PollEntry
<1>5. ASSUME NEW i \in Entry, ~(i < count) PROVE f[i] = fds[i]
  BY <1>1, <1>5
<1>6. f \in [Entry -> PollEntry]
  <2>1. \A i \in Entry : f[i] \in PollEntry
    BY <1>2, <1>4, <1>5
  <2>2. f = [i \in Entry |-> f[i]]
    BY <1>1
  <2> QED BY <2>1, <2>2
<1> QED BY <1>2, <1>4, <1>5, <1>6

(* What poll finds at an entry is about the socket of its own slot.        *)
LEMMA Found ==
  ASSUME TypeOK, Table, NEW f \in Polled, NEW i \in Entry, f[i].rev # "none"
  PROVE  /\ InUse(i)
         /\ req[i].sock \in Client /\ f[i].rev = "in" => link[req[i].sock] # Silent
         /\ f[i].rev = "out" => fds[i].ev = "out"
<1>1. /\ i \in Nat /\ count \in Nat
      /\ i >= count => f[i] = fds[i]
      /\ i < count => f[i].rev \in Revents(fds[i])
  BY PolledIs, TypeIs, Indexes
<1>2. i < count
  <2>1. ASSUME i >= count PROVE fds[i].rev = "none"
    BY <2>1 DEF Table, Watched, Unused
  <2>2. ASSUME ~(i < count) PROVE FALSE
    <3>1. i >= count
      BY <1>1, <2>2
    <3> QED BY <1>1, <2>1, <3>1
  <2> QED BY <2>2
<1>3. fds[i].fd # None
  BY <1>1, <1>2 DEF Revents
<1>4. InUse(i) /\ (fds[i].fd = req[i].sock \/ req[i].sock = Stdin)
  BY <1>3 DEF Table, Watched
<1> QED BY <1>1, <1>2, <1>3, <1>4, Constants DEF Revents

LEMMA NewSlotIs ==
  ASSUME TypeOK, ~TableFull
  PROVE  /\ NewSlot \in Entry /\ NewSlot \in Slot /\ NewSlot \in Nat
         /\ NewSlot < count \/ (NewSlot = count /\ count + 1 \in 0..MaxRequests - 1)
<1>1. count \in Nat /\ count \in 0..MaxRequests - 1 /\ MaxRequests \in Nat \ {0}
  BY TypeIs, Constants
<1>2. CASE Reusable = {}
  BY <1>1, <1>2 DEF NewSlot, TableFull, Entry, Slot
<1>3. CASE Reusable # {}
  <2>1. Reusable \subseteq 0..count - 1 /\ Reusable \subseteq Nat
    BY <1>1 DEF Reusable
  <2>2. Min(Reusable) \in Reusable
    BY <1>3, <2>1, Least
  <2>3. NewSlot \in 0..count - 1
    BY <1>3, <2>1, <2>2 DEF NewSlot
  <2> HIDE DEF NewSlot
  <2> QED BY <1>1, <2>3 DEF Entry, Slot
<1> QED BY <1>2, <1>3

(* A slot is given to the socket s, and the one it had before is lost.     *)
LEMMA Assigned ==
  ASSUME TypeOK, Table, NEW n \in Slot, NEW s \in Client \cup {Stdin},
         s \in Client => where[s] = "queued",
         NEW q \in Request, req' = [req EXCEPT ![n] = q], q.sock = s, q.data = None, ~q.done,
         \A i \in Slot : i # n => (i < count' <=> i < count), s \in Client => n < count',
         \A d \in Client : where'[d] = "open" <=> where[d] = "open" \/ d = s,
         \A d \in Client : d \in evicted' <=> d \in evicted \/ d = req[n].sock,
         evicted' \subseteq Client, files' = files
  PROVE  Held' /\ Descriptors'
<1>1. /\ None \notin Client /\ Stdin \notin Client /\ None # Stdin /\ req \in [Slot -> Request]
      /\ Held /\ Descriptors /\ evicted \subseteq Client /\ files \subseteq Client
  BY Constants, TypeIs DEF Table, TypeOK
<1>2. req'[n] = q /\ \A i \in Slot : i # n => req'[i] = req[i]
  BY <1>1
<1>3. \A i \in Slot : i # n => (InUse(i)' <=> InUse(i))
  BY <1>2 DEF InUse
<1>4. \A i \in Slot : s \in Client => req[i].sock # s
  BY <1>1 DEF Descriptors
<1>5. \A i \in Slot : req[i].data \in {None, req[i].sock}
  BY <1>1 DEF Held
<1>6. \A i \in Slot : i # n /\ req[i].sock \in Client => req[i].sock # req[n].sock
  BY <1>1 DEF Held
<1>7. Held'
  <2>1. \A i \in Slot : InUse(i)' => req'[i].sock # None
    BY <1>1, <1>2, <1>3 DEF Held
  <2>2. ASSUME NEW i \in Slot, ~InUse(i)'
        PROVE  req'[i].sock \notin Client /\ req'[i].data = None
    <3>1. CASE i = n
      BY <1>2, <2>2, <3>1 DEF InUse
    <3>2. CASE i # n
      BY <1>1, <1>2, <1>3, <2>2, <3>2 DEF Held
    <3> QED BY <3>1, <3>2
  <2>3. \A i \in Slot : req'[i].data \in {None, req'[i].sock}
    BY <1>2, <1>5
  <2>4. ASSUME NEW i \in Slot, NEW j \in Slot,
               req'[i].sock = req'[j].sock, req'[i].sock \in Client
        PROVE  i = j
    <3>1. CASE i # n /\ j # n
      BY <1>1, <1>2, <2>4, <3>1 DEF Held
    <3>2. CASE i = n \/ j = n
      BY <1>2, <1>4, <2>4, <3>2
    <3> QED BY <3>1, <3>2
  <2> QED BY <2>1, <2>2, <2>3, <2>4 DEF Held
<1>8. ASSUME NEW d \in Client
      PROVE  where'[d] = "open" /\ d \notin evicted' <=> \E i \in Slot : req'[i].sock = d
  <2>1. CASE d = s
    <3>1. d \notin evicted /\ d # req[n].sock
      BY <1>1, <1>4, <2>1 DEF Descriptors
    <3> QED BY <1>2, <2>1, <3>1
  <2>2. CASE d # s /\ d = req[n].sock
    <3>1. \A i \in Slot : req'[i].sock # d
      BY <1>2, <1>6, <2>2
    <3> QED BY <2>2, <3>1
  <2>3. CASE d # s /\ d # req[n].sock
    <3>1. (\E i \in Slot : req'[i].sock = d) <=> (\E i \in Slot : req[i].sock = d)
      BY <1>2, <2>3
    <3>2. where[d] = "open" /\ d \notin evicted <=> \E i \in Slot : req[i].sock = d
      BY <1>1 DEF Descriptors
    <3> QED BY <2>3, <3>1, <3>2
  <2> QED BY <2>1, <2>2, <2>3
<1>9. ASSUME NEW d \in Client
      PROVE  d \in files' \ evicted' <=> \E i \in Slot : req'[i].data = d
  <2>1. CASE d = req[n].sock
    <3>1. \A i \in Slot : req'[i].data # d
      BY <1>1, <1>2, <1>5, <1>6, <2>1
    <3> QED BY <2>1, <3>1
  <2>2. CASE d # req[n].sock
    <3>1. req[n].data # d /\ q.data # d
      BY <1>1, <1>5, <2>2
    <3>2. (\E i \in Slot : req'[i].data = d) <=> (\E i \in Slot : req[i].data = d)
      BY <1>2, <3>1
    <3>3. d \in files \ evicted <=> \E i \in Slot : req[i].data = d
      BY <1>1 DEF Descriptors
    <3> QED BY <2>2, <3>2, <3>3
  <2> QED BY <2>1, <2>2
<1>10. ASSUME NEW d \in evicted' PROVE where'[d] = "open"
  BY <1>1, <1>10 DEF Descriptors
<1> QED BY <1>7, <1>8, <1>9, <1>10 DEF Descriptors

LEMMA PollStep ==
  ASSUME IInv, NEW f \in Polled, NoAccept(f) \/ AcceptFails(f) \/ \E c \in Client : Accept(f, c)
  PROVE  IInv' /\ Closing
<1>1. /\ TypeOK /\ Types /\ Table /\ Watched /\ Held /\ Descriptors /\ Pieces
      /\ None \notin Client /\ Stdin \notin Client /\ None # Stdin
      /\ Entry \subseteq Slot /\ Slot \subseteq Nat /\ count \in Nat /\ evicted \subseteq Client
      /\ req \in [Slot -> Request] /\ fds \in [Entry -> PollEntry]
      /\ link \in [Client -> Link]
      /\ where \in [Client -> {"new", "queued", "open", "closed"}]
  BY TypesIs, TypeIs, Indexes, Constants DEF IInv, Table, Types
<1>2. /\ f \in [Entry -> PollEntry]
      /\ \A i \in Entry : f[i].fd = fds[i].fd /\ f[i].ev = fds[i].ev /\ (i >= count => f[i] = fds[i])
  BY <1>1, PolledIs
<1>3. \A i \in Entry : f[i].rev # "none" =>
        /\ InUse(i)
        /\ req[i].sock \in Client /\ f[i].rev = "in" => link[req[i].sock] # Silent
        /\ f[i].rev = "out" => fds[i].ev = "out"
  BY <1>1, Found
<1>4. CASE NoAccept(f)
  <2>1. fds' = f /\ GoOn(0, None) /\ UNCHANGED <<where, link, answer, req, count, files, evicted>>
    BY <1>4 DEF NoAccept, client
  <2>2. Types'
    BY <1>1, <1>2, <2>1 DEF Types
  <2>3. TypeOK'
    <3>1. /\ pc' \in {"poll", "loop"} /\ idx' \in 0..MaxRequests /\ reused' \in Slot \cup {None}
      BY <2>1, <2>2, GoOnIs DEF Types
    <3> QED BY <2>2, <3>1 DEF TypeOK, Types, Request, PollEntry, Link
  <2>4. Ready'
    <3>1. count' \in 0..MaxRequests - 1
      BY <2>2 DEF Types
    <3>2. pc' = "loop" => idx' \in Entry /\ idx' < count' /\ fds'[idx'].rev # "none"
      BY <2>1, <3>1, GoOnIs
    <3> QED BY <1>2, <1>3, <2>1, <3>2 DEF Ready
  <2>5. \A i \in Slot : InUse(i)' <=> InUse(i)
    BY <2>1 DEF InUse
  <2>6. Watched'
    BY <1>1, <1>2, <1>3, <2>1, <2>5 DEF Watched
  <2>7. Held'
    BY <1>1, <2>1, <2>5 DEF Held
  <2>8. Descriptors'
    BY <1>1, <2>1 DEF Descriptors
  <2>9. Pieces'
    BY <1>1, <1>2, <2>1 DEF Pieces
  <2> QED BY <2>1, <2>3, <2>4, <2>6, <2>7, <2>8, <2>9 DEF IInv, Table, Closing
<1>n. PICK n : n = NewSlot
  OBVIOUS
<1>5. ASSUME NEW s \in Client \cup {Stdin}, s \in Client => where[s] = "queued",
             NEW q \in Request, q.sock = s, q.data = None, ~q.done,
             ~TableFull, req' = [req EXCEPT ![n] = q],
             \A d \in Client : where'[d] = "open" <=> where[d] = "open" \/ d = s,
             where' \in [Client -> {"new", "queued", "open", "closed"}],
             \A d \in Client : where'[d] = "closed" => where[d] = "closed",
             link' = link, answer' = answer, files' = files, TakeOver(n),
             count' = IF s \in Client /\ n = count THEN count + 1 ELSE count,
             fds' \in [Entry -> PollEntry],
             \A i \in Entry : i # n => fds'[i] = f[i],
             n \in Entry => fds'[n].rev = f[n].rev
                            /\ IF s \in Client THEN fds'[n].fd = s /\ fds'[n].ev = "in" ELSE fds'[n] = f[n]
      PROVE  IInv' /\ Closing
  <2>1. n \in Entry /\ n \in Slot /\ n \in Nat /\ (n < count \/ (n = count /\ count + 1 \in 0..MaxRequests - 1))
    BY <1>n, <1>1, <1>5, NewSlotIs
  <2>2. /\ evicted' = IF InUse(n) THEN evicted \cup ({req[n].sock} \ {Stdin}) ELSE evicted
        /\ IF InUse(n) THEN GoOn(0, n) ELSE GoOn(0, None)
    BY <1>5 DEF TakeOver, InUse
  <2>3. /\ req[n] \in Request /\ (InUse(n) => req[n].sock # None)
        /\ (~InUse(n) => req[n].sock \notin Client)
    BY <1>1, <2>1 DEF Held
  <2>4. evicted' \subseteq Client /\ \A d \in Client : d \in evicted' <=> d \in evicted \/ d = req[n].sock
    BY <1>1, <2>2, <2>3, RequestIs
  <2>5. count' \in 0..MaxRequests - 1 /\ count' \in Nat /\ count \in 0..MaxRequests - 1
    BY <1>1, <1>5, <2>1 DEF Types
  <2>6. /\ \A i \in Slot : i # n => (i < count' <=> i < count)
        /\ s \in Client => n < count'
        /\ \A i \in Entry : i >= count' => i >= count
        /\ n < count' \/ n = count
    <3>1. count' = IF s \in Client /\ n = count THEN count + 1 ELSE count
      BY <1>5
    <3>2. Slot \subseteq Nat /\ Entry \subseteq Nat /\ count \in Nat
      BY <2>5, Indexes
    <3>3. CASE s \in Client /\ n = count
      <4>1. count' = count + 1
        BY <3>1, <3>3
      <4> QED BY <2>1, <3>2, <3>3, <4>1
    <3>4. CASE ~(s \in Client /\ n = count)
      <4>1. count' = count
        BY <3>1, <3>4
      <4> QED BY <2>1, <3>2, <3>4, <4>1
    <3> QED BY <3>3, <3>4
  <2>7. Held' /\ Descriptors'
    <3>1. /\ TypeOK /\ Table /\ (s \in Client => where[s] = "queued")
          /\ req' = [req EXCEPT ![n] = q] /\ q.sock = s /\ q.data = None /\ ~q.done
          /\ (\A i \in Slot : i # n => (i < count' <=> i < count)) /\ (s \in Client => n < count')
          /\ (\A d \in Client : where'[d] = "open" <=> where[d] = "open" \/ d = s)
          /\ files' = files
      BY <1>1, <1>5, <2>6
    <3> QED BY <2>1, <2>4, <3>1, Assigned
  <2>8. req'[n] = q /\ \A i \in Slot : i # n => req'[i] = req[i]
    BY <1>1, <1>5, <2>1
  <2>9. \A i \in Slot : i # n => (InUse(i)' <=> InUse(i))
    BY <2>6, <2>8 DEF InUse
  <2>10. InUse(n)' <=> n < count'
    BY <1>5, <2>8 DEF InUse
  <2>11. Types'
    <3>1. req' \in [Slot -> Request]
      BY <1>1, <1>5
    <3> QED BY <1>1, <1>5, <2>4, <2>5, <3>1 DEF Types
  <2>12. Watched'
    <3>1. ASSUME NEW i \in Entry, i # n
          PROVE  /\ fds'[i].fd # None =>
                      InUse(i)' /\ (fds'[i].fd = req'[i].sock \/ (req'[i].sock = Stdin /\ fds'[i].fd \in evicted'))
                 /\ fds'[i].rev # "none" => InUse(i)'
                 /\ i >= count' => fds'[i] = Unused
      BY <1>1, <1>2, <1>3, <1>5, <2>4, <2>6, <2>8, <2>9, <3>1 DEF Watched
    <3>2. CASE s \in Client
      <4>1. n < count' /\ ~(n >= count')
        BY <2>1, <2>5, <2>6, <3>2
      <4>2. InUse(n)' /\ fds'[n].fd = req'[n].sock
        BY <1>5, <2>1, <2>8, <2>10, <3>2, <4>1
      <4> QED BY <3>1, <4>1, <4>2 DEF Watched
    <3>3. CASE s = Stdin
      <4>1. count' = count /\ fds'[n] = f[n] /\ req'[n].sock = Stdin
        BY <1>1, <1>5, <2>1, <2>8, <3>3
      <4>2. /\ fds[n].fd # None => InUse(n) /\ fds[n].fd \in evicted'
            /\ f[n].rev # "none" => InUse(n)
            /\ n >= count => f[n] = Unused
        <5>1. f[n].rev # "none" => InUse(n)
          BY <1>3, <2>1
        <5>2. n >= count => f[n] = Unused
          BY <1>1, <1>2, <2>1 DEF Watched
        <5>3. ASSUME fds[n].fd # None PROVE InUse(n) /\ fds[n].fd \in evicted'
          <6>1. InUse(n) /\ (fds[n].fd = req[n].sock \/ fds[n].fd \in evicted) /\ fds[n].fd \in Client
            BY <1>1, <2>1, <5>3, EntryIs DEF Watched
          <6> QED BY <2>4, <6>1
        <5> QED BY <5>1, <5>2, <5>3
      <4>3. InUse(n) => InUse(n)'
        BY <2>10, <4>1 DEF InUse
      <4>4. f[n].fd = fds[n].fd
        BY <1>2, <2>1
      <4> QED BY <3>1, <4>1, <4>2, <4>3, <4>4 DEF Watched
    <3> QED BY <3>2, <3>3
  <2>13. Pieces'
    <3>1. \A i \in Entry : i # n => fds'[i].ev = fds[i].ev /\ req'[i] = req[i]
      BY <1>1, <1>2, <1>5, <2>8
    <3>2. ~(fds'[n].ev = "out" /\ req'[n].sock \in Client)
      BY <1>5, <2>1, <2>8
    <3> QED BY <1>1, <1>5, <3>1, <3>2 DEF Pieces
  <2>14. TypeOK' /\ Ready'
    <3>1. \A i \in Entry : fds'[i].rev = f[i].rev /\ (i # n => req'[i] = req[i] /\ fds'[i].ev = fds[i].ev)
      BY <1>1, <1>2, <1>5, <2>8
    <3>2. ~InUse(n) => f[n].rev = "none"
      BY <1>3, <2>1
    <3> DEFINE over == IF InUse(n) THEN n ELSE None
    <3>3. GoOn(0, over) /\ over \in Slot \cup {None}
      BY <2>1, <2>2
    <3>4. InUse(n) => over = n
      OBVIOUS
    <3> HIDE DEF over
    <3>5. /\ pc' \in {"poll", "loop"} /\ idx' \in 0..MaxRequests /\ reused' \in Slot \cup {None}
          /\ pc' = "loop" => /\ idx' \in Entry /\ 0 <= idx' /\ idx' < count'
                             /\ fds'[idx'].rev # "none" /\ reused' = over
      BY <2>5, <3>3, GoOnIs
    <3>6. TypeOK'
      BY <2>11, <3>5 DEF TypeOK, Types, Request, PollEntry, Link
    <3>7. ASSUME pc' = "loop", NEW i \in Entry, i # reused', req'[i].sock \in Client
          PROVE  /\ fds'[i].rev = "in" => link'[req'[i].sock] # Silent
                 /\ fds'[i].rev = "out" => fds'[i].ev = "out"
      <4>1. CASE i = n
        <5>1. fds'[i].rev = "none"
          BY <3>1, <3>2, <3>4, <3>5, <3>7, <4>1
        <5> QED BY <5>1
      <4>2. CASE i # n
        BY <1>3, <1>5, <3>1, <3>7, <4>2
      <4> QED BY <4>1, <4>2
    <3> QED BY <3>5, <3>6, <3>7 DEF Ready
  <2>15. Closing
    BY <1>5 DEF Closing
  <2> QED BY <2>7, <2>12, <2>13, <2>14, <2>15 DEF IInv, Table
<1>6. CASE AcceptFails(f)
  <2> DEFINE q == [Empty EXCEPT !.sock = Stdin, !.age = "over"]
  <2>1. q \in Request /\ q.sock = Stdin /\ q.data = None /\ ~q.done
    BY Constants DEF Empty, Request
  <2>2. /\ ~TableFull /\ req' = [req EXCEPT ![n] = q] /\ TakeOver(n)
        /\ fds' = f /\ link' = link /\ answer' = answer /\ files' = files
        /\ where' = where /\ count' = count
    BY <1>n, <1>6 DEF AcceptFails, client
  <2> HIDE DEF q
  <2>3. /\ \A d \in Client : where'[d] = "open" <=> where[d] = "open" \/ d = Stdin
        /\ where' \in [Client -> {"new", "queued", "open", "closed"}]
        /\ \A d \in Client : where'[d] = "closed" => where[d] = "closed"
        /\ count' = IF Stdin \in Client /\ n = count THEN count + 1 ELSE count
    BY <1>1, <2>2
  <2>4. /\ fds' \in [Entry -> PollEntry] /\ \A i \in Entry : i # n => fds'[i] = f[i]
        /\ fds'[n] = f[n] /\ Stdin \notin Client
    BY <1>1, <1>2, <2>2
  <2> QED BY <1>5, <2>1, <2>2, <2>3, <2>4
<1>7. ASSUME NEW c \in Client, Accept(f, c) PROVE IInv' /\ Closing
  <2> DEFINE q == [Empty EXCEPT !.sock = c]
             e == [f[n] EXCEPT !.fd = c, !.ev = "in"]
  <2>1. q \in Request /\ q.sock = c /\ q.data = None /\ ~q.done
    BY Constants DEF Empty, Request
  <2>2. /\ ~TableFull /\ req' = [req EXCEPT ![n] = q] /\ TakeOver(n)
        /\ fds' = [f EXCEPT ![n] = e] /\ link' = link /\ answer' = answer /\ files' = files
        /\ where' = [where EXCEPT ![c] = "open"] /\ where[c] = "queued"
        /\ count' = IF n = count THEN count + 1 ELSE count
    BY <1>n, <1>7 DEF Accept, Queued
  <2>3. n \in Entry
    BY <1>n, <1>1, <2>2, NewSlotIs
  <2>4. f[n] \in PollEntry
    BY <1>2, <2>3
  <2> HIDE DEF q
  <2>5. e \in PollEntry /\ e.fd = c /\ e.ev = "in" /\ e.rev = f[n].rev
    BY <2>4 DEF PollEntry
  <2> HIDE DEF e
  <2>6. /\ fds' \in [Entry -> PollEntry] /\ fds'[n] = e /\ \A i \in Entry : i # n => fds'[i] = f[i]
    BY <1>2, <2>2, <2>3, <2>5
  <2>7. /\ \A d \in Client : where'[d] = "open" <=> where[d] = "open" \/ d = c
        /\ where' \in [Client -> {"new", "queued", "open", "closed"}]
        /\ \A d \in Client : where'[d] = "closed" => where[d] = "closed"
    BY <1>1, <2>2
  <2> QED BY <1>5, <2>1, <2>2, <2>5, <2>6, <2>7
<1> QED BY <1>4, <1>6, <1>7

-----------------------------------------------------------------------------
(* The theorems.                                                           *)
LEMMA StepKeeps == IInv /\ [Next]_vars => IInv' /\ [Closing]_vars
<1> SUFFICES ASSUME IInv, [Next]_vars PROVE IInv' /\ [Closing]_vars
  OBVIOUS
<1>1. CASE Next
  BY <1>1, ClientStep, AgeStep, PollStep, ServeStep DEF Next
<1>2. CASE UNCHANGED vars
  BY <1>2 DEF vars, client, table, IInv, TypeOK, Table, Watched, Held, Descriptors, Ready, Pieces, InUse
<1> QED BY <1>1, <1>2

LEMMA Invariance == Spec => []IInv
  BY Start, StepKeeps, PTL DEF Spec

(* Every variable keeps its type, and the table and the poll set stay      *)
(* within their bounds.                                                    *)
THEOREM TypeCorrect == Spec => []TypeOK
  BY Invariance, PTL DEF IInv

(* poll watches exactly the slots in use, and every open socket and file   *)
(* is in a slot or was lost with one that was taken over.                  *)
THEOREM TableCorrect == Spec => []TableInv
<1>1. IInv => TableInv
  BY TableIs DEF IInv
<1> QED BY <1>1, Invariance, PTL

(* server_recv calls recv only when it returns at once.                    *)
THEOREM RecvCorrect == Spec => []RecvReady
<1>1. IInv => RecvReady
  BY ReadyIs DEF IInv
<1> QED BY <1>1, Invariance, PTL

(* A connection is closed only when it was answered in full, its client    *)
(* has left, or what it sent fills the packet and is no complete request,  *)
(* but in a slot taken over in the same pass.                              *)
THEOREM ClosedCorrect == Spec => ClosedWhenServed
<1>1. IInv /\ [Next]_vars =>
        [\A c \in Client : where[c] = "open" /\ where'[c] = "closed"
           => answer'[c] = "whole" \/ link[c].gone # "no" \/ req[idx].full \/ idx = reused]_vars
  BY StepKeeps DEF Closing
<1> QED BY <1>1, Invariance, PTL DEF Spec, ClosedWhenServed
=============================================================================
