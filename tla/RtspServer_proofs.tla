------------------------- MODULE RtspServer_proofs --------------------------
(***************************************************************************)
(* Proofs about the connection list and a pass of rtsp_do_event, for any   *)
(* number of connections and any requests; and about what leaves one       *)
(* connection's socket, for any units and a socket that cuts them          *)
(* anywhere.                                                               *)
(***************************************************************************)
EXTENDS RtspServer, RtspOut, SequenceTheorems, TLAPS

-----------------------------------------------------------------------------
(* The list.                                                               *)

LEMMA Elements ==
  ASSUME NEW S, NEW s \in Seq(S)
  PROVE  /\ Len(s) \in Nat /\ DOMAIN s = 1 .. Len(s)
         /\ \A i \in 1 .. Len(s) : s[i] \in S /\ s[i] \in ToSet(s)
         /\ \A e \in ToSet(s) : e \in S /\ \E i \in 1 .. Len(s) : s[i] = e
  BY LenProperties, ElementOfSeq DEF ToSet

LEMMA Appended ==
  ASSUME NEW S, NEW s \in Seq(S), IsInjective(s), NEW c \in S, c \notin ToSet(s)
  PROVE  /\ Append(s, c) \in Seq(S) /\ IsInjective(Append(s, c))
         /\ ToSet(Append(s, c)) = ToSet(s) \cup {c}
<1> DEFINE t == Append(s, c)
<1>1. /\ t \in Seq(S) /\ Len(t) = Len(s) + 1 /\ Len(s) \in Nat
      /\ \A i \in 1 .. Len(s) : t[i] = s[i]
      /\ t[Len(s) + 1] = c
  BY AppendProperties, LenProperties
<1> HIDE DEF t
<1>2. DOMAIN t = 1 .. Len(s) + 1 /\ DOMAIN s = 1 .. Len(s)
  BY <1>1, Elements
<1>3. IsInjective(t)
  <2> SUFFICES ASSUME NEW i \in 1 .. Len(s) + 1, NEW j \in 1 .. Len(s) + 1, t[i] = t[j]
               PROVE  i = j
    BY <1>2 DEF IsInjective
  <2>1. \A k \in 1 .. Len(s) : s[k] # c
    BY Elements
  <2>2. CASE i = Len(s) + 1 /\ j = Len(s) + 1
    BY <2>2
  <2>3. CASE i # Len(s) + 1 /\ j = Len(s) + 1
    <3>1. i \in 1 .. Len(s)
      BY <1>1, <2>3
    <3> QED BY <1>1, <2>1, <2>3, <3>1
  <2>4. CASE i = Len(s) + 1 /\ j # Len(s) + 1
    <3>1. j \in 1 .. Len(s)
      BY <1>1, <2>4
    <3> QED BY <1>1, <2>1, <2>4, <3>1
  <2>5. CASE i # Len(s) + 1 /\ j # Len(s) + 1
    <3>1. i \in 1 .. Len(s) /\ j \in 1 .. Len(s)
      BY <1>1, <2>5
    <3> QED BY <1>1, <1>2, <3>1 DEF IsInjective
  <2> QED BY <2>2, <2>3, <2>4, <2>5
<1>4. ToSet(t) = ToSet(s) \cup {c}
  <2>1. ASSUME NEW e \in ToSet(t) PROVE e \in ToSet(s) \cup {c}
    <3>1. PICK i \in 1 .. Len(s) + 1 : t[i] = e
      BY <1>1, Elements
    <3>2. CASE i \in 1 .. Len(s)
      BY <1>1, <3>1, <3>2, Elements
    <3>3. CASE i = Len(s) + 1
      BY <1>1, <3>1, <3>3
    <3> QED BY <1>1, <3>2, <3>3
  <2>2. ASSUME NEW e \in ToSet(s) PROVE e \in ToSet(t)
    <3>1. PICK i \in 1 .. Len(s) : s[i] = e
      BY Elements
    <3>2. i \in 1 .. Len(s) + 1 /\ t[i] = e
      BY <1>1, <3>1
    <3> QED BY <1>1, <3>2, Elements
  <2>3. c \in ToSet(t)
    <3>1. Len(s) + 1 \in 1 .. Len(s) + 1
      BY <1>1
    <3> QED BY <1>1, <3>1, Elements
  <2> QED BY <2>1, <2>2, <2>3
<1> QED BY <1>1, <1>3, <1>4 DEF t

LEMMA Removed ==
  ASSUME NEW S, NEW s \in Seq(S), IsInjective(s), NEW i \in 1 .. Len(s)
  PROVE  /\ RemoveAt(s, i) \in Seq(S) /\ IsInjective(RemoveAt(s, i))
         /\ ToSet(RemoveAt(s, i)) = ToSet(s) \ {s[i]}
<1> DEFINE a == SubSeq(s, 1, i - 1)  b == SubSeq(s, i + 1, Len(s))  t == a \o b
           From(k) == IF k < i THEN k ELSE k + 1
<1>0. Len(s) \in Nat /\ i \in Nat /\ i >= 1 /\ i <= Len(s) /\ DOMAIN s = 1 .. Len(s)
  BY Elements
<1>1. a \in Seq(S) /\ Len(a) = i - 1 /\ \A k \in 1 .. i - 1 : a[k] = s[k]
  <2>1. \A k \in 1 .. i - 1 : s[k] \in S
    BY <1>0, Elements
  <2>2. /\ a \in Seq(S) /\ Len(a) = IF 1 <= i - 1 THEN (i - 1) - 1 + 1 ELSE 0
        /\ \A k \in 1 .. (i - 1) - 1 + 1 : a[k] = s[1 + k - 1]
    BY <1>0, <2>1, SubSeqProperties
  <2> HIDE DEF a
  <2>3. Len(a) = i - 1
    BY <1>0, <2>2
  <2>4. ASSUME NEW k \in 1 .. i - 1 PROVE a[k] = s[k]
    <3>1. k \in 1 .. (i - 1) - 1 + 1 /\ 1 + k - 1 = k
      BY <1>0
    <3> QED BY <2>2, <3>1
  <2> QED BY <2>2, <2>3, <2>4
<1>2. /\ b \in Seq(S) /\ Len(b) = Len(s) - i
      /\ \A k \in 1 .. Len(s) - i : b[k] = s[i + k]
  <2>1. \A k \in i + 1 .. Len(s) : s[k] \in S
    BY <1>0, Elements
  <2>2. /\ b \in Seq(S)
        /\ Len(b) = IF i + 1 <= Len(s) THEN Len(s) - (i + 1) + 1 ELSE 0
        /\ \A k \in 1 .. Len(s) - (i + 1) + 1 : b[k] = s[(i + 1) + k - 1]
    BY <1>0, <2>1, SubSeqProperties
  <2> HIDE DEF b
  <2>3. Len(b) = Len(s) - i
    <3>1. PICK n \in Nat : n = Len(s)
      BY <1>0
    <3>2. Len(b) = IF i + 1 <= n THEN n - (i + 1) + 1 ELSE 0
      BY <2>2, <3>1
    <3>3. i \in Nat /\ i <= n
      BY <1>0, <3>1
    <3>4. (IF i + 1 <= n THEN n - (i + 1) + 1 ELSE 0) = n - i
      BY <3>3
    <3> QED BY <3>1, <3>2, <3>4
  <2>4. ASSUME NEW k \in 1 .. Len(s) - i PROVE b[k] = s[i + k]
    <3>1. k \in 1 .. Len(s) - (i + 1) + 1 /\ (i + 1) + k - 1 = i + k
      BY <1>0
    <3> QED BY <2>2, <3>1
  <2> QED BY <2>2, <2>3, <2>4
<1> HIDE DEF a, b
<1>3. /\ t \in Seq(S) /\ Len(t) = Len(a) + Len(b)
      /\ \A k \in 1 .. Len(a) + Len(b) : t[k] = IF k <= Len(a) THEN a[k] ELSE b[k - Len(a)]
  BY <1>1, <1>2, ConcatProperties
<1>4. Len(t) = Len(s) - 1
  BY <1>0, <1>1, <1>2, <1>3
<1>5. ASSUME NEW k \in 1 .. Len(s) - 1
      PROVE  t[k] = s[From(k)] /\ From(k) \in 1 .. Len(s) /\ From(k) # i
  <2>1. t[k] = IF k <= i - 1 THEN a[k] ELSE b[k - (i - 1)]
    BY <1>0, <1>1, <1>2, <1>3
  <2>2. CASE k < i
    BY <1>0, <1>1, <2>1, <2>2
  <2>3. CASE ~(k < i)
    <3>1. k - (i - 1) \in 1 .. Len(s) - i /\ i + (k - (i - 1)) = k + 1
      BY <1>0, <2>3
    <3> QED BY <1>0, <1>2, <2>1, <2>3, <3>1
  <2> QED BY <2>2, <2>3
<1> HIDE DEF t
<1>6. DOMAIN t = 1 .. Len(s) - 1
  BY <1>3, <1>4, Elements
<1>7. IsInjective(t)
  <2> SUFFICES ASSUME NEW k \in 1 .. Len(s) - 1, NEW l \in 1 .. Len(s) - 1, t[k] = t[l]
               PROVE  k = l
    BY <1>6 DEF IsInjective
  <2>1. From(k) = From(l)
    BY <1>0, <1>5 DEF IsInjective
  <2> QED BY <1>0, <2>1
<1>8. ToSet(t) = ToSet(s) \ {s[i]}
  <2>1. ASSUME NEW e \in ToSet(t) PROVE e \in ToSet(s) \ {s[i]}
    <3>1. PICK k \in 1 .. Len(s) - 1 : t[k] = e
      BY <1>3, <1>4, Elements
    <3>2. e = s[From(k)] /\ From(k) \in 1 .. Len(s) /\ From(k) # i
      BY <1>5, <3>1
    <3> HIDE DEF From
    <3>3. e # s[i]
      BY <1>0, <3>2 DEF IsInjective
    <3> QED BY <3>2, <3>3, Elements
  <2>2. ASSUME NEW e \in ToSet(s), e # s[i] PROVE e \in ToSet(t)
    <3>1. PICK k \in 1 .. Len(s) : s[k] = e
      BY Elements
    <3> DEFINE l == IF k < i THEN k ELSE k - 1
    <3>2. l \in 1 .. Len(s) - 1 /\ From(l) = k
      BY <1>0, <2>2, <3>1
    <3> HIDE DEF l, From
    <3>3. t[l] = e
      BY <1>5, <3>1, <3>2
    <3> QED BY <1>3, <1>4, <3>2, <3>3, Elements
  <2> QED BY <2>1, <2>2
<1> QED BY <1>3, <1>7, <1>8 DEF t, a, b, RemoveAt

-----------------------------------------------------------------------------
(* The inductive invariant.                                                *)

(* While a connection is visited, the transport noted was its own, and the *)
(* session with it, unless it has been freed since.                        *)
NotedInv ==
  pc \in {"requests", "serve"} /\ noted # Null =>
    noteds /\ (stale \/ noted = vrtp[cur])

IInv == TypeOK /\ PassStaysOnList /\ ConnectionsAgree /\ NotedInv

LEMMA InitIInv == Init => IInv
<1> SUFFICES ASSUME Init PROVE IInv
  OBVIOUS
<1>1. conns = <<>> /\ conns \in Seq(Conn) /\ Listed = {} /\ DOMAIN conns = {}
  <2>1. <<>> \in Seq(Conn) /\ DOMAIN <<>> = {}
    BY EmptySeq, Elements
  <2> QED BY <2>1 DEF Init, Listed, ToSet
<1>2. TypeOK
  BY <1>1 DEF Init, TypeOK
<1>3. PassStaysOnList /\ NotedInv
  BY DEF Init, PassStaysOnList, NotedInv
<1>4. ConnectionsAgree
  BY <1>1 DEF Init, ConnectionsAgree, TransportsOwned, SessionBound, IsInjective
<1> QED BY <1>2, <1>3, <1>4 DEF IInv

(* The element after another is in the list, and is not that one.          *)
LEMMA SuccessorIsListed ==
  ASSUME conns \in Seq(Conn), IsInjective(conns), NEW c \in Conn
  PROVE  /\ Successor(c) \in Listed \cup {Null} /\ Successor(c) # c
         /\ Successor(c) \in Conn \cup {Null}
<1> DEFINE later == {i \in DOMAIN conns : i > 1 /\ conns[i - 1] = c}
<1>0. DOMAIN conns = 1 .. Len(conns) /\ Len(conns) \in Nat
  BY Elements
<1>1. CASE later = {}
  <2>1. Successor(c) = Null
    BY <1>1 DEF Successor
  <2>2. Null # c
    BY NullAssumption
  <2> QED BY <2>1, <2>2
<1>2. CASE later # {}
  <2> DEFINE i == CHOOSE i \in later : TRUE
  <2>1. i \in later /\ Successor(c) = conns[i]
    BY <1>2 DEF Successor
  <2>2. i \in 1 .. Len(conns) /\ i - 1 \in 1 .. Len(conns) /\ conns[i - 1] = c
    BY <1>0, <2>1
  <2> HIDE DEF i
  <2>3. conns[i] # c
    BY <1>0, <2>2 DEF IsInjective
  <2>4. conns[i] \in Conn /\ conns[i] \in ToSet(conns)
    BY <2>2, Elements
  <2> QED BY <2>1, <2>3, <2>4 DEF Listed
<1> QED BY <1>1, <1>2

LEMMA FirstIsListed ==
  ASSUME NEW s \in Seq(Conn)
  PROVE  First(s) \in ToSet(s) \cup {Null} /\ First(s) \in Conn \cup {Null}
<1>1. CASE s = <<>>
  BY <1>1 DEF First
<1>2. CASE s # <<>>
  <2>1. Len(s) \in Nat /\ Len(s) # 0
    BY <1>2, EmptySeq
  <2>2. 1 \in 1 .. Len(s) /\ Head(s) = s[1]
    BY <2>1
  <2>3. s[1] \in Conn /\ s[1] \in ToSet(s)
    BY <2>2, Elements
  <2> QED BY <1>2, <2>2, <2>3 DEF First
<1> QED BY <1>1, <1>2

-----------------------------------------------------------------------------
(* A pass.                                                                 *)

LEMMA Frame ==
  ASSUME IInv, UNCHANGED table,
         TypeOK', PassStaysOnList', NotedInv'
  PROVE  IInv'
  BY DEF IInv, table, ConnectionsAgree, TransportsOwned, SessionBound, Listed

LEMMA SelectStep ==
  ASSUME IInv, NEW ready \in SUBSET Listed, Select(ready)
  PROVE  IInv'
<1>1. ready \subseteq Conn
  BY Elements DEF IInv, TypeOK, Listed
<1>2. UNCHANGED table /\ TypeOK'
  BY <1>1 DEF IInv, TypeOK, Select, table
<1>3. PassStaysOnList' /\ NotedInv'
  BY DEF Select, PassStaysOnList, NotedInv
<1> QED BY <1>2, <1>3, Frame

LEMMA NoClientStep ==
  ASSUME IInv, NoClient
  PROVE  IInv'
<1>1. following' \in Listed \cup {Null} /\ following' \in Conn \cup {Null}
  BY FirstIsListed DEF IInv, TypeOK, NoClient, Listed
<1>2. UNCHANGED table /\ TypeOK'
  BY <1>1 DEF IInv, TypeOK, NoClient, table
<1>3. PassStaysOnList' /\ NotedInv'
  BY <1>1 DEF NoClient, PassStaysOnList, NotedInv, Listed, table
<1> QED BY <1>2, <1>3, Frame

LEMMA NewClientStep ==
  ASSUME IInv, NEW c \in Conn, NewClient(c)
  PROVE  IInv'
<1>0. /\ TypeOK /\ TransportsOwned /\ SessionBound /\ conns \in Seq(Conn)
      /\ state \in [Conn -> {"NONE", "INIT", "READY", "PLAYING"}]
  BY DEF IInv, ConnectionsAgree, TypeOK
<1>1. c \notin ToSet(conns) /\ IsInjective(conns)
  BY <1>0 DEF NewClient, TransportsOwned, Listed
<1>2. /\ conns' = Append(conns, c) /\ conns' \in Seq(Conn) /\ IsInjective(conns')
      /\ ToSet(conns') = ToSet(conns) \cup {c}
  BY <1>0, <1>1, Appended DEF NewClient
<1>3. following' \in ToSet(conns') \cup {Null} /\ following' \in Conn \cup {Null}
  BY <1>2, FirstIsListed DEF NewClient
<1>4. /\ state' = [state EXCEPT ![c] = "INIT"] /\ state[c] = "NONE"
      /\ UNCHANGED <<bound, vrtp>>
  BY DEF NewClient
<1>5. TypeOK'
  BY <1>0, <1>2, <1>3 DEF TypeOK, NewClient
<1>6. TransportsOwned'
  BY <1>0, <1>2, <1>4 DEF TransportsOwned, Listed
<1>7. SessionBound'
  BY <1>0, <1>4 DEF SessionBound, TransportsOwned
<1>8. PassStaysOnList' /\ NotedInv'
  BY <1>3 DEF NewClient, PassStaysOnList, NotedInv, Listed
<1> QED BY <1>5, <1>6, <1>7, <1>8 DEF IInv, ConnectionsAgree

LEMMA VisitStep ==
  ASSUME IInv, Visit
  PROVE  IInv'
<1>0. TypeOK /\ TransportsOwned /\ SessionBound /\ PassStaysOnList
  BY DEF IInv, ConnectionsAgree
<1>1. following \in Conn /\ following \in Listed
  BY <1>0 DEF Visit, TypeOK, PassStaysOnList
<1>2. /\ following' \in Listed \cup {Null} /\ following' # following
      /\ following' \in Conn \cup {Null}
  BY <1>0, <1>1, SuccessorIsListed DEF Visit, TypeOK, TransportsOwned
<1>3. UNCHANGED table
  BY DEF Visit
<1>4. TypeOK'
  BY <1>0, <1>1, <1>2 DEF TypeOK, Visit, table
<1>5. PassStaysOnList'
  BY <1>1, <1>2, <1>3 DEF Visit, PassStaysOnList, Listed, table
<1>6. NotedInv'
  BY <1>0, <1>1 DEF Visit, NotedInv, SessionBound, table
<1> QED BY <1>3, <1>4, <1>5, <1>6, Frame

LEMMA PassStep ==
  ASSUME IInv, EndPass \/ NoMoreRequests \/ Serve \/ Crash
  PROVE  IInv'
<1>1. UNCHANGED table
  BY DEF EndPass, NoMoreRequests, Serve, Crash
<1>2. TypeOK'
  BY DEF IInv, TypeOK, EndPass, NoMoreRequests, Serve, Crash, table
<1>3. PassStaysOnList'
  BY DEF IInv, PassStaysOnList, EndPass, NoMoreRequests, Requested, Serve, Crash,
         Uses, Listed, table
<1>4. NotedInv'
  BY DEF IInv, NotedInv, EndPass, NoMoreRequests, Requested, Serve, Crash, table
<1> QED BY <1>1, <1>2, <1>3, <1>4, Frame

-----------------------------------------------------------------------------
(* Requests.                                                               *)

(* What every request that leaves the list alone has in common.  st, v and *)
(* freed are the connection's new state and transport, and whether it lost *)
(* its old one.                                                            *)
Request(st, v, freed) ==
  /\ Requested
  /\ Bind
  /\ state' = [state EXCEPT ![cur] = st]
  /\ vrtp' = [vrtp EXCEPT ![cur] = v]
  /\ stale' = (stale \/ freed)
  /\ UNCHANGED <<conns, pc, rfds, cur, following, noted, noteds>>

LEMMA RequestStep ==
  ASSUME IInv,
         NEW st \in {"INIT", "READY", "PLAYING"}, NEW v \in Mem \cup {Null},
         NEW freed \in BOOLEAN, Request(st, v, freed),
         st = "INIT" => v = Null,
         v # Null => \A c \in Conn \ {cur} : vrtp[c] # v,
         v # vrtp[cur] /\ vrtp[cur] # Null => freed
  PROVE  IInv'
<1>0. /\ TypeOK /\ TransportsOwned /\ SessionBound /\ PassStaysOnList /\ NotedInv
      /\ conns \in Seq(Conn)
  BY DEF IInv, ConnectionsAgree, TypeOK
<1>1. cur \in Listed /\ cur \in Conn /\ state[cur] # "NONE"
  <2>1. cur \in Listed
    BY <1>0 DEF Request, Requested, PassStaysOnList
  <2>2. cur \in Conn
    BY <1>0, <2>1, Elements DEF Listed
  <2> QED BY <1>0, <2>1, <2>2 DEF TransportsOwned
<1>2. TypeOK'
  <2>1. state' \in [Conn -> {"NONE", "INIT", "READY", "PLAYING"}]
        /\ vrtp' \in [Conn -> Mem \cup {Null}] /\ bound' \in [Conn -> BOOLEAN]
    BY <1>0, <1>1 DEF TypeOK, Request, Bind
  <2>2. stale' \in BOOLEAN
    BY <1>0 DEF TypeOK, Request
  <2> QED BY <1>0, <2>1, <2>2 DEF TypeOK, Request
<1>3. \A c \in Conn : /\ state'[c] = IF c = cur THEN st ELSE state[c]
                      /\ vrtp'[c] = IF c = cur THEN v ELSE vrtp[c]
                      /\ bound'[c] = IF c = cur THEN TRUE ELSE bound[c]
  BY <1>0, <1>1 DEF TypeOK, Request, Bind
<1>4. TransportsOwned'
  <2>1. IsInjective(conns)' /\ Listed' = Listed
    BY <1>0 DEF TransportsOwned, Request, Listed
  <2>2. \A c \in Conn : c \in Listed <=> state'[c] # "NONE"
    BY <1>0, <1>1, <1>3 DEF TransportsOwned
  <2>3. \A c \in Conn : state'[c] \in {"NONE", "INIT"} => vrtp'[c] = Null
    BY <1>0, <1>1, <1>3 DEF TransportsOwned
  <2>4. ASSUME NEW c \in Conn, NEW d \in Conn, vrtp'[c] # Null, vrtp'[c] = vrtp'[d]
        PROVE  c = d
    BY <1>0, <1>1, <1>3, <2>4 DEF TransportsOwned
  <2> QED BY <2>1, <2>2, <2>3, <2>4 DEF TransportsOwned
<1>5. SessionBound'
  BY <1>0, <1>3 DEF SessionBound
<1>6. PassStaysOnList'
  BY <1>0 DEF PassStaysOnList, Request, Listed
<1>7. NotedInv'
  BY <1>0, <1>1, <1>3 DEF NotedInv, Request, Requested
<1> QED BY <1>2, <1>4, <1>5, <1>6, <1>7 DEF IInv, ConnectionsAgree

LEMMA DeleteStep ==
  ASSUME IInv, Delete
  PROVE  IInv'
<1>0. /\ TypeOK /\ TransportsOwned /\ SessionBound /\ PassStaysOnList
      /\ conns \in Seq(Conn) /\ IsInjective(conns)
  BY DEF IInv, ConnectionsAgree, TypeOK, TransportsOwned
<1>1. cur \in Listed /\ cur # following /\ following \in Listed \cup {Null}
  BY <1>0 DEF Delete, Requested, PassStaysOnList
<1>2. cur \in Conn
  BY <1>0, <1>1, Elements DEF Listed
<1> DEFINE i == CHOOSE i \in DOMAIN conns : conns[i] = cur
<1>3. i \in 1 .. Len(conns) /\ conns[i] = cur
  <2>1. DOMAIN conns = 1 .. Len(conns) /\ \E k \in 1 .. Len(conns) : conns[k] = cur
    BY <1>0, <1>1, Elements DEF Listed
  <2> QED BY <2>1
<1>4. conns' = RemoveAt(conns, i)
  BY DEF Delete
<1> HIDE DEF i
<1>5. /\ conns' \in Seq(Conn) /\ IsInjective(conns') /\ ToSet(conns') = ToSet(conns) \ {cur}
  BY <1>0, <1>3, <1>4, Removed
<1>6. /\ state' = [state EXCEPT ![cur] = "NONE"] /\ bound' = [bound EXCEPT ![cur] = FALSE]
      /\ vrtp' = [vrtp EXCEPT ![cur] = Null] /\ pc' = "next"
      /\ UNCHANGED <<rfds, cur, following, noted, noteds, stale>>
  BY DEF Delete
<1>7. TypeOK'
  BY <1>0, <1>2, <1>5, <1>6 DEF TypeOK
<1>8. \A c \in Conn : /\ state'[c] = IF c = cur THEN "NONE" ELSE state[c]
                      /\ vrtp'[c] = IF c = cur THEN Null ELSE vrtp[c]
                      /\ bound'[c] = IF c = cur THEN FALSE ELSE bound[c]
  BY <1>0, <1>2, <1>6 DEF TypeOK
<1>9. TransportsOwned'
  <2>1. \A c \in Conn : c \in Listed' <=> state'[c] # "NONE"
    BY <1>0, <1>5, <1>8 DEF TransportsOwned, Listed
  <2>2. \A c \in Conn : state'[c] \in {"NONE", "INIT"} => vrtp'[c] = Null
    BY <1>0, <1>8 DEF TransportsOwned
  <2>3. \A c, d \in Conn : vrtp'[c] # Null /\ vrtp'[c] = vrtp'[d] => c = d
    BY <1>0, <1>8 DEF TransportsOwned
  <2> QED BY <1>5, <2>1, <2>2, <2>3 DEF TransportsOwned
<1>10. SessionBound'
  BY <1>0, <1>8 DEF SessionBound
<1>11. PassStaysOnList' /\ NotedInv'
  BY <1>1, <1>5, <1>6 DEF PassStaysOnList, NotedInv, Listed
<1> QED BY <1>7, <1>9, <1>10, <1>11 DEF IInv, ConnectionsAgree

LEMMA StepIInv == IInv /\ [Next]_vars => IInv'
<1> SUFFICES ASSUME IInv, [Next]_vars PROVE IInv'
  OBVIOUS
<1>0. ASSUME Requested
      PROVE  /\ cur \in Conn /\ state[cur] \in {"INIT", "READY", "PLAYING"}
             /\ vrtp[cur] \in Mem \cup {Null} /\ stale \in BOOLEAN
             /\ state[cur] = "INIT" => vrtp[cur] = Null
             /\ vrtp[cur] # Null => \A c \in Conn \ {cur} : vrtp[c] # vrtp[cur]
             /\ state = [state EXCEPT ![cur] = state[cur]]
             /\ vrtp = [vrtp EXCEPT ![cur] = vrtp[cur]]
             /\ stale = (stale \/ FALSE)
  <2>0. TypeOK /\ TransportsOwned /\ PassStaysOnList /\ conns \in Seq(Conn)
    BY DEF IInv, ConnectionsAgree, TypeOK
  <2>1. cur \in Listed
    BY <1>0, <2>0 DEF Requested, PassStaysOnList
  <2>2. cur \in Conn
    BY <2>0, <2>1, Elements DEF Listed
  <2>3. state[cur] \in {"INIT", "READY", "PLAYING"} /\ vrtp[cur] \in Mem \cup {Null}
    BY <2>0, <2>1, <2>2 DEF TypeOK, TransportsOwned
  <2>4. /\ state = [state EXCEPT ![cur] = state[cur]]
        /\ vrtp = [vrtp EXCEPT ![cur] = vrtp[cur]]
        /\ stale \in BOOLEAN
    BY <2>0, <2>2 DEF TypeOK
  <2>5. \A c \in Conn \ {cur} : vrtp[cur] # Null => vrtp[c] # vrtp[cur]
    BY <2>0, <2>2 DEF TransportsOwned
  <2> QED BY <2>0, <2>2, <2>3, <2>4, <2>5 DEF TransportsOwned
<1>1. CASE Describe
  <2>1. Request(state[cur], vrtp[cur], FALSE)
    BY <1>0, <1>1 DEF Describe, Request, pass
  <2> QED BY <1>0, <1>1, <2>1, RequestStep DEF Describe
<1>2. ASSUME NEW a \in Mem, Setup(a) PROVE IInv'
  <2> DEFINE st == IF state[cur] = "INIT" THEN "READY" ELSE state[cur]
  <2>1. Requested /\ st \in {"READY", "PLAYING"} /\ cur \in Conn
    BY <1>0, <1>2 DEF Setup
  <2>2. state' = [state EXCEPT ![cur] = st]
    BY <1>2 DEF Setup
  <2> HIDE DEF st
  <2>3. (vrtp[cur] # Null) \in BOOLEAN /\ Request(st, a, vrtp[cur] # Null)
    BY <1>2, <2>2 DEF Setup, Request, Free
  <2>4. \A c \in Conn \ {cur} : vrtp[c] # a
    BY <1>2 DEF Setup
  <2> QED BY <2>1, <2>3, <2>4, RequestStep
<1>3. CASE SetupFails
  <2>1. Request(state[cur], Null, vrtp[cur] # Null)
    BY <1>0, <1>3 DEF SetupFails, Request, Free
  <2>2. Requested
    BY <1>3 DEF SetupFails
  <2> QED BY <1>0, <2>1, <2>2, RequestStep
<1>4. CASE Play
  <2>1. Requested /\ Request("PLAYING", vrtp[cur], FALSE)
    BY <1>0, <1>4 DEF Play, Request, pass
  <2> QED BY <1>0, <2>1, RequestStep
<1>5. CASE Pause
  <2>1. Requested /\ Request("READY", vrtp[cur], FALSE)
    BY <1>0, <1>5 DEF Pause, Request, pass
  <2> QED BY <1>0, <2>1, RequestStep
<1>6. CASE Teardown
  <2>1. Requested /\ Request("INIT", Null, vrtp[cur] # Null)
    BY <1>6 DEF Teardown, Request, Free
  <2> QED BY <1>0, <2>1, RequestStep
<1>7. CASE TeardownAudio
  <2> DEFINE st == IF vrtp[cur] = Null THEN "INIT" ELSE state[cur]
  <2>1. /\ Requested /\ st \in {"INIT", "READY", "PLAYING"}
        /\ st = "INIT" => vrtp[cur] = Null
    BY <1>0, <1>7 DEF TeardownAudio
  <2>2. state' = [state EXCEPT ![cur] = st]
    BY <1>0, <1>7, <2>1 DEF TeardownAudio
  <2> HIDE DEF st
  <2>3. Request(st, vrtp[cur], FALSE)
    BY <1>0, <1>7, <2>1, <2>2 DEF TeardownAudio, Request, pass
  <2> QED BY <1>0, <2>1, <2>3, RequestStep
<1>8. CASE UNCHANGED vars
  BY <1>8 DEF vars, table, pass, IInv, TypeOK, PassStaysOnList, ConnectionsAgree,
              TransportsOwned, SessionBound, NotedInv, Listed
<1> QED
  BY <1>1, <1>2, <1>3, <1>4, <1>5, <1>6, <1>7, <1>8, SelectStep, NoClientStep,
     NewClientStep, VisitStep, PassStep, DeleteStep DEF Next

-----------------------------------------------------------------------------
(* The theorems.                                                           *)

LEMMA Invariance == Spec => []IInv
  BY InitIInv, StepIInv, PTL DEF Spec

(* Every variable of the server keeps its type.                            *)
THEOREM TypeCorrect == Spec => []TypeOK
  BY Invariance, PTL DEF IInv

(* A pass never goes on with a freed connection, and at the end of a visit *)
(* uses the transport it noted only if it is still the connection's own or *)
(* one of its own requests freed it.                                       *)
THEOREM PassCorrect == Spec => []PassInv
<1>1. IInv => PassInv
  BY DEF IInv, PassInv, NotedInUse, NotedInv, Uses
<1> QED BY Invariance, <1>1, PTL

(* Whatever is requested in whatever order, states, sessions, transports   *)
(* and the list agree.                                                     *)
THEOREM ConnectionsCorrect == Spec => []ConnectionsAgree
  BY Invariance, PTL DEF IInv

-----------------------------------------------------------------------------
(* What leaves one connection's socket: RtspOut, for units of any size     *)
(* that fits the buffer and a socket that cuts them anywhere.              *)

LEMMA Moved ==
  ASSUME NEW S, NEW a \in Seq(S), NEW b \in Seq(S), NEW c \in Seq(S)
  PROVE  (a \o b) \o c = a \o (b \o c)
  BY ConcatAssociative

(* A sequence cut anywhere is its two parts.                               *)
LEMMA Cut ==
  ASSUME NEW S, NEW s \in Seq(S), NEW n \in 0 .. Len(s)
  PROVE  /\ Take(s, n) \in Seq(S) /\ Rest(s, n) \in Seq(S)
         /\ Take(s, n) \o Rest(s, n) = s
         /\ Len(Rest(s, n)) = Len(s) - n
<1>1. Len(s) \in Nat /\ \A i \in 1 .. Len(s) : s[i] \in S
  BY ElementOfSeq, LenProperties
<1>2. Take(s, n) \in Seq(S)
  BY <1>1, SubSeqProperties DEF Take
<1>3. Rest(s, n) \in Seq(S) /\ Len(Rest(s, n)) = Len(s) - n
  <2>1. n + 1 \in Int /\ \A i \in n + 1 .. Len(s) : s[i] \in S
    BY <1>1
  <2>2. /\ SubSeq(s, n + 1, Len(s)) \in Seq(S)
        /\ Len(SubSeq(s, n + 1, Len(s))) = IF n + 1 <= Len(s) THEN Len(s) - (n + 1) + 1 ELSE 0
    BY <1>1, <2>1, SubSeqProperties
  <2> QED BY <1>1, <2>2 DEF Rest
<1>4. Take(s, n) \o Rest(s, n) = s
  <2>1. 1 \in 1 .. Len(s) + 1 /\ n \in 1 - 1 .. Len(s) /\ Len(s) \in n .. Len(s)
    BY <1>1
  <2>2. SubSeq(s, 1, n) \o SubSeq(s, n + 1, Len(s)) = SubSeq(s, 1, Len(s))
    BY <2>1, ConcatAdjacentSubSeq
  <2> QED BY <2>2, SubSeqFull DEF Take, Rest
<1> QED BY <1>2, <1>3, <1>4

LEMMA UnitType ==
  ASSUME tried \in 0 .. MaxUnits, tried < MaxUnits, NEW len \in 1 .. BufSize
  PROVE  Unit(len) \in Seq(Byte) /\ Len(Unit(len)) = len
<1>1. tried + 1 \in 1 .. MaxUnits /\ len \in Nat
  BY LensAssumption
<1>2. Unit(len) \in [1 .. len -> Byte]
  BY <1>1, LensAssumption DEF Unit, Byte
<1> QED BY <1>1, <1>2

(* What is pending goes out whole, the next unit up to its n-th byte, and  *)
(* the rest of it is kept: nothing is lost or added.                       *)
LEMMA Whole ==
  ASSUME OutTypeOK, Framing, NEW u \in Seq(Byte), NEW n \in 0 .. Len(u)
  PROVE  /\ wire \o resbuf \o Take(u, n) \in Seq(Byte)
         /\ (wire \o resbuf \o Take(u, n)) \o Rest(u, n) = reported \o u
<1>1. /\ wire \o resbuf \in Seq(Byte) /\ Take(u, n) \in Seq(Byte)
      /\ Rest(u, n) \in Seq(Byte) /\ Take(u, n) \o Rest(u, n) = u
  BY Cut, ConcatProperties DEF OutTypeOK
<1>2. (wire \o resbuf) \o Take(u, n) \in Seq(Byte)
  BY <1>1, ConcatProperties
<1>3. ((wire \o resbuf) \o Take(u, n)) \o Rest(u, n) = (wire \o resbuf) \o u
  <2> DEFINE w == wire \o resbuf  t == Take(u, n)  r == Rest(u, n)
  <2>1. w \in Seq(Byte) /\ t \in Seq(Byte) /\ r \in Seq(Byte)
    BY <1>1
  <2>4. t \o r = u
    BY <1>1
  <2> HIDE DEF w, t, r
  <2>2. (w \o t) \o r = w \o (t \o r)
    BY <2>1, Moved
  <2>3. (w \o t) \o r = w \o u
    BY <2>2, <2>4
  <2> QED BY <2>3 DEF w, t, r
<1> QED BY <1>2, <1>3 DEF Framing

(* A unit none of which was taken is not sent at all.                      *)
LEMMA Nothing ==
  ASSUME OutTypeOK, Framing, NEW u \in Seq(Byte)
  PROVE  wire \o resbuf \o Take(u, 0) = reported
<1>1. Take(u, 0) = <<>>
  BY SubSeqEmpty DEF Take
<1>2. wire \o resbuf \in Seq(Byte)
  BY ConcatProperties DEF OutTypeOK
<1> QED BY <1>1, <1>2, ConcatEmptySeq DEF Framing

(* The two sends after the flush, for a unit u cut after its n-th byte.    *)
SentUpTo(u, n) ==
  /\ tried < MaxUnits
  /\ wire' = wire \o resbuf \o Take(u, n)
  /\ resbuf' = IF n > 0 THEN Rest(u, n) ELSE <<>>
  /\ tried' = tried + 1
  /\ IF n > 0 THEN reported' = reported \o u ELSE UNCHANGED reported

LEMMA SentStep ==
  ASSUME OutTypeOK, Framing, NEW u \in Seq(Byte), Len(u) <= BufSize,
         NEW n \in 0 .. Len(u), SentUpTo(u, n)
  PROVE  OutTypeOK' /\ Framing'
<1>1. tried' \in 0 .. MaxUnits /\ Len(u) \in Nat
  BY LensAssumption, LenProperties DEF OutTypeOK, SentUpTo
<1>2. wire' \in Seq(Byte)
  BY Whole DEF SentUpTo
<1>3. CASE n > 0
  <2>1. resbuf' = Rest(u, n) /\ reported' = reported \o u
    BY <1>3 DEF SentUpTo
  <2>2. resbuf' \in Seq(Byte) /\ Len(resbuf') = Len(u) - n
    BY <2>1, Cut
  <2>3. Len(resbuf') <= BufSize
    BY <1>1, <1>3, <2>2, LensAssumption
  <2>4. reported' \in Seq(Byte)
    BY <2>1, ConcatProperties DEF OutTypeOK
  <2>5. wire' \o resbuf' = reported'
    BY <2>1, Whole DEF SentUpTo
  <2> QED BY <1>1, <1>2, <2>2, <2>3, <2>4, <2>5 DEF OutTypeOK, Framing
<1>4. CASE n = 0
  <2>1. resbuf' = <<>> /\ reported' = reported /\ wire' = reported
    BY <1>4, Nothing DEF SentUpTo
  <2>2. resbuf' \in Seq(Byte) /\ Len(resbuf') <= BufSize
    BY <2>1, EmptySeq, LensAssumption
  <2>3. wire' \o resbuf' = reported'
    BY <1>2, <2>1, ConcatEmptySeq
  <2> QED BY <1>1, <1>2, <2>1, <2>2, <2>3 DEF OutTypeOK, Framing
<1> QED BY <1>1, <1>3, <1>4

LEMMA OutInitInv == OutInit => OutTypeOK /\ Framing
<1> SUFFICES ASSUME OutInit PROVE OutTypeOK /\ Framing
  OBVIOUS
<1>1. <<>> \in Seq(Byte) /\ Len(<<>>) = 0
  BY EmptySeq
<1>2. <<>> \o <<>> = <<>>
  BY <1>1, ConcatEmptySeq
<1> QED BY <1>1, <1>2, LensAssumption DEF OutInit, OutTypeOK, Framing

LEMMA OutStepInv == OutTypeOK /\ Framing /\ [OutNext]_outVars => OutTypeOK' /\ Framing'
<1> SUFFICES ASSUME OutTypeOK, Framing, [OutNext]_outVars PROVE OutTypeOK' /\ Framing'
  OBVIOUS
<1>1. ASSUME NEW n \in 0 .. BufSize - 1, FlushBlocked(n) PROVE OutTypeOK' /\ Framing'
  <2>1. resbuf \in Seq(Byte) /\ wire \in Seq(Byte) /\ Len(resbuf) \in Nat
    BY LenProperties DEF OutTypeOK
  <2>2. n \in 0 .. Len(resbuf)
    BY <1>1, <2>1, LensAssumption DEF FlushBlocked
  <2>3. /\ Take(resbuf, n) \in Seq(Byte) /\ Rest(resbuf, n) \in Seq(Byte)
        /\ Take(resbuf, n) \o Rest(resbuf, n) = resbuf
        /\ Len(Rest(resbuf, n)) = Len(resbuf) - n
    BY <2>1, <2>2, Cut
  <2>4. /\ wire' = wire \o Take(resbuf, n) /\ resbuf' = Rest(resbuf, n)
        /\ reported' = reported /\ tried < MaxUnits /\ tried' = tried + 1
    BY <1>1 DEF FlushBlocked
  <2>5. wire' \in Seq(Byte)
    BY <2>1, <2>3, <2>4, ConcatProperties
  <2>6. wire' \o resbuf' = reported'
    <3>1. wire' \o resbuf' = wire \o resbuf
      <4> DEFINE t == Take(resbuf, n)  r == Rest(resbuf, n)
      <4>1. t \in Seq(Byte) /\ r \in Seq(Byte)
        BY <2>3
      <4>3. /\ t \o r = resbuf
            /\ wire' = wire \o t /\ resbuf' = r
        BY <2>3, <2>4
      <4> HIDE DEF t, r
      <4>2. (wire \o t) \o r = wire \o (t \o r)
        BY <2>1, <4>1, Moved
      <4> QED BY <4>2, <4>3
    <3> QED BY <2>4, <3>1 DEF Framing
  <2>7. Len(resbuf') <= BufSize /\ tried' \in 0 .. MaxUnits
    BY <2>1, <2>2, <2>3, <2>4, LensAssumption DEF OutTypeOK
  <2> QED BY <2>3, <2>4, <2>5, <2>6, <2>7 DEF OutTypeOK, Framing
<1>2. ASSUME NEW len \in MsgLens, NEW n \in 0 .. len, SendMsg(len, n)
      PROVE  OutTypeOK' /\ Framing'
  <2>1. len \in 1 .. BufSize /\ len \in Nat /\ len <= BufSize
    BY LensAssumption
  <2>2. Unit(len) \in Seq(Byte) /\ Len(Unit(len)) = len
    BY <1>2, <2>1, UnitType DEF SendMsg, OutTypeOK
  <2>3. SentUpTo(Unit(len), n)
    BY <1>2 DEF SendMsg, SentUpTo, Report
  <2> QED BY <2>1, <2>2, <2>3, SentStep
<1>3. ASSUME NEW len \in PktLens, NEW h \in 0 .. HeaderLen - 1, SendHeaderPart(len, h)
      PROVE  OutTypeOK' /\ Framing'
  <2>1. HeaderLen + len \in 1 .. BufSize /\ HeaderLen + len \in Nat
        /\ HeaderLen + len <= BufSize /\ h \in 0 .. HeaderLen + len
    BY LensAssumption
  <2>2. Unit(HeaderLen + len) \in Seq(Byte) /\ Len(Unit(HeaderLen + len)) = HeaderLen + len
    BY <1>3, <2>1, UnitType DEF SendHeaderPart, OutTypeOK
  <2>3. SentUpTo(Unit(HeaderLen + len), h)
    BY <1>3 DEF SendHeaderPart, SentUpTo, Report
  <2> QED BY <2>1, <2>2, <2>3, SentStep
<1>4. ASSUME NEW len \in PktLens, NEW n \in 0 .. len, SendPacket(len, n)
      PROVE  OutTypeOK' /\ Framing'
  <2>1. HeaderLen + len \in 1 .. BufSize /\ HeaderLen + len \in Nat
        /\ HeaderLen + len <= BufSize
        /\ HeaderLen + n \in 0 .. HeaderLen + len /\ HeaderLen + n > 0
    BY LensAssumption
  <2>2. Unit(HeaderLen + len) \in Seq(Byte) /\ Len(Unit(HeaderLen + len)) = HeaderLen + len
    BY <1>4, <2>1, UnitType DEF SendPacket, OutTypeOK
  <2>3. SentUpTo(Unit(HeaderLen + len), HeaderLen + n)
    BY <1>4, <2>1 DEF SendPacket, SentUpTo, Report
  <2> QED BY <2>1, <2>2, <2>3, SentStep
<1>5. CASE UNCHANGED outVars
  BY <1>5 DEF outVars, OutTypeOK, Framing
<1> QED BY <1>1, <1>2, <1>3, <1>4, <1>5 DEF OutNext

(* Types; a remainder never outgrows the buffer.                           *)
THEOREM OutTypeCorrect == OutSpec => []OutTypeOK
<1>1. OutTypeOK /\ Framing /\ [OutNext]_outVars => (OutTypeOK /\ Framing)'
  BY OutStepInv
<1> QED BY OutInitInv, <1>1, PTL DEF OutSpec

(* The client can always tell the units of the stream apart: the bytes on  *)
(* the wire are whole units in order, up to the part that is still kept.   *)
THEOREM FramingCorrect == OutSpec => []Framing
<1>1. OutTypeOK /\ Framing /\ [OutNext]_outVars => (OutTypeOK /\ Framing)'
  BY OutStepInv
<1> QED BY OutInitInv, <1>1, PTL DEF OutSpec
=============================================================================
