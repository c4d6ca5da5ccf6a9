--------------------------- MODULE Process_proofs ---------------------------
(***************************************************************************)
(* Proofs about the process and its watchdog (Camera) and about the HTTP   *)
(* server thread in it (HttpServer), for every threshold, every length of  *)
(* the frame queue and any clients, requests and files.                    *)
(***************************************************************************)
EXTENDS Camera, HttpServer, SequenceTheorems, TLAPS

-----------------------------------------------------------------------------
(* The HTTP server: what a CLIENT is, and what its functions make of one.  *)

Type == {"none", "unknown", "http"}
Period == {"header", "send", "close"}
Answer == {"none", "page", "empty", "json"}
File == {"none", "file", "dir"}

Client ==
  [type : Type, period : Period, got : 0..Total, spoiled : BOOLEAN, answer : Answer,
   left : 0..Units, file : File, rest : 0..MaxFile, eof : BOOLEAN,
   shut : BOOLEAN, search : BOOLEAN, made : 0..1]

(* A client whose request is still expected has no answer of its own, and  *)
(* neither has one whose type is not known, although a message may have    *)
(* written a result into its block; every other one was answered.  The end *)
(* of a file comes behind its last buffer, and a connection is finished    *)
(* with when nothing is left to send.                                      *)
Expecting(r) == r.type # "http" \/ r.period = "header"
Answered(r) ==
  /\ Expecting(r) => r.made = 0 /\ r.file = "none" /\ ~r.eof
  /\ Expecting(r) \/ r.made = 1 \/ r.answer = "json"
  /\ r.file = "none" \/ r.eof => r.rest = 0
  /\ r.period = "close" => r.left = 0 /\ r.file = "none"

(* The step from r to s finishes with a client only behind its answer.     *)
Finishing(r, s) ==
  r.period # "close" /\ s.period = "close" =>
    /\ r.made = 1 \/ r.answer = "json"
    /\ r.rest = 0 /\ (r.file = "none" \/ r.eof)
    /\ s.left = 0

LEMMA FreeIs == Free \in Client /\ Answered(Free) /\ Free.type = "none" /\ Free.got = 0
  BY RequestAssumption DEF Free, Client, Type, Period, Answer, File, Answered, Expecting

LEMMA RespondIs ==
  ASSUME NEW r \in Client, NEW a \in Answer, NEW f \in File, Answered(r),
         (a = "json" /\ f = "none") \/ (r.type = "http" /\ r.period = "header")
  PROVE  /\ Respond(r, a, f) \in Client
         /\ Respond(r, a, f).type = r.type /\ Respond(r, a, f).got = r.got
         /\ Respond(r, a, f).period = "send"
         /\ Answered(Respond(r, a, f))
<1> DEFINE m == IF a = "json" THEN r.made ELSE r.made + 1
           g == IF f = "none" THEN r.file ELSE f
           e == IF f = "file" THEN MaxFile ELSE r.rest
           s == Respond(r, a, f)
<1>1. a # "json" => r.made = 0
  BY DEF Answered, Expecting
<1>2. m \in 0..1 /\ g \in File /\ e \in 0..MaxFile /\ Units \in 0..Units
      /\ m = (IF a = "json" THEN r.made ELSE 1)
  BY <1>1, RequestAssumption DEF Client
<1>3. s = [r EXCEPT !.period = "send", !.answer = a, !.left = Units, !.spoiled = FALSE,
                    !.made = m, !.file = g, !.rest = e]
  BY DEF Respond
<1>4. f = "none" => g = r.file /\ e = r.rest
  OBVIOUS
<1>5. f # "none" => g = f /\ (f # "file" => e = r.rest)
  OBVIOUS
<1> HIDE DEF m, g, e, s
<1>6. s \in Client
  BY <1>2, <1>3 DEF Client, Period
<1>7. /\ s.type = r.type /\ s.got = r.got /\ s.period = "send" /\ s.made = m
      /\ s.answer = a /\ s.file = g /\ s.rest = e /\ s.eof = r.eof
  BY <1>3 DEF Client
<1>8. Answered(s)
  <2>1. CASE f = "none"
    BY <1>1, <1>2, <1>4, <1>7, <2>1 DEF Answered, Expecting
  <2>2. CASE f # "none"
    BY <1>2, <1>5, <1>7, <2>2 DEF Answered, Expecting
  <2> QED BY <2>1, <2>2
<1> QED BY <1>6, <1>7, <1>8 DEF s

LEMMA RefilledIs ==
  ASSUME NEW r \in Client, r.type = "http", r.period # "header", Answered(r), r.left = 0,
         NEW s \in Refilled(r)
  PROVE  /\ s \in Client /\ s.type = "http" /\ s.got = r.got /\ s.period # "header"
         /\ Answered(s) /\ Finishing(r, s)
<1>1. /\ 0 \in 0..MaxFile /\ 0 \in 0..Units /\ 1 \in 0..Units /\ r.rest \in 0..MaxFile
      /\ (r.rest > 0 => r.rest - 1 \in 0..MaxFile) /\ (~(r.rest > 0) => r.rest = 0)
  BY RequestAssumption DEF Client
<1>2. CASE r.file = "none" \/ r.eof
  <2>1. s = [r EXCEPT !.period = "close", !.file = "none", !.eof = FALSE, !.rest = 0, !.shut = TRUE]
    BY <1>2 DEF Refilled, Closed
  <2>2. s \in Client /\ s.type = "http" /\ s.got = r.got
    BY <1>1, <2>1 DEF Client, Period, File
  <2>3. /\ s.period = "close" /\ s.file = "none" /\ s.eof = FALSE /\ s.rest = 0
        /\ s.left = 0 /\ s.made = r.made /\ s.answer = r.answer
    BY <2>1 DEF Client
  <2> QED BY <1>2, <2>2, <2>3 DEF Answered, Expecting, Finishing
<1>3. CASE ~(r.file = "none" \/ r.eof) /\ r.file = "dir"
  BY <1>3 DEF Refilled, Finishing
<1>4. CASE ~(r.file = "none" \/ r.eof) /\ r.file # "dir" /\ r.rest > 0
  <2>1. s = [r EXCEPT !.rest = r.rest - 1, !.left = 1]
    BY <1>4 DEF Refilled
  <2>2. s \in Client
    BY <1>1, <1>4, <2>1 DEF Client
  <2>3. /\ s.type = r.type /\ s.got = r.got /\ s.period = r.period /\ s.file = r.file
        /\ s.eof = r.eof /\ s.made = r.made /\ s.answer = r.answer
    BY <2>1 DEF Client
  <2> QED BY <1>4, <2>2, <2>3 DEF Answered, Expecting, Finishing
<1>5. CASE ~(r.file = "none" \/ r.eof) /\ r.file # "dir" /\ ~(r.rest > 0)
  <2>1. PICK n \in {0, 1} : s = [r EXCEPT !.left = n, !.eof = TRUE]
    BY <1>5 DEF Refilled
  <2>2. n \in 0..Units
    BY <1>1
  <2>3. s \in Client
    BY <2>1, <2>2 DEF Client
  <2>4. /\ s.type = r.type /\ s.got = r.got /\ s.period = r.period /\ s.file = r.file
        /\ s.rest = 0 /\ s.made = r.made /\ s.answer = r.answer
    BY <1>1, <1>5, <2>1 DEF Client
  <2> QED BY <1>5, <2>3, <2>4 DEF Answered, Expecting, Finishing
<1> QED BY <1>2, <1>3, <1>4, <1>5

LEMMA TakingIs ==
  ASSUME NEW r \in Client, r.period = "header", Answered(r), r.type # "none", NEW n \in 0..Total
  PROVE  /\ Taken(r, n) \in Client /\ Taken(r, n).type = "http" /\ Taken(r, n).got = n
         /\ Taken(r, n).period = "header" /\ Taken(r, n).spoiled = r.spoiled
         /\ Answered(Taken(r, n))
<1> DEFINE s == Taken(r, n)
<1>1. s = [r EXCEPT !.type = "http", !.got = n]
  BY DEF Taken
<1> HIDE DEF s
<1>2. s \in Client
  BY <1>1 DEF Client, Type
<1>3. /\ s.type = "http" /\ s.got = n /\ s.period = "header" /\ s.spoiled = r.spoiled
      /\ s.made = r.made /\ s.file = r.file /\ s.eof = r.eof /\ s.rest = r.rest
  BY <1>1 DEF Client
<1>4. Answered(s)
  BY <1>3 DEF Answered, Expecting
<1> QED BY <1>2, <1>3, <1>4 DEF s

LEMMA ContinuedIs ==
  ASSUME NEW r \in Client, r.period = "header", Answered(r), r.type # "none", NEW n \in 0..Total
  PROVE  /\ Continued(r, n) \in Client /\ Continued(r, n).type = "http"
         /\ Continued(r, n).got = n /\ Continued(r, n).period = "header"
         /\ Answered(Continued(r, n))
<1> DEFINE t == Taken(r, n)
           c == Holds(r) /\ n \notin Ends /\ \E e \in Ends : r.got < e /\ e <= n
           p == t.spoiled \/ c
           s == Continued(r, n)
<1>1. s = [t EXCEPT !.spoiled = p]
  BY DEF Continued
<1>2. t \in Client /\ t.type = "http" /\ t.got = n /\ t.period = "header" /\ Answered(t)
  BY TakingIs
<1> HIDE DEF s, t, c
<1>3. p \in BOOLEAN
  OBVIOUS
<1> HIDE DEF p
<1>4. s \in Client
  BY <1>1, <1>2, <1>3 DEF Client
<1>5. /\ s.type = "http" /\ s.got = n /\ s.period = "header" /\ s.made = t.made
      /\ s.file = t.file /\ s.eof = t.eof /\ s.rest = t.rest
  BY <1>1, <1>2 DEF Client
<1>6. Answered(s)
  BY <1>2, <1>5 DEF Answered, Expecting
<1> QED BY <1>4, <1>5, <1>6 DEF s

-----------------------------------------------------------------------------
(* The inductive invariant of the HTTP server.  What select found stays    *)
(* true until the client is served: only its own step takes bytes from it, *)
(* and one that sends is not at its header.                                *)

PcTurn == {"select", "clients", "msg", "new", "crashed"}

Peers ==
  net \in [Block -> [method : {"GET", "POST", "other"}, sent : 0..Total, gone : {"no", "fin", "reset"}]]

Served ==
  /\ cl \in [Block -> Client]
  /\ \A b \in Block : Answered(cl[b]) /\ cl[b].got <= net[b].sent

Turns ==
  /\ conns \in 0..MaxConns /\ waiting \in 0..conns /\ msgs \in Seq(Block) /\ pc \in PcTurn
  /\ mready \in BOOLEAN /\ lready \in BOOLEAN
  /\ lready => waiting > 0
  /\ pc = "new" => lready
  /\ mready => msgs # <<>>
  /\ pc = "msg" => mready

Found ==
  /\ rfds \subseteq Block /\ wfds \subseteq Block
  /\ \A b \in rfds : cl[b].type # "none" /\ (net[b].sent > cl[b].got \/ net[b].gone # "no")
  /\ \A b \in wfds : cl[b].type = "http" /\ cl[b].period # "header"

HttpIInv == Peers /\ Served /\ Turns /\ Found

LEMMA HttpInvIs == HttpIInv => HttpTypeOK /\ OneAnswer
<1> SUFFICES ASSUME HttpIInv PROVE HttpTypeOK /\ OneAnswer
  OBVIOUS
<1> USE DEF HttpIInv, Peers, Served, Turns, Found
<1>1. \A b \in Block : cl[b] \in Client
  OBVIOUS
<1>2. \A b \in Block :
       /\ cl[b].type \in Type /\ cl[b].period \in Period
       /\ cl[b].got \in 0..Total /\ cl[b].left \in 0..Units /\ cl[b].rest \in 0..MaxFile
       /\ cl[b].answer \in Answer /\ cl[b].file \in File /\ cl[b].made \in 0..1
  BY <1>1 DEF Client
<1>3. waiting \in 0..MaxConns
  BY RequestAssumption
<1>4. rfds \subseteq Clients /\ wfds \subseteq Clients
  BY DEF Clients
<1>5. HttpTypeOK
  BY <1>2, <1>3, <1>4 DEF HttpTypeOK, Type, Period, Answer, File, PcTurn
<1>6. OneAnswer
  <2>1. \A m \in 0..1 : m <= 1
    OBVIOUS
  <2> QED BY <1>2, <2>1, Zenon DEF OneAnswer
<1> QED BY <1>5, <1>6

LEMMA HttpInitInv == HttpInit => HttpIInv
<1> SUFFICES ASSUME HttpInit PROVE HttpIInv
  OBVIOUS
<1> USE DEF HttpInit
<1>1. Peers
  BY RequestAssumption DEF Peers, NoPeer
<1>2. Served
  <2>1. \A b \in Block : cl[b] = Free /\ net[b].sent = 0
    BY DEF NoPeer
  <2> QED BY FreeIs, <2>1 DEF Served
<1>3. Turns
  <2>1. conns \in 0..MaxConns /\ waiting \in 0..conns
    BY RequestAssumption
  <2>2. msgs \in Seq(Block)
    OBVIOUS
  <2>3. pc \in PcTurn /\ mready = FALSE /\ lready = FALSE /\ pc = "select"
    BY DEF PcTurn
  <2> QED BY <2>1, <2>2, <2>3 DEF Turns
<1>4. Found
  BY DEF Found
<1> QED BY <1>1, <1>2, <1>3, <1>4 DEF HttpIInv

(* Where the turn goes on, for the parts of Turns that name pc.            *)
LEMMA GoOnIs ==
  ASSUME GoOn
  PROVE  pc' \in PcTurn /\ (pc' = "new" => lready') /\ (pc' = "msg" => mready')
  BY DEF GoOn, PcTurn

(* A step of the turn that serves the client in one block leaves it with a *)
(* record s and its peer with a record p.                                  *)
LEMMA OneClient ==
  ASSUME HttpIInv, NEW b \in Block, NEW s \in Client,
         NEW p \in [method : {"GET", "POST", "other"}, sent : 0..Total, gone : {"no", "fin", "reset"}],
         cl' = [cl EXCEPT ![b] = s], net' = [net EXCEPT ![b] = p],
         Answered(s), s.got <= p.sent,
         rfds' \subseteq rfds, wfds' \subseteq wfds,
         b \in rfds' => s.type # "none" /\ (p.sent > s.got \/ p.gone # "no"),
         b \in wfds' => s.type = "http" /\ s.period # "header"
  PROVE  Peers' /\ Served' /\ Found'
<1> USE DEF HttpIInv, Peers, Served, Found
<1>1. /\ cl'[b] = s /\ net'[b] = p
      /\ \A c \in Block \ {b} : cl'[c] = cl[c] /\ net'[c] = net[c]
  OBVIOUS
<1>2. Peers'
  OBVIOUS
<1>3. Served'
  <2>1. cl' \in [Block -> Client]
    OBVIOUS
  <2>2. \A c \in Block : Answered(cl'[c]) /\ cl'[c].got <= net'[c].sent
    BY <1>1
  <2>3. \A c \in Block : Answered(cl[c])' <=> Answered(cl'[c])
    BY DEF Answered, Expecting
  <2> QED BY <2>1, <2>2, <2>3
<1>4. Found'
  <2>1. rfds' \subseteq Block /\ wfds' \subseteq Block
    OBVIOUS
  <2>2. \A c \in rfds' : cl'[c].type # "none" /\ (net'[c].sent > cl'[c].got \/ net'[c].gone # "no")
    BY <1>1, <2>1
  <2>3. \A c \in wfds' : cl'[c].type = "http" /\ cl'[c].period # "header"
    BY <1>1, <2>1
  <2> QED BY <2>1, <2>2, <2>3
<1> QED BY <1>2, <1>3, <1>4
(* What a step of the turn does to everything but the clients.             *)
LEMMA RestIs ==
  ASSUME HttpIInv, KeepRest, msgs' = msgs \/ \E b \in Block : msgs' = Append(msgs, b)
  PROVE  Turns'
<1> USE DEF HttpIInv, Turns
<1>1. /\ waiting' = waiting /\ conns' = conns /\ mready' = mready /\ lready' = lready
      /\ pc' \in PcTurn /\ (pc' = "new" => lready') /\ (pc' = "msg" => mready')
  BY GoOnIs DEF KeepRest
<1>2. msgs' \in Seq(Block) /\ (msgs # <<>> => msgs' # <<>>)
  <2>1. CASE msgs' = msgs
    BY <2>1
  <2>2. CASE \E b \in Block : msgs' = Append(msgs, b)
    BY <2>2, AppendProperties
  <2> QED BY <2>1, <2>2
<1> QED BY <1>1, <1>2

-----------------------------------------------------------------------------
(* What each step makes of its client.                                     *)

LEMMA RemoveIs ==
  ASSUME HttpIInv, NEW b \in Block, Remove(b)
  PROVE  HttpIInv'
<1>1. NoPeer \in [method : {"GET", "POST", "other"}, sent : 0..Total, gone : {"no", "fin", "reset"}]
      /\ NoPeer.sent = 0
  BY RequestAssumption DEF NoPeer
<1>2. b \notin rfds' /\ b \notin wfds' /\ rfds' \subseteq rfds /\ wfds' \subseteq wfds
  BY DEF Remove
<1>3. Peers' /\ Served' /\ Found'
  <2>1. cl' = [cl EXCEPT ![b] = Free] /\ net' = [net EXCEPT ![b] = NoPeer]
    BY DEF Remove
  <2>2. Free \in Client /\ Answered(Free) /\ Free.got <= NoPeer.sent
    BY FreeIs, <1>1
  <2> QED BY OneClient, <1>1, <1>2, <2>1, <2>2
<1>4. Turns'
  BY RestIs DEF Remove
<1> QED BY <1>3, <1>4 DEF HttpIInv

(* KeepPrefix and Ignore.                                                  *)
LEMMA TakenIs ==
  ASSUME HttpIInv, NEW b \in Block, b \in rfds,
         cl' = [cl EXCEPT ![b].got = net[b].sent], net' = net, msgs' = msgs,
         rfds' = rfds \ {b}, wfds' = wfds, KeepRest
  PROVE  HttpIInv' /\ cl'[b].type = cl[b].type /\ cl'[b].period = cl[b].period
<1> DEFINE s == [cl[b] EXCEPT !.got = net[b].sent]
<1>1. /\ cl[b] \in Client /\ net[b].sent \in 0..Total /\ Answered(cl[b])
      /\ net[b] \in [method : {"GET", "POST", "other"}, sent : 0..Total, gone : {"no", "fin", "reset"}]
  BY DEF HttpIInv, Peers, Served
<1>2. /\ s \in Client /\ s.got = net[b].sent /\ s.type = cl[b].type
      /\ s.period = cl[b].period /\ s.made = cl[b].made /\ s.file = cl[b].file
      /\ s.eof = cl[b].eof /\ s.rest = cl[b].rest /\ s.left = cl[b].left
      /\ s.answer = cl[b].answer
  BY <1>1 DEF Client
<1>3. Answered(s)
  BY <1>1, <1>2 DEF Answered, Expecting
<1>4. cl' = [cl EXCEPT ![b] = s] /\ net' = [net EXCEPT ![b] = net[b]]
  BY DEF HttpIInv, Peers, Served
<1>5. b \in wfds' => s.type = "http" /\ s.period # "header"
  BY <1>2 DEF HttpIInv, Found
<1>6. cl'[b] = s
  BY <1>4 DEF HttpIInv, Served
<1> HIDE DEF s
<1>7. s.got <= net[b].sent
  BY <1>1, <1>2
<1>8. Peers' /\ Served' /\ Found'
  BY OneClient, <1>1, <1>2, <1>3, <1>4, <1>5, <1>7
<1>9. Turns'
  BY RestIs
<1> QED BY <1>2, <1>6, <1>8, <1>9 DEF HttpIInv

LEMMA ParseIs ==
  ASSUME HttpIInv, NEW b \in Block, Parse(b)
  PROVE  \E s \in Client :
           /\ cl' = [cl EXCEPT ![b] = s] /\ s.type = "http" /\ s.got = net[b].sent /\ Answered(s)
           /\ s.period # "close"
           /\ msgs' = msgs \/ msgs' = Append(msgs, b)
<1> DEFINE r == IF cl[b].type = "unknown" THEN [cl[b] EXCEPT !.period = "header"] ELSE cl[b]
           n == net[b].sent
           c == Continued(r, n)
           t == Taken(r, n)
<1>1. cl[b] \in Client /\ n \in 0..Total /\ Answered(cl[b]) /\ cl[b].type # "none"
  BY DEF HttpIInv, Peers, Served, Found, Parse, Readable, Came
<1>2. Parses(b)
  BY DEF Parse
<1>3. r \in Client /\ r.period = "header" /\ r.type # "none" /\ Answered(r)
  <2>1. CASE cl[b].type = "unknown"
    <3>1. r = [cl[b] EXCEPT !.period = "header"]
      BY <2>1
    <3>2. r \in Client
      BY <1>1, <3>1 DEF Client, Period
    <3>3. /\ r.type = cl[b].type /\ r.period = "header" /\ r.made = cl[b].made
          /\ r.file = cl[b].file /\ r.eof = cl[b].eof /\ r.rest = cl[b].rest
      BY <1>1, <3>1 DEF Client
    <3> QED BY <1>1, <2>1, <3>2, <3>3 DEF Answered, Expecting
  <2>2. CASE cl[b].type # "unknown"
    BY <1>1, <1>2, <2>2 DEF Parses
  <2> QED BY <2>1, <2>2
<1>4. \/ cl' = [cl EXCEPT ![b] = c] /\ msgs' = msgs
      \/ cl' = [cl EXCEPT ![b] = Respond(t, "page", "none")] /\ msgs' = msgs
      \/ (\E p \in Plain(c) : cl' = [cl EXCEPT ![b] = p]) /\ msgs' = msgs
      \/ cl' = [cl EXCEPT ![b] = Searching(c)] /\ msgs' = Append(msgs, b)
  BY DEF Parse
<1> HIDE DEF r, n
<1>5. c \in Client /\ c.type = "http" /\ c.got = n /\ c.period = "header" /\ Answered(c)
  BY <1>1, <1>3, ContinuedIs
<1>6. t \in Client /\ t.type = "http" /\ t.got = n /\ t.period = "header" /\ Answered(t)
  BY <1>1, <1>3, TakingIs
<1> HIDE DEF c, t
<1>7. \A q \in {c, t}, a \in {"page", "empty"}, f \in File :
        LET s == Respond(q, a, f)
        IN  s \in Client /\ s.type = "http" /\ s.got = n /\ s.period = "send" /\ Answered(s)
  BY <1>5, <1>6, RespondIs DEF Answer
<1>8. CASE cl' = [cl EXCEPT ![b] = c] /\ msgs' = msgs
  BY <1>5, <1>8 DEF n
<1>9. CASE \E q \in {c, t}, f \in File : cl' = [cl EXCEPT ![b] = Respond(q, "page", f)] /\ msgs' = msgs
  BY <1>7, <1>9 DEF n
<1>10. CASE cl' = [cl EXCEPT ![b] = Searching(c)] /\ msgs' = Append(msgs, b)
  <2> DEFINE e == Respond(c, "empty", "none")
  <2>1. e \in Client /\ e.type = "http" /\ e.got = n /\ e.period = "send" /\ Answered(e)
    BY <1>7 DEF File
  <2>2. Searching(c) = [e EXCEPT !.search = TRUE]
    BY DEF Searching
  <2> HIDE DEF e
  <2> DEFINE s == Searching(c)
  <2>3. /\ s \in Client /\ s.type = "http" /\ s.got = n /\ s.period = "send" /\ s.made = e.made
        /\ s.file = e.file /\ s.eof = e.eof /\ s.rest = e.rest /\ s.answer = e.answer
    BY <2>1, <2>2 DEF Client
  <2> HIDE DEF s
  <2>4. Answered(s)
    BY <2>1, <2>3 DEF Answered, Expecting
  <2> QED BY <1>10, <2>3, <2>4 DEF n, s
<1>11. \A p \in Plain(c) : \E f \in File : p = Respond(c, "page", f)
  BY DEF Plain, File
<1>12. "none" \in File
  BY DEF File
<1> QED BY <1>4, <1>8, <1>9, <1>10, <1>11, <1>12

LEMMA TransmitIs ==
  ASSUME HttpIInv, NEW b \in Block, Transmit(b)
  PROVE  \E s \in Client :
           /\ cl' = [cl EXCEPT ![b] = s] /\ s.type = "http" /\ s.got = cl[b].got
           /\ s.period # "header" /\ Answered(s) /\ Finishing(cl[b], s)
<1> DEFINE k == cl[b]
<1>1. /\ k \in Client /\ k.type = "http" /\ k.period # "header" /\ Answered(k)
      /\ cl \in [Block -> Client]
  BY DEF HttpIInv, Served, Found, Transmit
<1>2. CASE UNCHANGED cl
  <2>1. Finishing(k, k) /\ cl' = [cl EXCEPT ![b] = k]
    BY <1>1, <1>2 DEF Finishing
  <2> QED BY <1>1, <2>1
<1>3. CASE k.left > 0 /\ \E m \in 1..k.left :
             LET r == [k EXCEPT !.left = k.left - m] IN
             \E s \in (IF r.left = 0 /\ r.period = "send" THEN Refilled(r) ELSE {r}) : cl' = [cl EXCEPT ![b] = s]
  <2>1. PICK m \in 1..k.left :
             LET r == [k EXCEPT !.left = k.left - m] IN
             \E s \in (IF r.left = 0 /\ r.period = "send" THEN Refilled(r) ELSE {r}) : cl' = [cl EXCEPT ![b] = s]
    BY <1>3
  <2> DEFINE r == [k EXCEPT !.left = k.left - m]
  <2>2. k.left \in 0..Units /\ k.left - m \in 0..Units
    BY <1>1, RequestAssumption DEF Client
  <2>3. r \in Client
    BY <1>1, <2>2 DEF Client
  <2>4. /\ r.type = "http" /\ r.period = k.period /\ r.got = k.got /\ r.made = k.made
        /\ r.file = k.file /\ r.eof = k.eof /\ r.rest = k.rest /\ r.answer = k.answer
    BY <1>1 DEF Client
  <2>5. k.period # "close"
    BY <1>1, <1>3, <2>2 DEF Answered
  <2>6. PICK s \in (IF r.left = 0 /\ r.period = "send" THEN Refilled(r) ELSE {r}) : cl' = [cl EXCEPT ![b] = s]
    BY <2>1
  <2> HIDE DEF r
  <2>7. Answered(r)
    BY <1>1, <2>4, <2>5 DEF Answered, Expecting
  <2>8. CASE r.left = 0 /\ r.period = "send"
    <3>1. s \in Refilled(r)
      BY <2>6, <2>8
    <3>2. /\ s \in Client /\ s.type = "http" /\ s.got = r.got /\ s.period # "header"
          /\ Answered(s) /\ Finishing(r, s)
      BY <2>3, <2>4, <2>7, <2>8, <3>1, RefilledIs
    <3>3. Finishing(k, s)
      BY <2>4, <3>2 DEF Finishing
    <3> QED BY <2>4, <2>6, <3>2, <3>3
  <2>9. CASE ~(r.left = 0 /\ r.period = "send")
    <3>1. s = r
      BY <2>6, <2>9
    <3>2. Finishing(k, s)
      BY <2>4, <2>5, <3>1 DEF Finishing
    <3> QED BY <1>1, <2>3, <2>4, <2>6, <2>7, <3>1, <3>2
  <2> QED BY <2>8, <2>9
<1>4. CASE k.left = 0 /\ \E s \in Refilled(k) : cl' = [cl EXCEPT ![b] = s]
  BY <1>1, <1>4, RefilledIs
<1> QED BY <1>2, <1>3, <1>4 DEF Transmit

-----------------------------------------------------------------------------
(* Every step keeps the invariant, and drops or finishes with a client     *)
(* only as stated.                                                         *)

Dropped ==
  \A b \in Block : cl[b].type # "none" /\ cl'[b].type = "none" /\ net[b].gone = "no"
    => net[b].method = "other" \/ (net[b].method = "POST" /\ net[b].sent = 4)

Finished == \A b \in Block : Finishing(cl[b], cl'[b])

LEMMA KeptIs ==
  ASSUME HttpIInv, NEW b \in Block, NEW s,
         cl' = [cl EXCEPT ![b] = s], s.type # "none" \/ s.type = cl[b].type,
         Finishing(cl[b], s)
  PROVE  Dropped /\ Finished
  BY DEF Dropped, Finished, Finishing, HttpIInv, Served

LEMMA SameClients ==
  ASSUME \A b \in Block : /\ cl'[b].type = cl[b].type
                          /\ cl'[b].period = cl[b].period \/ cl'[b].period # "close"
  PROVE  Dropped /\ Finished
  BY DEF Dropped, Finished, Finishing

LEMMA ConnectStep ==
  ASSUME HttpIInv, Connect
  PROVE  HttpIInv' /\ Dropped /\ Finished
<1> USE DEF Connect, ready
<1>1. Turns'
  BY RequestAssumption DEF HttpIInv, Turns
<1>2. Peers' /\ Served' /\ Found'
  BY DEF HttpIInv, Peers, Served, Found, Answered, Expecting
<1> QED BY <1>1, <1>2, SameClients DEF HttpIInv

LEMMA SendStep ==
  ASSUME HttpIInv, NEW b \in Block, NEW n \in Cuts, Send(b, n)
  PROVE  HttpIInv' /\ Dropped /\ Finished
<1> USE DEF Send, ready
<1>1. n \in 0..Total
  BY RequestAssumption
<1>2. Peers' /\ \A c \in Block : net'[c].sent >= net[c].sent /\ net'[c].gone = net[c].gone
  BY <1>1 DEF HttpIInv, Peers
<1>3. \A c \in Block : cl[c].got \in 0..Total /\ net[c].sent \in 0..Total /\ net'[c].sent \in 0..Total
  BY <1>2 DEF HttpIInv, Peers, Served, Client
<1>4. Served'
  BY <1>2, <1>3 DEF HttpIInv, Served, Answered, Expecting
<1>5. Found'
  BY <1>2, <1>3 DEF HttpIInv, Found
<1>6. Turns'
  BY DEF HttpIInv, Turns
<1> QED BY <1>2, <1>4, <1>5, <1>6, SameClients DEF HttpIInv

LEMMA LeaveStep ==
  ASSUME HttpIInv, NEW b \in Block, NEW how \in {"fin", "reset"}, Leave(b, how)
  PROVE  HttpIInv' /\ Dropped /\ Finished
<1> USE DEF Leave, ready
<1>1. /\ Peers'
      /\ \A c \in Block : /\ net'[c].sent = net[c].sent
                          /\ net'[c].gone = net[c].gone \/ net'[c].gone # "no"
  BY DEF HttpIInv, Peers
<1>2. Served'
  BY <1>1 DEF HttpIInv, Served, Answered, Expecting
<1>3. Found'
  BY <1>1 DEF HttpIInv, Found
<1>4. Turns'
  BY DEF HttpIInv, Turns
<1> QED BY <1>1, <1>2, <1>3, <1>4, SameClients DEF HttpIInv

LEMMA SelectStep ==
  ASSUME HttpIInv, Select
  PROVE  HttpIInv' /\ Dropped /\ Finished
<1> USE DEF Select, network
<1>1. Turns'
  BY GoOnIs DEF HttpIInv, Turns
<1>2. Peers' /\ Served'
  BY DEF HttpIInv, Peers, Served, Answered, Expecting
<1>3. Found'
  BY DEF HttpIInv, Found, Clients
<1> QED BY <1>1, <1>2, <1>3, SameClients DEF HttpIInv

LEMMA HangsUpStep ==
  ASSUME HttpIInv, NEW b \in Block, HangsUp(b)
  PROVE  HttpIInv' /\ Dropped /\ Finished
<1>1. HttpIInv'
  BY RemoveIs DEF HangsUp
<1>2. net[b].gone # "no"
  <2>1. net[b].sent \in 0..Total /\ (net[b].sent > cl[b].got \/ net[b].gone # "no")
    BY DEF HttpIInv, Peers, Found, HangsUp, Came
  <2> QED BY <2>1 DEF HangsUp
<1>3. cl'[b] = Free /\ \A c \in Block \ {b} : cl'[c] = cl[c]
  BY DEF HangsUp, Remove, HttpIInv, Served
<1> QED BY <1>1, <1>2, <1>3 DEF Dropped, Finished, Finishing, Free

LEMMA RejectStep ==
  ASSUME HttpIInv, NEW b \in Block, Reject(b)
  PROVE  HttpIInv' /\ Dropped /\ Finished
<1>1. HttpIInv'
  BY RemoveIs DEF Reject
<1>2. net[b].method = "other" \/ (net[b].method = "POST" /\ net[b].sent = 4)
  <2>1. net[b].sent \in 0..Total /\ net[b].method \in {"GET", "POST", "other"}
    BY DEF HttpIInv, Peers
  <2> QED BY <2>1, RequestAssumption DEF Reject, Recognised
<1>3. cl'[b] = Free /\ \A c \in Block \ {b} : cl'[c] = cl[c]
  BY DEF Reject, Remove, HttpIInv, Served
<1> QED BY <1>1, <1>2, <1>3 DEF Dropped, Finished, Finishing, Free
LEMMA MsgHandlerStep ==
  ASSUME HttpIInv, MsgHandler
  PROVE  HttpIInv' /\ Dropped /\ Finished
<1> DEFINE b == Head(msgs)
<1>1. mready /\ msgs # <<>> /\ b \in Block /\ Tail(msgs) \in Seq(Block)
  BY HeadTailProperties DEF HttpIInv, Turns, MsgHandler
<1>2. Turns'
  <2>1. /\ waiting' = waiting /\ conns' = conns /\ mready' = FALSE /\ lready' = lready
        /\ pc' \in PcTurn /\ (pc' = "new" => lready') /\ (pc' = "msg" => mready')
    BY GoOnIs DEF MsgHandler, network
  <2>2. msgs' \in Seq(Block)
    BY <1>1 DEF MsgHandler
  <2> QED BY <2>1, <2>2 DEF HttpIInv, Turns
<1>3. net' = net /\ rfds' = rfds /\ wfds' = wfds
  BY DEF MsgHandler, network
<1>4. CASE b \in Clients
  <2> DEFINE s == Respond(cl[b], "json", "none")
  <2>1. /\ cl[b] \in Client /\ Answered(cl[b]) /\ cl[b].got <= net[b].sent /\ cl[b].type # "none"
        /\ net[b] \in [method : {"GET", "POST", "other"}, sent : 0..Total, gone : {"no", "fin", "reset"}]
    BY <1>1, <1>4 DEF HttpIInv, Peers, Served, Clients
  <2>2. /\ s \in Client /\ s.type = cl[b].type /\ s.got = cl[b].got /\ s.period = "send"
        /\ Answered(s)
    BY <2>1, RespondIs DEF Answer, File
  <2>3. cl' = [cl EXCEPT ![b] = s] /\ net' = [net EXCEPT ![b] = net[b]]
    BY <1>3, <1>4 DEF MsgHandler, HttpIInv, Peers
  <2> HIDE DEF s
  <2>4. s.got <= net[b].sent
    BY <2>1, <2>2
  <2>5. b \in rfds' => s.type # "none" /\ (net[b].sent > s.got \/ net[b].gone # "no")
    BY <1>3, <2>2 DEF HttpIInv, Found
  <2>6. b \in wfds' => s.type = "http" /\ s.period # "header"
    BY <1>3, <2>2 DEF HttpIInv, Found
  <2>7. Peers' /\ Served' /\ Found'
    BY OneClient, <1>1, <1>3, <2>1, <2>2, <2>3, <2>4, <2>5, <2>6
  <2>8. \A c \in Block : /\ cl'[c].type = cl[c].type
                         /\ cl'[c].period = cl[c].period \/ cl'[c].period = "send"
    BY <1>1, <2>2, <2>3 DEF HttpIInv, Served
  <2> QED BY <1>2, <2>7, <2>8, SameClients DEF HttpIInv
<1>5. CASE b \notin Clients
  <2>1. cl' = cl
    BY <1>5 DEF MsgHandler
  <2>2. Peers' /\ Served' /\ Found'
    BY <1>3, <2>1 DEF HttpIInv, Peers, Served, Found, Answered, Expecting
  <2> QED BY <1>2, <2>1, <2>2, SameClients DEF HttpIInv
<1> QED BY <1>4, <1>5

LEMMA TakenStep ==
  ASSUME HttpIInv, NEW b \in Block, KeepPrefix(b) \/ Ignore(b)
  PROVE  HttpIInv' /\ Dropped /\ Finished
<1>1. /\ b \in rfds /\ cl' = [cl EXCEPT ![b].got = net[b].sent] /\ net' = net /\ msgs' = msgs
      /\ rfds' = rfds \ {b} /\ wfds' = wfds /\ KeepRest
  BY DEF KeepPrefix, Ignore, Readable, Came
<1>2. HttpIInv' /\ cl'[b].type = cl[b].type /\ cl'[b].period = cl[b].period
  BY <1>1, TakenIs
<1>3. \A c \in Block \ {b} : cl'[c] = cl[c]
  BY <1>1 DEF HttpIInv, Served
<1> QED BY <1>2, <1>3, SameClients

LEMMA ParseStep ==
  ASSUME HttpIInv, NEW b \in Block, Parse(b)
  PROVE  HttpIInv' /\ Dropped /\ Finished
<1>1. PICK s \in Client :
         /\ cl' = [cl EXCEPT ![b] = s] /\ s.type = "http" /\ s.got = net[b].sent /\ Answered(s)
         /\ s.period # "close"
         /\ msgs' = msgs \/ msgs' = Append(msgs, b)
  BY ParseIs
<1>2. net' = net /\ rfds' = rfds \ {b} /\ wfds' = wfds /\ KeepRest
  BY DEF Parse
<1>3. /\ net[b] \in [method : {"GET", "POST", "other"}, sent : 0..Total, gone : {"no", "fin", "reset"}]
      /\ net' = [net EXCEPT ![b] = net[b]] /\ net[b].sent \in 0..Total
  BY <1>2 DEF HttpIInv, Peers
<1>4. b \notin wfds
  BY DEF Parse, Parses, HttpIInv, Found
<1>5. s.got <= net[b].sent
  BY <1>1, <1>3
<1>6. Peers' /\ Served' /\ Found'
  <2>1. rfds' \subseteq rfds /\ wfds' \subseteq wfds /\ b \notin rfds' /\ b \notin wfds'
    BY <1>2, <1>4
  <2> QED BY OneClient, <1>1, <1>3, <1>5, <2>1
<1>7. Turns'
  BY RestIs, <1>1, <1>2
<1>8. Dropped /\ Finished
  BY KeptIs, <1>1 DEF Finishing
<1> QED BY <1>6, <1>7, <1>8 DEF HttpIInv

LEMMA TransmitStep ==
  ASSUME HttpIInv, NEW b \in Block, Transmit(b)
  PROVE  HttpIInv' /\ Dropped /\ Finished
<1>1. PICK s \in Client :
         /\ cl' = [cl EXCEPT ![b] = s] /\ s.type = "http" /\ s.got = cl[b].got
         /\ s.period # "header" /\ Answered(s) /\ Finishing(cl[b], s)
  BY TransmitIs
<1>2. /\ net' = net /\ rfds' = rfds /\ wfds' = wfds \ {b} /\ b \notin rfds /\ KeepRest
      /\ msgs' = msgs
  BY DEF Transmit
<1>3. /\ net[b] \in [method : {"GET", "POST", "other"}, sent : 0..Total, gone : {"no", "fin", "reset"}]
      /\ net' = [net EXCEPT ![b] = net[b]] /\ cl[b].got <= net[b].sent
  BY <1>2 DEF HttpIInv, Peers, Served
<1>5. Peers' /\ Served' /\ Found'
  <2>1. rfds' \subseteq rfds /\ wfds' \subseteq wfds /\ b \notin rfds' /\ b \notin wfds'
    BY <1>2
  <2>2. s.got <= net[b].sent
    BY <1>1, <1>3
  <2> QED BY OneClient, <1>1, <1>3, <2>1, <2>2
<1>6. Turns'
  BY RestIs, <1>2
<1>7. Dropped /\ Finished
  BY KeptIs, <1>1
<1> QED BY <1>5, <1>6, <1>7 DEF HttpIInv

LEMMA NewClientStep ==
  ASSUME HttpIInv, NEW b \in Block, NEW m \in {"GET", "POST", "other"}, NewClient(b, m)
  PROVE  HttpIInv' /\ Dropped /\ Finished
<1> DEFINE s == [Free EXCEPT !.type = "unknown"]
           p == [NoPeer EXCEPT !.method = m]
<1>1. s \in Client /\ Answered(s) /\ s.type = "unknown" /\ s.got = 0
      /\ s.period = "header"
  <2>1. Free \in Client
    BY FreeIs
  <2>2. /\ s.type = "unknown" /\ s.period = "header" /\ s.got = 0 /\ s.made = 0
        /\ s.file = "none" /\ s.eof = FALSE /\ s.rest = 0
    BY DEF Free
  <2>3. s \in Client
    BY <2>1 DEF Client, Type
  <2> HIDE DEF s
  <2> QED BY <2>2, <2>3 DEF Answered, Expecting
<1>2. /\ p \in [method : {"GET", "POST", "other"}, sent : 0..Total, gone : {"no", "fin", "reset"}]
      /\ p.sent = 0
  BY RequestAssumption DEF NoPeer
<1>3. cl' = [cl EXCEPT ![b] = s] /\ net' = [net EXCEPT ![b] = p]
  BY DEF NewClient
<1> HIDE DEF s, p
<1>4. Peers' /\ Served' /\ Found'
  <2>1. cl[b].type = "none" /\ b \notin rfds /\ b \notin wfds /\ rfds' = rfds /\ wfds' = wfds
    BY DEF NewClient, Clients, HttpIInv, Found
  <2>2. s.got <= p.sent
    BY <1>1, <1>2
  <2> QED BY OneClient, <1>1, <1>2, <1>3, <2>1, <2>2
<1>5. Turns'
  <2>1. waiting \in 0..conns /\ waiting > 0 /\ conns \in Nat
    BY RequestAssumption DEF NewClient, HttpIInv, Turns
  <2>2. /\ waiting' = waiting - 1 /\ conns' = conns /\ msgs' = msgs /\ mready' = mready /\ lready' = FALSE
        /\ pc' \in PcTurn /\ (pc' = "new" => lready') /\ (pc' = "msg" => mready')
    BY GoOnIs DEF NewClient
  <2>3. waiting - 1 \in 0..conns
    BY <2>1
  <2> QED BY <2>2, <2>3 DEF HttpIInv, Turns
<1>6. Dropped /\ Finished
  BY <1>1, <1>3, KeptIs DEF Finishing
<1> QED BY <1>4, <1>5, <1>6 DEF HttpIInv

LEMMA RefuseStep ==
  ASSUME HttpIInv, Refuse
  PROVE  HttpIInv' /\ Dropped /\ Finished
<1>1. Turns'
  <2>1. waiting \in 0..conns /\ waiting > 0 /\ conns \in Nat
    BY RequestAssumption DEF Refuse, HttpIInv, Turns
  <2>2. /\ waiting' = waiting - 1 /\ conns' = conns /\ msgs' = msgs /\ mready' = mready /\ lready' = FALSE
        /\ pc' \in PcTurn /\ (pc' = "new" => lready') /\ (pc' = "msg" => mready')
    BY GoOnIs DEF Refuse
  <2>3. waiting - 1 \in 0..conns
    BY <2>1
  <2> QED BY <2>2, <2>3 DEF HttpIInv, Turns
<1>2. Peers' /\ Served' /\ Found'
  BY DEF Refuse, HttpIInv, Peers, Served, Found, Answered, Expecting
<1>3. Dropped /\ Finished
  BY SameClients DEF Refuse
<1> QED BY <1>1, <1>2, <1>3 DEF HttpIInv

LEMMA CrashStep ==
  ASSUME HttpIInv, Crash
  PROVE  HttpIInv' /\ Dropped /\ Finished
<1> USE DEF Crash, network, ready
<1>1. Turns'
  BY DEF HttpIInv, Turns, PcTurn
<1>2. Peers' /\ Served' /\ Found'
  BY DEF HttpIInv, Peers, Served, Found, Answered, Expecting
<1> QED BY <1>1, <1>2, SameClients DEF HttpIInv

LEMMA HttpStep ==
  ASSUME HttpIInv, [HttpNext]_httpVars
  PROVE  HttpIInv' /\ Dropped /\ Finished
<1>1. CASE UNCHANGED httpVars
  <2>1. UNCHANGED <<net, waiting, conns, cl, msgs, pc, rfds, wfds, mready, lready>>
    BY <1>1 DEF httpVars, network, ready
  <2>2. HttpIInv'
    BY <2>1 DEF HttpIInv, Peers, Served, Turns, Found, Answered, Expecting
  <2> QED BY <2>1, <2>2, SameClients
<1>2. CASE Connect
  BY <1>2, ConnectStep
<1>3. ASSUME NEW b \in Block, \E n \in Cuts : Send(b, n)
      PROVE  HttpIInv' /\ Dropped /\ Finished
  BY <1>3, SendStep
<1>4. ASSUME NEW b \in Block, \E how \in {"fin", "reset"} : Leave(b, how)
      PROVE  HttpIInv' /\ Dropped /\ Finished
  BY <1>4, LeaveStep
<1>5. CASE Select
  BY <1>5, SelectStep
<1>6. CASE MsgHandler
  BY <1>6, MsgHandlerStep
<1>7. CASE Crash
  BY <1>7, CrashStep
<1>8. CASE Refuse
  BY <1>8, RefuseStep
<1>9. ASSUME NEW b \in Block, HangsUp(b) \/ Reject(b)
      PROVE  HttpIInv' /\ Dropped /\ Finished
  BY <1>9, HangsUpStep, RejectStep
<1>10. ASSUME NEW b \in Block, KeepPrefix(b) \/ Ignore(b)
       PROVE  HttpIInv' /\ Dropped /\ Finished
  BY <1>10, TakenStep
<1>11. ASSUME NEW b \in Block, Parse(b) \/ Transmit(b)
       PROVE  HttpIInv' /\ Dropped /\ Finished
  BY <1>11, ParseStep, TransmitStep
<1>12. ASSUME NEW b \in Block, \E m \in {"GET", "POST", "other"} : NewClient(b, m)
       PROVE  HttpIInv' /\ Dropped /\ Finished
  BY <1>12, NewClientStep
<1> QED BY <1>1, <1>2, <1>3, <1>4, <1>5, <1>6, <1>7, <1>8, <1>9, <1>10, <1>11, <1>12 DEF HttpNext, Turn

-----------------------------------------------------------------------------
LEMMA HttpInvariant == HttpSpec => []HttpIInv
<1>1. HttpIInv /\ [HttpNext]_httpVars => HttpIInv'
  BY HttpStep
<1> QED BY HttpInitInv, <1>1, PTL DEF HttpSpec

(* Whatever clients send and wherever the server is in its turn, the       *)
(* clients of libhttpserver/server.c and what select found stay well       *)
(* formed.                                                                 *)
THEOREM HttpTypeCorrect == HttpSpec => []HttpTypeOK
<1>1. HttpIInv => HttpTypeOK
  BY HttpInvIs
<1> QED BY HttpInvariant, <1>1, PTL

(* What select found is still so when the turn comes to use it, whatever   *)
(* the clients did meanwhile and whoever was removed: a client recv is     *)
(* called on lives and has bytes or an end to give, one send_client_data   *)
(* serves has a request behind it, a message is taken only off a queue     *)
(* that holds one, and accept called only when a connection waits.         *)
THEOREM FoundCorrect ==
  HttpSpec => [](Found /\ (pc = "msg" => msgs # <<>>) /\ (pc = "new" => waiting > 0))
<1>1. HttpIInv => Found /\ (pc = "msg" => msgs # <<>>) /\ (pc = "new" => waiting > 0)
  BY DEF HttpIInv, Turns
<1> QED BY HttpInvariant, <1>1, PTL

(* handle_http_client_request answers a connection once, for requests of   *)
(* any length cut anywhere, files of any length and any number of clients. *)
THEOREM OneAnswerCorrect == HttpSpec => []OneAnswer
<1>1. HttpIInv => OneAnswer
  BY HttpInvIs
<1> QED BY HttpInvariant, <1>1, PTL

(* clients_handler drops a client that has not left only for its method,   *)
(* or for a first piece of exactly four letters of POST.                   *)
THEOREM DroppedCorrect == HttpSpec => DroppedForMethod
<1>1. HttpIInv /\ [HttpNext]_httpVars => [Dropped]_httpVars
  BY HttpStep
<1>2. [][Dropped]_httpVars <=> DroppedForMethod
  BY PTL DEF Dropped, DroppedForMethod
<1> QED BY HttpInvariant, <1>1, <1>2, PTL DEF HttpSpec

(* send_client_data shuts a connection down only behind an answer: one was *)
(* made, by the request or by a message, the file was read to its end, and *)
(* nothing is left to send.                                                *)
THEOREM FinishedCorrect == HttpSpec => [][Finished]_httpVars
<1>1. HttpIInv /\ [HttpNext]_httpVars => [Finished]_httpVars
  BY HttpStep
<1> QED BY HttpInvariant, <1>1, PTL DEF HttpSpec

-----------------------------------------------------------------------------
(* The process.  A thread's tick is never older than its last frame: it    *)
(* ticks before it waits for one.  While it handles a frame the time it    *)
(* waited is gap, and unfed counts anew.  The HTTP thread does not wait.   *)

AgeInv ==
  /\ rtsp \notin {"loop", "events", "ended"} => rtspAge <= unfed
  /\ rtsp \in {"loop", "events"} => rtspAge <= unfed \/ rtspAge <= gap
  /\ serverAge <= 1 \/ server = "ended"

(* main creates each thread once.                                          *)
CreateInv ==
  /\ main = "create_rtsp" => rtsp = "none"
  /\ main \in {"create_rtsp", "create_server"} => server = "none"

IInv == TypeOK /\ AgeInv /\ CreateInv

Age == 0 .. Threshold + 1

LEMMA OlderIs ==
  ASSUME NEW a \in Age, NEW b \in Age
  PROVE  /\ Older(a) \in Age /\ (a <= b => Older(a) <= Older(b))
         /\ (a = 0 => Older(a) = 1 /\ Older(a) <= Older(b))
  BY ThresholdAssumption DEF Age, Older

(* What the frame queue's actions do to its variables' types.              *)
Typed ==
  /\ items \in Seq(Frame) /\ Len(items) <= Capacity
  /\ offered \in [{Capture} -> Frame \cup {NoFrame}]
  /\ taken \in [{Rtsp} -> Frame \cup {NoFrame}]

LEMMA QueueStep ==
  /\ \A f \in Frame : Typed /\ Queue!Offer(Capture, f) => Typed' /\ taken' = taken
  /\ Typed /\ Queue!Accept(Capture) => Typed' /\ taken' = taken
  /\ Typed /\ Queue!Deliver(Rtsp) => Typed' /\ taken'[Rtsp] # NoFrame
  /\ Typed /\ Queue!Consume(Rtsp) => Typed' /\ taken'[Rtsp] = NoFrame
<1>1. ASSUME NEW f \in Frame, Typed, Queue!Offer(Capture, f) PROVE Typed' /\ taken' = taken
  BY <1>1 DEF Typed, Queue!Offer
<1>2. ASSUME Typed, Queue!Accept(Capture) PROVE Typed' /\ taken' = taken
  <2>1. offered[Capture] \in Frame /\ Len(items) \in Nat /\ Capacity \in Nat
    BY <1>2, QueueAssumption, LenProperties DEF Typed, Queue!Accept
  <2>2. items' \in Seq(Frame) /\ Len(items') = Len(items) + 1
    BY <1>2, <2>1, AppendProperties DEF Typed, Queue!Accept
  <2>3. Len(items') <= Capacity
    BY <1>2, <2>1, <2>2 DEF Queue!Accept
  <2> QED BY <1>2, <2>2, <2>3 DEF Typed, Queue!Accept
<1>3. ASSUME Typed, Queue!Deliver(Rtsp) PROVE Typed' /\ taken'[Rtsp] # NoFrame
  <2>1. /\ Head(items) \in Frame /\ items' \in Seq(Frame) /\ Len(items') = Len(items) - 1
        /\ Len(items) \in Nat /\ Capacity \in Nat
    BY <1>3, QueueAssumption, HeadTailProperties, LenProperties DEF Typed, Queue!Deliver
  <2>2. Len(items') <= Capacity
    BY <1>3, <2>1 DEF Typed
  <2>3. taken' = [taken EXCEPT ![Rtsp] = Head(items)] /\ offered' = offered
    BY <1>3 DEF Queue!Deliver
  <2> QED BY <1>3, <2>1, <2>2, <2>3, QueueAssumption DEF Typed
<1>4. ASSUME Typed, Queue!Consume(Rtsp) PROVE Typed' /\ taken'[Rtsp] = NoFrame
  BY <1>4 DEF Typed, Queue!Consume
<1> QED BY <1>1, <1>2, <1>3, <1>4

LEMMA InitInv == Init => IInv
<1> SUFFICES ASSUME Init PROVE IInv
  OBVIOUS
<1> USE DEF Init
<1>1. Typed /\ taken[Rtsp] = NoFrame
  BY QueueAssumption DEF Queue!Init, Typed
<1>2. TypeOK
  <2>1. 0 \in 0 .. Threshold + 1
    BY ThresholdAssumption
  <2>2. rtspAge = 0 /\ serverAge = 0 /\ unfed = 0 /\ gap = 0 /\ run = TRUE /\ polled = FALSE /\ asked = FALSE
        /\ main = "create_rtsp" /\ rtsp = "none" /\ server = "none"
    OBVIOUS
  <2> QED BY <1>1, <2>1, <2>2, Zenon DEF TypeOK, Typed
<1>3. AgeInv /\ CreateInv
  BY DEF AgeInv, CreateInv
<1> QED BY <1>2, <1>3 DEF IInv

LEMMA NextInv == IInv /\ [Next]_vars => IInv'
<1> SUFFICES ASSUME IInv, [Next]_vars PROVE IInv'
  OBVIOUS
<1> USE DEF IInv, TypeOK, AgeInv, CreateInv
<1>1. CASE UNCHANGED vars
  BY <1>1 DEF vars, watch, queue, history
<1>2. CASE CreateRtsp
  BY <1>2 DEF CreateRtsp, queue, history
<1>3. CASE CreateServer
  BY <1>3 DEF CreateServer, queue, history
<1>4. CASE CreateUpload \/ CreateWebrtc \/ CreateFails
  BY <1>4 DEF CreateUpload, CreateWebrtc, CreateFails, queue, history
<1>5. CASE Poll
  BY <1>5 DEF Poll, queue, history
<1>6. ASSUME NEW f \in Frame, CaptureFrame(f)
      PROVE  IInv'
  <2>1. Typed' /\ taken' = taken
    BY <1>6, QueueStep DEF CaptureFrame, Typed
  <2> QED BY <1>6, <2>1 DEF CaptureFrame, Typed, watch, history
<1>7. CASE FrameQueued
  <2>1. Typed' /\ taken' = taken
    BY <1>7, QueueStep DEF FrameQueued, Typed
  <2> QED BY <1>7, <2>1 DEF FrameQueued, Typed, watch, history
<1>8. ASSUME NEW ok \in BOOLEAN, RtspInit(ok) \/ ServerInit(ok)
      PROVE  IInv'
  BY <1>8 DEF RtspInit, ServerInit, queue, watch, history
<1>9. CASE RtspTurn
  BY <1>9, ThresholdAssumption DEF RtspTurn, queue, history
<1>10. CASE RtspDequeue
  <2>1. Typed' /\ taken'[Rtsp] # NoFrame
    BY <1>10, QueueStep DEF RtspDequeue, Typed
  <2>2. rtsp' = "events" /\ unfed' = 0 /\ gap' = unfed /\ rtspAge <= unfed
        /\ UNCHANGED <<main, polled, rtspAge, serverAge, server, run, asked>>
    BY <1>10 DEF RtspDequeue
  <2> QED BY <2>1, <2>2, <1>10, ThresholdAssumption DEF RtspDequeue, Typed
<1>11. CASE RtspEvents \/ RtspEventsFail
  <2>1. Typed' /\ taken'[Rtsp] = NoFrame
    BY <1>11, QueueStep DEF RtspEvents, RtspEventsFail, Typed
  <2> QED BY <1>11, <2>1 DEF RtspEvents, RtspEventsFail, Typed, watch, history
<1>12. CASE ServerTurn
  BY <1>12, ThresholdAssumption DEF ServerTurn, queue, history
<1>13. CASE Sigint \/ CaptureExit
  <2>1. main' \in {"killed", "exited"} \/ main' = main
    BY <1>13 DEF Sigint, CaptureExit
  <2>2. run' \in BOOLEAN
    BY <1>13 DEF Sigint, CaptureExit
  <2>3. UNCHANGED <<queue, polled, rtspAge, serverAge, history, rtsp, server, asked>>
    BY <1>13 DEF Sigint, CaptureExit
  <2>4. TypeOK'
    BY <2>1, <2>2, <2>3 DEF queue, history
  <2> QED BY <2>1, <2>3, <2>4 DEF history
<1>14. CASE Request
  BY <1>14 DEF Request, queue, watch, history
<1>15. CASE Tick
  <2>1. /\ rtspAge \in Age /\ serverAge \in Age /\ unfed \in Age
        /\ rtspAge' = Older(rtspAge) /\ serverAge' = Older(serverAge) /\ unfed' = Older(unfed)
    BY <1>15 DEF Tick, Age
  <2>2. rtspAge' \in Age /\ serverAge' \in Age /\ unfed' \in Age
    BY <2>1, OlderIs
  <2>3. rtsp # "ended" => rtspAge' <= unfed'
    <3>1. rtsp # "ended" => rtspAge = 0 \/ (rtsp = "dequeue" /\ rtspAge <= unfed)
      BY <1>15 DEF Tick, Starved
    <3> QED BY <2>1, <3>1, OlderIs
  <2>4. server # "ended" => serverAge' <= 1
    <3>1. server # "ended" => serverAge = 0
      BY <1>15 DEF Tick
    <3>2. server # "ended" => serverAge' = 1
      BY <2>1, <3>1, OlderIs
    <3> QED BY <3>2
  <2>5. main = "watch" /\ polled' = FALSE /\ UNCHANGED <<queue, main, gap, rtsp, server, run, asked>>
    BY <1>15 DEF Tick
  <2> QED BY <2>2, <2>3, <2>4, <2>5 DEF Age, queue
<1> QED BY <1>1, <1>2, <1>3, <1>4, <1>5, <1>6, <1>7, <1>8, <1>9, <1>10, <1>11, <1>12, <1>13,
           <1>14, <1>15 DEF Next, MainStep, RtspStep, ServerStep

LEMMA Invariant == Spec => []IInv
  BY InitInv, NextInv, PTL DEF Spec

(* The state of the process and of its watchdog is well formed, and the    *)
(* RTSP thread of main/c_rtsp_server.c holds a frame exactly while it      *)
(* handles one, for every threshold and any length of the frame queue.     *)
THEOREM TypeCorrect == Spec => []TypeOK
<1>1. IInv => TypeOK
  BY DEF IInv
<1> QED BY Invariant, <1>1, PTL

(* For every threshold, main/server.c gives up a process whose threads     *)
(* still run only when the camera gave no frame for longer than it.        *)
THEOREM AlarmCorrect == Spec => NoFalseAlarm
<1> DEFINE A == main = "watch" /\ main' = "left" =>
       \/ unfed > Threshold
       \/ rtsp \in {"events", "loop"} /\ gap > Threshold
       \/ rtsp = "ended" /\ rtspAge > Threshold
       \/ server = "ended" /\ serverAge > Threshold
<1>1. IInv /\ [Next]_vars => [A]_vars
  <2> SUFFICES ASSUME IInv, Next, main = "watch", main' = "left" PROVE A
    OBVIOUS
  <2>1. Poll
    BY DEF Next, MainStep, RtspStep, ServerStep, CreateRtsp, CreateServer, CreateUpload,
           CreateWebrtc, CreateFails, FrameQueued, RtspInit, RtspTurn, RtspDequeue, RtspEvents,
           RtspEventsFail, ServerTurn, ServerInit, CaptureFrame, Sigint, CaptureExit, Request,
           Tick, watch
  <2>2. rtspAge > Threshold \/ serverAge > Threshold
    <3>1. ~Alive(rtspAge) \/ ~Alive(serverAge)
      BY <2>1 DEF Poll
    <3>2. rtspAge \in 0 .. Threshold + 1 /\ serverAge \in 0 .. Threshold + 1
      BY DEF IInv, TypeOK
    <3> QED BY <3>1, <3>2, ThresholdAssumption DEF Alive
  <2>3. serverAge > Threshold => server = "ended"
    BY ThresholdAssumption DEF IInv, TypeOK, AgeInv
  <2>4. rtspAge > Threshold => unfed > Threshold \/ rtsp = "ended"
          \/ (rtsp \in {"events", "loop"} /\ gap > Threshold)
    BY ThresholdAssumption DEF IInv, TypeOK, AgeInv
  <2> QED BY <2>2, <2>3, <2>4
<1>2. [][A]_vars <=> NoFalseAlarm
  BY PTL DEF NoFalseAlarm
<1> QED BY Invariant, <1>1, <1>2, PTL DEF Spec

(* What main has looked at in this unit is not over the threshold.         *)
LEMMA PolledInv ==
  Spec => [](main = "watch" /\ polled => rtspAge <= Threshold /\ serverAge <= Threshold)
<1> DEFINE Looked == main = "watch" /\ polled => rtspAge <= Threshold /\ serverAge <= Threshold
           Early == main \notin {"left", "killed", "exited", "watch"} => polled = FALSE
<1>1. Init => Looked /\ Early
  BY DEF Init
<1>2. IInv /\ Looked /\ Early /\ [Next]_vars => Looked' /\ Early'
  <2> SUFFICES ASSUME IInv, Looked, Early, [Next]_vars PROVE Looked' /\ Early'
    OBVIOUS
  <2>1. rtspAge \in 0 .. Threshold + 1 /\ serverAge \in 0 .. Threshold + 1 /\ Threshold \in Nat
    BY ThresholdAssumption DEF IInv, TypeOK
  <2>2. CASE Poll
    BY <2>1, <2>2 DEF Poll, Alive
  <2>3. CASE Tick
    BY <2>3 DEF Tick
  <2>4. CASE CreateRtsp \/ CreateServer \/ CreateUpload \/ CreateWebrtc \/ CreateFails
    BY <2>4 DEF CreateRtsp, CreateServer, CreateUpload, CreateWebrtc, CreateFails
  <2>5. CASE /\ polled' = polled
             /\ main' = main \/ main' \in {"killed", "exited"}
             /\ rtspAge' = rtspAge \/ rtspAge' = 0
             /\ serverAge' = serverAge \/ serverAge' = 0
    BY <2>1, <2>5
  <2>6. CASE UNCHANGED vars \/ FrameQueued \/ \E f \in Frame : CaptureFrame(f)
    BY <2>5, <2>6 DEF vars, watch, FrameQueued, CaptureFrame
  <2>7. CASE RtspStep \/ ServerStep
    BY <2>5, <2>7 DEF RtspStep, ServerStep, RtspInit, RtspTurn, RtspDequeue, RtspEvents,
                      RtspEventsFail, ServerInit, ServerTurn, watch
  <2>8. CASE Sigint \/ CaptureExit \/ Request
    BY <2>5, <2>8 DEF Sigint, CaptureExit, Request, watch
  <2> QED BY <2>2, <2>3, <2>4, <2>6, <2>7, <2>8 DEF Next, MainStep
<1> QED BY Invariant, <1>1, <1>2, PTL DEF Spec

(* The converse, the part of SigintStops and EndedIsNoticed that is not    *)
(* liveness: while main watches, time passes only when it has looked at    *)
(* both threads in this unit and found neither of them over the threshold. *)
THEOREM AlarmInTime ==
  Spec => [][Tick => rtspAge <= Threshold /\ serverAge <= Threshold]_vars
<1> DEFINE Looked == main = "watch" /\ polled => rtspAge <= Threshold /\ serverAge <= Threshold
<1>1. Looked /\ [Next]_vars => [Tick => rtspAge <= Threshold /\ serverAge <= Threshold]_vars
  BY DEF Tick
<1>2. Spec => []Looked
  BY PolledInv
<1> QED BY <1>1, <1>2, PTL DEF Spec
=============================================================================
