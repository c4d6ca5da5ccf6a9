---------------------------- MODULE UploadServer ----------------------------
(***************************************************************************)
(* libupload/src/server.c: the upload thread, one call of server_thread    *)
(* after another.  A call polls the listener and the entries of the        *)
(* request table, accepts at most one connection into the first slot that  *)
(* is done or timed out (or behind the last one), then serves every slot   *)
(* by the revents poll left there, also the slot just taken over.          *)
(*                                                                         *)
(* A descriptor is named by the connection it belongs to, a data file by   *)
(* the connection that opened it.  Sockets block, so a recv with nothing   *)
(* to read is a step that is not enabled; a send is one step, its peer     *)
(* reads it or breaks the connection.  Entry i of fds is fds[i + 1] of the *)
(* code.                                                                   *)
(***************************************************************************)
EXTENDS Naturals, FiniteSets, FiniteSetsExt

CONSTANTS
  Getter,       \* connections that send a GET, or something answered by 404
  Uploader,     \* connections that post a form with a file
  Idler,        \* connections on which nothing is sent
  MaxRequests,  \* MAX_REQUESTS
  Chunks,       \* lengths of downloads, in calls of server_send (bound)
  None,         \* -1
  Stdin         \* descriptor 0, the program's standard input, at end of file

Client == Getter \cup Uploader \cup Idler

ASSUME TableAssumption ==
  /\ MaxRequests \in Nat \ {0} /\ Chunks \subseteq Nat
  /\ Getter \cap Uploader = {} /\ Idler \cap (Getter \cup Uploader) = {}
  /\ {None, Stdin} \cap Client = {} /\ None # Stdin

VARIABLES
  where,    \* the server's end of a connection: new, queued, open, closed
  link,     \* the client's end: what the next recv returns, and how it left
  answer,   \* what the client was sent: none, part, whole
  req,      \* requests; full: size has reached the length of packet
  fds,      \* fds, without the listener's entry
  count,    \* requests_count
  files,    \* open data files
  pc, idx,  \* in poll or in the loop, and its i
  evicted,  \* history: connections whose slot was taken over
  reused    \* history: the slot taken over in this pass, or None

client == <<where, link, answer>>
table == <<req, fds, count, files>>
vars == <<client, table, pc, idx, evicted, reused>>

Slot == 0..MaxRequests - 1
Entry == 0..MaxRequests - 2
Unused == [fd |-> None, ev |-> "in", rev |-> "none"]
Silent == [msg |-> "none", gone |-> "no"]
Empty == [done |-> FALSE, sock |-> None, data |-> None, full |-> FALSE, length |-> 0, sent |-> 0, age |-> "fresh"]

Init ==
  /\ where = [c \in Client |-> "new"]
  /\ link = [c \in Client |-> Silent]
  /\ answer = [c \in Client |-> "none"]
  /\ req = [i \in Slot |-> Empty]
  /\ fds = [i \in Entry |-> Unused]
  /\ count = 0 /\ files = {}
  /\ pc = "poll" /\ idx = 0
  /\ evicted = {} /\ reused = None

-----------------------------------------------------------------------------
(* The clients, and time.                                                  *)

Messages(c) ==
  CASE c \in Getter -> {"part", "page", "download"} [] c \in Uploader -> {"form", "last"} [] c \in Idler -> {}

Connect(c) ==
  /\ where[c] = "new"
  /\ where' = [where EXCEPT ![c] = "queued"]
  /\ UNCHANGED <<link, answer, table, pc, idx, evicted, reused>>

\* What a client does before it is accepted is not looked at until then, so a
\* step of its own right after accept stands for it.
Send(c, m) ==
  /\ where[c] = "open" /\ link[c] = Silent
  /\ link' = [link EXCEPT ![c].msg = m]
  /\ UNCHANGED <<where, answer, table, pc, idx, evicted, reused>>

\* fin: the client closed after what it sent; reset: what it sent is lost too.
Leave(c, how) ==
  /\ where[c] = "open" /\ link[c].gone = "no"
  /\ link' = [link EXCEPT ![c] = [msg |-> IF how = "reset" THEN "none" ELSE @.msg, gone |-> how]]
  /\ UNCHANGED <<where, answer, table, pc, idx, evicted, reused>>

\* Time passes while poll waits: TIMEOUT_SINCE_LAST, then TIMEOUT_SINCE_STARTED.
Age(i, a) ==
  /\ pc = "poll" /\ i < count /\ ~req[i].done
  /\ <<req[i].age, a>> \in {<<"fresh", "idle">>, <<"fresh", "over">>, <<"idle", "over">>}
  /\ req' = [req EXCEPT ![i].age = a]
  /\ UNCHANGED <<client, fds, count, files, pc, idx, evicted, reused>>

Active(r) == [r EXCEPT !.age = IF @ = "idle" THEN "fresh" ELSE @]

-----------------------------------------------------------------------------
(* poll and accept.                                                        *)

\* What poll may find at an entry.
Revents(e) ==
  IF e.fd = None THEN {"none"}
  ELSE IF link[e.fd].gone = "reset" THEN {"other"}
  ELSE IF e.ev = "out" THEN {"none", "out"}
  ELSE IF link[e.fd] = Silent THEN {"none"} ELSE {"in"}

\* What fds can be when poll returns.
Polled ==
  LET In == {i \in Entry : i < count} IN
  {[i \in Entry |-> IF i \in In THEN [fds[i] EXCEPT !.rev = rev[i]] ELSE fds[i]] :
     rev \in {r \in [In -> UNION {Revents(fds[i]) : i \in In}] : \A i \in In : r[i] \in Revents(fds[i])}}
Queued == {c \in Client : where[c] = "queued"}

Reusable == {i \in 0..count - 1 : req[i].done \/ req[i].age # "fresh"}
NewSlot == IF Reusable = {} THEN count ELSE Min(Reusable)
\* mutant: the limit is one slot too far
TableFullTooLate == Reusable = {} /\ count > MaxRequests - 1
TableFull == Reusable = {} /\ count >= MaxRequests - 1

\* The loop over the slots goes on at the first one from i that poll found
\* something at, or the call ends.  over: the slot taken over in this call.
GoOn(i, over) ==
  LET found == {j \in Entry : i <= j /\ j < count' /\ fds'[j].rev # "none"} IN
  IF found = {}
    THEN pc' = "poll" /\ idx' = 0 /\ reused' = None
    ELSE pc' = "loop" /\ idx' = Min(found) /\ reused' = over

\* A slot whose request was not done loses its socket and its data file.
TakeOver(i) ==
  IF i < count /\ ~req[i].done
    THEN evicted' = evicted \cup ({req[i].sock} \ {Stdin}) /\ GoOn(0, i)
    ELSE UNCHANGED evicted /\ GoOn(0, None)

\* poll returns, with f in fds, for the listener or for an entry.
Poll(f) ==
  /\ pc = "poll"
  /\ Queued # {} \/ \E i \in Entry : i < count /\ f[i].rev # "none"

NoAccept(f) ==
  /\ Poll(f) /\ (Queued = {} \/ TableFull)
  /\ fds' = f
  /\ UNCHANGED <<client, req, count, files, evicted>>
  /\ GoOn(0, None)

Accept(f, c) ==
  /\ Poll(f) /\ c \in Queued /\ ~TableFull
  /\ where' = [where EXCEPT ![c] = "open"]
  /\ req' = [req EXCEPT ![NewSlot] = [Empty EXCEPT !.sock = c]]
  /\ fds' = [f EXCEPT ![NewSlot] = [@ EXCEPT !.fd = c, !.ev = "in"]]
  /\ count' = IF NewSlot = count THEN count + 1 ELSE count
  /\ UNCHANGED <<link, answer, files>>
  /\ TakeOver(NewSlot)

\* accept fails after server_accept cleared the slot: socket is 0 and both
\* times are the epoch; fds keeps the entry it had.  recv on descriptor 0 fails,
\* it is no socket; that a later accept may get the number 0 is left out.
AcceptFails(f) ==
  /\ Poll(f) /\ Queued # {} /\ ~TableFull
  /\ req' = [req EXCEPT ![NewSlot] = [Empty EXCEPT !.sock = Stdin, !.age = "over"]]
  /\ fds' = f
  /\ UNCHANGED <<client, count, files>>
  /\ TakeOver(NewSlot)

-----------------------------------------------------------------------------
(* Serving the slot idx by its revents.                                    *)

At(rev) == pc = "loop" /\ idx < count /\ fds[idx].rev = rev
Advance == GoOn(idx + 1, reused) /\ UNCHANGED evicted

\* mutants: the count always shrinks; revents is kept; the file stays open
CleanShrinks(how) ==
  LET r == req[idx] IN
  /\ files' = files \ {r.data}
  /\ where' = [c \in Client |-> IF c = r.sock THEN "closed" ELSE where[c]]
  /\ link' = [c \in Client |-> IF c = r.sock THEN Silent ELSE link[c]]
  /\ answer' = [c \in Client |-> IF c = r.sock THEN how ELSE answer[c]]
  /\ req' = [req EXCEPT ![idx] = [Empty EXCEPT !.done = TRUE]]
  /\ count' = count - 1
  /\ fds' = [fds EXCEPT ![idx] = Unused]
CleanKeepsRevents(how) ==
  LET r == req[idx] IN
  /\ files' = files \ {r.data}
  /\ where' = [c \in Client |-> IF c = r.sock THEN "closed" ELSE where[c]]
  /\ link' = [c \in Client |-> IF c = r.sock THEN Silent ELSE link[c]]
  /\ answer' = [c \in Client |-> IF c = r.sock THEN how ELSE answer[c]]
  /\ req' = [req EXCEPT ![idx] = [Empty EXCEPT !.done = TRUE]]
  /\ count' = IF idx + 1 = count THEN count - 1 ELSE count
  /\ fds' = [fds EXCEPT ![idx] = [@ EXCEPT !.fd = None, !.ev = "in"]]
\* The code at clean:, with the answer the request had got.  What else the slot
\* held is not kept: nothing reads it before server_accept clears it.
Clean(how) ==
  LET r == req[idx] IN
  /\ files' = files \ {r.data}
  /\ where' = [c \in Client |-> IF c = r.sock THEN "closed" ELSE where[c]]
  /\ link' = [c \in Client |-> IF c = r.sock THEN Silent ELSE link[c]]
  /\ answer' = [c \in Client |-> IF c = r.sock THEN how ELSE answer[c]]
  /\ req' = [req EXCEPT ![idx] = [Empty EXCEPT !.done = TRUE]]
  /\ count' = IF idx + 1 = count THEN count - 1 ELSE count
  /\ fds' = [fds EXCEPT ![idx] = Unused]

Answered == IF req[idx].sock \in Client THEN answer[req[idx].sock] ELSE "none"

\* mutant: the connection is cleaned up after the first piece
SendDataOnce(r, after) == Clean(IF r.sent + 1 >= r.length THEN "whole" ELSE "part")

\* server_send, for the request r: one more piece, then the file is closed.
SendData(r, after) ==
  \/ /\ r.data = None \/ r.length = 0 \/ link[r.sock].gone = "reset"
     /\ Clean(IF r.length = 0 THEN "whole" ELSE answer[r.sock])
  \/ /\ r.data # None /\ r.length > 0 /\ link[r.sock].gone # "reset"
     /\ LET all == r.sent + 1 >= r.length IN
        /\ req' = [req EXCEPT ![idx] = [r EXCEPT !.sent = r.sent + 1, !.data = IF all THEN None ELSE r.data]]
        /\ files' = IF all THEN files \ {r.data} ELSE files \cup {r.data}
        /\ answer' = [answer EXCEPT ![r.sock] = IF all THEN "whole" ELSE "part"]
        /\ fds' = [fds EXCEPT ![idx].ev = "out"]
     /\ link' = after
     /\ UNCHANGED <<where, count>>

Writable ==
  /\ At("out")
  /\ IF req[idx].length <= req[idx].sent THEN Clean(Answered) ELSE SendData(Active(req[idx]), link)
  /\ Advance

\* revents of any other value: the entry is switched off, nothing is closed.
OtherEvents ==
  /\ At("other") /\ UNCHANGED link
  /\ fds' = [fds EXCEPT ![idx] = [@ EXCEPT !.fd = None, !.ev = "in"]]
  /\ UNCHANGED <<where, answer, req, count, files>>
  /\ Advance

\* recv fails, finds the end of the stream, or is asked for no byte because the
\* packet is full: the code takes its 0 for the end of the stream.
RecvEnd ==
  /\ At("in")
  /\ \/ req[idx].sock = Stdin
     \/ req[idx].sock \in Client /\ link[req[idx].sock].msg = "none" /\ link[req[idx].sock].gone # "no"
     \/ req[idx].sock \in Client /\ req[idx].full /\ link[req[idx].sock] # Silent
  /\ Clean(Answered) /\ Advance

Received(m) ==
  /\ At("in") /\ req[idx].sock \in Client /\ ~req[idx].full
  /\ link[req[idx].sock].msg = m
Rest == [link EXCEPT ![req[idx].sock].msg = "none"]

\* Part of a request, or a part of a form for which no file can be opened.
RecvPart(m) ==
  /\ Received(m) /\ m \in {"part", "form", "last"}
  /\ m = "part" \/ req[idx].data = None
  /\ link' = Rest /\ req' = [req EXCEPT ![idx] = Active(@)]
  /\ UNCHANGED <<where, answer, fds, count, files>>
  /\ Advance

\* A message of which the packet has no room for more than a part, or that ends
\* where the packet does and is no complete request.
RecvFills(m) ==
  /\ Received(m) /\ req[idx].data = None
  /\ link' = link \/ (m \in {"part", "form", "last"} /\ link' = Rest)
  /\ req' = [req EXCEPT ![idx] = [Active(@) EXCEPT !.full = TRUE]]
  /\ UNCHANGED <<where, answer, fds, count, files>>
  /\ Advance

RecvForm ==
  /\ Received("form")
  /\ link' = Rest /\ req' = [req EXCEPT ![idx] = [Active(@) EXCEPT !.data = req[idx].sock]]
  /\ files' = files \cup {req[idx].sock}
  /\ UNCHANGED <<where, answer, fds, count>>
  /\ Advance

\* The closing boundary: the page is sent, a file opened here is closed again.
RecvLast == Received("last") /\ Clean("whole") /\ Advance

\* A complete request answered at once, 404 included.
RecvPage == Received("page") /\ Clean("whole") /\ Advance

\* GET /download/: the header goes out, the first piece too.
RecvDownload ==
  /\ Received("download")
  /\ \E n \in Chunks :
       SendData([Active(req[idx]) EXCEPT !.length = n, !.data = req[idx].sock], Rest)
  /\ Advance

Serve ==
  \/ Writable \/ OtherEvents \/ RecvEnd
  \/ \E m \in {"part", "form", "last"} : RecvPart(m)
  \/ \E m \in {"part", "page", "download", "form", "last"} : RecvFills(m)
  \/ RecvForm \/ RecvLast \/ RecvPage \/ RecvDownload

Next ==
  \/ \E c \in Client : \/ Connect(c) \/ \E m \in Messages(c) : Send(c, m)
                       \/ Leave(c, "fin") \/ Leave(c, "reset")
  \/ \E i \in Slot, a \in {"idle", "over"} : Age(i, a)
  \/ \E f \in Polled : NoAccept(f) \/ AcceptFails(f) \/ \E c \in Client : Accept(f, c)
  \/ Serve

Spec == Init /\ [][Next]_vars

-----------------------------------------------------------------------------
(* Properties.                                                             *)

\* Types, and the bounds of the two tables.
TypeOK ==
  /\ where \in [Client -> {"new", "queued", "open", "closed"}]
  /\ link \in [Client -> [msg : {"none", "part", "page", "download", "form", "last"}, gone : {"no", "fin", "reset"}]]
  /\ answer \in [Client -> {"none", "part", "whole"}]
  /\ req \in [Slot -> [done : BOOLEAN, sock : Client \cup {None, Stdin}, data : Client \cup {None},
                       full : BOOLEAN, length : Chunks \cup {0}, sent : Nat, age : {"fresh", "idle", "over"}]]
  /\ fds \in [Entry -> [fd : Client \cup {None}, ev : {"in", "out"}, rev : {"none", "in", "out", "other"}]]
  /\ count \in 0..MaxRequests - 1 /\ files \subseteq Client
  /\ pc \in {"poll", "loop"} /\ idx \in 0..MaxRequests
  /\ evicted \subseteq Client /\ reused \in Slot \cup {None}

Live == {i \in 0..count - 1 : ~req[i].done}

\* poll watches exactly the slots in use: an entry polls its own request's
\* socket or nothing, unless accept failed on it; a finished slot and those
\* behind requests_count poll nothing and hold no connection, so no client is
\* left where poll never looks; and no two slots share a connection.  Every
\* socket and data file the process holds open belongs to a slot in use, or was
\* lost when a timed-out slot was taken over.
TableInv ==
  /\ \A i \in Entry : fds[i].fd # None =>
       i \in Live /\ (fds[i].fd = req[i].sock \/ (req[i].sock = Stdin /\ fds[i].fd \in evicted))
  /\ \A i \in Entry : i >= count => fds[i] = Unused
  /\ \A i \in Slot : req[i].sock \in Client => i \in Live
  /\ \A i, j \in Live : req[i].sock = req[j].sock => i = j \/ req[i].sock = Stdin
  /\ {c \in Client : where[c] = "open"} \ evicted = {req[i].sock : i \in Live} \ {Stdin}
  /\ files \ evicted = {req[i].data : i \in Live} \ {None}
  /\ \A c \in evicted : where[c] = "open"

\* The thread calls recv only when it returns at once: revents is never that of
\* an earlier poll or of another connection, except in a slot taken over in
\* this very pass.
RecvReady ==
  At("in") /\ req[idx].sock \in Client /\ idx # reused
    => link[req[idx].sock] # Silent

\* The server closes a connection only when its request was answered in full, or
\* the client has left, or what it sent filled the packet and is no complete
\* request, except one accepted in this pass into a slot taken over.
ClosedWhenServed ==
  [][\A c \in Client : where[c] = "open" /\ where'[c] = "closed"
       => answer'[c] = "whole" \/ link[c].gone # "no" \/ req[idx].full \/ idx = reused]_vars
=============================================================================
