----------------------------- MODULE HttpServer -----------------------------
(***************************************************************************)
(* libhttpserver/server.c: the HTTP server thread.  A turn of              *)
(* c_do_server_handler selects, serves the clients, takes one message off  *)
(* the queue and accepts one connection.  Sockets do not block.  A search  *)
(* is answered twice: an empty page at once, and the result by a message   *)
(* to the thread itself that carries the client's address.                 *)
(*                                                                         *)
(* A client is the block of memory it lives in, so that a freed one may    *)
(* come back as another.  A request is Size bytes, in lines that end at    *)
(* Ends: the first with the method, headers, a blank one; a client may     *)
(* send more behind it, up to Total.  A response is Units pieces, and a    *)
(* file follows its header in pieces of one.  MSG carries addresses as     *)
(* unsigned int, so on the 64-bit platforms following one may crash.       *)
(***************************************************************************)
EXTENDS Naturals, Sequences, FiniteSets

CONSTANTS
  Block,     \* blocks a CLIENT can live in
  MaxConns,  \* connections in all (bound)
  Ends,      \* where the request's lines end, the blank one at Size
  Size,      \* length of the request
  Total,     \* bytes a client may send in all (bound)
  Cuts,      \* where a client's send may end (bound)
  Units,     \* sends a response may take (bound)
  MaxFile    \* full buffers in a file (bound)

ASSUME RequestAssumption ==
  /\ Size \in Nat /\ Ends \subseteq 6..Size /\ Size \in Ends
  /\ Total \in Nat /\ Total >= Size /\ Cuts \subseteq 1..Total
  /\ Units \in Nat \ {0} /\ MaxFile \in Nat /\ MaxConns \in Nat

VARIABLES
  net,      \* per block: the peer's method, the bytes it sent, how it left
  waiting,  \* connections accept has not taken yet
  conns,    \* connections made so far
  cl,       \* the CLIENT in each block
  msgs,     \* the message queue: the clients WM_SEARCH messages name
  pc,       \* select, clients, msg, new, or crashed
  rfds, wfds,      \* clients select found ready and clients_handler has not served
  mready, lready   \* what else select found

network == <<net, waiting, conns>>
ready == <<rfds, wfds, mready, lready>>
httpVars == <<network, cl, msgs, pc, ready>>

Free == [type |-> "none", period |-> "header", got |-> 0, spoiled |-> FALSE,
         answer |-> "none", left |-> 0, file |-> "none", rest |-> 0, eof |-> FALSE,
         shut |-> FALSE, search |-> FALSE, made |-> 0]
NoPeer == [method |-> "other", sent |-> 0, gone |-> "no"]

Clients == {b \in Block : cl[b].type # "none"}

HttpInit ==
  /\ net = [b \in Block |-> NoPeer] /\ waiting = 0 /\ conns = 0
  /\ cl = [b \in Block |-> Free]
  /\ msgs = <<>>
  /\ pc = "select" /\ rfds = {} /\ wfds = {} /\ mready = FALSE /\ lready = FALSE

-----------------------------------------------------------------------------
(* The clients' side.                                                      *)

Connect ==
  /\ conns < MaxConns /\ conns' = conns + 1 /\ waiting' = waiting + 1
  /\ UNCHANGED <<net, cl, msgs, pc, ready>>

Send(b, n) ==
  /\ b \in Clients /\ net[b].gone = "no" /\ n > net[b].sent
  /\ net' = [net EXCEPT ![b].sent = n]
  /\ UNCHANGED <<waiting, conns, cl, msgs, pc, ready>>

Leave(b, how) ==
  /\ b \in Clients /\ net[b].gone = "no"
  /\ net' = [net EXCEPT ![b].gone = how]
  /\ UNCHANGED <<waiting, conns, cl, msgs, pc, ready>>

-----------------------------------------------------------------------------
(* Responses and requests, as functions of the CLIENT r.                   *)

\* _make_http_client_resp and make_http_client_file_resp.  The request's text is
\* not looked at again.
Respond(r, a, f) ==
  [r EXCEPT !.period = "send", !.answer = a, !.left = Units, !.spoiled = FALSE,
            !.made = IF a = "json" THEN @ ELSE @ + 1,
            !.file = IF f = "none" THEN @ ELSE f, !.rest = IF f = "file" THEN MaxFile ELSE @]

\* close_http_client: what remains is to wait for the peer to close.
Closed(r) == [r EXCEPT !.period = "close", !.file = "none", !.eof = FALSE, !.rest = 0, !.shut = TRUE]

\* mutant: the end of the file is not noticed
RefilledNoEnd(r) ==
  IF r.file = "none" THEN {Closed(r)}
  ELSE IF r.file = "dir" THEN {r}
  ELSE IF r.rest > 0 THEN {[r EXCEPT !.rest = @ - 1, !.left = 1]}
  ELSE {[r EXCEPT !.left = 0, !.eof = TRUE]}

\* A buffer is sent: the file's next one, or the end.  A directory can be
\* opened, but fread fails on it without ever reaching its end.  The last read
\* of a file is short, maybe empty.
Refilled(r) ==
  IF r.file = "none" \/ r.eof THEN {Closed(r)}
  ELSE IF r.file = "dir" THEN {r}
  ELSE IF r.rest > 0 THEN {[r EXCEPT !.rest = @ - 1, !.left = 1]}
  ELSE {[r EXCEPT !.left = n, !.eof = TRUE] : n \in {0, 1}}

\* The part of a line that http_request_parse has kept, c->data.
Holds(r) == r.type = "http" /\ r.got > 0 /\ r.got \notin Ends

Taken(r, n) == [r EXCEPT !.type = "http", !.got = n]

\* mutant: one byte too many is taken into the request
ContinuedByteMore(r, n) == Taken(r, n + 1)

\* http_request_parse has come to the end of the n bytes there are.  When it
\* finished a line, it frees what it had kept; and when a part of the next line
\* is left, it copies that part out of the memory it has just freed.
Continued(r, n) ==
  [Taken(r, n) EXCEPT !.spoiled =
     @ \/ (Holds(r) /\ n \notin Ends /\ \E e \in Ends : r.got < e /\ e <= n)]

\* Whether the blank line is found; where what was kept is spoiled, it may be
\* found or not.
Continues(r, n) == n < Size \/ r.spoiled
Finishes(r, n) == n >= Size \/ r.spoiled

\* handle_http_client_request: a page or an error, a file, a directory.
Plain(r) == {Respond(r, "page", f) : f \in {"none", "file", "dir"}}
Searching(r) == [Respond(r, "empty", "none") EXCEPT !.search = TRUE]

\* mutant: the type is read off the new piece alone
RecognisedPiece(p, r, n) ==
  r.got = 0 /\ (\/ p.method = "GET" /\ n >= 4
                \/ p.method = "POST" /\ n >= 5)
Recognised(p, r, n) ==
  \/ p.method = "GET" /\ n >= 4
  \/ p.method = "POST" /\ n >= 5

-----------------------------------------------------------------------------
(* The turn.                                                               *)

\* The turn goes on with what select found: the clients, in any order, then one
\* message, then one connection; then with the next select.
GoOn ==
  pc' = CASE rfds' \cup wfds' # {} -> "clients"
          [] rfds' \cup wfds' = {} /\ mready' -> "msg"
          [] rfds' \cup wfds' = {} /\ ~mready' /\ lready' -> "new"
          [] OTHER -> "select"

Select ==
  /\ pc = "select"
  /\ rfds' = {b \in Clients : net[b].sent > cl[b].got \/ net[b].gone # "no"}
  /\ wfds' \in SUBSET {b \in Clients : cl[b].type = "http" /\ cl[b].period = "send"}
  /\ mready' = (msgs # <<>>) /\ lready' = (waiting > 0)
  /\ GoOn
  /\ UNCHANGED <<network, cl, msgs>>

Came(b) == pc = "clients" /\ b \in rfds
KeepRest == UNCHANGED <<waiting, conns, mready, lready>> /\ GoOn

\* remove_client: messages in the queue keep the address.
Remove(b) ==
  /\ cl' = [cl EXCEPT ![b] = Free]
  /\ net' = [net EXCEPT ![b] = NoPeer]
  /\ rfds' = rfds \ {b} /\ wfds' = wfds \ {b}
  /\ UNCHANGED msgs /\ KeepRest

\* recv fails, or returns 0.
HangsUp(b) ==
  /\ Came(b)
  /\ net[b].gone = "reset" \/ net[b].sent = cl[b].got
  /\ Remove(b)

Readable(b) == Came(b) /\ net[b].gone # "reset" /\ net[b].sent > cl[b].got

\* Not a method this server knows.
Reject(b) ==
  /\ Readable(b) /\ cl[b].type = "unknown"
  /\ net[b].sent >= 4 /\ ~Recognised(net[b], cl[b], net[b].sent)
  /\ Remove(b)

\* Fewer than 4 bytes: kept for the next recv.
KeepPrefix(b) ==
  /\ Readable(b) /\ cl[b].type = "unknown" /\ net[b].sent < 4
  /\ cl' = [cl EXCEPT ![b].got = net[b].sent]
  /\ rfds' = rfds \ {b}
  /\ UNCHANGED <<net, msgs, wfds>> /\ KeepRest

\* Outside RECV_HTTP_HEADER what arrives is dropped.
Ignore(b) ==
  /\ Readable(b) /\ cl[b].type = "http" /\ cl[b].period # "header"
  /\ cl' = [cl EXCEPT ![b].got = net[b].sent]
  /\ rfds' = rfds \ {b}
  /\ UNCHANGED <<net, msgs, wfds>> /\ KeepRest

\* mutant: a request is parsed whatever the period
ParsesAlways(b) == TRUE
\* A client recognised only now starts in RECV_HTTP_HEADER.
Parses(b) == cl[b].type = "unknown" \/ cl[b].period = "header"

\* http_request_parse and what follows from its result.  A malformed line, one
\* that is too long or a lack of memory is answered by a page, wherever it comes.
Parse(b) ==
  /\ Readable(b) /\ Parses(b)
  /\ cl[b].type = "unknown" => Recognised(net[b], cl[b], net[b].sent)
  /\ LET r == IF cl[b].type = "unknown" THEN [cl[b] EXCEPT !.period = "header"] ELSE cl[b]
         n == net[b].sent
         c == Continued(r, n) IN
     \/ /\ Continues(r, n) /\ cl' = [cl EXCEPT ![b] = c] /\ UNCHANGED msgs
     \/ /\ cl' = [cl EXCEPT ![b] = Respond(Taken(r, n), "page", "none")] /\ UNCHANGED msgs
     \/ /\ Finishes(r, n) /\ \E p \in Plain(c) : cl' = [cl EXCEPT ![b] = p]
        /\ UNCHANGED msgs
     \/ /\ Finishes(r, n) /\ cl' = [cl EXCEPT ![b] = Searching(c)]
        /\ msgs' = Append(msgs, b)
  /\ rfds' = rfds \ {b}
  /\ UNCHANGED <<net, wfds>> /\ KeepRest

\* send_client_data: send takes a part of the buffer, or fails and is tried
\* again in the next turn, for ever on a socket that is shut down.
Transmit(b) ==
  /\ pc = "clients" /\ b \in wfds \ rfds
  /\ \/ cl[b].left > 0 /\ (cl[b].shut \/ net[b].gone = "reset") /\ UNCHANGED cl
     \/ /\ cl[b].left > 0 /\ ~cl[b].shut /\ net[b].gone # "reset"
        /\ \E n \in 1..cl[b].left :
             LET r == [cl[b] EXCEPT !.left = @ - n] IN
             \E s \in (IF r.left = 0 /\ r.period = "send" THEN Refilled(r) ELSE {r}) : cl' = [cl EXCEPT ![b] = s]
     \/ cl[b].left = 0 /\ \E s \in Refilled(cl[b]) : cl' = [cl EXCEPT ![b] = s]
  /\ wfds' = wfds \ {b}
  /\ UNCHANGED <<net, msgs, rfds>> /\ KeepRest

\* handle_wm_search_msg writes its result into the block the message names,
\* whoever lives there now.
MsgHandler ==
  /\ pc = "msg"
  /\ msgs' = Tail(msgs)
  /\ LET b == Head(msgs) IN
     cl' = IF b \in Clients THEN [cl EXCEPT ![b] = Respond(@, "json", "none")] ELSE cl
  /\ mready' = FALSE
  /\ UNCHANGED <<network, rfds, wfds, lready>> /\ GoOn

Crash ==
  /\ pc = "msg"
  /\ pc' = "crashed"
  /\ UNCHANGED <<network, cl, msgs, ready>>

NewClient(b, m) ==
  /\ pc = "new" /\ b \notin Clients
  /\ cl' = [cl EXCEPT ![b] = [Free EXCEPT !.type = "unknown"]]
  /\ net' = [net EXCEPT ![b] = [NoPeer EXCEPT !.method = m]]
  /\ waiting' = waiting - 1 /\ lready' = FALSE
  /\ UNCHANGED <<conns, msgs, rfds, wfds, mready>> /\ GoOn

\* No memory for a CLIENT.
Refuse ==
  /\ pc = "new"
  /\ waiting' = waiting - 1 /\ lready' = FALSE
  /\ UNCHANGED <<net, conns, cl, msgs, rfds, wfds, mready>> /\ GoOn

Turn ==
  \/ Select \/ MsgHandler \/ Crash \/ Refuse
  \/ \E b \in Block : \/ HangsUp(b) \/ Reject(b) \/ KeepPrefix(b) \/ Ignore(b)
                      \/ Parse(b) \/ Transmit(b)
                      \/ \E m \in {"GET", "POST", "other"} : NewClient(b, m)

HttpNext ==
  \/ Connect \/ Turn
  \/ \E b \in Block : \/ \E n \in Cuts : Send(b, n)
                      \/ \E how \in {"fin", "reset"} : Leave(b, how)

HttpSpec == HttpInit /\ [][HttpNext]_httpVars

\* The thread goes on, and a client that stays reads what it is sent.
HttpFairSpec ==
  /\ HttpSpec /\ WF_httpVars(Turn)
  /\ \A b \in Block : SF_httpVars(Select /\ b \in wfds')

-----------------------------------------------------------------------------
(* Properties.                                                             *)

\* Types, and the bounds of what a client and the queue hold.
HttpTypeOK ==
  /\ net \in [Block -> [method : {"GET", "POST", "other"}, sent : 0..Total, gone : {"no", "fin", "reset"}]]
  /\ waiting \in 0..MaxConns /\ conns \in 0..MaxConns
  /\ \A b \in Block :
       /\ cl[b].type \in {"none", "unknown", "http"} /\ cl[b].period \in {"header", "send", "close"}
       /\ cl[b].got \in 0..Total /\ cl[b].left \in 0..Units /\ cl[b].rest \in 0..MaxFile
       /\ cl[b].answer \in {"none", "page", "empty", "json"} /\ cl[b].file \in {"none", "file", "dir"}
       /\ cl[b].got <= net[b].sent
  /\ msgs \in Seq(Block)
  /\ pc \in {"select", "clients", "msg", "new", "crashed"}
  /\ rfds \subseteq Clients /\ wfds \subseteq Clients

\* A request is answered once, however it is cut into pieces and whatever the
\* client sends after it; only messages write further answers.
OneAnswer == \A b \in Block : cl[b].made <= 1

\* The server drops a client that has not left only for a method it does not
\* know, or for a POST whose first piece ends exactly after these four letters;
\* never because a method came in pieces.
DroppedForMethod ==
  [][\A b \in Block : cl[b].type # "none" /\ cl'[b].type = "none" /\ net[b].gone = "no"
       => net[b].method = "other" \/ (net[b].method = "POST" /\ net[b].sent = 4)]_httpVars

\* Every complete request is answered in full and its connection shut down, if
\* the client stays and reads.  Left out are directories, whose answer never
\* ends, requests of which a kept part was copied after it was freed and that
\* may never be found complete, and clients a message wrote a second answer for.
Unanswerable(b) ==
  cl[b].file = "dir" \/ cl[b].answer = "json" \/ cl[b].shut \/ cl[b].spoiled
AnswersComplete ==
  \A b \in Block :
    (cl[b].type = "http" /\ net[b].sent >= Size) ~>
      (cl[b].period = "close" \/ cl[b].type = "none" \/ Unanswerable(b) \/ pc = "crashed")

\* What the comment "send to client" in handle_wm_search_msg says: a search
\* whose connection the server has finished with was sent its result.
SearchAnswered ==
  \A b \in Block : cl[b].search /\ cl[b].period = "close" => cl[b].answer = "json"
=============================================================================
