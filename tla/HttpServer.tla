----------------------------- MODULE HttpServer -----------------------------
(***************************************************************************)
(* One connection of HttpServer: HttpServer::handleClient, HttpSession's   *)
(* recvRequest and sendResponse, and ServletDispatch, whose tables other   *)
(* threads change.  The client and the kernel are the environment: bytes   *)
(* arrive in pieces of any size, the client leaves or falls silent.        *)
(***************************************************************************)
EXTENDS RequestParser, Integers

CONSTANTS
    Texts,          \* what a client may send, by name: [pieces, from, bytes, req, dumped]
    Follow,         \* those it may send after another one
    BufferSize,     \* http.request.buffer_size
    Uris, Globs,    \* names servlets are registered under
    Servlets,
    Matches(_, _),  \* fnmatch: pattern, path
    MaxRequests,    \* bound: texts a client sends
    MaxReads,       \* bound: reads that return less than there is
    MaxTimeouts,    \* bound: reads of a body that time out
    MaxAdmin        \* bound: changes of the servlet tables

ASSUME HttpServerAssumption ==
    /\ BufferSize \in Nat \ {0} /\ Follow \subseteq DOMAIN Texts /\ "404" \notin Servlets
    /\ {MaxRequests, MaxReads, MaxTimeouts, MaxAdmin} \subseteq Nat

VARIABLES
    sent, wire, peer, piped,            \* the client: texts, bytes in flight, "open" or "closed"
    pc, keepalive, parser, body,        \* handleClient and recvRequest
    taken, base, cuts, reads, timeouts, \* history: bytes read, where this request began and reads began
    served, replies,                    \* history: requests given to servlets, answers
    exact, globs, admin                 \* m_data, m_globs and the history of changes

client == <<sent, wire, peer, piped>>
count == <<taken, base, cuts, reads, timeouts>>
tables == <<exact, globs, admin>>
vars == <<client, pc, keepalive, parser, body, count, served, replies, tables>>

NoBody == [bytes |-> <<>>, at |-> 0, need |-> 0]

Init ==
    /\ sent = <<>> /\ wire = <<>> /\ peer = "open" /\ piped = FALSE
    /\ pc = "recv" /\ keepalive \in BOOLEAN /\ body = NoBody
    /\ \E relaxed \in BOOLEAN : parser = NewParser(relaxed)
    /\ taken = 0 /\ base = 0 /\ cuts = {} /\ reads = 0 /\ timeouts = 0
    /\ served = <<>> /\ replies = 0
    /\ exact = [u \in {} |-> "404"] /\ globs = <<>> /\ admin = <<>>

-----------------------------------------------------------------------------
ClientSend(t) ==
    /\ peer = "open" /\ Len(sent) < MaxRequests
    /\ t \in IF sent = <<>> /\ admin = <<>> THEN DOMAIN Texts ELSE Follow
    /\ admin = <<>> \/ sent = <<>>
    /\ sent' = Append(sent, t) /\ wire' = wire \o Texts[t].bytes
    /\ piped' = (piped \/ Len(sent) > replies)
    /\ UNCHANGED <<peer, pc, keepalive, parser, body, count, served, replies, tables>>

(* It leaves after its bytes, or before those in flight were sent          *)
ClientClose ==
    /\ peer = "open" /\ peer' = "closed" /\ wire' \in {wire, <<>>}
    /\ UNCHANGED <<sent, piped, pc, keepalive, parser, body, count, served, replies, tables>>

(* What a read may return: everything there is, or less                    *)
Amounts(most) == LET all == IF Len(wire) < most THEN Len(wire) ELSE most
                 IN  IF reads < MaxReads /\ admin = <<>> THEN 1..all ELSE {all} \ {0}
Take(n, most) ==
    /\ wire' = SubSeq(wire, n + 1, Len(wire)) /\ taken' = taken + n
    /\ cuts' = IF taken = base THEN cuts ELSE cuts \cup {taken}
    /\ reads' = IF n < Len(wire) /\ n < most THEN reads + 1 ELSE reads

(* The end of recvRequest: the body, and "connection: keep-alive"          *)
Received(req, bytes) ==
    [req EXCEPT !.body = bytes, !.close = Header(req, <<"connection">>) # <<"keep-alive">>]

MutTakeBody(q, rest) ==      \* mutant: the bytes to wait for are one too few
    LET length == ContentLength(q.req)
        have == IF Len(rest) < length THEN Len(rest) ELSE length
        bytes == [i \in 1..length |-> IF i <= have THEN rest[i] ELSE "NUL"]
    IN  IF length > have + 1
        THEN /\ pc' = "body" /\ parser' = q
             /\ body' = [bytes |-> bytes, at |-> have, need |-> length - have - 1]
        ELSE /\ pc' = "handle" /\ parser' = [q EXCEPT !.req = Received(@, bytes)]
             /\ body' = NoBody
(* The body begins with what the buffer holds after the head; the rest of  *)
(* the buffer is dropped.                                                  *)
TakeBody(q, rest) ==
    LET length == ContentLength(q.req)
        have == IF Len(rest) < length THEN Len(rest) ELSE length
        bytes == [i \in 1..length |-> IF i <= have THEN rest[i] ELSE "NUL"]
    IN  IF length > have
        THEN /\ pc' = "body" /\ parser' = q
             /\ body' = [bytes |-> bytes, at |-> have, need |-> length - have]
        ELSE /\ pc' = "handle" /\ parser' = [q EXCEPT !.req = Received(@, bytes)]
             /\ body' = NoBody

Stop(how) == pc' = how /\ body' = NoBody /\ UNCHANGED parser

MutReadHead ==    \* mutant: a parser error is only looked at in the state machine
    /\ pc = "recv"
    /\ \E n \in Amounts(BufferSize) :
        /\ Take(n, BufferSize)
        /\ \E q \in {Execute(Table, parser, SubSeq(wire, 1, n))} :
           \/ (q.threw \/ q.cs = S("req", "error")) /\ Stop("refused")
           \/ ~(q.threw \/ q.cs = S("req", "error")) /\ IsFinished(q) /\ TakeBody(q, SubSeq(wire, q.n + 1, n))
           \/ ~(q.threw \/ q.cs = S("req", "error")) /\ ~IsFinished(q) /\ parser' = q /\ UNCHANGED <<pc, body>>
    /\ UNCHANGED <<sent, peer, piped, keepalive, base, timeouts, served, replies, tables>>

(* The loop of recvRequest.  Every byte of an unfinished head is consumed, *)
(* so the next read begins at the buffer's start again and a head longer   *)
(* than the buffer is never refused.                                       *)
ReadHead ==
    /\ pc = "recv"
    /\ \E n \in Amounts(BufferSize) :
        /\ Take(n, BufferSize)
        /\ \E q \in {Execute(Table, parser, SubSeq(wire, 1, n))} :
           LET bad == q.threw \/ HasError(q) IN
           \/ bad /\ Stop("refused")
           \/ ~bad /\ IsFinished(q) /\ TakeBody(q, SubSeq(wire, q.n + 1, n))
           \/ ~bad /\ ~IsFinished(q) /\ parser' = q /\ UNCHANGED <<pc, body>>
    /\ UNCHANGED <<sent, peer, piped, keepalive, base, timeouts, served, replies, tables>>

(* read returns 0, or -1 after tcp_server.read_timeout even if bytes are   *)
(* still on their way                                                      *)
ReadHeadEnds ==
    /\ pc = "recv" /\ Stop("closed")
    /\ UNCHANGED <<client, keepalive, count, served, replies, tables>>

(* readFixSize: some of the bytes, ...                                     *)
Put(bytes, at, bs) == [i \in DOMAIN bytes |-> IF i - at \in DOMAIN bs THEN bs[i - at] ELSE bytes[i]]
ReadBody ==
    /\ pc = "body"
    /\ \E n \in Amounts(body.need) :
        LET bytes == Put(body.bytes, body.at, SubSeq(wire, 1, n)) IN
        /\ Take(n, body.need)
        /\ \/ /\ n < body.need
              /\ body' = [bytes |-> bytes, at |-> body.at + n, need |-> body.need - n]
              /\ UNCHANGED <<pc, parser>>
           \/ /\ n = body.need /\ body' = NoBody /\ pc' = "handle"
              /\ parser' = [parser EXCEPT !.req = Received(@, bytes)]
    /\ UNCHANGED <<sent, peer, piped, keepalive, base, timeouts, served, replies, tables>>

(* ... -1, which a size_t adds to the offset and to what is left, ...      *)
ReadBodyFails ==
    /\ pc = "body" /\ timeouts < MaxTimeouts
    /\ timeouts' = timeouts + 1
    /\ body' = [body EXCEPT !.at = @ - 1, !.need = @ + 1]
    /\ UNCHANGED <<client, pc, keepalive, parser, taken, base, cuts, reads, served, replies, tables>>

MutBodyOver == FALSE      \* mutant: 0 is asked for again
(* ... or 0                                                                *)
BodyOver == pc = "body" /\ wire = <<>> /\ peer = "closed"
ReadBodyEnds ==
    /\ BodyOver /\ Stop("closed")
    /\ UNCHANGED <<client, keepalive, count, served, replies, tables>>
-----------------------------------------------------------------------------
(* getMatchedServlet: the exact name, then the patterns in the order they  *)
(* were added, then NotFoundServlet                                        *)
Matched(path) ==
    LET hits == {i \in DOMAIN globs : Matches(globs[i].uri, path)}
    IN  IF path \in DOMAIN exact THEN exact[path]
        ELSE IF hits # {} THEN globs[Min(hits)].servlet ELSE "404"

(* ServletDispatch::handle between recvRequest and sendResponse            *)
Handle ==
    /\ pc = "handle" /\ pc' = "send"
    /\ served' = Append(served, [req |-> parser.req, by |-> Matched(parser.req.path)])
    /\ UNCHANGED <<client, keepalive, parser, body, count, replies, tables>>

(* The answer is written; the loop goes on only on both sides' wish        *)
SendResponse ==
    /\ pc = "send" /\ replies' = replies + 1
    /\ IF ~keepalive \/ parser.req.close
       THEN pc' = "closed" /\ UNCHANGED <<parser, base>>
       ELSE /\ pc' = "recv" /\ base' = taken
            /\ \E relaxed \in BOOLEAN : parser' = NewParser(relaxed)
    /\ UNCHANGED <<client, keepalive, body, taken, cuts, reads, timeouts, served, tables>>

(* writeFixSize takes -1 for a length and calls send again: on a           *)
(* connection the client has reset that is SIGPIPE, which nobody handles.  *)
SendKills ==
    /\ pc = "send" /\ peer = "closed" /\ pc' = "killed"
    /\ UNCHANGED <<client, keepalive, parser, body, count, served, replies, tables>>

(* The first entry of that name is erased                                  *)
Without(u) ==
    LET places == {i \in DOMAIN globs : globs[i].uri = u}
    IN  IF places = {} THEN globs ELSE RemoveAt(globs, Min(places))
(* Bound: the tables change around one plain request read in one piece;    *)
(* they share no state with the reading.                                   *)
Quiet == reads = 0 /\ Len(sent) < 2 /\ Range(sent) \subseteq Follow
Logged(op, u, s) ==
    /\ Len(admin) < MaxAdmin /\ Quiet
    /\ admin' = Append(admin, [op |-> op, uri |-> u, servlet |-> s])
AdminFrame == UNCHANGED <<client, pc, keepalive, parser, body, count, served, replies>>

AddServlet(u, s) ==
    /\ Logged("add", u, s) /\ exact' = [v \in DOMAIN exact \cup {u} |-> IF v = u THEN s ELSE exact[v]]
    /\ UNCHANGED globs /\ AdminFrame
DelServlet(u) ==
    /\ Logged("del", u, "404") /\ exact' = [v \in DOMAIN exact \ {u} |-> exact[v]]
    /\ UNCHANGED globs /\ AdminFrame
MutAddGlobServlet(u, s) ==      \* mutant: an old entry of the same name stays
    /\ Logged("addGlob", u, s) /\ globs' = Append(globs, [uri |-> u, servlet |-> s])
    /\ UNCHANGED exact /\ AdminFrame
AddGlobServlet(u, s) ==
    /\ Logged("addGlob", u, s) /\ globs' = Append(Without(u), [uri |-> u, servlet |-> s])
    /\ UNCHANGED exact /\ AdminFrame
DelGlobServlet(u) == Logged("delGlob", u, "404") /\ globs' = Without(u) /\ UNCHANGED exact /\ AdminFrame

Session == ReadHead \/ ReadHeadEnds \/ ReadBody \/ ReadBodyEnds \/ Handle \/ SendResponse
Next ==
    \/ \E t \in DOMAIN Texts : ClientSend(t)
    \/ ClientClose
    \/ Session \/ ReadBodyFails \/ SendKills
    \/ \E u \in Uris, s \in Servlets : AddServlet(u, s)
    \/ \E u \in Uris : DelServlet(u)
    \/ \E u \in Globs, s \in Servlets : AddGlobServlet(u, s)
    \/ \E u \in Globs : DelGlobServlet(u)

(***************************************************************************)
(* The fiber is scheduled again whenever its descriptor is ready or its    *)
(* read timeout has passed.  Ready is ENABLED Session, and a step of       *)
(* Session always moves pc or reads; written this way the parser need not  *)
(* run to decide fairness.                                                 *)
(***************************************************************************)
Ready == pc \in {"recv", "handle", "send"} \/ (pc = "body" /\ wire # <<>>) \/ BodyOver
Serve == /\ Ready /\ taken' \in taken..(taken + Len(wire))
         /\ pc' \in {"recv", "body", "handle", "send", "closed", "refused", "killed"}
Spec == Init /\ [][Next]_vars /\ WF_<<pc, taken>>(Serve)

-----------------------------------------------------------------------------
(* Properties.                                                             *)

(* Where the i-th text begins in the stream, and the cuts relative to it   *)
Text(i) == Texts[sent[i]]
StartOf(i) == FoldLeft(LAMBDA n, t : n + Len(Texts[t].bytes), 0, SubSeq(sent, 1, i - 1))
CutsOf(i) == {c - StartOf(i) : c \in cuts}
(* The pieces of a text that no read began inside of                       *)
Intact(i) == LET t == Text(i) IN
    {k \in DOMAIN t.pieces : CutsOf(i) \cap (t.from[k] + 1)..(t.from[k] + Len(t.pieces[k].text) - 1) = {}}
IntactAll(i, whats) == {k \in DOMAIN Text(i).pieces : Text(i).pieces[k].what \in whats} \subseteq Intact(i)
(* The text the current request is, if it began where one begins           *)
Current == {i \in DOMAIN sent : StartOf(i) = base}
Sizes(i) == IntactAll(i, {"header"})

(* The request a servlet gets has, of every element that came in one read, *)
(* exactly what HttpRequest::dump wrote (http_parser.cpp:82-142): however  *)
(* the stream is cut elsewhere, values never mix.                          *)
HeadExact == pc = "handle" => \A i \in {j \in Current : Text(j).dumped} :
    LET t == Text(i)
        got == parser.req
        whole == {t.pieces[k] : k \in Intact(i)}
        Has(what) == \E p \in whole : p.what = what
    IN  /\ got.method = t.req.method
        /\ Has("path") => got.path = t.req.path
        /\ Has("query") => got.query = t.req.query
        /\ Has("fragment") => got.fragment = t.req.fragment
        /\ Has("version") => got.version = t.req.version
        /\ \A n \in DOMAIN t.req.headers :
              (\E p \in whole : p.what = "header" /\ p.name = n) => Header(got, n) = t.req.headers[n]
        /\ Sizes(i) => /\ got.close = t.req.close
                       /\ timeouts = 0 => got.body = t.req.body

Whole == [t \in DOMAIN Texts, r \in BOOLEAN |-> Execute(Table, NewParser(r), Texts[t].bytes)]

(* How a head is cut never changes where it ends or whether it is one: the *)
(* session stops at the byte where one read of the whole would stop, and   *)
(* refuses a good head only if a read began inside its method, version or  *)
(* query (http_session.cpp:25-45).                                         *)
VerdictExact == \A i \in Current :
    LET all == Whole[sent[i], parser.relaxed]
        bad == HasError(all)
    IN  CASE pc = "recv" -> taken - base < all.n \/ (bad /\ taken - base = all.n)
          [] pc = "refused" -> bad \/ ~IntactAll(i, {"method", "version", "query", "line"})
          [] pc \in {"body", "handle", "send"} -> ~bad /\ taken - base >= all.n
          [] OTHER -> TRUE

(* A client that waits for each answer and whose elements are not cut gets *)
(* its requests handled one by one, each once, in order, as sent           *)
(* (http_server.cpp:18-39).                                                *)
Clean == ~piped /\ timeouts = 0 /\ \A i \in DOMAIN sent : Intact(i) = DOMAIN Text(i).pieces
InOrder == Clean => \A i \in DOMAIN served : Text(i).dumped =>
    /\ served[i].req.path = Text(i).req.path /\ served[i].req.body = Text(i).req.body
    /\ served[i].req.method = Text(i).req.method /\ served[i].req.query = Text(i).req.query

(* The calls that registered a servlet which was neither replaced nor      *)
(* removed since                                                           *)
Alive(calls, op, ops) == {k \in DOMAIN calls : calls[k].op = op /\
    \A j \in DOMAIN calls : calls[j].uri = calls[k].uri /\ calls[j].op \in ops => j <= k}
AliveNames == Alive(admin, "add", {"add", "del"})
AliveGlobs == Alive(admin, "addGlob", {"addGlob", "delGlob"})
Want(path) ==
    LET named == {k \in AliveNames : admin[k].uri = path}
        hits == {k \in AliveGlobs : Matches(admin[k].uri, path)}
    IN  IF named # {} THEN admin[Min(named)].servlet
        ELSE IF hits # {} THEN admin[Min(hits)].servlet ELSE "404"

(* The servlet of every path is the one the history of the calls asks for: *)
(* the last one registered for the exact name, else of the patterns that   *)
(* match the one registered longest ago (servlet.cpp:32-104).              *)
DispatchExact == \A u \in Uris : Matched(u) = Want(u)

(* A session whose client has left ends, and one that waits for a head     *)
(* does not wait forever (http_session.cpp:26-31).                         *)
SessionEnds == /\ (peer = "closed") ~> (pc \in {"closed", "refused", "killed"})
               /\ (pc = "recv") ~> (pc # "recv")
=============================================================================
