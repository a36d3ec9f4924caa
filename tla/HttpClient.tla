----------------------------- MODULE HttpClient -----------------------------
(***************************************************************************)
(* HttpConnection and HttpConnectionPool: callers that send a request by   *)
(* URL or through the pool and wait for the answer.  The server and the    *)
(* network are the environment: answers arrive in pieces of any size,      *)
(* late, or not at all, and the server closes connections when it likes.   *)
(***************************************************************************)
EXTENDS ConnectionPool, Integers, SequencesExt

CONSTANTS
    BufferSize,             \* http.request.buffer_size
    Methods,                \* the names of HTTP_METHOD_MAP
    Urls,                   \* what callers pass for a URL: [text, parts, is], is what the grammar makes of it
    PoolUri, PoolHost,      \* the target and host of calls through the pool
    HeaderSets,             \* headers a caller may pass
    Kinds, Usual, Tags,     \* kinds of answer, the one given when several call; a byte for each call
    Answer(_, _),           \* the answer of a kind to a tag: [pieces, from, bytes, rsp]
    MaxCalls,               \* bound: calls
    MaxTime,                \* bound: the clock
    MaxReads,               \* bound: reads that return less than there is; the second and
                            \* later ones end where a piece of the answer ends
    MaxTimeouts, MaxCloses  \* bounds: reads that time out, connections the server closes

ASSUME HttpClientAssumption ==
    /\ {MaxAlive, MaxRequest, BufferSize, MaxCalls, MaxTime, MaxReads, MaxTimeouts, MaxCloses} \subseteq Nat
    /\ BufferSize > 0 /\ Usual \in Kinds /\ Len(Tags) >= MaxCalls

Q == INSTANCE RequestParser
R == INSTANCE ResponseParser

(* The three machines                                                      *)
UriTable == U!Table
RequestTable == Q!Table
ResponseTable == R!Table

VARIABLES calls, reads, timeouts, closes

counts == <<calls, reads, timeouts, closes>>
vars == <<conns, idle, total, call, time, counts>>

NoCall == [pc |-> "idle", url |-> NoUrl, headers |-> Q!NoHeaders, tag |-> "", conn |-> 0, now |-> 0, doomed |-> <<>>,
           q |-> R!NewParser, buf |-> <<>>, begin |-> FALSE, body |-> <<>>, at |-> 0, need |-> 0,
           result |-> "", rsp |-> R!HttpResponse, cut |-> {}, late |-> FALSE]

Init == /\ conns = <<>> /\ idle = <<>> /\ total = 0
        /\ call = [c \in Callers |-> NoCall]
        /\ time = 0 /\ calls = 0 /\ reads = 0 /\ timeouts = 0 /\ closes = 0

Set(c, r) == call' = [call EXCEPT ![c] = r]

-----------------------------------------------------------------------------
(***************************************************************************)
(* The request.  connection: keep-alive is the only value of that header   *)
(* that counts; the pool's requests are keep-alive anyway.  A host header  *)
(* of the caller's is kept if it is not empty.                             *)
(***************************************************************************)
BuildRequest(path, query, fragment, headers, host, close) ==
    LET own == [n \in DOMAIN headers \ {<<"connection">>} |-> headers[n]]
        hasHost == <<"host">> \in DOMAIN own /\ own[<<"host">>] # <<>>
    IN  [Q!HttpRequest EXCEPT !.path = path, !.query = query, !.fragment = fragment,
            !.close = close /\ Q!Header([headers |-> headers], <<"connection">>) # <<"keep-alive">>,
            !.headers = IF hasHost THEN own ELSE (<<"host">> :> host) @@ own]
MutUrlRequest(uri, headers) == BuildRequest(uri.path, uri.query, uri.fragment, headers, uri.host, TRUE) \* mutant: m_path
UrlRequest(uri, headers) == BuildRequest(U!getPath(uri), uri.query, uri.fragment, headers, uri.host, TRUE)
(* The pool's calls by Uri write the target into one string                *)
PoolTarget(uri) == U!getPath(uri) \o U!After("?", uri.query) \o U!After("#", uri.fragment)
PoolRequest(target, headers) == BuildRequest(target, <<>>, <<>>, headers, PoolHost, FALSE)
Request(c) == IF Pooled(c) THEN PoolRequest(PoolTarget(PoolUri), call[c].headers)
              ELSE UrlRequest(U!Create(UriTable, call[c].url.text).uri, call[c].headers)

(* Bound: calls by URL or with headers of their own are made alone, and    *)
(* after a short read there is one call at a time.                         *)
AllIdle == \A c \in Callers : call[c].pc = "idle"
Single == \E c \in Callers : call[c].url # NoUrl \/ call[c].headers # Q!NoHeaders
MayBegin == calls < MaxCalls /\ ~Single /\ (reads > 0 => AllIdle /\ calls < 2)

(* HttpConnectionPool::doRequest                                           *)
Begin(c, h) ==
    /\ call[c].pc = "idle" /\ MayBegin /\ (calls > 0 => h = Q!NoHeaders)
    /\ calls' = calls + 1
    /\ Set(c, [NoCall EXCEPT !.pc = "pop", !.now = time, !.tag = Tags[calls + 1], !.headers = h])
    /\ UNCHANGED <<conns, idle, total, time, reads, timeouts, closes>>

(* HttpConnection::DoRequest by URL                                        *)
BeginUrl(c, u, h) ==
    /\ call[c].pc = "idle" /\ calls = 0 /\ calls' = 1
    /\ \E made \in {U!Create(UriTable, u.text)} :
        Set(c, [NoCall EXCEPT !.url = u, !.tag = Tags[1], !.headers = h,
                              !.pc = IF made.is = "uri" THEN "connect" ELSE "release",
                              !.result = CASE made.is = "uri" -> "" [] made.is = "null" -> "INVALID_URL"
                                           [] OTHER -> "threw"])
    /\ UNCHANGED <<conns, idle, total, time, reads, timeouts, closes>>

(* getConnection, under the lock: the first idle connection that is not    *)
(* closed on our side and not too old.  now was read before the lock.      *)
Pop(c) ==
    /\ call[c].pc = "pop"
    /\ LET good == {i \in DOMAIN idle : Fresh(idle[i], call[c].now)}
           n == IF good = {} THEN Len(idle) ELSE (CHOOSE i \in good : \A j \in good : i <= j) - 1
           found == good # {}
       IN  /\ idle' = SubSeq(idle, n + (IF found THEN 2 ELSE 1), Len(idle))
           /\ Set(c, [call[c] EXCEPT !.doomed = SubSeq(idle, 1, n), !.conn = IF found THEN idle[n + 1] ELSE 0,
                                     !.pc = IF n > 0 THEN "drop" ELSE IF found THEN "send" ELSE "connect"])
    /\ UNCHANGED <<conns, total, time, counts>>

(* ... and after it                                                        *)
DropInvalid(c) ==
    /\ call[c].pc = "drop"
    /\ Delete(Range(call[c].doomed)) /\ total' = total - Len(call[c].doomed)
    /\ Set(c, [call[c] EXCEPT !.doomed = <<>>, !.pc = IF call[c].conn = 0 THEN "connect" ELSE "send"])
    /\ UNCHANGED <<idle, time, counts>>

(* A new connection; m_maxSize is not looked at                            *)
Connect(c) ==
    /\ call[c].pc = "connect"
    /\ conns' = Append(conns, NewConn)
    /\ total' = IF Pooled(c) THEN total + 1 ELSE total
    /\ Set(c, [call[c] EXCEPT !.conn = Len(conns) + 1, !.pc = "send"])
    /\ UNCHANGED <<idle, time, counts>>
(* No address, no socket or no connection                                  *)
ConnectFails(c) ==
    /\ call[c].pc = "connect" /\ reads = 0
    /\ \E why \in IF Pooled(c) THEN {"POOL_GET_CONNECTION"}
                  ELSE {"INVALID_HOST", "CREATE_SOCKET_ERROR", "CONNECT_FAIL"} :
        Set(c, [call[c] EXCEPT !.result = why, !.pc = "release"])
    /\ UNCHANGED <<conns, idle, total, time, counts>>

(* sendRequest.  The server may have closed long ago: the bytes are lost,  *)
(* or the next send kills the process, as in HttpServer.                   *)
SendRequest(c) ==
    /\ call[c].pc = "send"
    /\ conns' = [conns EXCEPT ![call[c].conn].asked = IF Conn(c).peer = "open" THEN Append(@, call[c].tag) ELSE @]
    /\ Set(c, [call[c] EXCEPT !.pc = "recv"])
    /\ UNCHANGED <<idle, total, time, counts>>
SendKills(c) ==
    /\ call[c].pc = "send" /\ Conn(c).peer = "closed"
    /\ call' = [d \in Callers |-> [call[d] EXCEPT !.pc = "killed"]]
    /\ UNCHANGED <<conns, idle, total, time, counts>>

-----------------------------------------------------------------------------
(* recvResponse.  What a read may return: everything there is, or less     *)
ReadAlone == calls = 1 /\ ~Single /\ timeouts = 0 /\ closes = 0 /\ time = 0
Sent(k) == Answer(conns[k].kind, conns[k].to)
Offset(k) == Len(Sent(k).bytes) - Len(conns[k].wire)
Amounts(c, most) ==
    LET wire == Conn(c).wire
        all == IF Len(wire) < most THEN Len(wire) ELSE most
        ends == {f - Offset(call[c].conn) : f \in Range(Sent(call[c].conn).from)}
    IN  IF reads < MaxReads /\ ReadAlone /\ all > 0
        THEN IF reads = 0 THEN 1..all ELSE {all} \cup (ends \cap (1..all))
        ELSE {all} \ {0}
(* What is cut in two by a read that begins here                           *)
CutBy(k) ==
    LET a == Sent(k)
        o == Offset(k)
    IN  IF conns[k].dirty THEN {}
        ELSE {a.pieces[i].what : i \in {j \in DOMAIN a.pieces : a.from[j] < o /\ o < a.from[j] + Len(a.pieces[j].text)}}
Take(c, n, most) ==
    LET k == call[c].conn IN
    /\ conns' = [conns EXCEPT ![k].wire = SubSeq(@, n + 1, Len(@))]
    /\ reads' = IF n < most /\ n < Len(Conn(c).wire) THEN reads + 1 ELSE reads
    /\ UNCHANGED <<idle, total, time, calls, timeouts, closes>>
Bytes(c, n) == SubSeq(Conn(c).wire, 1, n)

Finish(r, result, rsp) == [r EXCEPT !.pc = IF result = "OK" THEN "release" ELSE "close", !.result = result, !.rsp = rsp,
    !.q = R!NewParser, !.buf = <<>>, !.begin = FALSE, !.body = <<>>, !.at = 0, !.need = 0]
WithBody(q, body) == [q.rsp EXCEPT !.body = body]

(* A body of known length; what the buffer holds beyond it is dropped      *)
TakeBody(r, q, rest) ==
    LET length == R!GetContentLength(q.rsp)
        have == IF Len(rest) < length THEN Len(rest) ELSE length
        bytes == [i \in 1..length |-> IF i <= have THEN rest[i] ELSE "NUL"]
    IN  IF length > have
        THEN [r EXCEPT !.pc = "body", !.q = q, !.body = bytes, !.at = have, !.need = length - have]
        ELSE Finish(r, "OK", WithBody(q, bytes))

TakeHead(r, q, buf) ==
    IF R!HasError(q) THEN Finish(r, "TIMEOUT", R!HttpResponse)
    ELSE IF ~R!IsFinished(q) THEN [r EXCEPT !.q = q]
    ELSE LET rest == SubSeq(buf, q.m.n + 1, Len(buf)) IN
         IF q.m.chunked THEN [r EXCEPT !.pc = "chunk", !.q = q, !.buf = rest, !.begin = TRUE]
         ELSE TakeBody(r, q, rest)
ReadHead(c) ==
    /\ call[c].pc = "recv"
    /\ \E n \in Amounts(c, BufferSize) :
        /\ Take(c, n, BufferSize)
        /\ Set(c, TakeHead([call[c] EXCEPT !.cut = @ \cup CutBy(call[c].conn)],
                       R!Execute(ResponseTable, call[c].q, Bytes(c, n), FALSE), Bytes(c, n)))

(* A chunk is in the buffer with its CRLF, or the rest of it is read       *)
MutChunk(r, q, buf) ==      \* mutant: the line end after the chunk is not waited for
    LET len == q.m.len
        done == [r EXCEPT !.q = q, !.body = r.body \o SubSeq(buf, 1, len), !.buf = SubSeq(buf, len + 3, Len(buf)), !.begin = TRUE]
    IN  IF len <= Len(buf) THEN IF q.m.done THEN Finish(r, "OK", WithBody(q, done.body)) ELSE done
        ELSE [r EXCEPT !.pc = "data", !.q = q, !.body = @ \o buf, !.buf = <<>>, !.need = len + 2 - Len(buf)]
Chunk(r, q, buf) ==
    LET len == q.m.len
        done == [r EXCEPT !.q = q, !.body = r.body \o SubSeq(buf, 1, len), !.buf = SubSeq(buf, len + 3, Len(buf)), !.begin = TRUE]
    IN  IF len + 2 <= Len(buf) THEN IF q.m.done THEN Finish(r, "OK", WithBody(q, done.body)) ELSE done
        ELSE [r EXCEPT !.pc = "data", !.q = q, !.body = @ \o buf, !.buf = <<>>, !.need = len + 2 - Len(buf)]
ChunkHead(r, q, buf) ==
    IF R!HasError(q) THEN Finish(r, "TIMEOUT", R!HttpResponse)
    ELSE IF ~R!IsFinished(q) THEN [r EXCEPT !.q = q, !.buf = <<>>, !.begin = FALSE]
    ELSE Chunk(r, q, SubSeq(buf, q.m.n + 1, Len(buf)))
(* The header of a chunk: from the buffer first, read on otherwise.  Every *)
(* call of execute starts the machine anew.                                *)
ParseChunk(c) ==
    /\ call[c].pc = "chunk" /\ call[c].begin /\ call[c].buf # <<>>
    /\ Set(c, ChunkHead(call[c], R!Execute(ResponseTable, call[c].q, call[c].buf, TRUE), call[c].buf))
    /\ UNCHANGED <<conns, idle, total, time, counts>>
ReadChunk(c) ==
    /\ call[c].pc = "chunk" /\ ~(call[c].begin /\ call[c].buf # <<>>)
    /\ \E n \in Amounts(c, BufferSize) :
        /\ Take(c, n, BufferSize)
        /\ Set(c, ChunkHead([call[c] EXCEPT !.cut = @ \cup CutBy(call[c].conn)],
                            R!Execute(ResponseTable, call[c].q, Bytes(c, n), TRUE), Bytes(c, n)))
(* The rest of a chunk and its CRLF, which are cut off again               *)
ReadData(c) ==
    /\ call[c].pc = "data"
    /\ \E n \in Amounts(c, call[c].need) :
        LET r == call[c]
            all == r.body \o Bytes(c, n)
            cut == SubSeq(all, 1, Len(all) - 2)
        IN  /\ Take(c, n, r.need)
            /\ Set(c, IF n < r.need THEN [r EXCEPT !.body = all, !.need = @ - n]
                      ELSE IF r.q.m.done THEN Finish(r, "OK", WithBody(r.q, cut))
                      ELSE [r EXCEPT !.pc = "chunk", !.body = cut, !.need = 0, !.begin = TRUE])
(* readFixSize                                                             *)
ReadBody(c) ==
    /\ call[c].pc = "body"
    /\ \E n \in Amounts(c, call[c].need) :
        LET r == call[c]
            bytes == [i \in DOMAIN r.body |-> IF i - r.at \in 1..n THEN Bytes(c, n)[i - r.at] ELSE r.body[i]]
        IN  /\ Take(c, n, r.need)
            /\ Set(c, IF n < r.need THEN [r EXCEPT !.body = bytes, !.at = @ + n, !.need = @ - n]
                      ELSE Finish(r, "OK", WithBody(r.q, bytes)))

(* A read returns 0 because the server closed, ...                         *)
Over(c) == Conn(c).wire = <<>> /\ Conn(c).peer = "closed"
Ends(c, late) == Set(c, [Finish(call[c], "TIMEOUT", R!HttpResponse) EXCEPT !.late = late])
ReadEnds(c) ==
    /\ call[c].pc \in {"recv", "chunk", "data", "body"} /\ Over(c) /\ Ends(c, call[c].late)
    /\ UNCHANGED <<conns, idle, total, time, counts>>
(* ... or -1 after the timeout, which readFixSize takes for a length       *)
ReadTimesOut(c) ==
    /\ call[c].pc \in {"recv", "chunk", "data", "body"} /\ timeouts < MaxTimeouts
    /\ timeouts' = timeouts + 1
    /\ IF call[c].pc = "body"
       THEN Set(c, [call[c] EXCEPT !.at = @ - 1, !.need = @ + 1, !.late = TRUE])
       ELSE Ends(c, TRUE)
    /\ UNCHANGED <<conns, idle, total, time, calls, reads, closes>>
(* Every failure closes the socket                                         *)
Close(c) ==
    /\ call[c].pc = "close"
    /\ conns' = [conns EXCEPT ![call[c].conn].up = FALSE]
    /\ Set(c, [call[c] EXCEPT !.pc = "release"])
    /\ UNCHANGED <<idle, total, time, counts>>

-----------------------------------------------------------------------------
(* ReleasePtr, when the caller lets go of the connection                   *)
Release(c) ==
    /\ call[c].pc = "release"
    /\ LET k == call[c].conn
           keep == k # 0 /\ Pooled(c) /\ Kept(Conn(c))
       IN  \/ k = 0 /\ Set(c, NoCall) /\ UNCHANGED <<conns, total>>
           \/ /\ k # 0 /\ ~keep /\ Set(c, NoCall)
              /\ Delete({k}) /\ total' = IF Pooled(c) THEN total - 1 ELSE total
           \/ /\ keep /\ UNCHANGED total
              /\ conns' = [conns EXCEPT ![k].reqs = @ + 1, ![k].dirty = @ \/ call[c].cut \cap {"framing", "size"} # {}]
              /\ Set(c, [NoCall EXCEPT !.pc = "push", !.conn = k])
    /\ UNCHANGED <<idle, time, counts>>
Push(c) ==
    /\ call[c].pc = "push"
    /\ idle' = Append(idle, call[c].conn) /\ Set(c, NoCall)
    /\ UNCHANGED <<conns, total, time, counts>>

-----------------------------------------------------------------------------
(* The server answers the oldest request; it closes when it likes, and     *)
(* what was on its way may be lost.                                        *)
Respond(k, kind) ==
    /\ conns[k].st = "live" /\ conns[k].peer = "open" /\ conns[k].asked # <<>>
    /\ calls > 1 /\ reads = 0 => kind = Usual      \* a bound
    /\ conns' = [conns EXCEPT ![k].wire = @ \o Answer(kind, conns[k].asked[1]).bytes, ![k].asked = Tail(@),
                              ![k].kind = kind, ![k].to = conns[k].asked[1]]
    /\ UNCHANGED <<idle, total, call, time, counts>>
PeerCloses(k) ==
    /\ conns[k].st = "live" /\ conns[k].peer = "open" /\ closes < MaxCloses /\ reads = 0
    /\ closes' = closes + 1
    /\ \E rest \in {conns[k].wire, <<>>} :
          conns' = [conns EXCEPT ![k].peer = "closed", ![k].wire = rest, ![k].asked = <<>>]
    /\ UNCHANGED <<idle, total, call, time, calls, reads, timeouts>>
Tick == time < MaxTime /\ reads = 0 /\ ~Single /\ time' = time + 1 /\ UNCHANGED <<conns, idle, total, call, counts>>

Next ==
    \/ \E c \in Callers :
        \/ \E h \in HeaderSets : Begin(c, h) \/ \E u \in Urls : BeginUrl(c, u, h)
        \/ Pop(c) \/ DropInvalid(c) \/ Connect(c) \/ ConnectFails(c) \/ SendRequest(c) \/ SendKills(c)
        \/ ReadHead(c) \/ ParseChunk(c) \/ ReadChunk(c) \/ ReadData(c) \/ ReadBody(c)
        \/ ReadEnds(c) \/ ReadTimesOut(c) \/ Close(c) \/ Release(c) \/ Push(c)
    \/ \E k \in DOMAIN conns : PeerCloses(k) \/ \E kind \in Kinds : Respond(k, kind)
    \/ Tick
Spec == Init /\ [][Next]_vars

-----------------------------------------------------------------------------
(* Properties.                                                             *)

(* What Create keeps of a user: a digit after its first ":" could be a     *)
(* port, and the mark moves there (uri.rl:70).                             *)
UserKept(user) ==
    LET colon == SelectInSeq(user, LAMBDA ch : ch = ":")
    IN  IF colon \in 1..(Len(user) - 1) /\ user[colon + 1] \in U!Digit
        THEN SubSeq(user, colon + 1, Len(user)) ELSE user

(* Uri::Create gives back the parts a URL was written from, refuses what   *)
(* is no URL, and what Uri::dump writes of the result is read as the same  *)
(* URL again (uri.rl.cc: the marks of user, host, port and path are        *)
(* shared).  The code makes two exceptions: of a user with a digit after   *)
(* its first ":" only what follows that ":" is left (u:1@h gives user 1);  *)
(* and a URL with an empty port, which the grammar allows (uri.rl:68),     *)
(* throws, for save_port leaves no mark for the path.                      *)
UriExact == \A c \in Callers : call[c].pc \in {"connect", "release"} /\ call[c].url # NoUrl =>
    LET u == call[c].url
        made == U!Create(UriTable, u.text)
        again == U!Create(UriTable, U!Dump(made.uri))
    IN  CASE u.is = "uri" -> /\ made = [is |-> "uri", uri |-> [u.parts EXCEPT !.user = UserKept(@)]]
                             /\ again.is = "uri"
                             /\ again.uri = [made.uri EXCEPT !.path = U!getPath(made.uri), !.port =
                                               IF U!isDefaultPort(made.uri) THEN 0 ELSE @]
                             /\ U!getPort(again.uri) = U!getPort(u.parts)
          [] u.is = "empty port" -> call[c].result = "threw"
          [] OTHER -> call[c].result = u.is

(* The server reads from what a call sends the path, query and fragment    *)
(* the caller asked for, the host and whether to keep the connection       *)
(* (http_connection.cpp:205-235, http.cpp:136-165, http_parser.cpp).       *)
RequestArrives == \A c \in Callers : call[c].pc = "recv" /\ calls = 1 /\ Conn(c).asked # <<>> =>
    LET req == Request(c)
        uri == IF Pooled(c) THEN PoolUri ELSE call[c].url.parts
        host == IF Pooled(c) THEN PoolHost ELSE uri.host
        got == Q!Execute(RequestTable, Q!NewParser(FALSE), FlattenSeq([i \in DOMAIN Q!Pieces(req) |-> Q!Pieces(req)[i].text]))
        own == Q!Header([headers |-> call[c].headers], <<"host">>)
        stay == Q!Header([headers |-> call[c].headers], <<"connection">>) = <<"keep-alive">>
    IN  /\ Q!IsFinished(got) /\ ~Q!HasError(got)
        /\ got.req.path = U!getPath(uri) /\ got.req.query = uri.query /\ got.req.fragment = uri.fragment
        /\ Q!Header(got.req, <<"host">>) = IF own = <<>> THEN host ELSE own
        /\ (Q!Header(got.req, <<"connection">>) = <<"keep-alive">>) = (Pooled(c) \/ stay)

(* A call that succeeds has the answer to its own request, each part as    *)
(* the server sent it unless a read began inside of that part; it fails    *)
(* only if the server closed, a read timed out or the version or a chunk's *)
(* size was cut (http_connection.cpp:29-154).  And an idle connection owes *)
(* no answer: nothing is on its way that the next caller could take for    *)
(* its own.  Excepted are the connections on which a read once began       *)
(* inside content-length, transfer-encoding or a chunk's size: the parser  *)
(* forgets what it had of it, the length of the body with it, and          *)
(* ReleasePtr puts the connection back with the rest of that body still to *)
(* come (http_connection.cpp:329-338).                                     *)
OwnAnswer ==
    /\ \A k \in Range(idle) : ~conns[k].dirty => conns[k].wire = <<>> /\ conns[k].asked = <<>>
    /\ \A c \in Callers : call[c].pc = "release" /\ call[c].conn # 0 /\ ~Conn(c).dirty =>
        LET r == call[c]
            want == Answer(Conn(c).kind, r.tag).rsp
        IN  CASE r.result = "OK" ->
                   /\ "status" \notin r.cut => r.rsp.status = want.status
                   /\ "reason" \notin r.cut => r.rsp.reason = want.reason
                   /\ r.cut \cap {"framing", "size"} = {} /\ ~r.late => r.rsp.body = want.body
              [] OTHER -> r.late \/ Conn(c).peer = "closed" \/ r.cut \cap {"version", "size"} # {}
=============================================================================
