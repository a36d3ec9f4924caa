--------------------------- MODULE ConnectionPool ---------------------------
(***************************************************************************)
(* What HttpConnectionPool keeps: the connections, the list of the idle    *)
(* ones, and their number, with what callers hold of them meanwhile.  The  *)
(* callers' steps, and what the lock covers, are in HttpClient.            *)
(***************************************************************************)
EXTENDS Naturals, Sequences, FiniteSets

CONSTANTS
    Callers,
    MaxAlive, MaxRequest    \* m_maxAliveTime, m_maxRequest

U == INSTANCE Uri

VARIABLES
    conns,      \* every HttpConnection made so far, with its socket
    idle,       \* m_conns
    total,      \* m_total
    call,       \* per caller: what doRequest, getConnection and recvResponse hold
    time

NewConn == [st |-> "live", up |-> TRUE, born |-> time, reqs |-> 0,
            wire |-> <<>>, asked |-> <<>>, kind |-> "", to |-> "", peer |-> "open", dirty |-> FALSE]
Conn(c) == conns[call[c].conn]

(* A call through the pool has no URL of its own.                          *)
NoUrl == [text |-> <<>>, parts |-> U!NoUri, is |-> ""]
Pooled(c) == call[c].url = NoUrl

(* getConnection: not closed on our side and not too old                   *)
Fresh(k, now) == conns[k].up /\ conns[k].born + MaxAlive > now
Delete(ks) == conns' = [k \in DOMAIN conns |->
    IF k \in ks THEN [conns[k] EXCEPT !.st = "gone", !.up = FALSE, !.wire = <<>>, !.asked = <<>>] ELSE conns[k]]

(* ReleasePtr                                                              *)
MutKept(conn) == conn.born + MaxAlive > time /\ conn.reqs + 1 < MaxRequest   \* mutant: a closed one too
Kept(conn) == conn.up /\ conn.born + MaxAlive > time /\ conn.reqs + 1 < MaxRequest

-----------------------------------------------------------------------------
(* m_total counts the pool's connections; each is idle, in use by one      *)
(* caller or about to be deleted, never two of these; none serves more     *)
(* than m_maxRequest requests, and none is idle that we have closed        *)
(* (http_connection.cpp:281-338).                                          *)
PoolExact ==
    LET Live == {k \in DOMAIN conns : conns[k].st = "live"}
        Owners(k) == {<<"idle", i>> : i \in {j \in DOMAIN idle : idle[j] = k}}
            \cup {<<"held", c>> : c \in {d \in Callers : call[d].conn = k}}
            \cup UNION {{<<"doomed", c, i>> : i \in {j \in DOMAIN call[c].doomed : call[c].doomed[j] = k}} : c \in Callers}
    IN  /\ \A k \in DOMAIN conns : Cardinality(Owners(k)) = IF k \in Live THEN 1 ELSE 0
        /\ total = Cardinality(Live \ {call[c].conn : c \in {d \in Callers : ~Pooled(d)}})
        /\ \A k \in DOMAIN conns : conns[k].reqs < MaxRequest
        /\ \A k \in {idle[i] : i \in DOMAIN idle} : conns[k].up
=============================================================================
