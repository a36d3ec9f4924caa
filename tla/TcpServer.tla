----------------------------- MODULE TcpServer ------------------------------
(***************************************************************************)
(* TcpServer (tcp_server.cpp) with the Sockets it binds and accepts.  Its  *)
(* fibers run on two IOManagers of one thread each, the accept worker and  *)
(* the worker, or all on one thread; a fiber keeps its thread until it     *)
(* yields or ends, and a thread takes its fibers in the order in which     *)
(* they were scheduled.  Steps of a fiber that no other thread can tell    *)
(* apart are one action.                                                   *)
(***************************************************************************)
EXTENDS FdManager

CONSTANTS
    Addrs,          \* the addresses to bind, in order
    MaxClients,     \* bound: clients
    MaxRounds       \* bound: calls of bind

AddrSet == {Addrs[i] : i \in DOMAIN Addrs}

ASSUME TcpServerAssumption ==
    /\ Addrs \in Seq(AddrSet)
    /\ MaxClients \in Nat /\ MaxRounds \in Nat

VARIABLES
    oneThread,      \* one IOManager is both workers
    queue,          \* queue[t]: the fibers that are scheduled on t
    running,        \* running[t]: the fiber that t runs
    socks,          \* m_socks: a sequence of indices into sockets
    sockets,        \* the listening Socket objects: address and m_sockfd
    fails,          \* the caller's list of addresses that failed
    isStop,         \* m_isStop
    loops,          \* startAccept: Socket, place and the fd that accept() was given
    main,           \* the fiber that calls bind and start: its place, and the next address
    client,         \* client[c]: what the client and its handler are doing
    rounds,         \* history: calls of bind
    taken           \* the addresses that other processes hold

threads == <<queue, running>>
server == <<socks, sockets, fails, isStop, loops, main, rounds>>
srvVars == <<table, threads, server, oneThread, client, taken>>

Clients == 1..MaxClients
Threads == {"accept", "work"}
Main == <<"main", 0>>
Stopper == <<"stop", 0>>
Loop(k) == <<"loop", k>>
Handler(c) == <<"client", c>>
Thread(f) == IF f[1] = "client" /\ ~oneThread THEN "work" ELSE "accept"

Idle == [pc |-> "idle", next |-> 1]
NoClient == [pc |-> "away", addr |-> 0, fd |-> NoFd, shut |-> FALSE]

ServerInit ==
    /\ socks = <<>> /\ sockets = <<>> /\ fails = {} /\ isStop = TRUE /\ loops = <<>>
    /\ main = Idle /\ rounds = 0
    /\ queue = [t \in Threads |-> <<>>] /\ running = [t \in Threads |-> NoFiber]

-----------------------------------------------------------------------------
(* Threads.                                                                *)

Pushed(q, fs) == [t \in Threads |-> q[t] \o SelectSeq(fs, LAMBDA f : Thread(f) = t)]

(* f has its thread: it runs there, or it is the next one.                 *)
OnThread(f) ==
    \/ running[Thread(f)] = f
    \/ /\ running[Thread(f)] = NoFiber
       /\ queue[Thread(f)] # <<>> /\ Head(queue[Thread(f)]) = f
Dequeued(f) ==
    IF running[Thread(f)] = f THEN queue
    ELSE [queue EXCEPT ![Thread(f)] = Tail(@)]

(* f goes on, or gives its thread up; fs are the fibers it has scheduled.  *)
Stays(f, fs) ==
    /\ running' = [running EXCEPT ![Thread(f)] = f]
    /\ queue' = Pushed(Dequeued(f), fs)
Yields(f, fs) ==
    /\ running' = [running EXCEPT ![Thread(f)] = NoFiber]
    /\ queue' = Pushed(Dequeued(f), fs)
Scheduled(fs) == queue' = Pushed(queue, fs) /\ UNCHANGED running

-----------------------------------------------------------------------------
(* bind and start.                                                         *)

Held == {file[n].of : n \in {k \in Fds : file[k].kind = "listen"}}

(* The numbers of some listening sockets are closed (~Socket, close): the  *)
(* fibers that wait are woken, the contexts go, then the descriptors.      *)
Waiting(ns) == {watch[n] : n \in ns} \ {NoFiber}
CloseListeners(ns) ==
    /\ file' = [n \in Fds |-> IF n \in ns THEN Free ELSE file[n]]
    /\ ctx' = [n \in Fds |-> IF n \in ns THEN NoCtx ELSE ctx[n]]
    /\ watch' = [n \in Fds |-> IF n \in ns THEN NoFiber ELSE watch[n]]
    /\ client' = [c \in Clients |->
                    IF client[c].pc = "queued" /\ Listener(client[c].addr) \in {file[n] : n \in ns}
                    THEN [NoClient EXCEPT !.pc = "reset"] ELSE client[c]]

SockSet == {socks[i] : i \in DOMAIN socks}
Numbers == {sockets[s].fd : s \in SockSet} \ {NoFd}
Forgotten == [s \in DOMAIN sockets |->
                IF s \in SockSet THEN [sockets[s] EXCEPT !.fd = NoFd] ELSE sockets[s]]

(* The caller's fiber is scheduled.  A server is bound again only when the *)
(* loops of its last life have ended: nothing in the code waits for that,  *)
(* and a loop that woke later would call accept on a number the new        *)
(* listener may have.                                                      *)
CallBind ==
    /\ main.pc = "idle" /\ isStop /\ rounds < MaxRounds
    /\ \A k \in DOMAIN loops : loops[k].pc = "ended"
    /\ rounds' = rounds + 1
    /\ main' = [pc |-> "bind", next |-> 1]
    /\ Scheduled(<<Main>>)
    /\ UNCHANGED <<table, socks, sockets, fails, isStop, loops, client, oneThread, taken>>

(* One address: socket, bind and listen.  The Socket of an address that    *)
(* another socket has, or for which there is no descriptor, goes again.    *)
BindAddress ==
    LET a == Addrs[main.next] IN
    /\ main.pc = "bind" /\ main.next <= Len(Addrs) /\ OnThread(Main)
    /\ IF FreeFds = {} \/ a \in taken \cup Held
       THEN /\ fails' = fails \cup {a}
            /\ UNCHANGED <<table, socks, sockets>>
       ELSE /\ file' = [file EXCEPT ![Lowest] = Listener(a)]
            /\ ctx' = [ctx EXCEPT ![Lowest] = GetCtx(Lowest, Listener(a))]
            /\ sockets' = Append(sockets, [addr |-> a, fd |-> Lowest])
            /\ socks' = Append(socks, Len(sockets) + 1)
            /\ UNCHANGED <<fails, watch>>
    /\ main' = [main EXCEPT !.next = @ + 1]
    /\ Stays(Main, <<>>)
    /\ UNCHANGED <<isStop, loops, client, rounds, oneThread, taken>>

MutBindFails ==     \* mutant: m_socks.clear() is missing
    /\ main.pc = "bind" /\ main.next > Len(Addrs) /\ fails # {} /\ OnThread(Main)
    /\ main' = [main EXCEPT !.pc = "failed"]
    /\ Yields(Main, <<>>)
    /\ UNCHANGED <<table, socks, sockets, fails, isStop, loops, client, rounds, oneThread, taken>>

(* One address failed: m_socks.clear() closes the sockets of the others.   *)
BindFails ==
    /\ main.pc = "bind" /\ main.next > Len(Addrs) /\ fails # {} /\ OnThread(Main)
    /\ CloseListeners(Numbers)
    /\ sockets' = Forgotten
    /\ socks' = <<>>
    /\ main' = [main EXCEPT !.pc = "failed"]
    /\ Yields(Main, <<>>)
    /\ UNCHANGED <<fails, isStop, loops, rounds, oneThread, taken>>

(* tests/test_tcp_server.cpp tries again, with the same list of failures.  *)
Retry ==
    /\ main.pc = "failed" /\ rounds < MaxRounds
    /\ rounds' = rounds + 1
    /\ main' = [pc |-> "bind", next |-> 1]
    /\ Scheduled(<<Main>>)
    /\ UNCHANGED <<table, socks, sockets, fails, isStop, loops, client, oneThread, taken>>

(* start, behind a bind that succeeded.                                    *)
Start ==
    LET new == [i \in 1..Len(socks) |-> [sock |-> socks[i], pc |-> "test", fd |-> NoFd]]
    IN
    /\ main.pc = "bind" /\ main.next > Len(Addrs) /\ fails = {} /\ OnThread(Main)
    /\ main' = Idle
    /\ isStop' = FALSE
    /\ IF isStop
       THEN /\ loops' = loops \o new
            /\ Yields(Main, [i \in 1..Len(new) |-> Loop(Len(loops) + i)])
       ELSE UNCHANGED loops /\ Yields(Main, <<>>)
    /\ UNCHANGED <<table, socks, sockets, fails, client, rounds, oneThread, taken>>

-----------------------------------------------------------------------------
(* startAccept.                                                            *)

Queued(n) == {c \in Clients : client[c].pc = "queued" /\ file[n] = Listener(client[c].addr)}
At(k, pc, fd) == loops' = [loops EXCEPT ![k].pc = pc, ![k].fd = fd]
LoopFrame == UNCHANGED <<socks, sockets, fails, isStop, main, rounds, oneThread, taken>>

(* The descriptor of the call: m_sockfd, or the one it had before it       *)
(* waited.                                                                 *)
FdOf(k) == IF loops[k].pc = "retry" THEN loops[k].fd ELSE sockets[loops[k].sock].fd
MayAccept(k) ==
    /\ OnThread(Loop(k))
    /\ loops[k].pc = "retry" \/ (loops[k].pc = "test" /\ ~isStop)
Listens(n) == n # NoFd /\ file[n].kind = "listen"

(* A connection: accept makes its context, setRecvTimeout its timeout, and *)
(* the handler is scheduled.                                               *)
Accept(k) ==
    LET n == FdOf(k) IN
    /\ MayAccept(k) /\ Listens(n) /\ FreeFds # {}
    /\ \E c \in Queued(n) :
        /\ file' = [file EXCEPT ![Lowest] = Connection(c)]
        /\ ctx' = [ctx EXCEPT ![Lowest] = Timed(GetCtx(Lowest, Connection(c)))]
        /\ client' = [client EXCEPT ![c].pc = "start", ![c].fd = Lowest]
        /\ Stays(Loop(k), <<Handler(c)>>)
    /\ At(k, "test", NoFd)
    /\ UNCHANGED watch /\ LoopFrame

(* EBADF or EINVAL for a socket that was closed, EMFILE when there is no   *)
(* descriptor left: the loop goes on without a pause.                      *)
AcceptFails(k) ==
    LET n == FdOf(k) IN
    /\ MayAccept(k)
    /\ ~Listens(n) \/ (Listens(n) /\ Queued(n) # {} /\ FreeFds = {})
    /\ At(k, "test", NoFd)
    /\ Stays(Loop(k), <<>>)
    /\ UNCHANGED <<table, client>> /\ LoopFrame

(* EAGAIN: addEvent and YieldToHold.                                       *)
AcceptWaits(k) ==
    LET n == FdOf(k) IN
    /\ MayAccept(k) /\ Listens(n) /\ Queued(n) = {}
    /\ watch' = [watch EXCEPT ![n] = Loop(k)]
    /\ At(k, "held", n)
    /\ Yields(Loop(k), <<>>)
    /\ UNCHANGED <<file, ctx, client>> /\ LoopFrame

LoopEnds(k) ==
    /\ loops[k].pc = "test" /\ isStop /\ OnThread(Loop(k))
    /\ At(k, "ended", NoFd)
    /\ Yields(Loop(k), <<>>)
    /\ UNCHANGED <<table, client>> /\ LoopFrame

(* IOManager::idle on the loop's thread, which has nothing else to do.     *)
LoopWakes(k) ==
    /\ loops[k].pc = "held" /\ Queued(loops[k].fd) # {}
    /\ running["accept"] = NoFiber /\ queue["accept"] = <<>>
    /\ watch' = [watch EXCEPT ![loops[k].fd] = NoFiber]
    /\ loops' = [loops EXCEPT ![k].pc = "retry"]
    /\ Scheduled(<<Loop(k)>>)
    /\ UNCHANGED <<file, ctx, client>> /\ LoopFrame

-----------------------------------------------------------------------------
(* stop, called on any thread, and the function that it schedules.         *)
Stop ==
    /\ isStop' = TRUE
    /\ Scheduled(<<Stopper>>)
    /\ UNCHANGED <<table, socks, sockets, fails, loops, main, client, rounds, oneThread, taken>>

MutCloseAll ==      \* mutant: close without cancelAll
    /\ OnThread(Stopper)
    /\ file' = [n \in Fds |-> IF n \in Numbers THEN Free ELSE file[n]]
    /\ ctx' = [n \in Fds |-> IF n \in Numbers THEN NoCtx ELSE ctx[n]]
    /\ sockets' = Forgotten /\ socks' = <<>>
    /\ Yields(Stopper, <<>>)
    /\ UNCHANGED <<watch, client, loops, fails, isStop, main, rounds, oneThread, taken>>

CloseAll ==
    LET woken == {k \in DOMAIN loops : Loop(k) \in Waiting(Numbers)} IN
    /\ OnThread(Stopper)
    /\ CloseListeners(Numbers)
    /\ sockets' = Forgotten /\ socks' = <<>>
    /\ loops' = [k \in DOMAIN loops |-> IF k \in woken THEN [loops[k] EXCEPT !.pc = "retry"] ELSE loops[k]]
    /\ Yields(Stopper, SelectSeq([k \in 1..Len(loops) |-> Loop(k)], LAMBDA f : f[2] \in woken))
    /\ UNCHANGED <<fails, isStop, main, rounds, oneThread, taken>>

-----------------------------------------------------------------------------
(* handleClient on the worker, as far as descriptors go: it waits for the  *)
(* client, and when that has spoken, gone or timed out the Socket is       *)
(* destroyed.  close() is three steps that the accept worker may observe.  *)
Serving(c, pc) == client' = [client EXCEPT ![c].pc = pc]

HandlerWaits(c) ==
    /\ client[c].pc = "start" /\ OnThread(Handler(c))
    /\ watch' = [watch EXCEPT ![client[c].fd] = Handler(c)]
    /\ Serving(c, "held")
    /\ Yields(Handler(c), <<>>)
    /\ UNCHANGED <<file, ctx, server, oneThread, taken>>

(* The client is heard of, or the timer of do_io, which needs a context    *)
(* with a timeout, expires.                                                *)
HandlerWakes(c) ==
    /\ client[c].pc = "held"
    /\ client[c].shut \/ ctx[client[c].fd].timed
    /\ LET t == Thread(Handler(c)) IN running[t] = NoFiber /\ queue[t] = <<>>
    /\ watch' = [watch EXCEPT ![client[c].fd] = NoFiber]
    /\ Serving(c, "over")
    /\ Scheduled(<<Handler(c)>>)
    /\ UNCHANGED <<file, ctx, server, oneThread, taken>>

(* FdManager::del, then close_f.                                           *)
MutDelCtx(c) ==     \* mutant: m_data[fd] is not reset
    /\ client[c].pc = "over" /\ OnThread(Handler(c))
    /\ Serving(c, "deleted")
    /\ Stays(Handler(c), <<>>)
    /\ UNCHANGED <<table, server, oneThread, taken>>
DelCtx(c) ==
    /\ client[c].pc = "over" /\ OnThread(Handler(c))
    /\ ctx' = [ctx EXCEPT ![client[c].fd] = NoCtx]
    /\ Serving(c, "deleted")
    /\ Stays(Handler(c), <<>>)
    /\ UNCHANGED <<file, watch, server, oneThread, taken>>
CloseFd(c) ==
    /\ client[c].pc = "deleted" /\ OnThread(Handler(c))
    /\ file' = [file EXCEPT ![client[c].fd] = Free]
    /\ client' = [client EXCEPT ![c] = [NoClient EXCEPT !.pc = "done"]]
    /\ Yields(Handler(c), <<>>)
    /\ UNCHANGED <<ctx, watch, server, oneThread, taken>>

-----------------------------------------------------------------------------
(* Clients connect to an address that is listened on, and go.              *)
Connect(c, a) ==
    /\ client[c].pc = "away" /\ a \in Held
    /\ client' = [client EXCEPT ![c].pc = "queued", ![c].addr = a]
    /\ UNCHANGED <<table, threads, server, oneThread, taken>>
ClientShuts(c) ==
    /\ client[c].pc \in {"start", "held"} /\ ~client[c].shut
    /\ client' = [client EXCEPT ![c].shut = TRUE]
    /\ UNCHANGED <<table, threads, server, oneThread, taken>>

MainStep == BindAddress \/ BindFails \/ Start
=============================================================================
