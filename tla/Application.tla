---------------------------- MODULE Application -----------------------------
(***************************************************************************)
(* A process with a TcpServer in it: either Application under start_daemon *)
(* (application.cpp, daemon.cpp), whose one thread does everything, which  *)
(* never stops and which its parent starts again after a crash, or a       *)
(* program like tests/test_tcp_server.cpp, with a worker of its own for    *)
(* clients, that may stop and bind again.  Another instance of the program *)
(* may hold addresses: the pid file does not keep it out, because main     *)
(* writes it through a buffer that is not flushed while the server runs,   *)
(* and IsRunningPidfile ignores an empty file.                             *)
(***************************************************************************)
EXTENDS TcpServer

CONSTANTS
    MaxStops,       \* bound: calls of stop
    MaxCrashes,     \* bound: crashes
    MaxRivals       \* bound: addresses that others take

ASSUME ApplicationAssumption == {MaxStops, MaxCrashes, MaxRivals} \subseteq Nat

VARIABLES
    proc,                       \* what has become of the process
    stops, crashes, rivals      \* history

life == <<proc, stops, crashes, rivals>>
vars == <<srvVars, life>>

Init ==
    /\ FdInit /\ ServerInit
    /\ oneThread \in BOOLEAN
    /\ client = [c \in Clients |-> NoClient]
    /\ taken = {}
    /\ proc = IF oneThread THEN "down" ELSE "up"
    /\ stops = 0 /\ crashes = 0 /\ rivals = 0

-----------------------------------------------------------------------------
(* start_daemon forks a child, at first and a while after a crash; main    *)
(* schedules run_fiber.                                                    *)
Launch ==
    /\ proc \in {"down", "crashed"}
    /\ proc' = "up"
    /\ main' = [pc |-> "bind", next |-> 1]
    /\ Scheduled(<<Main>>)
    /\ UNCHANGED <<table, socks, sockets, fails, isStop, loops, rounds, client, oneThread,
                   taken, stops, crashes, rivals>>

(* The kernel takes everything back from a process that ends.              *)
Vanish ==
    /\ file' = [n \in Fds |-> Free]
    /\ ctx' = [n \in Fds |-> NoCtx]
    /\ watch' = [n \in Fds |-> NoFiber]
    /\ socks' = <<>> /\ sockets' = <<>> /\ fails' = {} /\ isStop' = TRUE /\ loops' = <<>>
    /\ main' = Idle
    /\ queue' = [t \in Threads |-> <<>>] /\ running' = [t \in Threads |-> NoFiber]
    /\ client' = [c \in Clients |-> IF client[c].pc = "away" THEN NoClient
                                    ELSE [NoClient EXCEPT !.pc = "reset"]]
    /\ UNCHANGED <<rounds, oneThread, taken, stops, rivals>>

(* run_fiber calls _exit(0) when bind has failed, and the parent takes     *)
(* that for an orderly end.                                                *)
Exit ==
    /\ oneThread /\ proc = "up" /\ main.pc = "failed"
    /\ proc' = "exited" /\ Vanish /\ UNCHANGED crashes
Crash ==
    /\ oneThread /\ proc = "up" /\ crashes < MaxCrashes
    /\ proc' = "crashed" /\ Vanish /\ crashes' = crashes + 1

(* The program without a daemon.                                           *)
UserCalls ==
    \/ (CallBind \/ Retry) /\ ~oneThread /\ UNCHANGED life
    \/ /\ Stop /\ ~oneThread
       /\ stops < MaxStops /\ stops' = stops + 1
       /\ UNCHANGED <<proc, crashes, rivals>>

(* Other processes.                                                        *)
RivalTakes(a) ==
    /\ a \notin taken \cup Held /\ rivals < MaxRivals
    /\ taken' = taken \cup {a} /\ rivals' = rivals + 1
    /\ UNCHANGED <<table, threads, server, oneThread, client, proc, stops, crashes>>
RivalReleases(a) ==
    /\ a \in taken /\ taken' = taken \ {a}
    /\ UNCHANGED <<table, threads, server, oneThread, client, life>>

AcceptThread ==
    /\ \/ MainStep \/ CloseAll
       \/ \E k \in DOMAIN loops : Accept(k) \/ AcceptFails(k) \/ AcceptWaits(k) \/ LoopEnds(k)
    /\ UNCHANGED life
HandlerRuns == (\E c \in Clients : HandlerWaits(c) \/ DelCtx(c) \/ CloseFd(c)) /\ UNCHANGED life
Wakes ==
    /\ \/ \E k \in DOMAIN loops : LoopWakes(k)
       \/ \E c \in Clients : HandlerWakes(c)
    /\ UNCHANGED life

Next ==
    \/ AcceptThread \/ HandlerRuns \/ Wakes
    \/ Launch \/ Exit \/ Crash \/ UserCalls
    \/ \E a \in AddrSet : RivalTakes(a) \/ RivalReleases(a)
    \/ \E c \in Clients :
        /\ ClientShuts(c) \/ \E i \in DOMAIN Addrs : Connect(c, Addrs[i])
        /\ UNCHANGED life

(* Threads run what they have, epoll and the timers wake each fiber whose  *)
(* event stays, and the parent of a daemon goes on.  Clients, users and    *)
(* other processes need not do anything.                                   *)
Fairness ==
    /\ WF_vars(AcceptThread) /\ WF_vars(HandlerRuns)
    /\ \A k \in 1..(MaxRounds * Len(Addrs)) :
        SF_vars(k \in DOMAIN loops /\ LoopWakes(k) /\ UNCHANGED life)
    /\ \A c \in Clients : SF_vars(HandlerWakes(c) /\ UNCHANGED life)
    /\ WF_vars(Launch) /\ WF_vars(Exit)
Spec == Init /\ [][Next]_vars /\ Fairness

-----------------------------------------------------------------------------
(* Properties.                                                             *)

Owners(n) == {Loop(s) : s \in {x \in DOMAIN sockets : sockets[x].fd = n}}
             \cup {Handler(c) : c \in {x \in Clients : client[x].fd = n}}

(* Numbers are reused, and three tables are indexed by them: whatever the  *)
(* two threads do, a context belongs to the descriptor that is open now    *)
(* (no socket inherits the timeouts of its predecessor), an open           *)
(* descriptor has one Socket that will close it, a handler runs with a     *)
(* context and a timeout of its own, and a registered event has a fiber    *)
(* that waits for it, as each waiting fiber has its event                  *)
(* (hook.cpp:351-364, fdmanager.cpp:75-107, socket.cpp:112-136).           *)
FdExact ==
    /\ \A n \in Fds :
        /\ ctx[n] # NoCtx => ctx[n].of = file[n]
        /\ Cardinality(Owners(n)) = IF file[n] = Free THEN 0 ELSE 1
        /\ watch[n] # NoFiber =>
            \/ \E k \in DOMAIN loops : watch[n] = Loop(k) /\ loops[k].pc = "held" /\ loops[k].fd = n
            \/ \E c \in Clients : watch[n] = Handler(c) /\ client[c].pc = "held" /\ client[c].fd = n
    /\ \A k \in DOMAIN loops : loops[k].pc = "held" => watch[loops[k].fd] = Loop(k)
    /\ \A c \in Clients : client[c].pc \in {"start", "held"} =>
        /\ ctx[client[c].fd] = [of |-> Connection(c), timed |-> TRUE]
        /\ client[c].pc = "held" => watch[client[c].fd] = Handler(c)

(* bind is all or nothing: a server that was started listens on all its    *)
(* addresses with one accept loop for each until stop() has closed them,   *)
(* and one whose bind failed keeps none of them from other processes       *)
(* (tcp_server.cpp:34-101).                                                *)
Live(s) == {k \in DOMAIN loops : loops[k].sock = s /\ loops[k].pc # "ended"}
ServeExact ==
    /\ (main.pc = "idle" /\ ~isStop /\ socks # <<>>) =>
        /\ Held = AddrSet
        /\ \A s \in SockSet : Cardinality(Live(s)) = 1
    /\ main.pc = "failed" => Held = {}

(* stop() is the end: once m_isStop stays set every accept loop ends and   *)
(* no descriptor listens, although the loops sleep in accept()             *)
(* (tcp_server.cpp:91-101).                                                *)
StopEnds ==
    <>[](isStop /\ main.pc = "idle" /\ proc = "up")
        => <>[](Held = {} /\ \A k \in DOMAIN loops : loops[k].pc = "ended")

(* A daemon whose child crashed serves again, or gives up because an       *)
(* address is taken; and a client that connected to it is accepted, unless *)
(* the descriptors run out (daemon.cpp:29-62, application.cpp:151-198).    *)
Served ==
    /\ proc = "crashed" ~> (proc = "exited" \/ (proc = "up" /\ ~isStop))
    /\ \A c \in Clients :
        (oneThread /\ client[c].pc = "queued") ~> (client[c].pc # "queued" \/ FreeFds = {})
(* What must happen: StopEnds and Served, above.                           *)
Progress == StopEnds /\ Served
=============================================================================
