----------------------------- MODULE NodeProofs -----------------------------
(***************************************************************************)
(* Theorems about Application, TcpServer and FdManager: FdExact and        *)
(* ServeExact for any number of addresses, descriptors, clients, crashes   *)
(* and calls.  Both rest on one account of who owns a number: a listening  *)
(* Socket of m_socks or the handler of a client, one and only one of them, *)
(* from socket() or accept() to close().                                   *)
(***************************************************************************)
EXTENDS Application, FiniteSetTheorems, WellFoundedInduction, TLAPS

-----------------------------------------------------------------------------
(* The invariant.                                                          *)

FiberIds == {"none", "main", "stop", "loop", "client"} \X Nat
Files == {Free} \cup {Listener(a) : a \in AddrSet} \cup {Connection(c) : c \in Clients}
Fds0 == Fds \cup {NoFd}
ClientPcs == {"away", "queued", "start", "held", "over", "deleted", "done", "reset"}
LoopPcs == {"test", "held", "retry", "ended"}
Procs == {"down", "up", "crashed", "exited"}

SocketRec == [addr : AddrSet, fd : Fds0]
LoopRec == [sock : Nat, pc : LoopPcs, fd : Fds0]
ClientRec == [pc : ClientPcs, addr : AddrSet \cup {0}, fd : Fds0, shut : BOOLEAN]

Typed ==
    /\ file \in [Fds -> Files]
    /\ ctx \in [Fds -> [of : Files, timed : BOOLEAN]]
    /\ watch \in [Fds -> FiberIds]
    /\ running \in [Threads -> FiberIds]
    /\ socks \in Seq(DOMAIN sockets)
    /\ sockets \in Seq(SocketRec)
    /\ loops \in Seq(LoopRec)
    /\ \A k \in DOMAIN loops : loops[k].sock \in DOMAIN sockets
    /\ main \in [pc : {"idle", "bind", "failed"}, next : 1..(Len(Addrs) + 1)]
    /\ client \in [Clients -> ClientRec]
    /\ oneThread \in BOOLEAN /\ isStop \in BOOLEAN
    /\ proc \in Procs

(* The Sockets of m_socks are those that are open, each under a number of  *)
(* its own.                                                                *)
SocketForm ==
    /\ \A s \in DOMAIN sockets : sockets[s].fd # NoFd =>
        /\ file[sockets[s].fd] = Listener(sockets[s].addr)
        /\ s \in SockSet
    /\ \A s, r \in DOMAIN sockets :
        sockets[s].fd = sockets[r].fd /\ sockets[s].fd # NoFd => s = r
    /\ \A s \in SockSet : sockets[s].fd # NoFd
    /\ \A i, j \in DOMAIN socks : socks[i] = socks[j] => i = j

(* A client has a number from accept() until its handler has closed it.    *)
Open(c) == client[c].pc \in {"start", "held", "over", "deleted"}
ClientForm ==
    \A c \in Clients :
        /\ Open(c) => client[c].fd # NoFd /\ file[client[c].fd] = Connection(c)
        /\ ~Open(c) => client[c].fd = NoFd
        /\ client[c].pc \in {"start", "held"} =>
            ctx[client[c].fd] = [of |-> Connection(c), timed |-> TRUE]
        /\ client[c].pc = "deleted" => ctx[client[c].fd] = NoCtx

(* What is open is owned, and what is closed has no context.               *)
FileForm ==
    \A n \in Fds :
        /\ file[n] # Free => \/ \E s \in DOMAIN sockets : sockets[s].fd = n
                             \/ \E c \in Clients : client[c].fd = n
        /\ ctx[n] # NoCtx => ctx[n].of = file[n] /\ file[n] # Free

(* The accept loops: one at most for a Socket, and accept() is called with *)
(* the number of its Socket or, when stop() has closed that, with one that *)
(* nobody listens on.                                                      *)
LoopForm ==
    /\ \A k, l \in DOMAIN loops :
        loops[k].sock = loops[l].sock /\ loops[k].pc # "ended" /\ loops[l].pc # "ended" => k = l
    /\ \A k \in DOMAIN loops :
        /\ loops[k].pc = "held" =>
            /\ loops[k].fd # NoFd /\ sockets[loops[k].sock].fd = loops[k].fd
            /\ watch[loops[k].fd] = Loop(k)
        /\ loops[k].pc = "retry" =>
            /\ loops[k].fd # NoFd
            /\ sockets[loops[k].sock].fd = loops[k].fd \/ file[loops[k].fd].kind # "listen"

(* Who waits is registered, and who is registered waits.                   *)
WatchForm ==
    /\ \A c \in Clients : client[c].pc = "held" => watch[client[c].fd] = Handler(c)
    /\ \A n \in Fds : watch[n] # NoFiber =>
        \/ \E k \in DOMAIN loops : watch[n] = Loop(k) /\ loops[k].pc = "held" /\ loops[k].fd = n
        \/ \E c \in Clients : watch[n] = Handler(c) /\ client[c].pc = "held" /\ client[c].fd = n

(* While bind works no accept loop of an earlier life is left, and a       *)
(* process that is to be started has nothing.                              *)
MainForm ==
    /\ main.pc # "idle" => isStop /\ \A k \in DOMAIN loops : loops[k].pc = "ended"
    /\ proc \in {"down", "crashed"} => oneThread /\ main.pc = "idle" /\ isStop /\ DOMAIN loops = {}

(* The addresses of m_socks: all or none, except while bind, which no      *)
(* fiber of its thread interrupts, has come to the next one.               *)
Bound == {sockets[s].addr : s \in SockSet}
AllOrNone == Bound = AddrSet \/ socks = <<>>
ServeForm ==
    /\ main.pc = "idle" => AllOrNone
    /\ main.pc = "failed" => socks = <<>>
    /\ main.pc = "bind" /\ fails = {} =>
        IF main.next = 1 THEN AllOrNone
        ELSE /\ running["accept"] = Main
             /\ Bound = {Addrs[i] : i \in 1..(main.next - 1)}
    /\ ~isStop => \A s \in SockSet : \E k \in DOMAIN loops :
                        loops[k].sock = s /\ loops[k].pc # "ended"

TableForm == SocketForm /\ ClientForm /\ FileForm
NodeInv == Typed /\ TableForm /\ LoopForm /\ WatchForm /\ MainForm /\ ServeForm

-----------------------------------------------------------------------------
(* Files, fibers and numbers.                                              *)

LEMMA FileFacts ==
    /\ \A a : Listener(a) # Free /\ Listener(a).kind = "listen" /\ Listener(a).of = a
    /\ \A c : Connection(c) # Free /\ Connection(c).kind # "listen"
    /\ \A a, c : Listener(a) # Connection(c)
    /\ \A a, b : Listener(a) = Listener(b) => a = b
    /\ \A c, d : Connection(c) = Connection(d) => c = d
    /\ Free.kind # "listen"
BY DEF Listener, Connection, Free

LEMMA FiberFacts ==
    /\ \A k : Loop(k) \notin {NoFiber, Main, Stopper}
    /\ \A c : Handler(c) \notin {NoFiber, Main, Stopper}
    /\ \A k, c : Loop(k) # Handler(c)
    /\ \A k, l : Loop(k) = Loop(l) => k = l
    /\ \A c, d : Handler(c) = Handler(d) => c = d
    /\ Stopper # Main /\ NoFiber # Main
BY DEF Loop, Handler, NoFiber, Main, Stopper

LEMMA FiberTypes ==
    /\ {NoFiber, Main, Stopper} \subseteq FiberIds
    /\ \A k \in Nat : Loop(k) \in FiberIds
    /\ \A c \in Clients : Handler(c) \in FiberIds
BY TcpServerAssumption DEF Loop, Handler, NoFiber, Main, Stopper, FiberIds, Clients

LEMMA ThreadFacts ==
    /\ "accept" \in Threads
    /\ Thread(Main) = "accept" /\ Thread(Stopper) = "accept"
    /\ \A k : Thread(Loop(k)) = "accept"
    /\ \A f : Thread(f) \in Threads
BY DEF Thread, Threads, Main, Stopper, Loop

LEMMA NumberFacts ==
    /\ NoFd \notin Fds /\ Fds \subseteq Fds0 /\ NoFd \in Fds0
    /\ \A n \in Fds0 : n # NoFd => n \in Fds
BY MaxFdAssumption DEF Fds, NoFd, Fds0

LEMMA FileTypes ==
    /\ Free \in Files
    /\ \A a \in AddrSet : Listener(a) \in Files
    /\ \A c \in Clients : Connection(c) \in Files
    /\ NoCtx \in [of : Files, timed : BOOLEAN]
    /\ NoCtx.of = Free
BY DEF Files, NoCtx

(* A set of natural numbers has a least one, so the lowest free number     *)
(* exists.                                                                 *)
LEMMA Least ==
    ASSUME NEW S, S \subseteq Nat, S # {}
    PROVE  \E x \in S : \A y \in S : x <= y
<1>1. PICK x \in S : \A y \in S : ~(<<y, x>> \in OpToRel(<, Nat))
  <2> HIDE DEF OpToRel
  <2> QED BY NatLessThanWellFounded, WFMin
<1>2. ASSUME NEW y \in S PROVE x <= y
  <2>1. ~(<<y, x>> \in OpToRel(<, Nat)) /\ x \in Nat /\ y \in Nat
    BY <1>1
  <2>2. ~(y < x)
    BY <2>1 DEF OpToRel
  <2>3. x \in Nat /\ y \in Nat
    OBVIOUS
  <2> QED BY <2>2, <2>3
<1> QED BY <1>2

LEMMA LowestIsFree ==
    ASSUME FreeFds # {}
    PROVE  Lowest \in Fds /\ file[Lowest] = Free
<1>1. FreeFds \subseteq Nat
  BY MaxFdAssumption DEF FreeFds, Fds
<1>2. \E n \in FreeFds : \A k \in FreeFds : n <= k
  BY <1>1, Least
<1>3. Lowest \in FreeFds
  BY <1>2 DEF Lowest
<1> QED BY <1>3 DEF FreeFds

LEMMA InitInv == Init => NodeInv
<1> SUFFICES ASSUME Init PROVE NodeInv
  OBVIOUS
<1> USE DEF Init, FdInit, ServerInit
<1>1. Typed
  <2>1. file \in [Fds -> Files] /\ ctx \in [Fds -> [of : Files, timed : BOOLEAN]]
    BY FileTypes
  <2>2. watch \in [Fds -> FiberIds] /\ running \in [Threads -> FiberIds]
    BY FiberTypes
  <2>3. main \in [pc : {"idle", "bind", "failed"}, next : 1..(Len(Addrs) + 1)]
    BY TcpServerAssumption DEF Idle
  <2>4. client \in [Clients -> ClientRec]
    BY NumberFacts DEF NoClient, ClientRec, ClientPcs
  <2> QED BY <2>1, <2>2, <2>3, <2>4 DEF Typed, Procs
<1>2. TableForm
  BY DEF TableForm, SocketForm, ClientForm, FileForm, NoClient, Open, SockSet
<1>3. LoopForm /\ WatchForm
  BY DEF LoopForm, WatchForm, NoClient
<1>4. MainForm
  BY DEF MainForm, Idle
<1>5. ServeForm
  BY DEF ServeForm, AllOrNone, Idle, SockSet
<1> QED BY <1>1, <1>2, <1>3, <1>4, <1>5 DEF NodeInv

-----------------------------------------------------------------------------
(* Types.                                                                  *)

(* accept() on a number that listens: it is that of the loop's own Socket. *)
LEMMA LoopNumber ==
    ASSUME Typed, SocketForm, LoopForm, NEW k \in DOMAIN loops, MayAccept(k), Listens(FdOf(k))
    PROVE  /\ FdOf(k) \in Fds /\ loops[k].sock \in DOMAIN sockets
           /\ sockets[loops[k].sock].fd = FdOf(k)
           /\ loops[k].pc \in {"test", "retry"} /\ k \in Nat /\ loops[k] \in LoopRec
<1>1. loops[k].pc \in {"test", "retry"} /\ k \in Nat /\ loops[k] \in LoopRec
  BY DEF MayAccept, Typed
<1>2. loops[k].sock \in DOMAIN sockets /\ sockets[loops[k].sock] \in SocketRec
  BY DEF Typed
<1>3. sockets[loops[k].sock].fd = FdOf(k)
  BY <1>1 DEF FdOf, LoopForm, Listens
<1>4. FdOf(k) \in Fds
  BY <1>2, <1>3, NumberFacts DEF Listens, SocketRec
<1> QED BY <1>1, <1>2, <1>3, <1>4

LEMMA RunningTyped ==
    ASSUME running \in [Threads -> FiberIds], NEW f \in FiberIds,
           \/ running' = [running EXCEPT ![Thread(f)] = f]
           \/ running' = [running EXCEPT ![Thread(f)] = NoFiber]
    PROVE  running' \in [Threads -> FiberIds]
BY FiberTypes, ThreadFacts

LEMMA CloseTyped ==
    ASSUME Typed, NEW ns, CloseListeners(ns)
    PROVE  /\ file' \in [Fds -> Files]
           /\ ctx' \in [Fds -> [of : Files, timed : BOOLEAN]]
           /\ watch' \in [Fds -> FiberIds]
           /\ client' \in [Clients -> ClientRec]
<1>1. NoClient \in ClientRec /\ [NoClient EXCEPT !.pc = "reset"] \in ClientRec
  BY NumberFacts DEF NoClient, ClientRec, ClientPcs
<1>2. client' \in [Clients -> ClientRec]
  BY <1>1 DEF CloseListeners, Typed
<1>3. file' \in [Fds -> Files] /\ ctx' \in [Fds -> [of : Files, timed : BOOLEAN]]
  BY FileTypes DEF CloseListeners, Typed
<1>4. watch' \in [Fds -> FiberIds]
  BY FiberTypes DEF CloseListeners, Typed
<1> QED BY <1>2, <1>3, <1>4

LEMMA ForgottenTyped ==
    ASSUME Typed
    PROVE  Forgotten \in Seq(SocketRec) /\ DOMAIN Forgotten = DOMAIN sockets
<1>1. ASSUME NEW s \in DOMAIN sockets PROVE Forgotten[s] \in SocketRec
  <2>1. sockets[s] \in SocketRec
    BY DEF Typed
  <2>2. [sockets[s] EXCEPT !.fd = NoFd] \in SocketRec
    BY <2>1, NumberFacts DEF SocketRec
  <2> QED BY <2>1, <2>2 DEF Forgotten
<1>2. DOMAIN Forgotten = 1..Len(sockets) /\ Len(sockets) \in Nat /\ DOMAIN sockets = 1..Len(sockets)
  BY DEF Forgotten, Typed
<1>3. Forgotten \in [1..Len(sockets) -> SocketRec]
  BY <1>1, <1>2 DEF Forgotten
<1>4. \A n \in Nat : \A f \in [1..n -> SocketRec] : f \in Seq(SocketRec)
  OBVIOUS
<1> QED BY <1>2, <1>3, <1>4

(* Making a listening socket, making a connection, and starting the loops. *)
LEMMA BindTyped ==
    ASSUME Typed, BindAddress
    PROVE  /\ file' \in [Fds -> Files] /\ ctx' \in [Fds -> [of : Files, timed : BOOLEAN]]
           /\ watch' = watch
           /\ socks' \in Seq(DOMAIN sockets') /\ sockets' \in Seq(SocketRec)
           /\ DOMAIN sockets \subseteq DOMAIN sockets'
           /\ main' \in [pc : {"idle", "bind", "failed"}, next : 1..(Len(Addrs) + 1)]
<1> DEFINE a == Addrs[main.next]
<1>1. main.next \in 1..Len(Addrs) /\ Len(Addrs) \in Nat /\ a \in AddrSet
  BY TcpServerAssumption DEF BindAddress, Typed, AddrSet
<1>2. main' \in [pc : {"idle", "bind", "failed"}, next : 1..(Len(Addrs) + 1)]
  <2>1. main' = [main EXCEPT !.next = main.next + 1]
    BY DEF BindAddress
  <2>2. main \in [pc : {"idle", "bind", "failed"}, next : 1..(Len(Addrs) + 1)]
    BY DEF Typed
  <2>3. main.next + 1 \in 1..(Len(Addrs) + 1)
    BY <1>1
  <2> QED BY ONLY <2>1, <2>2, <2>3
<1>3. CASE FreeFds = {} \/ a \in taken \cup Held
  <2>1. UNCHANGED <<file, ctx, watch, socks, sockets>>
    BY <1>3 DEF BindAddress, table
  <2> QED BY <1>2, <2>1 DEF Typed
<1>4. CASE ~(FreeFds = {} \/ a \in taken \cup Held)
  <2>1. Lowest \in Fds
    BY <1>4, LowestIsFree
  <2>2. /\ file' = [file EXCEPT ![Lowest] = Listener(a)]
        /\ ctx' = [ctx EXCEPT ![Lowest] = GetCtx(Lowest, Listener(a))]
        /\ sockets' = Append(sockets, [addr |-> a, fd |-> Lowest])
        /\ socks' = Append(socks, Len(sockets) + 1)
        /\ watch' = watch
    BY <1>4 DEF BindAddress
  <2> HIDE DEF a
  <2>3. Listener(a) \in Files
    BY <1>1, FileTypes
  <2>4. GetCtx(Lowest, Listener(a)) \in [of : Files, timed : BOOLEAN]
    BY <2>1, <2>3 DEF GetCtx, Typed
  <2>5. file' \in [Fds -> Files] /\ ctx' \in [Fds -> [of : Files, timed : BOOLEAN]]
    BY <2>1, <2>2, <2>3, <2>4 DEF Typed
  <2>6. [addr |-> a, fd |-> Lowest] \in SocketRec
    BY <1>1, <2>1, NumberFacts DEF SocketRec
  <2>7. sockets' \in Seq(SocketRec) /\ DOMAIN sockets' = 1..(Len(sockets) + 1)
        /\ DOMAIN sockets = 1..Len(sockets) /\ Len(sockets) \in Nat
    BY <2>2, <2>6 DEF Typed
  <2>8. DOMAIN sockets \subseteq DOMAIN sockets' /\ Len(sockets) + 1 \in DOMAIN sockets'
    BY <2>7
  <2>9. socks \in Seq(DOMAIN sockets')
    BY <2>8 DEF Typed
  <2>10. socks' \in Seq(DOMAIN sockets')
    BY <2>2, <2>8, <2>9
  <2> QED BY <1>2, <2>2, <2>5, <2>7, <2>8, <2>10
<1> QED BY <1>3, <1>4

LEMMA AcceptTyped ==
    ASSUME Typed, NEW k \in DOMAIN loops, Accept(k)
    PROVE  /\ file' \in [Fds -> Files] /\ ctx' \in [Fds -> [of : Files, timed : BOOLEAN]]
           /\ client' \in [Clients -> ClientRec]
<1>1. Lowest \in Fds
  BY LowestIsFree DEF Accept
<1>2. PICK c \in Clients :
        /\ file' = [file EXCEPT ![Lowest] = Connection(c)]
        /\ ctx' = [ctx EXCEPT ![Lowest] = Timed(GetCtx(Lowest, Connection(c)))]
        /\ client' = [client EXCEPT ![c].pc = "start", ![c].fd = Lowest]
  BY DEF Accept, Queued
<1>3. Connection(c) \in Files
  BY FileTypes
<1>4. GetCtx(Lowest, Connection(c)) \in [of : Files, timed : BOOLEAN]
  BY <1>1, <1>3 DEF GetCtx, Typed
<1>5. Timed(GetCtx(Lowest, Connection(c))) \in [of : Files, timed : BOOLEAN]
  BY <1>4 DEF Timed
<1>6. client \in [Clients -> ClientRec] /\ Lowest \in Fds0
  BY <1>1, NumberFacts DEF Typed
<1>7. client' \in [Clients -> ClientRec]
  BY <1>2, <1>6 DEF ClientRec, ClientPcs
<1> QED BY <1>1, <1>2, <1>3, <1>5, <1>7 DEF Typed

(* start() appends a loop for each Socket of m_socks.                      *)
LEMMA StartLoops ==
    ASSUME Typed, Start, isStop
    PROVE  /\ loops' \in Seq(LoopRec)
           /\ Len(loops') = Len(loops) + Len(socks)
           /\ \A k \in DOMAIN loops : loops'[k] = loops[k]
           /\ \A i \in DOMAIN socks :
                loops'[Len(loops) + i] = [sock |-> socks[i], pc |-> "test", fd |-> NoFd]
<1> DEFINE new == [i \in 1..Len(socks) |-> [sock |-> socks[i], pc |-> "test", fd |-> NoFd]]
<1>1. loops' = loops \o new
  BY DEF Start
<1>2. Len(socks) \in Nat /\ DOMAIN socks = 1..Len(socks)
      /\ \A i \in DOMAIN socks : socks[i] \in Nat
  BY DEF Typed
<1>3. \A i \in 1..Len(socks) : new[i] \in LoopRec
  BY <1>2, NumberFacts DEF LoopRec, LoopPcs
<1>4. new \in [1..Len(socks) -> LoopRec]
  BY <1>3
<1>5. \A n \in Nat : \A f \in [1..n -> LoopRec] : f \in Seq(LoopRec) /\ Len(f) = n
  OBVIOUS
<1>6. new \in Seq(LoopRec) /\ Len(new) = Len(socks)
  BY <1>2, <1>4, <1>5
<1>7. \A i \in DOMAIN socks : new[i] = [sock |-> socks[i], pc |-> "test", fd |-> NoFd]
  BY <1>2
<1> HIDE DEF new
<1>8. loops \in Seq(LoopRec)
  BY DEF Typed
<1>9. \A k \in DOMAIN loops : (loops \o new)[k] = loops[k]
  BY <1>6, <1>8
<1>10. \A i \in 1..Len(new) : (loops \o new)[Len(loops) + i] = new[i]
  BY <1>6, <1>8
<1>11. loops \o new \in Seq(LoopRec) /\ Len(loops \o new) = Len(loops) + Len(new)
  BY <1>6, <1>8
<1> QED BY <1>1, <1>2, <1>6, <1>7, <1>9, <1>10, <1>11

(* A step of an accept loop, and of a client or its handler, changes fields *)
(* of one record.                                                          *)
LEMMA SeqOf ==
    ASSUME NEW S, NEW n \in Nat, NEW f \in [1..n -> S]
    PROVE  f \in Seq(S) /\ Len(f) = n /\ DOMAIN f = 1..n
OBVIOUS

LEMMA LoopRecs ==
    ASSUME NEW r \in LoopRec, NEW p \in LoopPcs, NEW n \in Fds0
    PROVE  /\ [r EXCEPT !.pc = p] = [sock |-> r.sock, pc |-> p, fd |-> r.fd]
           /\ [sock |-> r.sock, pc |-> p, fd |-> r.fd] \in LoopRec
           /\ [[r EXCEPT !.pc = p] EXCEPT !.fd = n] = [sock |-> r.sock, pc |-> p, fd |-> n]
           /\ [sock |-> r.sock, pc |-> p, fd |-> n] \in LoopRec
<1>1. [r EXCEPT !.pc = p] = [sock |-> r.sock, pc |-> p, fd |-> r.fd]
  BY DEF LoopRec
<1>2. PICK q \in LoopRec : q = [r EXCEPT !.pc = p]
  BY DEF LoopRec
<1>3. q.sock = r.sock /\ q.pc = p /\ q.fd = r.fd
  BY <1>1, <1>2
<1>4. [q EXCEPT !.fd = n] = [sock |-> q.sock, pc |-> q.pc, fd |-> n]
  BY DEF LoopRec
<1>5. [sock |-> r.sock, pc |-> p, fd |-> r.fd] \in LoopRec
      /\ [sock |-> r.sock, pc |-> p, fd |-> n] \in LoopRec
  BY DEF LoopRec
<1> QED BY <1>1, <1>2, <1>3, <1>4, <1>5

LEMMA LoopAt ==
    ASSUME loops \in Seq(LoopRec), NEW k \in DOMAIN loops, NEW p \in LoopPcs, NEW n \in Fds0,
           loops' = [loops EXCEPT ![k].pc = p, ![k].fd = n]
    PROVE  /\ loops' \in Seq(LoopRec) /\ DOMAIN loops' = DOMAIN loops
           /\ loops'[k] = [sock |-> loops[k].sock, pc |-> p, fd |-> n]
           /\ \A l \in DOMAIN loops \ {k} : loops'[l] = loops[l]
<1> DEFINE r == loops[k]
           q == [sock |-> r.sock, pc |-> p, fd |-> n]
<1>1. r \in LoopRec
  OBVIOUS
<1>2. loops' = [loops EXCEPT ![k] = [[r EXCEPT !.pc = p] EXCEPT !.fd = n]]
  OBVIOUS
<1>3. [[r EXCEPT !.pc = p] EXCEPT !.fd = n] = q /\ q \in LoopRec
  <2> HIDE DEF r
  <2> QED BY <1>1, LoopRecs, Zenon
<1>4. loops' = [loops EXCEPT ![k] = q] /\ q \in LoopRec
  BY <1>2, <1>3
<1> HIDE DEF q
<1>5. /\ loops' \in Seq(LoopRec) /\ DOMAIN loops' = DOMAIN loops
      /\ loops'[k] = q
      /\ \A l \in DOMAIN loops \ {k} : loops'[l] = loops[l]
  <2>1. loops \in [1..Len(loops) -> LoopRec] /\ Len(loops) \in Nat /\ DOMAIN loops = 1..Len(loops)
    OBVIOUS
  <2>2. loops' \in [1..Len(loops) -> LoopRec]
    BY <1>4, <2>1
  <2>3. loops' \in Seq(LoopRec)
    BY <2>1, <2>2, SeqOf
  <2> QED BY <1>4, <2>1, <2>3
<1> QED BY <1>5 DEF q

LEMMA LoopPc ==
    ASSUME loops \in Seq(LoopRec), NEW k \in DOMAIN loops, NEW p \in LoopPcs,
           loops' = [loops EXCEPT ![k].pc = p]
    PROVE  /\ loops' \in Seq(LoopRec) /\ DOMAIN loops' = DOMAIN loops
           /\ loops'[k] = [sock |-> loops[k].sock, pc |-> p, fd |-> loops[k].fd]
           /\ \A l \in DOMAIN loops \ {k} : loops'[l] = loops[l]
<1> DEFINE r == loops[k]
           q == [sock |-> r.sock, pc |-> p, fd |-> r.fd]
<1>1. r \in LoopRec
  OBVIOUS
<1>2. loops' = [loops EXCEPT ![k] = [r EXCEPT !.pc = p]]
  OBVIOUS
<1>3. [r EXCEPT !.pc = p] = q /\ q \in LoopRec
  <2>1. r.fd \in Fds0
    BY <1>1 DEF LoopRec
  <2> HIDE DEF r
  <2> QED BY <1>1, <2>1, LoopRecs, Zenon
<1>4. loops' = [loops EXCEPT ![k] = q] /\ q \in LoopRec
  BY <1>2, <1>3
<1> HIDE DEF q
<1>5. /\ loops' \in Seq(LoopRec) /\ DOMAIN loops' = DOMAIN loops
      /\ loops'[k] = q
      /\ \A l \in DOMAIN loops \ {k} : loops'[l] = loops[l]
  <2>1. loops \in [1..Len(loops) -> LoopRec] /\ Len(loops) \in Nat /\ DOMAIN loops = 1..Len(loops)
    OBVIOUS
  <2>2. loops' \in [1..Len(loops) -> LoopRec]
    BY <1>4, <2>1
  <2>3. loops' \in Seq(LoopRec)
    BY <2>1, <2>2, SeqOf
  <2> QED BY <1>4, <2>1, <2>3
<1> QED BY <1>5 DEF q

LEMMA LoopsWoken ==
    ASSUME loops \in Seq(LoopRec), NEW S,
           loops' = [k \in DOMAIN loops |-> IF k \in S THEN [loops[k] EXCEPT !.pc = "retry"]
                                            ELSE loops[k]]
    PROVE  /\ loops' \in Seq(LoopRec) /\ DOMAIN loops' = DOMAIN loops
           /\ \A k \in DOMAIN loops :
                loops'[k] = IF k \in S
                            THEN [sock |-> loops[k].sock, pc |-> "retry", fd |-> loops[k].fd]
                            ELSE loops[k]
<1>1. loops \in [1..Len(loops) -> LoopRec] /\ Len(loops) \in Nat /\ DOMAIN loops = 1..Len(loops)
  OBVIOUS
<1>2. ASSUME NEW k \in DOMAIN loops
      PROVE  /\ loops'[k] \in LoopRec
             /\ loops'[k] = IF k \in S
                            THEN [sock |-> loops[k].sock, pc |-> "retry", fd |-> loops[k].fd]
                            ELSE loops[k]
  <2>1. PICK r \in LoopRec : r = loops[k]
    OBVIOUS
  <2>2. r.fd \in Fds0 /\ "retry" \in LoopPcs
    BY DEF LoopRec, LoopPcs
  <2>3. /\ [r EXCEPT !.pc = "retry"] = [sock |-> r.sock, pc |-> "retry", fd |-> r.fd]
        /\ [sock |-> r.sock, pc |-> "retry", fd |-> r.fd] \in LoopRec
    BY <2>2, LoopRecs, Zenon
  <2> QED BY <2>1, <2>3
<1>3. loops' \in [1..Len(loops) -> LoopRec]
  BY <1>1, <1>2
<1>4. loops' \in Seq(LoopRec)
  BY <1>1, <1>3, SeqOf
<1> QED BY <1>2, <1>4

LEMMA ClientRecs ==
    ASSUME NEW r \in ClientRec, NEW p \in ClientPcs, NEW x
    PROVE  /\ [r EXCEPT !.pc = p] = [pc |-> p, addr |-> r.addr, fd |-> r.fd, shut |-> r.shut]
           /\ [[r EXCEPT !.pc = p] EXCEPT !.fd = x]
                = [pc |-> p, addr |-> r.addr, fd |-> x, shut |-> r.shut]
           /\ [[r EXCEPT !.pc = p] EXCEPT !.addr = x]
                = [pc |-> p, addr |-> x, fd |-> r.fd, shut |-> r.shut]
           /\ [r EXCEPT !.shut = x] = [pc |-> r.pc, addr |-> r.addr, fd |-> r.fd, shut |-> x]
<1>1. [r EXCEPT !.pc = p] = [pc |-> p, addr |-> r.addr, fd |-> r.fd, shut |-> r.shut]
  BY DEF ClientRec
<1>2. PICK q \in ClientRec : q = [r EXCEPT !.pc = p]
  BY DEF ClientRec
<1>3. q.pc = p /\ q.addr = r.addr /\ q.fd = r.fd /\ q.shut = r.shut
  BY <1>1, <1>2
<1>4. [q EXCEPT !.fd = x] = [pc |-> q.pc, addr |-> q.addr, fd |-> x, shut |-> q.shut]
  BY DEF ClientRec
<1>5. [q EXCEPT !.addr = x] = [pc |-> q.pc, addr |-> x, fd |-> q.fd, shut |-> q.shut]
  BY DEF ClientRec
<1>6. [r EXCEPT !.shut = x] = [pc |-> r.pc, addr |-> r.addr, fd |-> r.fd, shut |-> x]
  BY DEF ClientRec
<1> QED BY <1>1, <1>2, <1>3, <1>4, <1>5, <1>6

(* What a step makes of client, when it sets pc, pc and fd, pc and addr,   *)
(* or shut.                                                                *)
ClientSet(c, p, a, n, b) == [client EXCEPT ![c] = [pc |-> p, addr |-> a, fd |-> n, shut |-> b]]
LEMMA ClientAt ==
    ASSUME client \in [Clients -> ClientRec], NEW c \in Clients, NEW p \in ClientPcs, NEW x
    PROVE  /\ [client EXCEPT ![c].pc = p]
                = ClientSet(c, p, client[c].addr, client[c].fd, client[c].shut)
           /\ [client EXCEPT ![c].pc = p, ![c].fd = x]
                = ClientSet(c, p, client[c].addr, x, client[c].shut)
           /\ [client EXCEPT ![c].pc = p, ![c].addr = x]
                = ClientSet(c, p, x, client[c].fd, client[c].shut)
           /\ [client EXCEPT ![c].shut = x]
                = ClientSet(c, client[c].pc, client[c].addr, client[c].fd, x)
<1> DEFINE r == client[c]
<1>1. r \in ClientRec
  OBVIOUS
<1>2. [client EXCEPT ![c].pc = p] = [client EXCEPT ![c] = [r EXCEPT !.pc = p]]
  OBVIOUS
<1>3. [client EXCEPT ![c].pc = p, ![c].fd = x]
        = [client EXCEPT ![c] = [[r EXCEPT !.pc = p] EXCEPT !.fd = x]]
  OBVIOUS
<1>4. [client EXCEPT ![c].pc = p, ![c].addr = x]
        = [client EXCEPT ![c] = [[r EXCEPT !.pc = p] EXCEPT !.addr = x]]
  OBVIOUS
<1>5. [client EXCEPT ![c].shut = x] = [client EXCEPT ![c] = [r EXCEPT !.shut = x]]
  OBVIOUS
<1> HIDE DEF r
<1>6. /\ [r EXCEPT !.pc = p] = [pc |-> p, addr |-> r.addr, fd |-> r.fd, shut |-> r.shut]
      /\ [[r EXCEPT !.pc = p] EXCEPT !.fd = x]
            = [pc |-> p, addr |-> r.addr, fd |-> x, shut |-> r.shut]
      /\ [[r EXCEPT !.pc = p] EXCEPT !.addr = x]
            = [pc |-> p, addr |-> x, fd |-> r.fd, shut |-> r.shut]
      /\ [r EXCEPT !.shut = x] = [pc |-> r.pc, addr |-> r.addr, fd |-> r.fd, shut |-> x]
  BY <1>1, ClientRecs, Zenon
<1>7. [client EXCEPT ![c].pc = p] = ClientSet(c, p, r.addr, r.fd, r.shut)
  BY <1>2, <1>6, Zenon DEF ClientSet
<1>8. [client EXCEPT ![c].pc = p, ![c].fd = x] = ClientSet(c, p, r.addr, x, r.shut)
  BY <1>3, <1>6, Zenon DEF ClientSet
<1>9. [client EXCEPT ![c].pc = p, ![c].addr = x] = ClientSet(c, p, x, r.fd, r.shut)
  BY <1>4, <1>6, Zenon DEF ClientSet
<1>10. [client EXCEPT ![c].shut = x] = ClientSet(c, r.pc, r.addr, r.fd, x)
  BY <1>5, <1>6, Zenon DEF ClientSet
<1> QED BY <1>7, <1>8, <1>9, <1>10, Zenon DEF r

LEMMA TypedStep ==
    ASSUME NodeInv, [Next]_vars
    PROVE  Typed'
<1>0. Typed /\ SocketForm /\ LoopForm
  BY DEF NodeInv, TableForm
<1> DEFINE Mains == [pc : {"idle", "bind", "failed"}, next : 1..(Len(Addrs) + 1)]
           Ctxs == [of : Files, timed : BOOLEAN]
<1>1. /\ file \in [Fds -> Files] /\ ctx \in [Fds -> Ctxs] /\ watch \in [Fds -> FiberIds]
      /\ running \in [Threads -> FiberIds]
      /\ socks \in Seq(DOMAIN sockets) /\ sockets \in Seq(SocketRec)
      /\ loops \in Seq(LoopRec) /\ main \in Mains /\ client \in [Clients -> ClientRec]
  BY <1>0 DEF Typed
<1>2. /\ oneThread \in BOOLEAN /\ isStop \in BOOLEAN /\ proc \in Procs
      /\ \A k \in DOMAIN loops : loops[k].sock \in DOMAIN sockets
  BY <1>0 DEF Typed
<1>3. \A p \in {"idle", "bind", "failed"} : [main EXCEPT !.pc = p] \in Mains
  BY <1>1
<1>4. [pc |-> "bind", next |-> 1] \in Mains /\ Idle \in Mains
  BY TcpServerAssumption DEF Idle
<1>5. NoClient \in ClientRec /\ \A p \in ClientPcs : [NoClient EXCEPT !.pc = p] \in ClientRec
  BY NumberFacts DEF NoClient, ClientRec, ClientPcs
<1>6. DOMAIN loops \subseteq Nat
  BY <1>1
<1> USE <1>1, <1>2
<1> HIDE DEF Mains, Ctxs
<1>7. CASE BindAddress /\ UNCHANGED life
  <2>1. running' \in [Threads -> FiberIds]
    BY <1>7, RunningTyped, FiberTypes DEF BindAddress, Stays
  <2> QED BY <1>0, <1>7, <2>1, BindTyped DEF BindAddress, life, Typed
<1>8. CASE (BindFails \/ CloseAll) /\ UNCHANGED life
  <2>1. CloseListeners(Numbers) /\ sockets' = Forgotten /\ socks' = <<>>
    BY <1>8 DEF BindFails, CloseAll
  <2>2. running' \in [Threads -> FiberIds]
    BY <1>8, RunningTyped, FiberTypes DEF BindFails, CloseAll, Yields
  <2>3. /\ sockets' \in Seq(SocketRec) /\ DOMAIN sockets' = DOMAIN sockets
        /\ socks' \in Seq(DOMAIN sockets')
    BY <1>0, <2>1, ForgottenTyped
  <2>4. main' \in Mains
    BY <1>3, <1>8 DEF BindFails, CloseAll
  <2>5. loops' \in Seq(LoopRec) /\ \A k \in DOMAIN loops' : loops'[k].sock \in DOMAIN sockets
    <3>1. CASE loops' = loops
      BY <3>1
    <3>2. CASE CloseAll
      <4> DEFINE S == {k \in DOMAIN loops : Loop(k) \in Waiting(Numbers)}
      <4>1. loops' = [k \in DOMAIN loops |-> IF k \in S THEN [loops[k] EXCEPT !.pc = "retry"] ELSE loops[k]]
        BY <3>2 DEF CloseAll
      <4> HIDE DEF S
      <4>2. /\ loops' \in Seq(LoopRec) /\ DOMAIN loops' = DOMAIN loops
            /\ \A k \in DOMAIN loops :
                loops'[k] = IF k \in S
                            THEN [sock |-> loops[k].sock, pc |-> "retry", fd |-> loops[k].fd]
                            ELSE loops[k]
        BY <4>1, LoopsWoken, Zenon
      <4> QED BY <4>2
    <3> QED BY <1>8, <3>1, <3>2 DEF BindFails
  <2>6. UNCHANGED <<oneThread, isStop, proc>>
    BY <1>8 DEF BindFails, CloseAll, life
  <2> QED BY <1>0, <2>1, <2>2, <2>3, <2>4, <2>5, <2>6, CloseTyped DEF Typed, Mains
<1>9. CASE Start /\ UNCHANGED life
  <2>1. running' \in [Threads -> FiberIds]
    BY <1>9, RunningTyped, FiberTypes DEF Start, Yields
  <2>2. loops' \in Seq(LoopRec) /\ \A k \in DOMAIN loops' : loops'[k].sock \in DOMAIN sockets
    <3>1. CASE ~isStop
      BY <1>9, <3>1 DEF Start
    <3>2. CASE isStop
      <4>1. loops' \in Seq(LoopRec) /\ Len(loops') = Len(loops) + Len(socks)
        BY <1>0, <1>9, <3>2, StartLoops
      <4>2. ASSUME NEW k \in DOMAIN loops' PROVE loops'[k].sock \in DOMAIN sockets
        <5>1. CASE k \in DOMAIN loops
          BY <1>0, <1>9, <3>2, <5>1, StartLoops
        <5>2. CASE k \notin DOMAIN loops
          <6>1. PICK i \in DOMAIN socks : k = Len(loops) + i
            <7>1. k - Len(loops) \in DOMAIN socks /\ k = Len(loops) + (k - Len(loops))
              BY <4>1, <5>2
            <7> QED BY <7>1
          <6>2. loops'[k] = [sock |-> socks[i], pc |-> "test", fd |-> NoFd]
            BY <1>0, <1>9, <3>2, <6>1, StartLoops
          <6> QED BY <6>2
        <5> QED BY <5>1, <5>2
      <4> QED BY <4>1, <4>2
    <3> QED BY <3>1, <3>2
  <2>3. UNCHANGED <<file, ctx, watch, socks, sockets, client, oneThread, proc>> /\ isStop' \in BOOLEAN
        /\ main' \in Mains
    BY <1>4, <1>9 DEF Start, life, table
  <2> QED BY <2>1, <2>2, <2>3 DEF Typed, Mains, Ctxs
<1>10. ASSUME NEW k \in DOMAIN loops, UNCHANGED life,
              Accept(k) \/ AcceptFails(k) \/ AcceptWaits(k) \/ LoopEnds(k) \/ LoopWakes(k)
       PROVE  Typed'
  <2>0. Loop(k) \in FiberIds /\ loops[k] \in LoopRec
    BY <1>6, FiberTypes
  <2>1. running' \in [Threads -> FiberIds]
    <3>1. CASE LoopWakes(k)
      BY <3>1 DEF LoopWakes, Scheduled
    <3>2. CASE ~LoopWakes(k)
      BY <1>10, <2>0, <3>2, RunningTyped DEF Accept, AcceptFails, AcceptWaits, LoopEnds, Stays, Yields
    <3> QED BY <3>1, <3>2
  <2>2. ASSUME AcceptWaits(k) PROVE FdOf(k) \in Fds
    BY <1>0, <2>2, LoopNumber DEF AcceptWaits
  <2>3. loops' \in Seq(LoopRec) /\ DOMAIN loops' = DOMAIN loops
        /\ \A l \in DOMAIN loops' : loops'[l].sock \in DOMAIN sockets
    <3>1. /\ loops' \in Seq(LoopRec) /\ DOMAIN loops' = DOMAIN loops
          /\ loops'[k].sock = loops[k].sock
          /\ \A l \in DOMAIN loops \ {k} : loops'[l] = loops[l]
      <4>1. CASE LoopWakes(k)
        <5>1. loops' = [loops EXCEPT ![k].pc = "retry"] /\ "retry" \in LoopPcs
          BY <4>1 DEF LoopWakes, LoopPcs
        <5>2. /\ loops' \in Seq(LoopRec) /\ DOMAIN loops' = DOMAIN loops
              /\ loops'[k] = [sock |-> loops[k].sock, pc |-> "retry", fd |-> loops[k].fd]
              /\ \A l \in DOMAIN loops \ {k} : loops'[l] = loops[l]
          BY <5>1, LoopPc, Zenon
        <5> QED BY <5>2
      <4>2. CASE ~LoopWakes(k)
        <5>1. PICK p \in LoopPcs, n \in Fds0 : loops' = [loops EXCEPT ![k].pc = p, ![k].fd = n]
          BY <1>10, <2>2, <4>2, NumberFacts DEF Accept, AcceptFails, AcceptWaits, LoopEnds, At, LoopPcs
        <5>2. /\ loops' \in Seq(LoopRec) /\ DOMAIN loops' = DOMAIN loops
              /\ loops'[k] = [sock |-> loops[k].sock, pc |-> p, fd |-> n]
              /\ \A l \in DOMAIN loops \ {k} : loops'[l] = loops[l]
          BY <5>1, LoopAt, Zenon
        <5> QED BY <5>2
      <4> QED BY <4>1, <4>2
    <3> QED BY <3>1
  <2>4. watch' \in [Fds -> FiberIds]
    <3>1. CASE AcceptWaits(k)
      BY <2>0, <3>1 DEF AcceptWaits
    <3>2. CASE LoopWakes(k)
      BY <3>2, FiberTypes DEF LoopWakes
    <3>3. CASE ~AcceptWaits(k) /\ ~LoopWakes(k)
      BY <1>10, <3>3 DEF Accept, AcceptFails, LoopEnds, table
    <3> QED BY <3>1, <3>2, <3>3
  <2>5. /\ file' \in [Fds -> Files] /\ ctx' \in [Fds -> Ctxs]
        /\ client' \in [Clients -> ClientRec]
    <3>1. CASE Accept(k)
      BY <1>0, <3>1, AcceptTyped DEF Ctxs
    <3>2. CASE ~Accept(k)
      BY <1>10, <3>2 DEF AcceptWaits, AcceptFails, LoopEnds, LoopWakes, table
    <3> QED BY <3>1, <3>2
  <2>6. UNCHANGED <<socks, sockets, isStop, main, oneThread, proc>>
    BY <1>10 DEF Accept, AcceptFails, AcceptWaits, LoopEnds, LoopWakes, LoopFrame, life
  <2> QED BY <2>1, <2>3, <2>4, <2>5, <2>6 DEF Typed, Mains, Ctxs
<1>11. ASSUME NEW c \in Clients, UNCHANGED life,
              HandlerWaits(c) \/ HandlerWakes(c) \/ DelCtx(c) \/ CloseFd(c)
       PROVE  Typed'
  <2>0. Handler(c) \in FiberIds /\ client[c] \in ClientRec
    BY FiberTypes
  <2>1. running' \in [Threads -> FiberIds]
    <3>1. CASE HandlerWakes(c)
      BY <3>1 DEF HandlerWakes, Scheduled
    <3>2. CASE ~HandlerWakes(c)
      BY <1>11, <2>0, <3>2, RunningTyped DEF HandlerWaits, DelCtx, CloseFd, Stays, Yields
    <3> QED BY <3>1, <3>2
  <2>2. watch' \in [Fds -> FiberIds]
    BY <1>11, <2>0, FiberTypes DEF HandlerWaits, HandlerWakes, DelCtx, CloseFd
  <2>3. file' \in [Fds -> Files] /\ ctx' \in [Fds -> Ctxs]
    <3>1. Free \in Files /\ NoCtx \in Ctxs
      BY FileTypes DEF Ctxs
    <3> QED BY <1>11, <3>1 DEF HandlerWaits, HandlerWakes, DelCtx, CloseFd
  <2>4. client' \in [Clients -> ClientRec]
    <3>1. CASE CloseFd(c)
      <4>1. "done" \in ClientPcs
        BY DEF ClientPcs
      <4> QED BY <1>5, <3>1, <4>1 DEF CloseFd
    <3>2. CASE ~CloseFd(c)
      <4>1. PICK p \in ClientPcs : client' = [client EXCEPT ![c].pc = p]
        BY <1>11, <3>2 DEF HandlerWaits, HandlerWakes, DelCtx, Serving, ClientPcs
      <4>2. client' = ClientSet(c, p, client[c].addr, client[c].fd, client[c].shut)
        BY <4>1, ClientAt
      <4> QED BY <2>0, <4>2 DEF ClientSet, ClientRec
    <3> QED BY <3>1, <3>2
  <2>5. UNCHANGED <<loops, socks, sockets, isStop, main, oneThread, proc>>
    BY <1>11 DEF HandlerWaits, HandlerWakes, DelCtx, CloseFd, server, life
  <2> QED BY <2>1, <2>2, <2>3, <2>4, <2>5 DEF Typed, Mains, Ctxs
<1>12. CASE Launch
  BY <1>4, <1>12 DEF Launch, Scheduled, table, Typed, Mains, Ctxs, Procs
<1>13. CASE Exit \/ Crash
  <2>1. Vanish /\ proc' \in Procs
    BY <1>13 DEF Exit, Crash, Procs
  <2>2. client' \in [Clients -> ClientRec]
    <3>1. "reset" \in ClientPcs
      BY DEF ClientPcs
    <3> QED BY <1>5, <2>1, <3>1 DEF Vanish
  <2>3. file' \in [Fds -> Files] /\ ctx' \in [Fds -> Ctxs]
    BY <2>1, FileTypes DEF Vanish, Ctxs
  <2>4. watch' \in [Fds -> FiberIds] /\ running' \in [Threads -> FiberIds]
    BY <2>1, FiberTypes DEF Vanish
  <2>5. /\ loops' \in Seq(LoopRec) /\ sockets' \in Seq(SocketRec) /\ socks' \in Seq(DOMAIN sockets')
        /\ DOMAIN loops' = {} /\ main' \in Mains /\ isStop' \in BOOLEAN /\ oneThread' = oneThread
    BY <1>4, <2>1 DEF Vanish
  <2> QED BY <2>1, <2>2, <2>3, <2>4, <2>5 DEF Typed, Mains, Ctxs
<1>14. CASE UserCalls
  BY <1>4, <1>14 DEF UserCalls, CallBind, Retry, Stop, Scheduled, table, life, Typed, Mains, Ctxs
<1>15. ASSUME NEW c \in Clients, UNCHANGED life,
              ClientShuts(c) \/ \E i \in DOMAIN Addrs : Connect(c, Addrs[i])
       PROVE  Typed'
  <2>0. client[c] \in ClientRec
    OBVIOUS
  <2>1. client' \in [Clients -> ClientRec]
    <3>1. CASE ClientShuts(c)
      <4>1. client' = ClientSet(c, client[c].pc, client[c].addr, client[c].fd, TRUE)
        <5>1. client' = [client EXCEPT ![c].shut = TRUE] /\ client[c].pc \in ClientPcs
          BY <3>1 DEF ClientShuts, ClientPcs
        <5> QED BY <5>1, ClientAt, Zenon
      <4> QED BY <2>0, <4>1 DEF ClientSet, ClientRec
    <3>2. ASSUME NEW i \in DOMAIN Addrs, Connect(c, Addrs[i]) PROVE client' \in [Clients -> ClientRec]
      <4>1. client' = ClientSet(c, "queued", Addrs[i], client[c].fd, client[c].shut)
        BY <3>2, ClientAt DEF Connect, ClientPcs
      <4> QED BY <2>0, <4>1 DEF ClientSet, ClientRec, ClientPcs, AddrSet
    <3> QED BY <1>15, <3>1, <3>2
  <2> QED BY <1>15, <2>1 DEF ClientShuts, Connect, table, threads, server, life, Typed, Mains, Ctxs
<1>16. CASE (\E a \in AddrSet : RivalTakes(a) \/ RivalReleases(a)) \/ UNCHANGED vars
  BY <1>16 DEF RivalTakes, RivalReleases, vars, srvVars, table, threads, server, life, Typed, Mains, Ctxs
<1> QED BY <1>7, <1>8, <1>9, <1>10, <1>11, <1>12, <1>13, <1>14, <1>15, <1>16
        DEF Next, AcceptThread, MainStep, HandlerRuns, Wakes

-----------------------------------------------------------------------------
(* The steps that matter to the tables.                                    *)

Kept ==
    /\ UNCHANGED <<file, ctx, socks, sockets>>
    /\ \A c \in Clients :
        /\ client'[c].fd = client[c].fd /\ (Open(c)' <=> Open(c))
        /\ client'[c].pc \in {"start", "held"} => client[c].pc \in {"start", "held"}
        /\ client'[c].pc = "deleted" => client[c].pc = "deleted"
Listening(a, n) ==
    /\ n \in Fds /\ file[n] = Free /\ a \in AddrSet
    /\ file' = [file EXCEPT ![n] = Listener(a)]
    /\ ctx' = [ctx EXCEPT ![n] = GetCtx(n, Listener(a))]
    /\ sockets' = Append(sockets, [addr |-> a, fd |-> n])
    /\ socks' = Append(socks, Len(sockets) + 1)
    /\ UNCHANGED <<client, watch>>
Closing == CloseListeners(Numbers) /\ sockets' = Forgotten /\ socks' = <<>>
Accepting(c, n) ==
    /\ n \in Fds /\ file[n] = Free /\ client[c].pc = "queued"
    /\ file' = [file EXCEPT ![n] = Connection(c)]
    /\ ctx' = [ctx EXCEPT ![n] = Timed(GetCtx(n, Connection(c)))]
    /\ client' = ClientSet(c, "start", client[c].addr, n, client[c].shut)
    /\ UNCHANGED <<socks, sockets, watch>>

LEMMA BindKinds ==
    ASSUME Typed, BindAddress
    PROVE  \/ /\ FreeFds = {} \/ Addrs[main.next] \in taken \cup Held
              /\ fails' = fails \cup {Addrs[main.next]}
              /\ UNCHANGED <<file, ctx, watch, socks, sockets>>
           \/ /\ Addrs[main.next] \notin Held
              /\ fails' = fails
              /\ \E n \in Fds : Listening(Addrs[main.next], n)
<1>1. main.next \in 1..Len(Addrs) /\ Addrs[main.next] \in AddrSet /\ UNCHANGED client
  BY TcpServerAssumption DEF BindAddress, Typed, AddrSet
<1>2. CASE FreeFds = {} \/ Addrs[main.next] \in taken \cup Held
  BY <1>2 DEF BindAddress, table
<1>3. CASE ~(FreeFds = {} \/ Addrs[main.next] \in taken \cup Held)
  <2>1. Lowest \in Fds /\ file[Lowest] = Free
    BY <1>3, LowestIsFree
  <2>2. Listening(Addrs[main.next], Lowest) /\ fails' = fails /\ Addrs[main.next] \notin Held
    BY <1>1, <1>3, <2>1 DEF BindAddress, Listening
  <2> QED BY <2>1, <2>2
<1> QED BY <1>2, <1>3

LEMMA AcceptKind ==
    ASSUME Typed, NEW k \in DOMAIN loops, Accept(k)
    PROVE  \E c \in Clients, n \in Fds : Accepting(c, n)
<1>1. Lowest \in Fds /\ file[Lowest] = Free
  BY LowestIsFree DEF Accept
<1>2. PICK c \in Clients :
        /\ client[c].pc = "queued"
        /\ file' = [file EXCEPT ![Lowest] = Connection(c)]
        /\ ctx' = [ctx EXCEPT ![Lowest] = Timed(GetCtx(Lowest, Connection(c)))]
        /\ client' = [client EXCEPT ![c].pc = "start", ![c].fd = Lowest]
  BY DEF Accept, Queued
<1>3. "start" \in ClientPcs /\ client \in [Clients -> ClientRec]
  BY DEF ClientPcs, Typed
<1>4. client' = ClientSet(c, "start", client[c].addr, Lowest, client[c].shut)
  BY <1>2, <1>3, ClientAt, Zenon
<1>5. UNCHANGED <<socks, sockets, watch>>
  BY DEF Accept, LoopFrame
<1>6. Accepting(c, Lowest)
  BY <1>1, <1>2, <1>4, <1>5 DEF Accepting
<1> QED BY <1>1, <1>6

LEMMA PcSet ==
    ASSUME Typed, NEW c \in Clients, NEW p \in ClientPcs, Serving(c, p)
    PROVE  /\ client'[c].pc = p /\ client'[c].fd = client[c].fd
           /\ \A d \in Clients \ {c} : client'[d] = client[d]
<1>1. client \in [Clients -> ClientRec] /\ client' = [client EXCEPT ![c].pc = p]
  BY DEF Typed, Serving
<1>2. client' = ClientSet(c, p, client[c].addr, client[c].fd, client[c].shut)
  BY <1>1, ClientAt, Zenon
<1> QED BY <1>1, <1>2 DEF ClientSet

LEMMA TableKinds ==
    ASSUME NodeInv, [Next]_vars
    PROVE  \/ Kept
           \/ \E a \in AddrSet, n \in Fds : Listening(a, n)
           \/ Closing
           \/ \E c \in Clients, n \in Fds : Accepting(c, n)
           \/ \E c \in Clients : DelCtx(c) \/ CloseFd(c)
           \/ Vanish
<1>0. Typed
  BY DEF NodeInv
<1>1. ASSUME UNCHANGED <<file, ctx, socks, sockets, client>> PROVE Kept
  BY <1>1 DEF Kept, Open
<1>2. CASE BindAddress
  <2>1. CASE UNCHANGED <<file, ctx, watch, socks, sockets>>
    BY <1>1, <1>2, <2>1 DEF BindAddress
  <2>2. CASE \E n \in Fds : Listening(Addrs[main.next], n)
    BY <2>2 DEF Listening
  <2> QED BY <1>0, <1>2, <2>1, <2>2, BindKinds
<1>3. CASE BindFails \/ CloseAll
  BY <1>3 DEF BindFails, CloseAll, Closing
<1>4. ASSUME NEW k \in DOMAIN loops, Accept(k) PROVE \E c \in Clients, n \in Fds : Accepting(c, n)
  BY <1>0, <1>4, AcceptKind
<1>5. ASSUME Start \/ Launch \/ UserCalls PROVE Kept
  BY <1>1, <1>5 DEF Start, Launch, UserCalls, CallBind, Retry, Stop, table
<1>6. ASSUME NEW k \in DOMAIN loops, AcceptFails(k) \/ AcceptWaits(k) \/ LoopEnds(k) \/ LoopWakes(k)
      PROVE  Kept
  BY <1>1, <1>6 DEF AcceptFails, AcceptWaits, LoopEnds, LoopWakes, LoopFrame, table
<1>7. ASSUME NEW c \in Clients, HandlerWaits(c) \/ HandlerWakes(c) PROVE Kept
  <2>1. PICK p \in ClientPcs : Serving(c, p) /\ p \in {"held", "over"} /\ client[c].pc \in {"start", "held"}
                               /\ (client[c].pc = "start" => p = "held")
    BY <1>7 DEF HandlerWaits, HandlerWakes, ClientPcs
  <2>2. /\ client'[c].pc = p /\ client'[c].fd = client[c].fd
        /\ \A d \in Clients \ {c} : client'[d] = client[d]
    BY <1>0, <2>1, PcSet, Zenon
  <2>3. UNCHANGED <<file, ctx, socks, sockets>>
    BY <1>7 DEF HandlerWaits, HandlerWakes, server
  <2> QED BY <2>1, <2>2, <2>3 DEF Kept, Open
<1>8. ASSUME NEW c \in Clients, ClientShuts(c) \/ \E i \in DOMAIN Addrs : Connect(c, Addrs[i])
      PROVE  Kept
  <2>0. client \in [Clients -> ClientRec]
    BY <1>0 DEF Typed
  <2>1. UNCHANGED <<file, ctx, socks, sockets>>
    BY <1>8 DEF ClientShuts, Connect, table, server
  <2>2. CASE ClientShuts(c)
    <3>1. client' = [client EXCEPT ![c].shut = TRUE] /\ client[c].pc \in ClientPcs
      BY <2>2 DEF ClientShuts, ClientPcs
    <3>2. client' = ClientSet(c, client[c].pc, client[c].addr, client[c].fd, TRUE)
      BY <2>0, <3>1, ClientAt, Zenon
    <3> QED BY <2>0, <2>1, <3>2 DEF ClientSet, Kept, Open
  <2>3. ASSUME NEW i \in DOMAIN Addrs, Connect(c, Addrs[i]) PROVE Kept
    <3>1. client' = [client EXCEPT ![c].pc = "queued", ![c].addr = Addrs[i]] /\ "queued" \in ClientPcs
          /\ client[c].pc = "away"
      BY <2>3 DEF Connect, ClientPcs
    <3>2. client' = ClientSet(c, "queued", Addrs[i], client[c].fd, client[c].shut)
      BY <2>0, <3>1, ClientAt, Zenon
    <3>3. /\ client'[c].pc = "queued" /\ client'[c].fd = client[c].fd
          /\ \A d \in Clients \ {c} : client'[d] = client[d]
      BY <2>0, <3>2 DEF ClientSet
    <3>4. /\ ~Open(c) /\ ~Open(c)' /\ client'[c].pc \notin {"start", "held", "deleted"}
          /\ \A d \in Clients \ {c} : Open(d)' <=> Open(d)
      BY <3>1, <3>3 DEF Open
    <3> QED BY <2>1, <3>3, <3>4 DEF Kept
  <2> QED BY <1>8, <2>2, <2>3
<1>9. ASSUME (\E a \in AddrSet : RivalTakes(a) \/ RivalReleases(a)) \/ UNCHANGED vars PROVE Kept
  BY <1>1, <1>9 DEF RivalTakes, RivalReleases, vars, srvVars, table, server
<1>10. ASSUME Exit \/ Crash PROVE Vanish
  BY <1>10 DEF Exit, Crash
<1> QED BY <1>2, <1>3, <1>4, <1>5, <1>6, <1>7, <1>8, <1>9, <1>10
        DEF Next, AcceptThread, MainStep, HandlerRuns, Wakes

-----------------------------------------------------------------------------
(* Who owns a number.                                                      *)

LEMMA TableKept ==
    ASSUME TableForm, Kept
    PROVE  TableForm'
<1>1. SocketForm'
  BY DEF TableForm, SocketForm, Kept, SockSet
<1>2. ClientForm'
  BY DEF TableForm, ClientForm, Kept
<1>3. FileForm'
  BY DEF TableForm, FileForm, Kept
<1> QED BY <1>1, <1>2, <1>3 DEF TableForm

LEMMA FdTypes ==
    ASSUME Typed
    PROVE  /\ \A c \in Clients : client[c].fd \in Fds0
           /\ \A r \in DOMAIN sockets : sockets[r].fd \in Fds0 /\ sockets[r].addr \in AddrSet
           /\ \A k \in DOMAIN loops : loops[k].fd \in Fds0
<1>1. ASSUME NEW c \in Clients PROVE client[c].fd \in Fds0
  <2>1. client[c] \in ClientRec
    BY DEF Typed
  <2> QED BY <2>1 DEF ClientRec
<1>2. ASSUME NEW r \in DOMAIN sockets PROVE sockets[r].fd \in Fds0 /\ sockets[r].addr \in AddrSet
  <2>1. sockets[r] \in SocketRec
    BY DEF Typed
  <2> QED BY <2>1 DEF SocketRec
<1>3. ASSUME NEW k \in DOMAIN loops PROVE loops[k].fd \in Fds0
  <2>1. loops[k] \in LoopRec
    BY DEF Typed
  <2> QED BY <2>1 DEF LoopRec
<1> QED BY <1>1, <1>2, <1>3

(* Nobody owns a free number.                                              *)
LEMMA FreeIsUnowned ==
    ASSUME Typed, TableForm, NEW n \in Fds, file[n] = Free
    PROVE  /\ \A s \in DOMAIN sockets : sockets[s].fd # n
           /\ \A c \in Clients : client[c].fd # n
           /\ ctx[n] = NoCtx
<1>1. \A s \in DOMAIN sockets : sockets[s].fd # n
  BY FileFacts, NumberFacts DEF TableForm, SocketForm
<1>2. \A c \in Clients : client[c].fd # n
  <2> SUFFICES ASSUME NEW c \in Clients, client[c].fd = n PROVE FALSE
    OBVIOUS
  <2>1. Open(c)
    BY NumberFacts DEF TableForm, ClientForm
  <2> QED BY <2>1, FileFacts DEF TableForm, ClientForm
<1>3. ctx[n] = NoCtx
  BY DEF TableForm, FileForm
<1> QED BY <1>1, <1>2, <1>3

(* The lists after a socket was bound.                                     *)
LEMMA ListenSocks ==
    ASSUME Typed, NEW a \in AddrSet, NEW n \in Fds, Listening(a, n)
    PROVE  LET s == Len(sockets) + 1 IN
           /\ s \notin DOMAIN sockets /\ DOMAIN sockets' = DOMAIN sockets \cup {s}
           /\ sockets'[s].addr = a /\ sockets'[s].fd = n
           /\ \A r \in DOMAIN sockets : sockets'[r] = sockets[r]
           /\ SockSet' = SockSet \cup {s}
           /\ DOMAIN socks' = DOMAIN socks \cup {Len(socks) + 1} /\ Len(socks) + 1 \notin DOMAIN socks
           /\ socks'[Len(socks) + 1] = s
           /\ \A i \in DOMAIN socks : socks'[i] = socks[i] /\ socks[i] \in DOMAIN sockets
<1> DEFINE s == Len(sockets) + 1
<1>1. sockets \in Seq(SocketRec) /\ socks \in Seq(DOMAIN sockets)
  BY DEF Typed
<1>2. sockets' = Append(sockets, [addr |-> a, fd |-> n]) /\ socks' = Append(socks, s)
  BY DEF Listening
<1>3. /\ DOMAIN sockets = 1..Len(sockets) /\ Len(sockets) \in Nat
      /\ DOMAIN sockets' = 1..(Len(sockets) + 1)
      /\ sockets'[s] = [addr |-> a, fd |-> n]
      /\ \A r \in DOMAIN sockets : sockets'[r] = sockets[r]
  BY <1>1, <1>2
<1>4. /\ DOMAIN socks = 1..Len(socks) /\ Len(socks) \in Nat
      /\ DOMAIN socks' = 1..(Len(socks) + 1)
      /\ socks'[Len(socks) + 1] = s
      /\ \A i \in DOMAIN socks : socks'[i] = socks[i] /\ socks[i] \in DOMAIN sockets
  BY <1>1, <1>2
<1>5. s \notin DOMAIN sockets /\ DOMAIN sockets' = DOMAIN sockets \cup {s}
  BY <1>3
<1>6. DOMAIN socks' = DOMAIN socks \cup {Len(socks) + 1} /\ Len(socks) + 1 \notin DOMAIN socks
  BY <1>4
<1>7. SockSet' = SockSet \cup {s}
  BY <1>4, <1>6 DEF SockSet
<1> QED BY <1>3, <1>4, <1>5, <1>6, <1>7

LEMMA TableListen ==
    ASSUME Typed, TableForm, NEW a \in AddrSet, NEW n \in Fds, Listening(a, n)
    PROVE  TableForm'
<1> DEFINE s == Len(sockets) + 1
           m == Len(socks) + 1
<1>1. /\ s \notin DOMAIN sockets /\ DOMAIN sockets' = DOMAIN sockets \cup {s}
      /\ sockets'[s].addr = a /\ sockets'[s].fd = n
      /\ \A r \in DOMAIN sockets : sockets'[r] = sockets[r]
      /\ SockSet' = SockSet \cup {s}
  BY ListenSocks
<1>2. /\ DOMAIN socks' = DOMAIN socks \cup {m} /\ m \notin DOMAIN socks
      /\ socks'[m] = s
      /\ \A i \in DOMAIN socks : socks'[i] = socks[i] /\ socks[i] \in DOMAIN sockets
  BY ListenSocks
<1> HIDE DEF s, m
<1>3. /\ file' = [file EXCEPT ![n] = Listener(a)] /\ file[n] = Free
      /\ ctx' = [ctx EXCEPT ![n] = GetCtx(n, Listener(a))] /\ client' = client
  BY DEF Listening
<1>4. /\ \A r \in DOMAIN sockets : sockets[r].fd # n
      /\ \A c \in Clients : client[c].fd # n
      /\ ctx[n] = NoCtx
  BY <1>3, FreeIsUnowned
<1>5. GetCtx(n, Listener(a)) = [of |-> Listener(a), timed |-> FALSE]
  BY <1>4 DEF GetCtx
<1>6. /\ \A c \in Clients : client[c].fd \in Fds0
      /\ \A r \in DOMAIN sockets : sockets[r].fd \in Fds0
      /\ file \in [Fds -> Files] /\ DOMAIN ctx = Fds
  BY FdTypes DEF Typed
<1>7. \A i \in Fds \ {n} : file'[i] = file[i] /\ ctx'[i] = ctx[i]
  BY <1>3, <1>6
<1>8. file'[n] = Listener(a) /\ ctx'[n] = [of |-> Listener(a), timed |-> FALSE]
  BY <1>3, <1>5, <1>6
<1>9. n # NoFd
  BY NumberFacts
<1>10. SocketForm'
  <2>1. ASSUME NEW r \in DOMAIN sockets', sockets'[r].fd # NoFd
        PROVE  file'[sockets'[r].fd] = Listener(sockets'[r].addr) /\ r \in SockSet'
    <3>1. CASE r = s
      BY <1>1, <1>8, <3>1
    <3>2. CASE r # s
      <4>1. sockets'[r] = sockets[r] /\ r \in DOMAIN sockets /\ sockets[r].fd \in Fds \ {n}
        BY <1>1, <1>4, <1>6, <2>1, <3>2, NumberFacts
      <4> QED BY <1>1, <1>7, <2>1, <4>1 DEF TableForm, SocketForm
    <3> QED BY <3>1, <3>2
  <2>2. \A r, q \in DOMAIN sockets' : sockets'[r].fd = sockets'[q].fd /\ sockets'[r].fd # NoFd => r = q
    BY <1>1, <1>4 DEF TableForm, SocketForm
  <2>3. \A r \in SockSet' : sockets'[r].fd # NoFd
    <3>1. SockSet \subseteq DOMAIN sockets
      BY <1>2 DEF SockSet
    <3> QED BY <1>1, <1>9, <3>1 DEF TableForm, SocketForm
  <2>4. \A i, j \in DOMAIN socks' : socks'[i] = socks'[j] => i = j
    BY <1>1, <1>2 DEF TableForm, SocketForm
  <2> QED BY <2>1, <2>2, <2>3, <2>4 DEF SocketForm
<1>11. ClientForm'
  <2>1. ASSUME NEW c \in Clients, client[c].fd # NoFd PROVE client[c].fd \in Fds \ {n}
    BY <1>4, <1>6, <2>1, NumberFacts
  <2> QED BY <1>3, <1>7, <2>1 DEF TableForm, ClientForm, Open
<1>12. FileForm'
  <2>1. ASSUME NEW i \in Fds, i # n
        PROVE  /\ file'[i] # Free => \/ \E r \in DOMAIN sockets' : sockets'[r].fd = i
                                     \/ \E c \in Clients : client'[c].fd = i
               /\ ctx'[i] # NoCtx => ctx'[i].of = file'[i] /\ file'[i] # Free
    BY <1>1, <1>3, <1>7, <2>1 DEF TableForm, FileForm
  <2>2. /\ \E r \in DOMAIN sockets' : sockets'[r].fd = n
        /\ ctx'[n].of = file'[n] /\ file'[n] # Free
    BY <1>1, <1>8, FileFacts
  <2> QED BY <2>1, <2>2 DEF FileForm
<1> QED BY <1>10, <1>11, <1>12 DEF TableForm

(* What listens is a Socket of m_socks, and the other way round.           *)
LEMMA NumbersListen ==
    ASSUME Typed, TableForm
    PROVE  /\ Numbers = {n \in Fds : file[n].kind = "listen"}
           /\ \A s \in SockSet : s \in DOMAIN sockets /\ sockets[s].fd \in Numbers
           /\ \A s \in DOMAIN sockets : sockets[s].fd # NoFd => sockets[s].fd \in Numbers
<1>1. SockSet \subseteq DOMAIN sockets
  BY DEF SockSet, Typed
<1>2. ASSUME NEW s \in SockSet
      PROVE  /\ sockets[s].fd \in Numbers /\ sockets[s].fd \in Fds
             /\ file[sockets[s].fd].kind = "listen"
  <2>1. sockets[s].fd # NoFd /\ sockets[s].fd \in Fds
    BY <1>1, FdTypes, NumberFacts DEF TableForm, SocketForm
  <2>2. file[sockets[s].fd] = Listener(sockets[s].addr)
    BY <1>1, <2>1 DEF TableForm, SocketForm
  <2> QED BY <2>1, <2>2, FileFacts DEF Numbers
<1>3. ASSUME NEW n \in Fds, file[n].kind = "listen" PROVE n \in Numbers
  <2>1. file[n] # Free
    BY <1>3, FileFacts
  <2>2. ASSUME NEW c \in Clients, client[c].fd = n PROVE FALSE
    <3>1. Open(c)
      BY <2>2, NumberFacts DEF TableForm, ClientForm
    <3>2. file[n] = Connection(c)
      BY <2>2, <3>1 DEF TableForm, ClientForm
    <3> QED BY <1>3, <3>2, FileFacts
  <2>3. PICK s \in DOMAIN sockets : sockets[s].fd = n
    BY <2>1, <2>2 DEF TableForm, FileForm
  <2>4. s \in SockSet
    BY <2>3, NumberFacts DEF TableForm, SocketForm
  <2> QED BY <1>2, <2>3, <2>4
<1>4. \A n \in Numbers : n \in Fds /\ file[n].kind = "listen"
  BY <1>2 DEF Numbers
<1>5. \A s \in DOMAIN sockets : sockets[s].fd # NoFd => sockets[s].fd \in Numbers
  BY <1>2 DEF TableForm, SocketForm
<1> QED BY <1>1, <1>2, <1>3, <1>4, <1>5

LEMMA ClosingIs ==
    ASSUME Typed, TableForm, Closing
    PROVE  /\ \A n \in Fds : IF n \in Numbers
                             THEN file'[n] = Free /\ ctx'[n] = NoCtx /\ watch'[n] = NoFiber
                             ELSE file'[n] = file[n] /\ ctx'[n] = ctx[n] /\ watch'[n] = watch[n]
           /\ DOMAIN sockets' = DOMAIN sockets
           /\ \A s \in DOMAIN sockets : sockets'[s].fd = NoFd
           /\ socks' = <<>> /\ SockSet' = {} /\ DOMAIN socks' = {}
           /\ \A c \in Clients : \/ client'[c] = client[c]
                                 \/ client[c].pc = "queued" /\ client'[c].pc = "reset"
                                    /\ client'[c].fd = NoFd
<1>1. CloseListeners(Numbers) /\ sockets' = Forgotten /\ socks' = <<>>
  BY DEF Closing
<1>2. \A n \in Fds : IF n \in Numbers
                     THEN file'[n] = Free /\ ctx'[n] = NoCtx /\ watch'[n] = NoFiber
                     ELSE file'[n] = file[n] /\ ctx'[n] = ctx[n] /\ watch'[n] = watch[n]
  BY <1>1 DEF CloseListeners
<1>3. DOMAIN sockets' = DOMAIN sockets
  BY <1>1 DEF Forgotten
<1>4. ASSUME NEW s \in DOMAIN sockets PROVE sockets'[s].fd = NoFd
  <2>1. sockets[s] \in SocketRec
    BY DEF Typed
  <2>2. CASE s \in SockSet
    <3>1. sockets'[s] = [sockets[s] EXCEPT !.fd = NoFd]
      BY <1>1, <2>2 DEF Forgotten
    <3> QED BY <2>1, <3>1 DEF SocketRec
  <2>3. CASE s \notin SockSet
    <3>1. sockets'[s] = sockets[s]
      BY <1>1, <2>3 DEF Forgotten
    <3> QED BY <2>3, <3>1 DEF TableForm, SocketForm
  <2> QED BY <2>2, <2>3
<1>5. SockSet' = {} /\ DOMAIN socks' = {}
  BY <1>1 DEF SockSet
<1>6. ASSUME NEW c \in Clients
      PROVE  \/ client'[c] = client[c]
             \/ client[c].pc = "queued" /\ client'[c].pc = "reset" /\ client'[c].fd = NoFd
  <2>1. [NoClient EXCEPT !.pc = "reset"].pc = "reset" /\ [NoClient EXCEPT !.pc = "reset"].fd = NoFd
    BY DEF NoClient
  <2> QED BY <1>1, <2>1 DEF CloseListeners
<1> QED BY <1>1, <1>2, <1>3, <1>4, <1>5, <1>6

LEMMA TableClose ==
    ASSUME Typed, TableForm, Closing
    PROVE  TableForm'
<1>1. /\ \A n \in Fds : IF n \in Numbers
                        THEN file'[n] = Free /\ ctx'[n] = NoCtx /\ watch'[n] = NoFiber
                        ELSE file'[n] = file[n] /\ ctx'[n] = ctx[n] /\ watch'[n] = watch[n]
      /\ DOMAIN sockets' = DOMAIN sockets
      /\ \A s \in DOMAIN sockets : sockets'[s].fd = NoFd
      /\ socks' = <<>> /\ SockSet' = {} /\ DOMAIN socks' = {}
  BY ClosingIs
<1>2. \A c \in Clients : \/ client'[c] = client[c]
                         \/ client[c].pc = "queued" /\ client'[c].pc = "reset"
                            /\ client'[c].fd = NoFd
  BY ClosingIs
<1>3. SocketForm'
  BY <1>1 DEF SocketForm
<1>4. ASSUME NEW c \in Clients, Open(c)
      PROVE  client[c].fd \in Fds \ Numbers
  <2>1. client[c].fd \in Fds /\ file[client[c].fd] = Connection(c)
    BY <1>4, FdTypes, NumberFacts DEF TableForm, ClientForm
  <2> QED BY <2>1, NumbersListen, FileFacts
<1>5. ClientForm'
  <2> SUFFICES ASSUME NEW c \in Clients
               PROVE  /\ Open(c)' => client'[c].fd # NoFd /\ file'[client'[c].fd] = Connection(c)
                      /\ ~Open(c)' => client'[c].fd = NoFd
                      /\ client'[c].pc \in {"start", "held"} =>
                            ctx'[client'[c].fd] = [of |-> Connection(c), timed |-> TRUE]
                      /\ client'[c].pc = "deleted" => ctx'[client'[c].fd] = NoCtx
    BY DEF ClientForm
  <2>1. CASE client'[c] = client[c]
    <3>1. CASE Open(c)
      <4>1. file'[client[c].fd] = file[client[c].fd] /\ ctx'[client[c].fd] = ctx[client[c].fd]
        BY <1>1, <1>4, <3>1
      <4> QED BY <2>1, <3>1, <4>1 DEF TableForm, ClientForm, Open
    <3>2. CASE ~Open(c)
      BY <2>1, <3>2 DEF TableForm, ClientForm, Open
    <3> QED BY <3>1, <3>2
  <2>2. CASE client'[c].pc = "reset" /\ client'[c].fd = NoFd
    BY <2>2 DEF Open
  <2> QED BY <1>2, <2>1, <2>2
<1>6. FileForm'
  <2> SUFFICES ASSUME NEW n \in Fds
               PROVE  /\ file'[n] # Free => \E c \in Clients : client'[c].fd = n
                      /\ ctx'[n] # NoCtx => ctx'[n].of = file'[n] /\ file'[n] # Free
    BY DEF FileForm
  <2>1. CASE n \in Numbers
    BY <1>1, <2>1
  <2>2. CASE n \notin Numbers
    <3>1. file'[n] = file[n] /\ ctx'[n] = ctx[n]
      BY <1>1, <2>2
    <3>2. ASSUME file[n] # Free PROVE \E c \in Clients : client'[c].fd = n
      <4>1. \A s \in DOMAIN sockets : sockets[s].fd # n
        BY <2>2, NumbersListen, NumberFacts
      <4>2. PICK c \in Clients : client[c].fd = n
        BY <3>2, <4>1 DEF TableForm, FileForm
      <4>3. Open(c)
        BY <4>2, NumberFacts DEF TableForm, ClientForm
      <4> QED BY <1>2, <4>2, <4>3 DEF Open
    <3> QED BY <3>1, <3>2 DEF TableForm, FileForm
  <2> QED BY <2>1, <2>2
<1> QED BY <1>3, <1>5, <1>6 DEF TableForm

LEMMA CtxTimed ==
    ASSUME NEW f
    PROVE  Timed([of |-> f, timed |-> FALSE]) = [of |-> f, timed |-> TRUE]
<1>1. ASSUME NEW b, NEW t, NEW x, x = [of |-> f, timed |-> b]
      PROVE  [x EXCEPT !.timed = t] = [of |-> f, timed |-> t]
  BY <1>1
<1>2. \A x, b, t : x = [of |-> f, timed |-> b] => [x EXCEPT !.timed = t] = [of |-> f, timed |-> t]
  BY <1>1
<1> QED BY <1>2, Zenon DEF Timed

LEMMA TableAccept ==
    ASSUME Typed, TableForm, NEW c \in Clients, NEW n \in Fds, Accepting(c, n)
    PROVE  TableForm'
<1>1. /\ file[n] = Free /\ client[c].pc = "queued"
      /\ file' = [file EXCEPT ![n] = Connection(c)]
      /\ ctx' = [ctx EXCEPT ![n] = Timed(GetCtx(n, Connection(c)))]
      /\ client' = ClientSet(c, "start", client[c].addr, n, client[c].shut)
      /\ UNCHANGED <<socks, sockets>>
  BY DEF Accepting
<1>2. /\ client'[c].pc = "start" /\ client'[c].fd = n
      /\ \A d \in Clients \ {c} : client'[d] = client[d]
  BY <1>1 DEF ClientSet, Typed
<1>3. /\ \A s \in DOMAIN sockets : sockets[s].fd # n
      /\ \A d \in Clients : client[d].fd # n
      /\ ctx[n] = NoCtx
  BY <1>1, FreeIsUnowned
<1>4. Timed(GetCtx(n, Connection(c))) = [of |-> Connection(c), timed |-> TRUE]
  <2>1. GetCtx(n, Connection(c)) = [of |-> Connection(c), timed |-> FALSE]
    BY <1>3 DEF GetCtx
  <2> QED BY <2>1, CtxTimed
<1>5. DOMAIN file = Fds /\ DOMAIN ctx = Fds
  BY DEF Typed
<1>6. /\ \A i \in Fds \ {n} : file'[i] = file[i] /\ ctx'[i] = ctx[i]
      /\ file'[n] = Connection(c) /\ ctx'[n] = [of |-> Connection(c), timed |-> TRUE]
  BY <1>1, <1>4, <1>5
<1>7. SocketForm'
  <2>1. \A s \in DOMAIN sockets : sockets[s].fd # NoFd => sockets[s].fd \in Fds \ {n}
    BY <1>3, FdTypes, NumberFacts
  <2> QED BY <1>1, <1>6, <2>1 DEF TableForm, SocketForm, SockSet
<1>8. ClientForm'
  <2> SUFFICES ASSUME NEW d \in Clients
               PROVE  /\ Open(d)' => client'[d].fd # NoFd /\ file'[client'[d].fd] = Connection(d)
                      /\ ~Open(d)' => client'[d].fd = NoFd
                      /\ client'[d].pc \in {"start", "held"} =>
                            ctx'[client'[d].fd] = [of |-> Connection(d), timed |-> TRUE]
                      /\ client'[d].pc = "deleted" => ctx'[client'[d].fd] = NoCtx
    BY DEF ClientForm
  <2>1. CASE d = c
    BY <1>2, <1>6, <2>1, NumberFacts DEF Open
  <2>2. CASE d # c
    <3>1. client'[d] = client[d] /\ (Open(d)' <=> Open(d))
      BY <1>2, <2>2 DEF Open
    <3>2. CASE Open(d)
      <4>1. client[d].fd \in Fds \ {n}
        BY <1>3, <3>2, FdTypes, NumberFacts DEF TableForm, ClientForm
      <4> QED BY <1>6, <3>1, <3>2, <4>1 DEF TableForm, ClientForm
    <3>3. CASE ~Open(d)
      BY <3>1, <3>3 DEF TableForm, ClientForm, Open
    <3> QED BY <3>2, <3>3
  <2> QED BY <2>1, <2>2
<1>9. FileForm'
  <2> SUFFICES ASSUME NEW i \in Fds
               PROVE  /\ file'[i] # Free => \/ \E s \in DOMAIN sockets' : sockets'[s].fd = i
                                            \/ \E d \in Clients : client'[d].fd = i
                      /\ ctx'[i] # NoCtx => ctx'[i].of = file'[i] /\ file'[i] # Free
    BY DEF FileForm
  <2>1. CASE i = n
    BY <1>2, <1>6, <2>1, FileFacts
  <2>2. CASE i # n
    <3>1. client[c].fd = NoFd
      BY <1>1 DEF TableForm, ClientForm, Open
    <3> QED BY <1>1, <1>2, <1>6, <2>2, <3>1, NumberFacts DEF TableForm, FileForm
  <2> QED BY <2>1, <2>2
<1> QED BY <1>7, <1>8, <1>9 DEF TableForm

(* The two halves of close() in a handler.                                 *)
LEMMA TableDel ==
    ASSUME Typed, TableForm, NEW c \in Clients, DelCtx(c) \/ CloseFd(c)
    PROVE  TableForm'
<1> DEFINE n == client[c].fd
<1>1. /\ client[c].pc \in {"over", "deleted"} /\ Open(c)
      /\ n \in Fds /\ file[n] = Connection(c) /\ UNCHANGED <<socks, sockets>>
  <2>1. client[c].pc \in {"over", "deleted"} /\ UNCHANGED <<socks, sockets>>
    BY DEF DelCtx, CloseFd, server
  <2>2. Open(c)
    BY <2>1 DEF Open
  <2> QED BY <2>1, <2>2, FdTypes, NumberFacts DEF TableForm, ClientForm
<1>2. /\ \A s \in DOMAIN sockets : sockets[s].fd # n
      /\ \A d \in Clients \ {c} : client[d].fd # n
  <2>1. ASSUME NEW s \in DOMAIN sockets PROVE sockets[s].fd # n
    BY <1>1, FileFacts, NumberFacts DEF TableForm, SocketForm
  <2>2. ASSUME NEW d \in Clients \ {c}, client[d].fd = n PROVE FALSE
    <3>1. Open(d)
      BY <1>1, <2>2, NumberFacts DEF TableForm, ClientForm
    <3>2. file[n] = Connection(d)
      BY <2>2, <3>1 DEF TableForm, ClientForm
    <3> QED BY <1>1, <2>2, <3>2, FileFacts
  <2> QED BY <2>1, <2>2
<1>3. /\ \A d \in Clients \ {c} : client'[d] = client[d]
      /\ \A i \in Fds \ {n} : file'[i] = file[i] /\ ctx'[i] = ctx[i]
      /\ \/ /\ client'[c].pc = "deleted" /\ client'[c].fd = n
            /\ file'[n] = file[n] /\ ctx'[n] = NoCtx
         \/ /\ client'[c].pc = "done" /\ client'[c].fd = NoFd
            /\ file'[n] = Free /\ ctx'[n] = NoCtx
  <2>0. DOMAIN file = Fds /\ DOMAIN ctx = Fds /\ DOMAIN client = Clients
    BY DEF Typed
  <2>1. CASE DelCtx(c)
    <3>1. /\ client'[c].pc = "deleted" /\ client'[c].fd = n
          /\ \A d \in Clients \ {c} : client'[d] = client[d]
      <4>1. Serving(c, "deleted") /\ "deleted" \in ClientPcs
        BY <2>1 DEF DelCtx, ClientPcs
      <4> QED BY <4>1, PcSet, Zenon
    <3>2. ctx' = [ctx EXCEPT ![n] = NoCtx] /\ file' = file
      BY <2>1 DEF DelCtx
    <3> HIDE DEF n
    <3> QED BY <1>1, <2>0, <3>1, <3>2
  <2>2. CASE CloseFd(c)
    <3>1. /\ client' = [client EXCEPT ![c] = [NoClient EXCEPT !.pc = "done"]]
          /\ file' = [file EXCEPT ![n] = Free] /\ ctx' = ctx /\ ctx[n] = NoCtx
      BY <2>2 DEF CloseFd, TableForm, ClientForm
    <3>2. [NoClient EXCEPT !.pc = "done"].pc = "done" /\ [NoClient EXCEPT !.pc = "done"].fd = NoFd
      BY DEF NoClient
    <3> HIDE DEF n
    <3> QED BY <1>1, <2>0, <3>1, <3>2
  <2> QED BY <2>1, <2>2
<1> HIDE DEF n
<1>4. SocketForm'
  <2>1. \A s \in DOMAIN sockets : sockets[s].fd # NoFd => sockets[s].fd \in Fds \ {n}
    BY <1>2, FdTypes, NumberFacts
  <2> QED BY <1>1, <1>3, <2>1 DEF TableForm, SocketForm, SockSet
<1>5. ClientForm'
  <2> SUFFICES ASSUME NEW d \in Clients
               PROVE  /\ Open(d)' => client'[d].fd # NoFd /\ file'[client'[d].fd] = Connection(d)
                      /\ ~Open(d)' => client'[d].fd = NoFd
                      /\ client'[d].pc \in {"start", "held"} =>
                            ctx'[client'[d].fd] = [of |-> Connection(d), timed |-> TRUE]
                      /\ client'[d].pc = "deleted" => ctx'[client'[d].fd] = NoCtx
    BY DEF ClientForm
  <2>1. CASE d = c
    BY <1>1, <1>3, <2>1, NumberFacts DEF Open
  <2>2. CASE d # c
    <3>1. client'[d] = client[d] /\ (Open(d)' <=> Open(d))
      BY <1>3, <2>2 DEF Open
    <3>2. CASE Open(d)
      <4>1. client[d].fd \in Fds \ {n}
        BY <1>2, <2>2, <3>2, FdTypes, NumberFacts DEF TableForm, ClientForm
      <4> QED BY <1>3, <3>1, <3>2, <4>1 DEF TableForm, ClientForm
    <3>3. CASE ~Open(d)
      BY <3>1, <3>3 DEF TableForm, ClientForm, Open
    <3> QED BY <3>2, <3>3
  <2> QED BY <2>1, <2>2
<1>6. FileForm'
  <2> SUFFICES ASSUME NEW i \in Fds
               PROVE  /\ file'[i] # Free => \/ \E s \in DOMAIN sockets' : sockets'[s].fd = i
                                            \/ \E d \in Clients : client'[d].fd = i
                      /\ ctx'[i] # NoCtx => ctx'[i].of = file'[i] /\ file'[i] # Free
    BY DEF FileForm
  <2>1. CASE i = n
    BY <1>3, <2>1
  <2>2. CASE i # n
    <3>1. file'[i] = file[i] /\ ctx'[i] = ctx[i]
      BY <1>3, <2>2
    <3>2. \A d \in Clients : client[d].fd = i => client'[d].fd = i
      BY <1>3, <2>2 DEF n
    <3> QED BY <1>1, <3>1, <3>2 DEF TableForm, FileForm
  <2> QED BY <2>1, <2>2
<1> QED BY <1>4, <1>5, <1>6 DEF TableForm

LEMMA VanishIs ==
    ASSUME Vanish
    PROVE  /\ \A n \in Fds : file'[n] = Free /\ ctx'[n] = NoCtx /\ watch'[n] = NoFiber
           /\ socks' = <<>> /\ SockSet' = {} /\ DOMAIN socks' = {} /\ DOMAIN sockets' = {}
           /\ loops' = <<>> /\ DOMAIN loops' = {} /\ isStop' = TRUE /\ main'.pc = "idle"
           /\ \A c \in Clients : client'[c].pc \in {"away", "reset"} /\ client'[c].fd = NoFd
<1>1. /\ NoClient.pc = "away" /\ NoClient.fd = NoFd
      /\ [NoClient EXCEPT !.pc = "reset"].pc = "reset" /\ [NoClient EXCEPT !.pc = "reset"].fd = NoFd
  BY DEF NoClient
<1>2. \A c \in Clients : client'[c].pc \in {"away", "reset"} /\ client'[c].fd = NoFd
  BY <1>1 DEF Vanish
<1>3. /\ \A n \in Fds : file'[n] = Free /\ ctx'[n] = NoCtx /\ watch'[n] = NoFiber
      /\ socks' = <<>> /\ sockets' = <<>> /\ loops' = <<>> /\ isStop' = TRUE /\ main' = Idle
  BY DEF Vanish
<1> QED BY <1>2, <1>3 DEF Idle, SockSet

LEMMA TableStep ==
    ASSUME NodeInv, [Next]_vars
    PROVE  TableForm'
<1>1. Typed /\ TableForm
  BY DEF NodeInv
<1>2. ASSUME Vanish PROVE TableForm'
  BY <1>2, VanishIs DEF TableForm, SocketForm, ClientForm, FileForm, Open
<1> QED BY <1>1, <1>2, TableKinds, TableKept, TableListen, TableClose, TableAccept, TableDel

-----------------------------------------------------------------------------
(* The accept loops and the registrations.                                 *)

(* A waiting loop waits for a number that listens, a waiting handler for   *)
(* one of a connection.                                                    *)
LEMMA Waiters ==
    ASSUME Typed, TableForm, LoopForm
    PROVE  /\ \A k \in DOMAIN loops : loops[k].pc = "held" =>
                loops[k].fd \in Fds /\ file[loops[k].fd].kind = "listen"
           /\ \A c \in Clients : Open(c) =>
                client[c].fd \in Fds /\ file[client[c].fd].kind # "listen"
<1>1. ASSUME NEW k \in DOMAIN loops, loops[k].pc = "held"
      PROVE  loops[k].fd \in Fds /\ file[loops[k].fd].kind = "listen"
  <2>1. /\ loops[k].fd # NoFd /\ sockets[loops[k].sock].fd = loops[k].fd
        /\ loops[k].sock \in DOMAIN sockets
    BY <1>1 DEF LoopForm, Typed
  <2>2. loops[k].fd \in Fds /\ file[loops[k].fd] = Listener(sockets[loops[k].sock].addr)
    BY <2>1, FdTypes, NumberFacts DEF TableForm, SocketForm
  <2> QED BY <2>2, FileFacts
<1>2. ASSUME NEW c \in Clients, Open(c)
      PROVE  client[c].fd \in Fds /\ file[client[c].fd].kind # "listen"
  <2>1. client[c].fd \in Fds /\ file[client[c].fd] = Connection(c)
    BY <1>2, FdTypes, NumberFacts DEF TableForm, ClientForm
  <2> QED BY <2>1, FileFacts
<1> QED BY <1>1, <1>2

LEMMA LoopSteps ==
    ASSUME NodeInv, NEW k \in DOMAIN loops,
           Accept(k) \/ AcceptFails(k) \/ AcceptWaits(k) \/ LoopEnds(k) \/ LoopWakes(k)
    PROVE  /\ DOMAIN loops' = DOMAIN loops /\ loops'[k].sock = loops[k].sock
           /\ \A l \in DOMAIN loops \ {k} : loops'[l] = loops[l]
           /\ UNCHANGED <<socks, sockets, isStop, main>>
           /\ loops[k].pc # "ended"
           /\ \/ /\ loops'[k].pc = "test" /\ watch' = watch
                 /\ loops[k].pc \in {"test", "retry"}
                 /\ \/ \E c \in Clients, n \in Fds : Accepting(c, n)
                    \/ UNCHANGED <<file, client>>
              \/ /\ loops'[k].pc = "held" /\ loops'[k].fd = FdOf(k)
                 /\ loops[k].pc \in {"test", "retry"}
                 /\ FdOf(k) \in Fds /\ sockets[loops[k].sock].fd = FdOf(k)
                 /\ watch' = [watch EXCEPT ![FdOf(k)] = Loop(k)] /\ UNCHANGED <<file, client>>
              \/ /\ loops'[k].pc = "ended" /\ isStop /\ loops[k].pc = "test"
                 /\ UNCHANGED <<file, watch, client>>
              \/ /\ loops[k].pc = "held"
                 /\ loops'[k].pc = "retry" /\ loops'[k].fd = loops[k].fd
                 /\ watch' = [watch EXCEPT ![loops[k].fd] = NoFiber] /\ UNCHANGED <<file, client>>
<1>0. Typed /\ SocketForm /\ LoopForm /\ loops \in Seq(LoopRec)
  BY DEF NodeInv, TableForm, Typed
<1>1. UNCHANGED <<socks, sockets, isStop, main>>
  BY DEF Accept, AcceptFails, AcceptWaits, LoopEnds, LoopWakes, LoopFrame
<1>2. ASSUME NEW p \in LoopPcs, NEW n \in Fds0, At(k, p, n)
      PROVE  /\ DOMAIN loops' = DOMAIN loops /\ loops'[k].sock = loops[k].sock
             /\ \A l \in DOMAIN loops \ {k} : loops'[l] = loops[l]
             /\ loops'[k].pc = p /\ loops'[k].fd = n
  <2>0. loops' = [loops EXCEPT ![k].pc = p, ![k].fd = n] /\ loops \in Seq(LoopRec)
    BY <1>0, <1>2 DEF At
  <2>1. /\ loops' \in Seq(LoopRec) /\ DOMAIN loops' = DOMAIN loops
        /\ loops'[k] = [sock |-> loops[k].sock, pc |-> p, fd |-> n]
        /\ \A l \in DOMAIN loops \ {k} : loops'[l] = loops[l]
    BY <2>0, LoopAt, Zenon
  <2> QED BY <2>1
<1>3. /\ {"test", "held", "retry", "ended"} \subseteq LoopPcs /\ NoFd \in Fds0
      /\ Fds \subseteq Fds0
  BY NumberFacts DEF LoopPcs
<1>4. CASE Accept(k)
  <2>1. At(k, "test", NoFd) /\ loops[k].pc \in {"test", "retry"} /\ watch' = watch
    BY <1>4 DEF Accept, MayAccept
  <2>2. \E c \in Clients, n \in Fds : Accepting(c, n)
    BY <1>0, <1>4, AcceptKind
  <2> QED BY <1>1, <1>2, <1>3, <2>1, <2>2
<1>5. CASE AcceptFails(k)
  <2>1. At(k, "test", NoFd) /\ loops[k].pc \in {"test", "retry"} /\ UNCHANGED <<file, watch, client>>
    BY <1>5 DEF AcceptFails, MayAccept, table
  <2> QED BY <1>1, <1>2, <1>3, <2>1
<1>6. CASE AcceptWaits(k)
  <2>1. /\ At(k, "held", FdOf(k)) /\ MayAccept(k) /\ Listens(FdOf(k))
        /\ watch' = [watch EXCEPT ![FdOf(k)] = Loop(k)] /\ UNCHANGED <<file, client>>
    BY <1>6 DEF AcceptWaits
  <2>2. FdOf(k) \in Fds /\ sockets[loops[k].sock].fd = FdOf(k) /\ loops[k].pc \in {"test", "retry"}
    BY <1>0, <2>1, LoopNumber
  <2>3. /\ DOMAIN loops' = DOMAIN loops /\ loops'[k].sock = loops[k].sock
        /\ \A l \in DOMAIN loops \ {k} : loops'[l] = loops[l]
        /\ loops'[k].pc = "held" /\ loops'[k].fd = FdOf(k)
    BY <1>2, <1>3, <2>1, <2>2
  <2> QED BY <1>1, <2>1, <2>2, <2>3
<1>7. CASE LoopEnds(k)
  <2>1. /\ At(k, "ended", NoFd) /\ loops[k].pc = "test" /\ isStop
        /\ UNCHANGED <<file, watch, client>>
    BY <1>7 DEF LoopEnds, table
  <2> QED BY <1>1, <1>2, <1>3, <2>1
<1>8. CASE LoopWakes(k)
  <2>1. /\ loops' = [loops EXCEPT ![k].pc = "retry"] /\ loops[k].pc = "held"
        /\ watch' = [watch EXCEPT ![loops[k].fd] = NoFiber] /\ UNCHANGED <<file, client>>
        /\ "retry" \in LoopPcs
    BY <1>8 DEF LoopWakes, LoopPcs
  <2>2. /\ DOMAIN loops' = DOMAIN loops
        /\ loops'[k] = [sock |-> loops[k].sock, pc |-> "retry", fd |-> loops[k].fd]
        /\ \A l \in DOMAIN loops \ {k} : loops'[l] = loops[l]
    BY <1>0, <2>1, LoopPc, Zenon
  <2>3. loops'[k].sock = loops[k].sock /\ loops'[k].pc = "retry" /\ loops'[k].fd = loops[k].fd
    BY <2>2
  <2> QED BY <1>1, <2>1, <2>2, <2>3
<1> QED BY <1>4, <1>5, <1>6, <1>7, <1>8

LEMMA LoopMoves ==
    ASSUME NodeInv, NEW k \in DOMAIN loops,
           Accept(k) \/ AcceptFails(k) \/ AcceptWaits(k) \/ LoopEnds(k) \/ LoopWakes(k)
    PROVE  LoopForm' /\ WatchForm'
<1>0. Typed /\ TableForm /\ LoopForm /\ WatchForm
  BY DEF NodeInv
<1>1. /\ DOMAIN loops' = DOMAIN loops /\ loops'[k].sock = loops[k].sock
      /\ \A l \in DOMAIN loops \ {k} : loops'[l] = loops[l]
      /\ UNCHANGED <<sockets>> /\ loops[k].pc # "ended"
  BY LoopSteps
<1>2. \A l, m \in DOMAIN loops' :
        loops'[l].sock = loops'[m].sock /\ loops'[l].pc # "ended" /\ loops'[m].pc # "ended" => l = m
  BY <1>0, <1>1 DEF LoopForm
<1>3. DOMAIN watch = Fds
  BY <1>0 DEF Typed
<1>4. ASSUME watch' = watch, loops[k].pc # "held", loops'[k].pc \in {"test", "ended"},
             \A n \in Fds : file'[n].kind = "listen" => file[n].kind = "listen",
             \A c \in Clients : client'[c].pc = "held" => client'[c] = client[c],
             \A c \in Clients : client[c].pc = "held" => client'[c] = client[c]
      PROVE  LoopForm' /\ WatchForm'
  <2>1. ASSUME NEW l \in DOMAIN loops, l # k
        PROVE  /\ loops'[l].pc = "held" =>
                    /\ loops'[l].fd # NoFd /\ sockets'[loops'[l].sock].fd = loops'[l].fd
                    /\ watch'[loops'[l].fd] = Loop(l)
               /\ loops'[l].pc = "retry" =>
                    /\ loops'[l].fd # NoFd
                    /\ sockets'[loops'[l].sock].fd = loops'[l].fd \/ file'[loops'[l].fd].kind # "listen"
    <3>1. loops'[l] = loops[l] /\ loops[l].fd \in Fds0
      BY <1>0, <1>1, <2>1, FdTypes
    <3> QED BY <1>0, <1>1, <1>4, <3>1, NumberFacts DEF LoopForm
  <2>2. LoopForm'
    BY <1>1, <1>2, <1>4, <2>1 DEF LoopForm
  <2>3. WatchForm'
    <3>1. \A c \in Clients : client'[c].pc = "held" => watch'[client'[c].fd] = Handler(c)
      BY <1>0, <1>4 DEF WatchForm
    <3>2. ASSUME NEW n \in Fds, watch'[n] # NoFiber
          PROVE  \/ \E l \in DOMAIN loops' : watch'[n] = Loop(l) /\ loops'[l].pc = "held" /\ loops'[l].fd = n
                 \/ \E c \in Clients : watch'[n] = Handler(c) /\ client'[c].pc = "held" /\ client'[c].fd = n
      <4>1. CASE \E l \in DOMAIN loops : watch[n] = Loop(l) /\ loops[l].pc = "held" /\ loops[l].fd = n
        BY <1>1, <1>4, <4>1
      <4>2. CASE \E c \in Clients : watch[n] = Handler(c) /\ client[c].pc = "held" /\ client[c].fd = n
        BY <1>4, <4>2
      <4> QED BY <1>0, <1>4, <3>2, <4>1, <4>2 DEF WatchForm
    <3> QED BY <3>1, <3>2 DEF WatchForm
  <2> QED BY <2>2, <2>3
<1>5. CASE /\ loops'[k].pc = "test" /\ watch' = watch /\ loops[k].pc \in {"test", "retry"}
           /\ \/ \E c \in Clients, n \in Fds : Accepting(c, n)
              \/ UNCHANGED <<file, client>>
  <2>1. CASE UNCHANGED <<file, client>>
    BY <1>4, <1>5, <2>1
  <2>2. ASSUME NEW c \in Clients, NEW n \in Fds, Accepting(c, n)
        PROVE  LoopForm' /\ WatchForm'
    <3>1. /\ file' = [file EXCEPT ![n] = Connection(c)] /\ client[c].pc = "queued"
          /\ client' = ClientSet(c, "start", client[c].addr, n, client[c].shut)
          /\ DOMAIN file = Fds /\ DOMAIN client = Clients
      BY <1>0, <2>2 DEF Accepting, Typed
    <3>2. \A i \in Fds : file'[i].kind = "listen" => file[i].kind = "listen"
      BY <3>1, FileFacts
    <3>3. client'[c].pc = "start" /\ \A d \in Clients \ {c} : client'[d] = client[d]
      BY <3>1 DEF ClientSet
    <3> QED BY <1>4, <1>5, <3>1, <3>2, <3>3
  <2> QED BY <1>5, <2>1, <2>2
<1>6. CASE /\ loops'[k].pc = "ended" /\ loops[k].pc = "test"
           /\ UNCHANGED <<file, watch, client>>
  BY <1>4, <1>6
<1>7. CASE /\ loops'[k].pc = "held" /\ loops'[k].fd = FdOf(k)
           /\ loops[k].pc \in {"test", "retry"}
           /\ FdOf(k) \in Fds /\ sockets[loops[k].sock].fd = FdOf(k)
           /\ watch' = [watch EXCEPT ![FdOf(k)] = Loop(k)] /\ UNCHANGED <<file, client>>
  <2> DEFINE n == FdOf(k)
  <2>0. /\ loops'[k].pc = "held" /\ loops'[k].fd = n /\ loops[k].pc # "held" /\ n \in Fds /\ n # NoFd
        /\ sockets[loops[k].sock].fd = n /\ UNCHANGED <<file, client>>
        /\ watch'[n] = Loop(k) /\ \A i \in Fds \ {n} : watch'[i] = watch[i]
    BY <1>3, <1>7, NumberFacts
  <2> HIDE DEF n
  <2>1. loops[k].sock \in DOMAIN sockets /\ \A l \in DOMAIN loops : loops[l].sock \in DOMAIN sockets
    BY <1>0 DEF Typed
  <2>2. file[n].kind = "listen"
    <3>1. file[n] = Listener(sockets[loops[k].sock].addr)
      BY <1>0, <2>0, <2>1 DEF TableForm, SocketForm
    <3> QED BY <3>1, FileFacts
  <2>3. ASSUME NEW l \in DOMAIN loops, loops[l].pc = "held"
        PROVE  l # k /\ loops[l].fd # n /\ loops[l].fd \in Fds
    <3>1. l # k /\ loops[l].fd \in Fds
      BY <1>0, <2>0, <2>3, Waiters
    <3>2. ASSUME loops[l].fd = n PROVE FALSE
      <4>1. sockets[loops[l].sock].fd = n
        BY <1>0, <2>3, <3>2 DEF LoopForm
      <4>2. loops[l].sock = loops[k].sock
        BY <1>0, <2>0, <2>1, <4>1 DEF TableForm, SocketForm
      <4> QED BY <1>0, <1>1, <2>3, <3>1, <4>2 DEF LoopForm
    <3> QED BY <3>1, <3>2
  <2>4. ASSUME NEW c \in Clients, client[c].pc = "held" PROVE client[c].fd # n /\ client[c].fd \in Fds
    <3>1. Open(c)
      BY <2>4 DEF Open
    <3> QED BY <1>0, <2>2, <3>1, Waiters
  <2>5. LoopForm'
    <3>1. ASSUME NEW l \in DOMAIN loops, l # k
          PROVE  /\ loops'[l].pc = "held" =>
                      /\ loops'[l].fd # NoFd /\ sockets'[loops'[l].sock].fd = loops'[l].fd
                      /\ watch'[loops'[l].fd] = Loop(l)
                 /\ loops'[l].pc = "retry" =>
                      /\ loops'[l].fd # NoFd
                      /\ sockets'[loops'[l].sock].fd = loops'[l].fd \/ file'[loops'[l].fd].kind # "listen"
      <4>1. loops'[l] = loops[l]
        BY <1>1, <3>1
      <4> QED BY <1>0, <1>1, <2>0, <2>3, <4>1 DEF LoopForm
    <3>2. sockets'[loops'[k].sock].fd = loops'[k].fd
      BY <1>1, <2>0
    <3> QED BY <1>1, <1>2, <2>0, <3>1, <3>2 DEF LoopForm
  <2>6. WatchForm'
    <3>1. \A c \in Clients : client'[c].pc = "held" => watch'[client'[c].fd] = Handler(c)
      BY <1>0, <2>0, <2>4 DEF WatchForm
    <3>2. ASSUME NEW i \in Fds, watch'[i] # NoFiber
          PROVE  \/ \E l \in DOMAIN loops' : watch'[i] = Loop(l) /\ loops'[l].pc = "held" /\ loops'[l].fd = i
                 \/ \E c \in Clients : watch'[i] = Handler(c) /\ client'[c].pc = "held" /\ client'[c].fd = i
      <4>1. CASE i = n
        BY <1>1, <2>0, <4>1
      <4>2. CASE i # n
        <5>1. CASE \E l \in DOMAIN loops : watch[i] = Loop(l) /\ loops[l].pc = "held" /\ loops[l].fd = i
          BY <1>1, <2>0, <2>3, <4>2, <5>1
        <5>2. CASE \E c \in Clients : watch[i] = Handler(c) /\ client[c].pc = "held" /\ client[c].fd = i
          BY <2>0, <4>2, <5>2
        <5> QED BY <1>0, <2>0, <3>2, <4>2, <5>1, <5>2 DEF WatchForm
      <4> QED BY <4>1, <4>2
    <3> QED BY <3>1, <3>2 DEF WatchForm
  <2> QED BY <2>5, <2>6
<1>8. CASE /\ loops[k].pc = "held"
           /\ loops'[k].pc = "retry" /\ loops'[k].fd = loops[k].fd
           /\ watch' = [watch EXCEPT ![loops[k].fd] = NoFiber] /\ UNCHANGED <<file, client>>
  <2> DEFINE n == loops[k].fd
  <2>1. n \in Fds /\ file[n].kind = "listen" /\ n # NoFd /\ sockets[loops[k].sock].fd = n
        /\ watch[n] = Loop(k)
    BY <1>0, <1>8, Waiters, NumberFacts DEF LoopForm
  <2>2. watch'[n] = NoFiber /\ \A i \in Fds \ {n} : watch'[i] = watch[i]
    BY <1>3, <1>8, <2>1
  <2>3. loops'[k].fd = n
    BY <1>8
  <2> HIDE DEF n
  <2>4. ASSUME NEW l \in DOMAIN loops, loops[l].pc = "held", l # k
        PROVE  loops[l].fd # n /\ loops[l].fd \in Fds
    <3>1. loops[l].fd \in Fds /\ watch[loops[l].fd] = Loop(l)
      BY <1>0, <2>4, Waiters DEF LoopForm
    <3> QED BY <2>1, <2>4, <3>1, FiberFacts
  <2>5. ASSUME NEW c \in Clients, client[c].pc = "held" PROVE client[c].fd # n /\ client[c].fd \in Fds
    <3>1. Open(c)
      BY <2>5 DEF Open
    <3> QED BY <1>0, <2>1, <3>1, Waiters
  <2>6. LoopForm'
    <3>1. ASSUME NEW l \in DOMAIN loops, l # k
          PROVE  /\ loops'[l].pc = "held" =>
                      /\ loops'[l].fd # NoFd /\ sockets'[loops'[l].sock].fd = loops'[l].fd
                      /\ watch'[loops'[l].fd] = Loop(l)
                 /\ loops'[l].pc = "retry" =>
                      /\ loops'[l].fd # NoFd
                      /\ sockets'[loops'[l].sock].fd = loops'[l].fd \/ file'[loops'[l].fd].kind # "listen"
      <4>1. loops'[l] = loops[l]
        BY <1>1, <3>1
      <4> QED BY <1>0, <1>1, <1>8, <2>2, <2>4, <3>1, <4>1 DEF LoopForm
    <3>2. sockets'[loops'[k].sock].fd = loops'[k].fd
      BY <1>1, <2>1, <2>3
    <3> QED BY <1>1, <1>2, <1>8, <2>1, <2>3, <3>1, <3>2 DEF LoopForm
  <2>7. WatchForm'
    <3>1. \A c \in Clients : client'[c].pc = "held" => watch'[client'[c].fd] = Handler(c)
      BY <1>0, <1>8, <2>2, <2>5 DEF WatchForm
    <3>2. ASSUME NEW i \in Fds, watch'[i] # NoFiber
          PROVE  \/ \E l \in DOMAIN loops' : watch'[i] = Loop(l) /\ loops'[l].pc = "held" /\ loops'[l].fd = i
                 \/ \E c \in Clients : watch'[i] = Handler(c) /\ client'[c].pc = "held" /\ client'[c].fd = i
      <4>1. i # n /\ watch'[i] = watch[i]
        BY <2>2, <3>2
      <4>2. CASE \E l \in DOMAIN loops : watch[i] = Loop(l) /\ loops[l].pc = "held" /\ loops[l].fd = i
        <5>1. PICK l \in DOMAIN loops : watch[i] = Loop(l) /\ loops[l].pc = "held" /\ loops[l].fd = i
          BY <4>2
        <5>2. l # k
          BY <4>1, <5>1 DEF n
        <5> QED BY <1>1, <4>1, <5>1, <5>2
      <4>3. CASE \E c \in Clients : watch[i] = Handler(c) /\ client[c].pc = "held" /\ client[c].fd = i
        BY <1>8, <4>1, <4>3
      <4> QED BY <1>0, <3>2, <4>1, <4>2, <4>3 DEF WatchForm
    <3> QED BY <3>1, <3>2 DEF WatchForm
  <2> QED BY <2>6, <2>7
<1> QED BY <1>5, <1>6, <1>7, <1>8, LoopSteps

(* close() of the listening sockets wakes every loop that waits.           *)
LEMMA CloseAllLoops ==
    ASSUME NodeInv, CloseAll
    PROVE  /\ DOMAIN loops' = DOMAIN loops
           /\ \A k \in DOMAIN loops :
                /\ loops'[k].sock = loops[k].sock /\ loops'[k].fd = loops[k].fd
                /\ loops'[k].pc = IF loops[k].pc = "held" THEN "retry" ELSE loops[k].pc
<1>0. Typed /\ TableForm /\ LoopForm /\ WatchForm /\ loops \in Seq(LoopRec)
  BY DEF NodeInv, Typed
<1> DEFINE S == {k \in DOMAIN loops : Loop(k) \in Waiting(Numbers)}
<1>1. loops' = [k \in DOMAIN loops |-> IF k \in S THEN [loops[k] EXCEPT !.pc = "retry"] ELSE loops[k]]
  BY DEF CloseAll
<1>2. ASSUME NEW k \in DOMAIN loops PROVE k \in S <=> loops[k].pc = "held"
  <2>1. ASSUME loops[k].pc = "held" PROVE k \in S
    <3>1. watch[loops[k].fd] = Loop(k) /\ loops[k].fd \in Numbers
      BY <1>0, <2>1, Waiters, NumbersListen DEF LoopForm
    <3> QED BY <3>1, FiberFacts DEF Waiting
  <2>2. ASSUME k \in S PROVE loops[k].pc = "held"
    <3>1. PICK n \in Numbers : watch[n] = Loop(k)
      BY <2>2 DEF Waiting
    <3>2. n \in Fds /\ watch[n] # NoFiber
      BY <1>0, <3>1, NumbersListen, FiberFacts
    <3>3. ~ \E c \in Clients : watch[n] = Handler(c)
      BY <3>1, FiberFacts
    <3>4. PICK l \in DOMAIN loops : watch[n] = Loop(l) /\ loops[l].pc = "held"
      BY <1>0, <3>2, <3>3 DEF WatchForm
    <3>5. l = k
      BY <3>1, <3>4, FiberFacts
    <3> QED BY <3>4, <3>5
  <2> QED BY <2>1, <2>2
<1> HIDE DEF S
<1>3. /\ loops' \in Seq(LoopRec) /\ DOMAIN loops' = DOMAIN loops
      /\ \A k \in DOMAIN loops :
            loops'[k] = IF k \in S
                        THEN [sock |-> loops[k].sock, pc |-> "retry", fd |-> loops[k].fd]
                        ELSE loops[k]
  BY <1>0, <1>1, LoopsWoken, Zenon
<1> QED BY <1>2, <1>3

LEMMA LoopClose ==
    ASSUME NodeInv, BindFails \/ CloseAll
    PROVE  LoopForm' /\ WatchForm'
<1>0. Typed /\ TableForm /\ LoopForm /\ WatchForm /\ MainForm
  BY DEF NodeInv
<1>1. Closing
  BY DEF BindFails, CloseAll, Closing
<1>2. /\ \A n \in Fds : IF n \in Numbers
                        THEN file'[n] = Free /\ watch'[n] = NoFiber
                        ELSE file'[n] = file[n] /\ watch'[n] = watch[n]
      /\ \A s \in DOMAIN sockets : sockets'[s].fd = NoFd
      /\ \A c \in Clients : \/ client'[c] = client[c]
                            \/ client[c].pc = "queued" /\ client'[c].pc = "reset"
                               /\ client'[c].fd = NoFd
  BY <1>0, <1>1, ClosingIs
<1>3. /\ DOMAIN loops' = DOMAIN loops
      /\ \A k \in DOMAIN loops :
            /\ loops'[k].sock = loops[k].sock /\ loops'[k].fd = loops[k].fd
            /\ loops'[k].pc = IF loops[k].pc = "held" THEN "retry" ELSE loops[k].pc
  <2>1. CASE CloseAll
    BY <2>1, CloseAllLoops
  <2>2. CASE BindFails
    <3>1. loops' = loops /\ main.pc = "bind"
      BY <2>2 DEF BindFails
    <3>2. \A k \in DOMAIN loops : loops[k].pc = "ended"
      BY <1>0, <3>1 DEF MainForm
    <3> QED BY <3>1, <3>2
  <2> QED BY <2>1, <2>2
<1>4. \A n \in Fds : file'[n].kind # "listen"
  <2>1. \A n \in Fds : n \in Numbers <=> file[n].kind = "listen"
    BY <1>0, NumbersListen
  <2> QED BY <1>2, <2>1, FileFacts
<1>5. LoopForm'
  <2>1. ASSUME NEW k \in DOMAIN loops'
        PROVE  /\ loops'[k].pc # "held"
               /\ loops'[k].pc = "retry" => loops'[k].fd # NoFd /\ file'[loops'[k].fd].kind # "listen"
    <3>1. CASE loops[k].pc \in {"held", "retry"}
      <4>1. loops[k].fd # NoFd /\ loops[k].fd \in Fds0
        BY <1>0, <1>3, <3>1, FdTypes DEF LoopForm
      <4>2. loops[k].fd \in Fds
        BY <4>1, NumberFacts
      <4> QED BY <1>3, <1>4, <4>1, <4>2
    <3>2. CASE loops[k].pc \notin {"held", "retry"}
      BY <1>3, <3>2
    <3> QED BY <3>1, <3>2
  <2>2. \A k, l \in DOMAIN loops' :
        loops'[k].sock = loops'[l].sock /\ loops'[k].pc # "ended" /\ loops'[l].pc # "ended" => k = l
    BY <1>0, <1>3 DEF LoopForm
  <2> QED BY <2>1, <2>2 DEF LoopForm
<1>6. WatchForm'
  <2>1. ASSUME NEW c \in Clients, client'[c].pc = "held" PROVE watch'[client'[c].fd] = Handler(c)
    <3>1. client'[c] = client[c] /\ client[c].pc = "held"
      BY <1>2, <2>1
    <3>2. Open(c)
      BY <3>1 DEF Open
    <3>3. client[c].fd \in Fds \ Numbers
      BY <1>0, <3>2, Waiters, NumbersListen
    <3> QED BY <1>0, <1>2, <3>1, <3>3 DEF WatchForm
  <2>2. ASSUME NEW n \in Fds, watch'[n] # NoFiber
        PROVE  \E c \in Clients : watch'[n] = Handler(c) /\ client'[c].pc = "held" /\ client'[c].fd = n
    <3>1. n \notin Numbers /\ watch'[n] = watch[n]
      BY <1>2, <2>2
    <3>2. ASSUME NEW k \in DOMAIN loops, loops[k].pc = "held", loops[k].fd = n PROVE FALSE
      BY <1>0, <3>1, <3>2, Waiters, NumbersListen
    <3>3. PICK c \in Clients : watch[n] = Handler(c) /\ client[c].pc = "held" /\ client[c].fd = n
      BY <1>0, <2>2, <3>1, <3>2 DEF WatchForm
    <3>4. client'[c] = client[c]
      BY <1>2, <3>3
    <3> QED BY <3>1, <3>3, <3>4
  <2> QED BY <2>1, <2>2 DEF WatchForm
<1> QED BY <1>5, <1>6

(* start(): one loop for each Socket, and none is left from before.        *)
LEMMA LoopStart ==
    ASSUME NodeInv, Start
    PROVE  LoopForm' /\ WatchForm'
<1>0. Typed /\ TableForm /\ LoopForm /\ WatchForm /\ MainForm /\ isStop
      /\ \A k \in DOMAIN loops : loops[k].pc = "ended"
  BY DEF NodeInv, MainForm, Start
<1>1. /\ Len(loops') = Len(loops) + Len(socks) /\ loops' \in Seq(LoopRec) /\ loops \in Seq(LoopRec)
      /\ \A k \in DOMAIN loops : loops'[k] = loops[k]
      /\ \A i \in DOMAIN socks :
            loops'[Len(loops) + i] = [sock |-> socks[i], pc |-> "test", fd |-> NoFd]
      /\ socks \in Seq(DOMAIN sockets)
  BY <1>0, StartLoops DEF Typed
<1>2. UNCHANGED <<file, watch, client, sockets>>
  BY DEF Start, table
<1>3. ASSUME NEW k \in DOMAIN loops'
      PROVE  \/ k \in DOMAIN loops /\ loops'[k].pc = "ended"
             \/ \E i \in DOMAIN socks :
                    k = Len(loops) + i /\ loops'[k].sock = socks[i] /\ loops'[k].pc = "test"
  <2>1. CASE k \in DOMAIN loops
    BY <1>0, <1>1, <2>1
  <2>2. CASE k \notin DOMAIN loops
    <3>1. k - Len(loops) \in DOMAIN socks /\ k = Len(loops) + (k - Len(loops))
      BY <1>1, <2>2
    <3>2. PICK i \in DOMAIN socks : k = Len(loops) + i
      BY <3>1
    <3>3. loops'[k] = [sock |-> socks[i], pc |-> "test", fd |-> NoFd]
      BY <1>1, <3>2
    <3> QED BY <3>2, <3>3
  <2> QED BY <2>1, <2>2
<1>4. ASSUME NEW k \in DOMAIN loops', NEW l \in DOMAIN loops', loops'[k].sock = loops'[l].sock,
             loops'[k].pc # "ended", loops'[l].pc # "ended"
      PROVE  k = l
  <2>1. PICK i \in DOMAIN socks : k = Len(loops) + i /\ loops'[k].sock = socks[i]
    BY <1>3, <1>4
  <2>2. PICK j \in DOMAIN socks : l = Len(loops) + j /\ loops'[l].sock = socks[j]
    BY <1>3, <1>4
  <2>3. i = j
    BY <1>0, <1>4, <2>1, <2>2 DEF TableForm, SocketForm
  <2> QED BY <2>1, <2>2, <2>3
<1>5. LoopForm'
  <2>1. \A k \in DOMAIN loops' : loops'[k].pc \notin {"held", "retry"}
    BY <1>3
  <2> QED BY <1>4, <2>1 DEF LoopForm
<1>6. WatchForm'
  BY <1>0, <1>2 DEF WatchForm
<1> QED BY <1>5, <1>6

(* A handler waits, wakes and closes.                                      *)
LEMMA HandlerSteps ==
    ASSUME NodeInv, NEW c \in Clients,
           HandlerWaits(c) \/ HandlerWakes(c) \/ DelCtx(c) \/ CloseFd(c)
    PROVE  LoopForm' /\ WatchForm'
<1>0. Typed /\ TableForm /\ LoopForm /\ WatchForm /\ DOMAIN watch = Fds
  BY DEF NodeInv, Typed
<1> DEFINE n == client[c].fd
<1>1. UNCHANGED <<loops, sockets>> /\ Open(c)
  BY DEF HandlerWaits, HandlerWakes, DelCtx, CloseFd, server, Open
<1>2. n \in Fds /\ file[n].kind # "listen" /\ file[n] = Connection(c)
  BY <1>0, <1>1, Waiters DEF TableForm, ClientForm
<1>3. /\ \A k \in DOMAIN loops : loops[k].pc = "held" => loops[k].fd # n /\ loops[k].fd \in Fds
      /\ \A d \in Clients \ {c} : client[d].pc = "held" => client[d].fd # n /\ client[d].fd \in Fds
  <2>1. ASSUME NEW d \in Clients \ {c}, client[d].pc = "held" PROVE client[d].fd # n /\ client[d].fd \in Fds
    <3>1. Open(d)
      BY <2>1 DEF Open
    <3>2. file[client[d].fd] = Connection(d) /\ client[d].fd \in Fds
      BY <1>0, <2>1, <3>1, Waiters DEF TableForm, ClientForm
    <3> QED BY <1>2, <2>1, <3>2, FileFacts
  <2> QED BY <1>0, <1>2, <2>1, Waiters
<1>4. /\ \A d \in Clients \ {c} : client'[d] = client[d]
      /\ \/ /\ HandlerWaits(c) /\ client'[c].pc = "held" /\ client'[c].fd = n
            /\ watch'[n] = Handler(c)
         \/ /\ HandlerWakes(c) /\ client'[c].pc # "held" /\ watch'[n] = NoFiber
         \/ /\ DelCtx(c) \/ CloseFd(c)
            /\ client'[c].pc # "held" /\ watch' = watch /\ client[c].pc # "held"
  <2>1. CASE HandlerWaits(c)
    <3>1. /\ Serving(c, "held") /\ "held" \in ClientPcs /\ watch' = [watch EXCEPT ![n] = Handler(c)]
      BY <2>1 DEF HandlerWaits, ClientPcs
    <3>2. /\ client'[c].pc = "held" /\ client'[c].fd = client[c].fd
          /\ \A d \in Clients \ {c} : client'[d] = client[d]
      BY <1>0, <3>1, PcSet, Zenon
    <3> QED BY <1>0, <1>2, <2>1, <3>1, <3>2
  <2>2. CASE HandlerWakes(c)
    <3>1. /\ Serving(c, "over") /\ "over" \in ClientPcs /\ watch' = [watch EXCEPT ![n] = NoFiber]
      BY <2>2 DEF HandlerWakes, ClientPcs
    <3>2. /\ client'[c].pc = "over" /\ client'[c].fd = client[c].fd
          /\ \A d \in Clients \ {c} : client'[d] = client[d]
      BY <1>0, <3>1, PcSet, Zenon
    <3> QED BY <1>0, <1>2, <2>2, <3>1, <3>2
  <2>3. CASE DelCtx(c)
    <3>1. Serving(c, "deleted") /\ "deleted" \in ClientPcs /\ watch' = watch /\ client[c].pc = "over"
      BY <2>3 DEF DelCtx, ClientPcs
    <3>2. /\ client'[c].pc = "deleted" /\ client'[c].fd = client[c].fd
          /\ \A d \in Clients \ {c} : client'[d] = client[d]
      BY <1>0, <3>1, PcSet, Zenon
    <3> QED BY <2>3, <3>1, <3>2
  <2>4. CASE CloseFd(c)
    <3>1. /\ client' = [client EXCEPT ![c] = [NoClient EXCEPT !.pc = "done"]] /\ DOMAIN client = Clients
          /\ watch' = watch /\ client[c].pc = "deleted"
      BY <1>0, <2>4 DEF CloseFd, Typed
    <3>2. [NoClient EXCEPT !.pc = "done"].pc = "done"
      BY DEF NoClient
    <3> QED BY <2>4, <3>1, <3>2
  <2> QED BY <2>1, <2>2, <2>3, <2>4
<1>5. \A i \in Fds \ {n} : watch'[i] = watch[i]
  BY <1>0 DEF HandlerWaits, HandlerWakes, DelCtx, CloseFd
<1>6. \A i \in Fds : file'[i].kind = "listen" => file[i].kind = "listen"
  <2>1. file' = file \/ file' = [file EXCEPT ![n] = Free]
    BY DEF HandlerWaits, HandlerWakes, DelCtx, CloseFd
  <2>2. DOMAIN file = Fds
    BY <1>0 DEF Typed
  <2> HIDE DEF n
  <2> QED BY <2>1, <2>2, FileFacts
<1> HIDE DEF n
<1>7. LoopForm'
  <2>1. \A k \in DOMAIN loops : loops[k].fd # NoFd => loops[k].fd \in Fds
    BY <1>0, FdTypes, NumberFacts
  <2> QED BY <1>0, <1>1, <1>3, <1>5, <1>6, <2>1 DEF LoopForm
<1>8. WatchForm'
  <2>1. ASSUME NEW d \in Clients, client'[d].pc = "held" PROVE watch'[client'[d].fd] = Handler(d)
    <3>1. CASE d = c
      BY <1>4, <2>1, <3>1
    <3>2. CASE d # c
      <4>1. client'[d] = client[d] /\ client[d].pc = "held" /\ client[d].fd \in Fds \ {n}
        BY <1>3, <1>4, <2>1, <3>2
      <4> QED BY <1>0, <1>5, <4>1 DEF WatchForm
    <3> QED BY <3>1, <3>2
  <2>2. ASSUME NEW i \in Fds, watch'[i] # NoFiber
        PROVE  \/ \E k \in DOMAIN loops' : watch'[i] = Loop(k) /\ loops'[k].pc = "held" /\ loops'[k].fd = i
               \/ \E d \in Clients : watch'[i] = Handler(d) /\ client'[d].pc = "held" /\ client'[d].fd = i
    <3>1. CASE HandlerWaits(c) /\ i = n /\ client'[c].pc = "held" /\ client'[c].fd = n /\ watch'[n] = Handler(c)
      BY <3>1
    <3>2. CASE watch'[i] = watch[i] /\ (client[c].pc = "held" => client[c].fd # i)
      <4>1. CASE \E k \in DOMAIN loops : watch[i] = Loop(k) /\ loops[k].pc = "held" /\ loops[k].fd = i
        BY <1>1, <3>2, <4>1
      <4>2. CASE \E d \in Clients : watch[i] = Handler(d) /\ client[d].pc = "held" /\ client[d].fd = i
        <5>1. PICK d \in Clients : watch[i] = Handler(d) /\ client[d].pc = "held" /\ client[d].fd = i
          BY <4>2
        <5>2. d # c
          BY <3>2, <5>1
        <5> QED BY <1>4, <3>2, <5>1, <5>2
      <4> QED BY <1>0, <2>2, <3>2, <4>1, <4>2 DEF WatchForm
    <3>3. i # n => watch'[i] = watch[i] /\ client[c].fd # i
      BY <1>5 DEF n
    <3> QED BY <1>4, <2>2, <3>1, <3>2, <3>3
  <2> QED BY <2>1, <2>2 DEF WatchForm
<1> QED BY <1>7, <1>8

LEMMA LoopStep ==
    ASSUME NodeInv, [Next]_vars
    PROVE  LoopForm' /\ WatchForm'
<1>0. Typed /\ TableForm /\ LoopForm /\ WatchForm /\ MainForm
  BY DEF NodeInv
<1>1. ASSUME UNCHANGED <<file, watch, sockets, loops>>,
             \A c \in Clients : /\ client'[c].fd = client[c].fd
                                /\ client'[c].pc = "held" <=> client[c].pc = "held"
      PROVE  LoopForm' /\ WatchForm'
  <2>1. LoopForm'
    BY <1>0, <1>1 DEF LoopForm
  <2>2. WatchForm'
    BY <1>0, <1>1 DEF WatchForm
  <2> QED BY <2>1, <2>2
<1>2. CASE BindAddress
  <2>1. UNCHANGED <<loops, client, watch>> /\ \A k \in DOMAIN loops : loops[k].pc = "ended"
    <3>1. main.pc = "bind" /\ UNCHANGED <<loops, client>>
      BY <1>2 DEF BindAddress
    <3> QED BY <1>0, <1>2, <3>1, BindTyped DEF MainForm
  <2>2. LoopForm'
    BY <2>1 DEF LoopForm
  <2>3. WatchForm'
    BY <1>0, <2>1 DEF WatchForm
  <2> QED BY <2>2, <2>3
<1>3. CASE Launch \/ UserCalls \/ (\E a \in AddrSet : RivalTakes(a) \/ RivalReleases(a)) \/ UNCHANGED vars
  <2>1. UNCHANGED <<file, watch, sockets, loops, client>>
    BY <1>3 DEF Launch, UserCalls, CallBind, Retry, Stop, RivalTakes, RivalReleases, vars, srvVars,
                table, server
  <2> QED BY <1>1, <2>1
<1>4. ASSUME NEW c \in Clients, ClientShuts(c) \/ \E i \in DOMAIN Addrs : Connect(c, Addrs[i])
      PROVE  LoopForm' /\ WatchForm'
  <2>0. client \in [Clients -> ClientRec]
    BY <1>0 DEF Typed
  <2>1. UNCHANGED <<file, watch, sockets, loops>>
    BY <1>4 DEF ClientShuts, Connect, table, server
  <2>2. /\ client'[c].fd = client[c].fd
        /\ client'[c].pc = "held" <=> client[c].pc = "held"
        /\ \A d \in Clients \ {c} : client'[d] = client[d]
    <3>1. CASE ClientShuts(c)
      <4>1. client' = [client EXCEPT ![c].shut = TRUE] /\ client[c].pc \in ClientPcs
        BY <3>1 DEF ClientShuts, ClientPcs
      <4>2. client' = ClientSet(c, client[c].pc, client[c].addr, client[c].fd, TRUE)
        BY <2>0, <4>1, ClientAt, Zenon
      <4> QED BY <2>0, <4>2 DEF ClientSet
    <3>2. ASSUME NEW i \in DOMAIN Addrs, Connect(c, Addrs[i])
          PROVE  /\ client'[c].fd = client[c].fd
                 /\ client'[c].pc = "held" <=> client[c].pc = "held"
                 /\ \A d \in Clients \ {c} : client'[d] = client[d]
      <4>1. client' = [client EXCEPT ![c].pc = "queued", ![c].addr = Addrs[i]] /\ "queued" \in ClientPcs
            /\ client[c].pc = "away"
        BY <3>2 DEF Connect, ClientPcs
      <4>2. client' = ClientSet(c, "queued", Addrs[i], client[c].fd, client[c].shut)
        BY <2>0, <4>1, ClientAt, Zenon
      <4>3. /\ client'[c].pc = "queued" /\ client'[c].fd = client[c].fd
            /\ \A d \in Clients \ {c} : client'[d] = client[d]
        BY <2>0, <4>2 DEF ClientSet
      <4> QED BY <4>1, <4>3
    <3> QED BY <1>4, <3>1, <3>2
  <2>3. \A d \in Clients : /\ client'[d].fd = client[d].fd
                           /\ client'[d].pc = "held" <=> client[d].pc = "held"
    BY <2>2
  <2> QED BY <1>1, <2>1, <2>3
<1>5. CASE Exit \/ Crash
  <2>1. Vanish
    BY <1>5 DEF Exit, Crash
  <2> QED BY <2>1, VanishIs DEF LoopForm, WatchForm
<1> QED BY <1>2, <1>3, <1>4, <1>5, LoopMoves, LoopClose, LoopStart, HandlerSteps
        DEF Next, AcceptThread, MainStep, HandlerRuns, Wakes

-----------------------------------------------------------------------------
(* bind, start and the life of the process.                                *)

LEMMA MainStepForm ==
    ASSUME NodeInv, [Next]_vars
    PROVE  MainForm'
<1>0. Typed /\ MainForm
  BY DEF NodeInv
<1>1. CASE BindAddress /\ UNCHANGED life
  <2>1. main'.pc = "bind" /\ main.pc = "bind" /\ UNCHANGED <<isStop, loops, proc>>
    BY <1>0, <1>1 DEF BindAddress, life, Typed
  <2> QED BY <1>0, <2>1 DEF MainForm
<1>2. CASE BindFails /\ UNCHANGED life
  <2>1. main.pc = "bind" /\ UNCHANGED <<isStop, loops, proc>>
    BY <1>0, <1>2 DEF BindFails, life, Typed
  <2> QED BY <1>0, <2>1 DEF MainForm
<1>3. CASE Start /\ UNCHANGED life
  <2>1. main.pc = "bind" /\ main'.pc = "idle" /\ proc' = proc
    BY <1>3 DEF Start, Idle, life
  <2> QED BY <1>0, <2>1 DEF MainForm
<1>4. CASE CloseAll /\ UNCHANGED life
  <2>1. UNCHANGED <<main, isStop, oneThread, proc>>
    BY <1>4 DEF CloseAll, life
  <2> QED BY <1>0, <1>4, <2>1, CloseAllLoops DEF MainForm
<1>5. ASSUME NEW k \in DOMAIN loops, UNCHANGED life,
             Accept(k) \/ AcceptFails(k) \/ AcceptWaits(k) \/ LoopEnds(k) \/ LoopWakes(k)
      PROVE  MainForm'
  <2>1. loops[k].pc # "ended" /\ UNCHANGED <<isStop, main>>
    BY <1>5, LoopSteps
  <2>2. main.pc = "idle" /\ proc \notin {"down", "crashed"} /\ proc' = proc
    BY <1>0, <1>5, <2>1 DEF MainForm, life
  <2> QED BY <2>1, <2>2 DEF MainForm
<1>6. ASSUME NEW c \in Clients, UNCHANGED life,
             HandlerWaits(c) \/ HandlerWakes(c) \/ DelCtx(c) \/ CloseFd(c)
      PROVE  MainForm'
  <2>1. UNCHANGED <<main, isStop, loops, oneThread, proc>>
    BY <1>6 DEF HandlerWaits, HandlerWakes, DelCtx, CloseFd, server, life
  <2> QED BY <1>0, <2>1 DEF MainForm
<1>7. CASE Launch
  <2>1. /\ proc \in {"down", "crashed"} /\ proc' = "up" /\ UNCHANGED <<isStop, loops>>
    BY <1>7 DEF Launch
  <2> QED BY <1>0, <2>1 DEF MainForm
<1>8. CASE Exit \/ Crash
  <2>1. Vanish /\ oneThread /\ oneThread' = oneThread
    BY <1>8 DEF Exit, Crash, Vanish
  <2> QED BY <2>1, VanishIs DEF MainForm
<1>9. CASE UserCalls
  <2>1. ~oneThread /\ proc' = proc
    BY <1>9 DEF UserCalls, life
  <2>2. proc \notin {"down", "crashed"}
    BY <1>0, <2>1 DEF MainForm
  <2>3. CASE CallBind
    BY <2>1, <2>2, <2>3 DEF CallBind, MainForm
  <2>4. CASE Retry
    <3>1. main.pc = "failed" /\ UNCHANGED <<isStop, loops>>
      BY <2>4 DEF Retry
    <3> QED BY <1>0, <2>1, <2>2, <3>1 DEF MainForm
  <2>5. CASE Stop
    <3>1. isStop' = TRUE /\ UNCHANGED <<main, loops>>
      BY <2>5 DEF Stop
    <3> QED BY <1>0, <2>1, <2>2, <3>1 DEF MainForm
  <2> QED BY <1>9, <2>3, <2>4, <2>5 DEF UserCalls
<1>10. ASSUME NEW c \in Clients, UNCHANGED life,
              ClientShuts(c) \/ \E i \in DOMAIN Addrs : Connect(c, Addrs[i])
       PROVE  MainForm'
  <2>1. UNCHANGED <<main, isStop, loops, oneThread, proc>>
    BY <1>10 DEF ClientShuts, Connect, server, life
  <2> QED BY <1>0, <2>1 DEF MainForm
<1>11. CASE (\E a \in AddrSet : RivalTakes(a) \/ RivalReleases(a)) \/ UNCHANGED vars
  <2>1. UNCHANGED <<main, isStop, loops, oneThread, proc>>
    BY <1>11 DEF RivalTakes, RivalReleases, vars, srvVars, server, life
  <2> QED BY <1>0, <2>1 DEF MainForm
<1> QED BY <1>1, <1>2, <1>3, <1>4, <1>5, <1>6, <1>7, <1>8, <1>9, <1>10, <1>11
        DEF Next, AcceptThread, MainStep, HandlerRuns, Wakes

(* The addresses that are listened on are those of m_socks.                *)
LEMMA HeldIsBound ==
    ASSUME Typed, TableForm
    PROVE  Held = Bound
<1>1. ASSUME NEW s \in SockSet PROVE sockets[s].addr \in Held
  <2>1. s \in DOMAIN sockets /\ sockets[s].fd \in Numbers /\ sockets[s].fd # NoFd
    BY NumbersListen DEF TableForm, SocketForm
  <2>2. /\ sockets[s].fd \in Fds /\ file[sockets[s].fd].kind = "listen"
        /\ file[sockets[s].fd] = Listener(sockets[s].addr)
    BY <2>1, NumbersListen DEF TableForm, SocketForm
  <2>3. file[sockets[s].fd].of = sockets[s].addr
    BY <2>2, FileFacts
  <2> QED BY <2>2, <2>3 DEF Held
<1>2. ASSUME NEW n \in Fds, file[n].kind = "listen" PROVE file[n].of \in Bound
  <2>1. n \in Numbers
    BY <1>2, NumbersListen
  <2>2. PICK s \in SockSet : sockets[s].fd = n /\ n # NoFd
    BY <2>1 DEF Numbers
  <2>3. file[n] = Listener(sockets[s].addr)
    BY <2>2, NumbersListen DEF TableForm, SocketForm
  <2> QED BY <2>2, <2>3, FileFacts DEF Bound
<1>3. Held \subseteq Bound
  BY <1>2 DEF Held
<1>4. Bound \subseteq Held
  BY <1>1 DEF Bound
<1> QED BY <1>3, <1>4

(* A fiber that has its thread does not take it from the caller of bind.   *)
LEMMA MainStays ==
    ASSUME Typed, NEW f, f # Main, OnThread(f), running["accept"] = Main,
           \/ running' = [running EXCEPT ![Thread(f)] = f]
           \/ running' = [running EXCEPT ![Thread(f)] = NoFiber]
    PROVE  running'["accept"] = Main
<1>1. Thread(f) # "accept"
  BY FiberFacts DEF OnThread
<1> QED BY <1>1, ThreadFacts DEF Typed

LEMMA ServeKept ==
    ASSUME ServeForm, UNCHANGED <<socks, sockets, main, isStop, fails, loops>>,
           running["accept"] = Main => running'["accept"] = Main
    PROVE  ServeForm'
<1>1. SockSet' = SockSet /\ Bound' = Bound /\ (AllOrNone' <=> AllOrNone)
  BY DEF SockSet, Bound, AllOrNone
<1>2. (main.pc = "idle" => AllOrNone') /\ (main.pc = "failed" => socks = <<>>)
  BY <1>1 DEF ServeForm
<1>3. main.pc = "bind" /\ fails = {} =>
        IF main.next = 1 THEN AllOrNone'
        ELSE running'["accept"] = Main /\ Bound' = {Addrs[i] : i \in 1..(main.next - 1)}
  BY <1>1 DEF ServeForm
<1>4. ~isStop => \A s \in SockSet' : \E k \in DOMAIN loops : loops[k].sock = s /\ loops[k].pc # "ended"
  BY <1>1 DEF ServeForm
<1> QED BY <1>2, <1>3, <1>4 DEF ServeForm

(* bind takes the addresses in their order: after i of them the server has *)
(* those i, or the caller's list has a failure.                            *)
LEMMA ServeBind ==
    ASSUME NodeInv, BindAddress
    PROVE  ServeForm'
<1>0. Typed /\ TableForm /\ MainForm /\ ServeForm
  BY DEF NodeInv
<1> DEFINE m == main.next
<1>1. /\ main.pc = "bind" /\ m \in 1..Len(Addrs) /\ Len(Addrs) \in Nat
      /\ Addrs[m] \in AddrSet /\ DOMAIN Addrs = 1..Len(Addrs)
  BY <1>0, TcpServerAssumption DEF BindAddress, Typed, AddrSet
<1>2. main'.pc = "bind" /\ main'.next = m + 1 /\ isStop' = isStop /\ isStop
  <2>1. main' = [main EXCEPT !.next = main.next + 1] /\ isStop' = isStop
    BY DEF BindAddress
  <2> QED BY <1>0, <1>1, <2>1 DEF Typed, MainForm
<1>3. running'["accept"] = Main
  <2>1. running' = [running EXCEPT ![Thread(Main)] = Main]
    BY DEF BindAddress, Stays
  <2> QED BY <1>0, <2>1, ThreadFacts DEF Typed
<1> HIDE DEF m
<1>4. SUFFICES ASSUME fails' = {} PROVE Bound' = {Addrs[i] : i \in 1..m}
  <2>1. m + 1 # 1 /\ (m + 1) - 1 = m
    BY <1>1
  <2> QED BY <1>2, <1>3, <1>4, <2>1 DEF ServeForm
<1>5. /\ Addrs[m] \notin Held /\ fails = {}
      /\ \E n \in Fds : Listening(Addrs[m], n)
  BY <1>0, <1>4, BindKinds DEF m
<1>6. Bound' = Bound \cup {Addrs[m]}
  <2>1. PICK n \in Fds : Listening(Addrs[m], n)
    BY <1>5
  <2> DEFINE s == Len(sockets) + 1
  <2>2. /\ sockets'[s].addr = Addrs[m]
        /\ \A r \in DOMAIN sockets : sockets'[r] = sockets[r]
        /\ SockSet' = SockSet \cup {s}
    BY <1>0, <1>1, <2>1, ListenSocks
  <2>3. SockSet \subseteq DOMAIN sockets
    BY <1>0, NumbersListen
  <2>4. Bound' = {sockets'[r].addr : r \in SockSet'}
    BY DEF Bound
  <2> HIDE DEF s
  <2> QED BY <2>2, <2>3, <2>4 DEF Bound
<1>7. CASE m = 1
  <2>1. Addrs[m] \notin Bound
    BY <1>0, <1>5, HeldIsBound
  <2>2. socks = <<>>
    BY <1>0, <1>1, <1>5, <1>7, <2>1 DEF ServeForm, AllOrNone, m
  <2>3. Bound = {}
    BY <2>2 DEF Bound, SockSet
  <2> QED BY <1>6, <1>7, <2>3
<1>8. CASE m # 1
  <2>1. Bound = {Addrs[i] : i \in 1..(m - 1)}
    BY <1>0, <1>1, <1>5, <1>8 DEF ServeForm, m
  <2>2. 1..m = 1..(m - 1) \cup {m}
    BY <1>1
  <2> QED BY <1>6, <2>1, <2>2
<1> QED BY <1>7, <1>8

(* start(): bind has all the addresses, and each Socket gets its loop.     *)
LEMMA ServeStart ==
    ASSUME NodeInv, Start
    PROVE  ServeForm'
<1>0. Typed /\ TableForm /\ MainForm /\ ServeForm
  BY DEF NodeInv
<1>1. /\ main.pc = "bind" /\ fails = {} /\ main'.pc = "idle" /\ isStop
      /\ UNCHANGED <<socks, sockets>> /\ main.next = Len(Addrs) + 1 /\ Len(Addrs) \in Nat
      /\ DOMAIN Addrs = 1..Len(Addrs)
  <2>1. /\ main.pc = "bind" /\ fails = {} /\ main'.pc = "idle"
        /\ UNCHANGED <<socks, sockets>> /\ main.next > Len(Addrs)
    BY DEF Start, Idle
  <2>2. Len(Addrs) \in Nat /\ DOMAIN Addrs = 1..Len(Addrs) /\ main.next \in 1..(Len(Addrs) + 1)
    BY <1>0, TcpServerAssumption DEF Typed
  <2>3. main.next = Len(Addrs) + 1
    BY <2>1, <2>2
  <2> QED BY <1>0, <2>1, <2>2, <2>3 DEF MainForm
<1>2. SockSet' = SockSet /\ Bound' = Bound /\ (AllOrNone' <=> AllOrNone)
  BY <1>1 DEF SockSet, Bound, AllOrNone
<1>3. AllOrNone
  <2>1. CASE main.next = 1
    BY <1>0, <1>1, <2>1 DEF ServeForm
  <2>2. CASE main.next # 1
    <3>1. Bound = {Addrs[i] : i \in 1..(main.next - 1)}
      BY <1>0, <1>1, <2>2 DEF ServeForm
    <3>2. 1..(main.next - 1) = DOMAIN Addrs
      BY <1>1
    <3> QED BY <3>1, <3>2 DEF AllOrNone, AddrSet
  <2> QED BY <2>1, <2>2
<1>4. ASSUME NEW s \in SockSet
      PROVE  \E k \in DOMAIN loops' : loops'[k].sock = s /\ loops'[k].pc # "ended"
  <2>1. PICK i \in DOMAIN socks : socks[i] = s
    BY DEF SockSet
  <2>2. /\ loops' \in Seq(LoopRec) /\ Len(loops') = Len(loops) + Len(socks)
        /\ loops'[Len(loops) + i] = [sock |-> socks[i], pc |-> "test", fd |-> NoFd]
    BY <1>0, <1>1, StartLoops
  <2>3. Len(loops) + i \in DOMAIN loops'
    BY <1>0, <2>2 DEF Typed
  <2> QED BY <2>1, <2>2, <2>3
<1> QED BY <1>1, <1>2, <1>3, <1>4 DEF ServeForm

(* A loop runs only behind start(), and it ends only behind stop().        *)
LEMMA ServeLoops ==
    ASSUME NodeInv, NEW k \in DOMAIN loops,
           Accept(k) \/ AcceptFails(k) \/ AcceptWaits(k) \/ LoopEnds(k) \/ LoopWakes(k)
    PROVE  ServeForm'
<1>0. MainForm /\ ServeForm
  BY DEF NodeInv
<1>1. /\ DOMAIN loops' = DOMAIN loops /\ loops'[k].sock = loops[k].sock
      /\ \A l \in DOMAIN loops \ {k} : loops'[l] = loops[l]
      /\ UNCHANGED <<socks, sockets, isStop, main>>
      /\ loops[k].pc # "ended"
      /\ loops'[k].pc = "ended" => isStop
  BY LoopSteps
<1>2. main.pc = "idle"
  BY <1>0, <1>1 DEF MainForm
<1>3. SockSet' = SockSet /\ (AllOrNone' <=> AllOrNone)
  BY <1>1 DEF SockSet, Bound, AllOrNone
<1>4. ASSUME ~isStop, NEW s \in SockSet
      PROVE  \E l \in DOMAIN loops' : loops'[l].sock = s /\ loops'[l].pc # "ended"
  <2>1. PICK l \in DOMAIN loops : loops[l].sock = s /\ loops[l].pc # "ended"
    BY <1>0, <1>4 DEF ServeForm
  <2>2. loops'[l].sock = s /\ loops'[l].pc # "ended"
    BY <1>1, <1>4, <2>1
  <2> QED BY <1>1, <2>2
<1> QED BY <1>0, <1>1, <1>2, <1>3, <1>4 DEF ServeForm

LEMMA ServeStep ==
    ASSUME NodeInv, [Next]_vars
    PROVE  ServeForm'
<1>0. Typed /\ TableForm /\ MainForm /\ ServeForm
  BY DEF NodeInv
<1>1. CASE BindFails
  <2>1. /\ main'.pc = "failed" /\ isStop' = isStop /\ isStop /\ socks' = <<>>
    <3>1. main' = [main EXCEPT !.pc = "failed"] /\ main.pc = "bind" /\ isStop' = isStop /\ socks' = <<>>
      BY <1>1 DEF BindFails
    <3> QED BY <1>0, <3>1 DEF Typed, MainForm
  <2> QED BY <2>1 DEF ServeForm
<1>2. CASE CloseAll
  <2>1. OnThread(Stopper) /\ socks' = <<>> /\ UNCHANGED <<fails, isStop, main>>
    BY <1>2 DEF CloseAll
  <2>2. running["accept"] # Main
    BY <2>1, ThreadFacts, FiberFacts DEF OnThread
  <2>3. AllOrNone' /\ SockSet' = {}
    BY <2>1 DEF AllOrNone, SockSet
  <2>4. main.pc = "bind" /\ fails = {} => main.next = 1
    BY <1>0, <2>2 DEF ServeForm
  <2> QED BY <2>1, <2>3, <2>4 DEF ServeForm
<1>3. ASSUME NEW c \in Clients, HandlerWaits(c) \/ HandlerWakes(c) \/ DelCtx(c) \/ CloseFd(c)
      PROVE  ServeForm'
  <2>1. UNCHANGED <<socks, sockets, main, isStop, fails, loops>>
    BY <1>3 DEF HandlerWaits, HandlerWakes, DelCtx, CloseFd, server
  <2>2. CASE HandlerWakes(c)
    <3>1. running' = running
      BY <2>2 DEF HandlerWakes, Scheduled
    <3> QED BY <1>0, <2>1, <3>1, ServeKept
  <2>3. CASE HandlerWaits(c) \/ DelCtx(c) \/ CloseFd(c)
    <3>1. /\ OnThread(Handler(c))
          /\ \/ running' = [running EXCEPT ![Thread(Handler(c))] = Handler(c)]
             \/ running' = [running EXCEPT ![Thread(Handler(c))] = NoFiber]
      BY <2>3 DEF HandlerWaits, DelCtx, CloseFd, Stays, Yields
    <3>2. Handler(c) # Main
      BY FiberFacts
    <3>3. running["accept"] = Main => running'["accept"] = Main
      BY <1>0, <3>1, <3>2, MainStays
    <3> QED BY <1>0, <2>1, <3>3, ServeKept
  <2> QED BY <1>3, <2>2, <2>3
<1>4. CASE Launch \/ CallBind \/ Retry
  <2>1. /\ main'.pc = "bind" /\ main'.next = 1
        /\ UNCHANGED <<socks, sockets, isStop, fails, loops>>
    BY <1>4 DEF Launch, CallBind, Retry
  <2>2. main.pc \in {"idle", "failed"}
    BY <1>0, <1>4 DEF Launch, CallBind, Retry, MainForm
  <2>3. SockSet' = SockSet /\ (AllOrNone' <=> AllOrNone)
    BY <2>1 DEF SockSet, Bound, AllOrNone
  <2>4. AllOrNone
    BY <1>0, <2>2 DEF ServeForm, AllOrNone
  <2> QED BY <1>0, <2>1, <2>3, <2>4 DEF ServeForm
<1>5. CASE Stop
  <2>1. isStop' = TRUE /\ UNCHANGED <<socks, sockets, fails, loops, main, running>>
    BY <1>5 DEF Stop, Scheduled
  <2>2. Bound' = Bound /\ (AllOrNone' <=> AllOrNone)
    BY <2>1 DEF SockSet, Bound, AllOrNone
  <2>3. main.pc = "bind" /\ fails = {} =>
          IF main.next = 1 THEN AllOrNone'
          ELSE running["accept"] = Main /\ Bound' = {Addrs[i] : i \in 1..(main.next - 1)}
    BY <1>0, <2>2 DEF ServeForm
  <2> QED BY <1>0, <2>1, <2>2, <2>3 DEF ServeForm
<1>6. CASE Exit \/ Crash
  <2>1. Vanish
    BY <1>6 DEF Exit, Crash
  <2> QED BY <2>1, VanishIs DEF ServeForm, AllOrNone
<1>7. CASE \/ \E a \in AddrSet : RivalTakes(a) \/ RivalReleases(a)
           \/ \E c \in Clients : ClientShuts(c) \/ \E i \in DOMAIN Addrs : Connect(c, Addrs[i])
           \/ UNCHANGED vars
  <2>1. UNCHANGED <<socks, sockets, main, isStop, fails, loops, running>>
    BY <1>7 DEF RivalTakes, RivalReleases, ClientShuts, Connect, vars, srvVars, server, threads
  <2> QED BY <1>0, <2>1, ServeKept
<1> QED BY <1>1, <1>2, <1>3, <1>4, <1>5, <1>6, <1>7, ServeBind, ServeStart, ServeLoops
        DEF Next, AcceptThread, MainStep, HandlerRuns, Wakes, UserCalls

-----------------------------------------------------------------------------
(* Theorems.                                                               *)

LEMMA Invariance == Spec => []NodeInv
<1>1. NodeInv /\ [Next]_vars => NodeInv'
  <2> SUFFICES ASSUME NodeInv, [Next]_vars PROVE NodeInv'
    OBVIOUS
  <2>1. Typed'
    BY TypedStep DEF NodeInv
  <2>2. TableForm'
    BY TableStep DEF NodeInv
  <2> QED BY <2>1, <2>2, LoopStep, MainStepForm, ServeStep DEF NodeInv
<1> QED BY <1>1, InitInv, PTL DEF Spec

(* The owners of a number: its Socket or its client's handler, or nobody.  *)
LEMMA OwnersAre ==
    ASSUME Typed, TableForm, NEW n \in Fds
    PROVE  Cardinality(Owners(n)) = IF file[n] = Free THEN 0 ELSE 1
<1>1. ASSUME NEW s \in DOMAIN sockets, sockets[s].fd = n
      PROVE  file[n] = Listener(sockets[s].addr) /\ file[n] # Free
  BY <1>1, NumberFacts, FileFacts DEF TableForm, SocketForm
<1>2. ASSUME NEW c \in Clients, client[c].fd = n
      PROVE  file[n] = Connection(c) /\ file[n] # Free
  <2>1. Open(c)
    BY <1>2, NumberFacts DEF TableForm, ClientForm
  <2> QED BY <1>2, <2>1, FileFacts DEF TableForm, ClientForm
<1>3. CASE file[n] = Free
  <2>1. Owners(n) = {}
    BY <1>1, <1>2, <1>3 DEF Owners
  <2> QED BY <1>3, <2>1, FS_EmptySet
<1>4. ASSUME NEW s \in DOMAIN sockets, sockets[s].fd = n
      PROVE  Owners(n) = {Loop(s)}
  <2>1. \A r \in DOMAIN sockets : sockets[r].fd = n => r = s
    BY <1>4, NumberFacts DEF TableForm, SocketForm
  <2>2. \A c \in Clients : client[c].fd # n
    BY <1>1, <1>2, <1>4, FileFacts
  <2> QED BY <1>4, <2>1, <2>2 DEF Owners
<1>5. ASSUME NEW c \in Clients, client[c].fd = n
      PROVE  Owners(n) = {Handler(c)}
  <2>1. \A d \in Clients : client[d].fd = n => d = c
    BY <1>2, <1>5, FileFacts
  <2>2. \A r \in DOMAIN sockets : sockets[r].fd # n
    BY <1>1, <1>2, <1>5, FileFacts
  <2> QED BY <1>5, <2>1, <2>2 DEF Owners
<1>6. CASE file[n] # Free
  <2>1. \E f : Owners(n) = {f}
    BY <1>4, <1>5, <1>6 DEF TableForm, FileForm
  <2>2. Cardinality(Owners(n)) = 1
    BY <2>1, FS_Singleton
  <2> QED BY <1>6, <2>2
<1> QED BY <1>3, <1>6

(* Whatever the accept worker, the worker, stop(), a crash and other       *)
(* processes do, and whichever numbers are reused: a context belongs to    *)
(* the descriptor that is open now, an open descriptor has one owner, a    *)
(* handler has its own context with a timeout, and the events that are     *)
(* registered are those that fibers wait for (fdmanager.cpp:75-107,        *)
(* hook.cpp:351-364, socket.cpp:112-136).                                  *)
THEOREM NumbersAreExact == Spec => []FdExact
<1>1. NodeInv => FdExact
  <2> SUFFICES ASSUME NodeInv PROVE FdExact
    OBVIOUS
  <2>0. Typed /\ TableForm /\ LoopForm /\ WatchForm
    BY DEF NodeInv
  <2>1. ASSUME NEW n \in Fds
        PROVE  /\ ctx[n] # NoCtx => ctx[n].of = file[n]
               /\ Cardinality(Owners(n)) = IF file[n] = Free THEN 0 ELSE 1
    BY <2>0, OwnersAre DEF TableForm, FileForm
  <2>2. \A k \in DOMAIN loops : loops[k].pc = "held" => watch[loops[k].fd] = Loop(k)
    BY <2>0 DEF LoopForm
  <2>3. \A c \in Clients : client[c].pc \in {"start", "held"} =>
            ctx[client[c].fd] = [of |-> Connection(c), timed |-> TRUE]
    BY <2>0 DEF TableForm, ClientForm
  <2> QED BY <2>0, <2>1, <2>2, <2>3 DEF FdExact, WatchForm
<1> QED BY <1>1, Invariance, PTL

(* bind is all or nothing, for every list of addresses, duplicates         *)
(* included, and every order in which stop(), a crash, another process and *)
(* the loops come between: a server that was started listens on all of     *)
(* them with one accept loop each until stop() has closed them, and after  *)
(* a bind that failed on none (tcp_server.cpp:34-101).                     *)
THEOREM BindIsAllOrNothing == Spec => []ServeExact
<1>1. NodeInv => ServeExact
  <2> SUFFICES ASSUME NodeInv PROVE ServeExact
    OBVIOUS
  <2>0. Typed /\ TableForm /\ LoopForm /\ ServeForm /\ Held = Bound
    BY HeldIsBound DEF NodeInv
  <2>1. ASSUME main.pc = "idle", ~isStop, socks # <<>> PROVE Held = AddrSet
    BY <2>0, <2>1 DEF ServeForm, AllOrNone
  <2>2. ASSUME ~isStop, NEW s \in SockSet PROVE Cardinality(Live(s)) = 1
    <3>1. PICK k \in DOMAIN loops : loops[k].sock = s /\ loops[k].pc # "ended"
      BY <2>0, <2>2 DEF ServeForm
    <3>2. Live(s) = {k}
      BY <2>0, <3>1 DEF Live, LoopForm
    <3> QED BY <3>2, FS_Singleton
  <2>3. ASSUME main.pc = "failed" PROVE Held = {}
    BY <2>0, <2>3 DEF ServeForm, Bound, SockSet
  <2> QED BY <2>1, <2>2, <2>3 DEF ServeExact
<1> QED BY <1>1, Invariance, PTL
=============================================================================
