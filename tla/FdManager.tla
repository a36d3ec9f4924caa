----------------------------- MODULE FdManager ------------------------------
(***************************************************************************)
(* The descriptors of a process: the kernel's table, the contexts that     *)
(* FdManager keeps for them (fdmanager.cpp) and the fibers that wait for   *)
(* them in IOManager, all three indexed by the number.  The hooks of       *)
(* hook.cpp change them together, but one after the other, and the kernel  *)
(* gives a number away again as soon as it is closed.                      *)
(***************************************************************************)
EXTENDS Integers, FiniteSets, Sequences

CONSTANT MaxFd      \* the limit of open descriptors (RLIMIT_NOFILE)

ASSUME MaxFdAssumption == MaxFd \in Nat \ {0}

VARIABLES
    file,       \* file[n]: what the kernel has open under n, or Free
    ctx,        \* ctx[n]: m_data[n], or NoCtx
    watch       \* watch[n]: the fiber that waits for n in IOManager, or NoFiber

table == <<file, ctx, watch>>

Fds == 1..MaxFd
NoFd == 0           \* m_sockfd = -1
Free == [kind |-> "free", of |-> 0]
Listener(a) == [kind |-> "listen", of |-> a]
Connection(c) == [kind |-> "conn", of |-> c]
NoCtx == [of |-> Free, timed |-> FALSE]
NoFiber == <<"none", 0>>

FdInit ==
    /\ file = [n \in Fds |-> Free]
    /\ ctx = [n \in Fds |-> NoCtx]
    /\ watch = [n \in Fds |-> NoFiber]

(* The kernel gives away the lowest number that is free.                   *)
FreeFds == {n \in Fds : file[n] = Free}
Lowest == CHOOSE n \in FreeFds : \A k \in FreeFds : n <= k

(* FdManager::get with auto_create: a context that is there already is     *)
(* taken over as it is, with the timeouts of whoever it was made for.      *)
GetCtx(n, f) == IF ctx[n] = NoCtx THEN [of |-> f, timed |-> FALSE] ELSE ctx[n]

(* setsockopt(SO_RCVTIMEO) in the context.                                 *)
Timed(x) == [x EXCEPT !.timed = TRUE]
=============================================================================
