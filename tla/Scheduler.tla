----------------------------- MODULE Scheduler ------------------------------
(***************************************************************************)
(* Scheduler and Fiber (scheduler.h, scheduler.cpp, fiber.cpp): the pool of *)
(* threads that execute Scheduler::run, the queue m_fibers, the life cycle  *)
(* of the fibers they swap in and out, and start() and stop().  A section   *)
(* under m_mutex is one step.  Fiber::m_state is a plain field that several *)
(* threads read and write outside the lock: each line of run() that tests or *)
(* writes it is a step of its own.                                          *)
(*                                                                         *)
(* The bodies of the fibers are the environment: they spawn callbacks,      *)
(* yield, wait for a waker that will schedule() them again, return, throw.  *)
(* Scheduler::tickle only logs; IOManager's overrides are not here.         *)
(***************************************************************************)
EXTENDS Naturals, Sequences, FiniteSets

CONSTANTS
    Workers,       \* the threads that start() may create
    Root,          \* the caller's thread when use_caller is set, else NoThread
    NoThread,
    AnyThread,     \* thread = -1 in a queue entry
    Fibers,        \* the fiber objects
    NoFiber,       \* a null Fiber::ptr; in a queue entry: a callback
    MaxTasks,      \* bound: fibers and callbacks submitted in all
    MaxYields,     \* bound: YieldToReady calls
    MaxWaits,      \* bound: YieldToHold calls
    FiberThrows,   \* a fiber's function may throw
    CbThrows,      \* a callback may throw
    PinnedSpawn,   \* a task may pin a callback to a thread other than its own
    Resubmit       \* in a pool of one thread the owner may schedule a fiber twice

Threads == Workers \cup ({Root} \ {NoThread})

ASSUME SchedulerAssumption ==
    /\ NoThread \notin Workers /\ Root \notin Workers
    /\ AnyThread \notin Threads /\ NoFiber \notin Fibers
    /\ IsFiniteSet(Workers) /\ IsFiniteSet(Fibers)
    /\ MaxTasks \in 0..Cardinality(Fibers)                        \* one object for each task
    /\ MaxYields \in Nat /\ MaxWaits \in Nat
    /\ {FiberThrows, CbThrows, PinnedSpawn, Resubmit} \subseteq BOOLEAN

VARIABLES
    pool,        \* the threads the constructor's thread count asks for
    queue,       \* m_fibers
    active,      \* m_activeThreadCount
    stopFlag,    \* m_stopping
    autostop,    \* m_autostop
    mpc,         \* where the thread that owns the scheduler is
    pc,          \* where each thread is in run()
    ft,          \* the fiber it took, or the fiber it runs a callback on
    viaCb,       \* it is in the callback branch of run()
    cbFiber,     \* cb_fiber, kept for the next callback
    idleTerm,    \* idle_fiber has state TERM
    state,       \* Fiber::m_state; "NONE" before the object exists
    wakers,      \* how many timers, events or threads hold it, to schedule() it later
    finished,    \* history: fibers whose function has returned or thrown
    submitted,   \* history: tasks scheduled so far
    completed,   \* history: tasks whose function has returned or thrown
    yields, waits, \* history: yields so far
    doubled,     \* history: the owner scheduled a fiber twice
    seized       \* history: a thread took a fiber that another one was still parking

fibers == <<state, wakers, finished, completed, yields, waits>>
local == <<pc, ft, viaCb, cbFiber, idleTerm>>
owner == <<mpc, stopFlag, autostop, doubled>>
vars == <<pool, queue, active, owner, local, fibers, submitted, seized>>

FiberStates == {"NONE", "INIT", "HOLD", "EXEC", "TERM", "READY", "EXCEPT"}
Pcs == {"off", "scan", "dispatch", "exec", "park", "leaving", "back", "post", "test",
        "hold", "none", "idle", "exit"}
Entries == [fiber : Fibers \cup {NoFiber}, thread : Threads \cup {AnyThread}]

Runners == pool \cup ({Root} \ {NoThread})   \* the threads that execute run()

TypeOK ==
    /\ pool \subseteq Workers
    /\ queue \in Seq(Entries)
    /\ active \in Nat
    /\ stopFlag \in BOOLEAN /\ autostop \in BOOLEAN
    /\ mpc \in {"init", "user", "stop", "called", "join", "stopped"}
    /\ pc \in [Threads -> Pcs]
    /\ ft \in [Threads -> Fibers \cup {NoFiber}]
    /\ viaCb \in [Threads -> BOOLEAN]
    /\ cbFiber \in [Threads -> Fibers \cup {NoFiber}]
    /\ idleTerm \in [Threads -> BOOLEAN]
    /\ state \in [Fibers -> FiberStates]
    /\ wakers \in [Fibers -> Nat]
    /\ finished \subseteq Fibers
    /\ submitted \in Nat /\ completed \in Nat /\ yields \in Nat /\ waits \in Nat
    /\ doubled \in BOOLEAN /\ seized \in BOOLEAN

Init ==
    /\ pool \in SUBSET Workers /\ Runners # {}
    /\ queue = <<>> /\ active = 0
    /\ stopFlag = TRUE /\ autostop = FALSE /\ mpc = "init"
    /\ pc = [t \in Threads |-> "off"]
    /\ ft = [t \in Threads |-> NoFiber]
    /\ viaCb = [t \in Threads |-> FALSE]
    /\ cbFiber = [t \in Threads |-> NoFiber]
    /\ idleTerm = [t \in Threads |-> FALSE]
    /\ state = [f \in Fibers |-> "NONE"]
    /\ wakers = [f \in Fibers |-> 0]
    /\ finished = {}
    /\ submitted = 0 /\ completed = 0 /\ yields = 0 /\ waits = 0
    /\ doubled = FALSE /\ seized = FALSE

Goto(t, label) == pc' = [pc EXCEPT ![t] = label]
SetState(f, s) == state' = [state EXCEPT ![f] = s]

(* scheduleNoLock: push_back; the tickle that may follow only logs.         *)
Push(f, th) == queue' = Append(queue, [fiber |-> f, thread |-> th])

MutStopping == autostop /\ stopFlag /\ active = 0    \* mutant: the queue is not tested

(* Scheduler::stopping.                                                     *)
Stopping == autostop /\ stopFlag /\ queue = <<>> /\ active = 0

-----------------------------------------------------------------------------
(* The owner: start(), schedule(), stop().                                  *)

Start ==
    /\ mpc = "init"
    /\ mpc' = "user" /\ stopFlag' = FALSE
    /\ pc' = [t \in Threads |-> IF t \in pool THEN "scan" ELSE pc[t]]
    /\ UNCHANGED <<queue, active, autostop, doubled, ft, viaCb, cbFiber, idleTerm, fibers,
                   submitted>>

Submit ==
    /\ mpc \in {"init", "user"} /\ submitted < MaxTasks
    /\ submitted' = submitted + 1
    /\ \E th \in Runners \cup {AnyThread} :
        \/ \E f \in Fibers : /\ state[f] = "NONE"
                             /\ SetState(f, "INIT") /\ Push(f, th)
        \/ Push(NoFiber, th) /\ UNCHANGED state
    /\ UNCHANGED <<active, owner, local, wakers, finished, completed, yields, waits>>

(* schedule() accepts a fiber that is in the queue already.                 *)
SubmitAgain ==
    /\ Resubmit /\ Cardinality(Runners) = 1 /\ mpc \in {"init", "user"} /\ Len(queue) < MaxTasks
    /\ \E f \in Fibers : /\ state[f] = "INIT" /\ \A t \in Threads : cbFiber[t] # f
                         /\ Push(f, AnyThread)
    /\ doubled' = TRUE
    /\ UNCHANGED <<active, mpc, stopFlag, autostop, local, fibers, submitted>>

(* stop() up to the tickles.  Its special case for threadCount = 0 returns  *)
(* when stopping() holds, as the general path does with nothing to join.    *)
Stop ==
    /\ mpc = "user"
    /\ mpc' = "stop" /\ autostop' = TRUE /\ stopFlag' = TRUE
    /\ UNCHANGED <<queue, active, doubled, local, fibers, submitted>>

(* With use_caller the root fiber runs run() on the caller, unless there is *)
(* nothing left to do.                                                      *)
StopCall ==
    /\ mpc = "stop"
    /\ IF Root # NoThread /\ ~Stopping
       THEN mpc' = "called" /\ Goto(Root, "scan")
       ELSE mpc' = "join" /\ UNCHANGED pc
    /\ UNCHANGED <<queue, active, stopFlag, autostop, doubled, ft, viaCb, cbFiber, idleTerm,
                   fibers, submitted>>

StopReturn ==
    /\ mpc = "called" /\ pc[Root] = "exit"
    /\ mpc' = "join"
    /\ UNCHANGED <<queue, active, stopFlag, autostop, doubled, local, fibers, submitted>>

Join ==
    /\ mpc = "join" /\ \A t \in pool : pc[t] = "exit"
    /\ mpc' = "stopped"
    /\ UNCHANGED <<queue, active, stopFlag, autostop, doubled, local, fibers, submitted>>

-----------------------------------------------------------------------------
(* One round of run() on thread t.                                          *)

Takeable(t, e) ==
    /\ e.thread \in {t, AnyThread}
    /\ e.fiber # NoFiber => state[e.fiber] # "EXEC"
FirstTakeable(t, i) ==
    /\ i \in DOMAIN queue /\ Takeable(t, queue[i])
    /\ \A j \in 1..(i - 1) : ~Takeable(t, queue[j])
MutWithout(s, i) == s    \* mutant: the entry stays in the queue
Without(s, i) == [j \in 1..(Len(s) - 1) |-> IF j < i THEN s[j] ELSE s[j + 1]]

Take(t) ==
    /\ pc[t] = "scan"
    /\ \E i \in DOMAIN queue :
        /\ FirstTakeable(t, i)
        /\ ft' = [ft EXCEPT ![t] = queue[i].fiber]
        /\ queue' = Without(queue, i)
    /\ active' = active + 1
    /\ Goto(t, "dispatch")
    /\ UNCHANGED <<owner, viaCb, cbFiber, idleTerm, fibers, submitted>>

TakeNothing(t) ==
    /\ pc[t] = "scan"
    /\ \A i \in DOMAIN queue : ~Takeable(t, queue[i])
    /\ Goto(t, "none")
    /\ UNCHANGED <<queue, active, owner, ft, viaCb, cbFiber, idleTerm, fibers, submitted>>

(* Fiber::swapIn on a fiber that was in the queue.  The tests before it,    *)
(* its assertion and its write are one step: no one else has the fiber then *)
(* unless it was seized, of which nothing is claimed.                       *)
SwapIn(t) ==
    /\ pc[t] = "dispatch" /\ ft[t] # NoFiber
    /\ state[ft[t]] \notin {"TERM", "EXCEPT", "EXEC"}
    /\ SetState(ft[t], "EXEC")
    /\ viaCb' = [viaCb EXCEPT ![t] = FALSE]
    /\ Goto(t, "exec")
    /\ UNCHANGED <<queue, active, owner, ft, cbFiber, idleTerm, wakers, finished, completed,
                   yields, waits, submitted>>

(* The queue held a fiber that has ended meanwhile.                         *)
SkipDead(t) ==
    /\ pc[t] = "dispatch" /\ ft[t] # NoFiber
    /\ state[ft[t]] \in {"TERM", "EXCEPT"}
    /\ active' = active - 1
    /\ ft' = [ft EXCEPT ![t] = NoFiber]
    /\ Goto(t, "none")
    /\ UNCHANGED <<queue, owner, viaCb, cbFiber, idleTerm, fibers, submitted>>

(* The assertion of Fiber::reset.                                           *)
CanReset(f) == state[f] \in {"TERM", "INIT"}

(* A callback: cb_fiber->reset(cb) or a new Fiber; then swapIn.             *)
RunCallback(t) ==
    /\ pc[t] = "dispatch" /\ ft[t] = NoFiber
    /\ \E f \in Fibers :
        /\ \/ cbFiber[t] = f /\ CanReset(f)
           \/ cbFiber[t] = NoFiber /\ state[f] = "NONE"
        /\ SetState(f, "EXEC")
        /\ ft' = [ft EXCEPT ![t] = f]
        /\ cbFiber' = [cbFiber EXCEPT ![t] = f]
        /\ finished' = finished \ {f}
    /\ viaCb' = [viaCb EXCEPT ![t] = TRUE]
    /\ Goto(t, "exec")
    /\ UNCHANGED <<queue, active, owner, idleTerm, wakers, completed, yields, waits, submitted>>

-----------------------------------------------------------------------------
(* What the running fiber does.                                             *)

Spawn(t) ==
    /\ pc[t] = "exec" /\ submitted < MaxTasks
    /\ submitted' = submitted + 1
    /\ \E th \in {AnyThread, t} \cup (IF PinnedSpawn THEN Runners ELSE {}) : Push(NoFiber, th)
    /\ UNCHANGED <<active, owner, local, fibers>>

(* addEvent, or a timer whose callback is schedule(fiber): from here on the *)
(* waker holds a reference and may fire.  YieldToHold is next.              *)
Arm(t) ==
    /\ pc[t] = "exec" /\ waits < MaxWaits
    /\ waits' = waits + 1
    /\ wakers' = [wakers EXCEPT ![ft[t]] = @ + 1]
    /\ Goto(t, "park")
    /\ UNCHANGED <<queue, active, owner, ft, viaCb, cbFiber, idleTerm, state, finished,
                   completed, yields, submitted>>

(* Every way out of a fiber sets m_state first and switches contexts after. *)
Leave(t, s) ==
    /\ SetState(ft[t], s)
    /\ Goto(t, "leaving")
    /\ UNCHANGED <<queue, active, owner, ft, viaCb, cbFiber, idleTerm, wakers, waits, submitted>>

YieldToHold(t) ==
    /\ pc[t] = "park" /\ Leave(t, "HOLD")
    /\ UNCHANGED <<finished, completed, yields>>

YieldToReady(t) ==
    /\ pc[t] = "exec" /\ yields < MaxYields /\ Leave(t, "READY")
    /\ yields' = yields + 1
    /\ UNCHANGED <<finished, completed>>

End(t, s) ==
    /\ pc[t] = "exec" /\ Leave(t, s)
    /\ finished' = finished \cup {ft[t]}
    /\ completed' = completed + 1
    /\ UNCHANGED yields

(* MainFunc: the function returned, or threw.                               *)
Finish(t) == End(t, "TERM")
Throw(t) ==
    /\ (IF viaCb[t] THEN CbThrows ELSE FiberThrows)
    /\ End(t, "EXCEPT")

(* swapcontext has saved the fiber; run() continues behind swapIn.          *)
SwapOut(t) ==
    /\ pc[t] = "leaving"
    /\ Goto(t, "back")
    /\ UNCHANGED <<queue, active, owner, ft, viaCb, cbFiber, idleTerm, fibers, submitted>>

-----------------------------------------------------------------------------
(* Behind swapIn.                                                           *)

(* Mutant: the count is not decremented.                                    *)
MutBackKeeps(t) ==
    /\ pc[t] = "back" /\ Goto(t, "post")
    /\ UNCHANGED <<queue, active, owner, ft, viaCb, cbFiber, idleTerm, fibers, submitted>>

Back(t) ==
    /\ pc[t] = "back"
    /\ active' = active - 1
    /\ Goto(t, "post")
    /\ UNCHANGED <<queue, owner, ft, viaCb, cbFiber, idleTerm, fibers, submitted>>

Drop(t) == ft' = [ft EXCEPT ![t] = NoFiber]
MutDropCbFiber(t) == UNCHANGED cbFiber    \* mutant: cb_fiber.reset() is missing
DropCbFiber(t) ==
    cbFiber' = [cbFiber EXCEPT ![t] = IF viaCb[t] THEN NoFiber ELSE cbFiber[t]]

(* State READY: schedule it again, on any thread.                           *)
Requeue(t) ==
    /\ pc[t] = "post" /\ state[ft[t]] = "READY"
    /\ Push(ft[t], AnyThread)
    /\ Drop(t) /\ DropCbFiber(t) /\ Goto(t, "scan")
    /\ UNCHANGED <<active, owner, viaCb, idleTerm, fibers, submitted>>

NotReady(t) ==
    /\ pc[t] = "post" /\ state[ft[t]] # "READY"
    /\ Goto(t, "test")
    /\ UNCHANGED <<queue, active, owner, ft, viaCb, cbFiber, idleTerm, fibers, submitted>>

(* The function has ended.  A cb_fiber is reset for the next callback, which*)
(* asserts TERM or INIT; a fiber from the queue is let go.                  *)
Ended(t) ==
    /\ pc[t] = "test"
    /\ IF viaCb[t]
       THEN state[ft[t]] = "TERM" /\ SetState(ft[t], "INIT")
       ELSE state[ft[t]] \in {"TERM", "EXCEPT"} /\ UNCHANGED state
    /\ Drop(t) /\ Goto(t, "scan")
    /\ UNCHANGED <<queue, active, owner, viaCb, cbFiber, idleTerm,
                   wakers, finished, completed, yields, waits, submitted>>

(* Not ended when it was read again.  (The code reads twice, for TERM and   *)
(* for EXCEPT; whichever value decides gives the same outcome alone.)  ...  *)
TestHold(t) ==
    /\ pc[t] = "test" /\ state[ft[t]] \notin {"TERM", "EXCEPT"}
    /\ Goto(t, "hold")
    /\ UNCHANGED <<queue, active, owner, ft, viaCb, cbFiber, idleTerm, fibers, submitted>>

(* ... and then HOLD is written, whatever it is by now.                     *)
WriteHold(t) ==
    /\ pc[t] = "hold"
    /\ SetState(ft[t], "HOLD")
    /\ Drop(t) /\ DropCbFiber(t) /\ Goto(t, "scan")
    /\ UNCHANGED <<queue, active, owner, viaCb, idleTerm,
                   wakers, finished, completed, yields, waits, submitted>>

-----------------------------------------------------------------------------
(* Nothing to run.                                                          *)

EnterIdle(t) ==
    /\ pc[t] = "none" /\ ~idleTerm[t]
    /\ Goto(t, "idle")
    /\ UNCHANGED <<queue, active, owner, ft, viaCb, cbFiber, idleTerm, fibers, submitted>>

(* Scheduler::idle: one test of stopping(), then YieldToHold or the end.    *)
Idle(t) ==
    /\ pc[t] = "idle"
    /\ idleTerm' = [idleTerm EXCEPT ![t] = Stopping]
    /\ Goto(t, "scan")
    /\ UNCHANGED <<queue, active, owner, ft, viaCb, cbFiber, fibers, submitted>>

Exit(t) ==
    /\ pc[t] = "none" /\ idleTerm[t]
    /\ Goto(t, "exit")
    /\ UNCHANGED <<queue, active, owner, ft, viaCb, cbFiber, idleTerm, fibers, submitted>>

-----------------------------------------------------------------------------
(* A waker (a timer's callback, an event, another thread) schedules the     *)
(* fiber it holds.  It does not look where the fiber is.                    *)
Wake(f) ==
    /\ wakers[f] > 0
    /\ wakers' = [wakers EXCEPT ![f] = @ - 1]
    /\ Push(f, AnyThread)
    /\ UNCHANGED <<active, owner, local, state, finished, completed, yields, waits, submitted>>

-----------------------------------------------------------------------------
(* The assertions of fiber.cpp; one that fails ends the process.            *)

InQueue(f) == \E i \in DOMAIN queue : queue[i].fiber = f
Referenced(f) ==
    \/ InQueue(f) \/ wakers[f] > 0
    \/ \E t \in Threads : ft[t] = f \/ cbFiber[t] = f

(* The assertion of Fiber::swapIn: the fiber a thread is about to swap in   *)
(* is not being executed by another one.                                    *)
AssertSwapIn ==
    \A t \in Threads : pc[t] = "dispatch" /\ ft[t] # NoFiber => state[ft[t]] # "EXEC"

(* The assertion of Fiber::~Fiber: when the last reference to a fiber that  *)
(* has ended goes away, its state says so.                                  *)
AssertDestructor ==
    \A f \in finished : ~Referenced(f) => state[f] \in {"TERM", "INIT", "EXCEPT"}

(* The assertion of Fiber::reset, which run() calls on cb_fiber before a    *)
(* callback ...                                                             *)
AssertReset ==
    \A t \in Threads :
        pc[t] = "dispatch" /\ ft[t] = NoFiber /\ cbFiber[t] # NoFiber => CanReset(cbFiber[t])

(* ... and behind it, when the callback has ended.                          *)
AssertResetEnded ==
    \A t \in Threads : pc[t] = "test" /\ viaCb[t] => state[ft[t]] # "EXCEPT"

Aborted == ~(AssertSwapIn /\ AssertDestructor /\ AssertReset /\ AssertResetEnded)

-----------------------------------------------------------------------------
Owner == Start \/ Submit \/ SubmitAgain \/ Stop \/ StopCall \/ StopReturn \/ Join
Run(t) ==
    \/ Take(t) \/ TakeNothing(t) \/ SwapIn(t) \/ SkipDead(t) \/ RunCallback(t)
    \/ Spawn(t) \/ Arm(t) \/ YieldToHold(t) \/ YieldToReady(t) \/ Finish(t) \/ Throw(t)
    \/ SwapOut(t) \/ Back(t) \/ Requeue(t) \/ NotReady(t) \/ Ended(t) \/ TestHold(t)
    \/ WriteHold(t) \/ EnterIdle(t) \/ Idle(t) \/ Exit(t)

(* A thread takes a fiber whose last thread has set HOLD and not yet come   *)
(* to the end of its round: from here on two threads may be on one stack.   *)
Parking == {"leaving", "back", "post", "test", "hold"}
Seizes(t) ==
    /\ pc[t] = "scan" /\ ft'[t] # NoFiber
    /\ \E u \in Threads \ {t} : ft[u] = ft'[t] /\ pc[u] \in Parking

Proceeds ==
    /\ ~Aborted /\ UNCHANGED pool
    /\ seized' = (seized \/ \E t \in Threads : Seizes(t))
Terminated ==
    /\ \/ Aborted
       \/ mpc = "stopped" /\ \A t \in Threads : pc[t] \in {"off", "exit"}
    /\ UNCHANGED vars

Next ==
    \/ /\ Owner \/ (\E t \in Threads : Run(t)) \/ (\E f \in Fibers : Wake(f))
       /\ Proceeds
    \/ Terminated

Spec == Init /\ [][Next]_vars

(* The kernel schedules every thread, and once stop() has been called its   *)
(* steps are taken.  Nothing obliges the owner to submit or to stop.        *)
FairSpec ==
    /\ Spec
    /\ \A t \in Threads : WF_vars(Run(t) /\ Proceeds)
    /\ WF_vars((StopCall \/ StopReturn \/ Join) /\ Proceeds)

-----------------------------------------------------------------------------
(* Properties.  After a fiber was seized nothing is claimed but ActiveExact *)
(* (AssertSwapIn says what that leads to).                                  *)

Holding == {"dispatch", "exec", "park", "leaving", "back"}

(* m_activeThreadCount is the number of threads between taking a task and   *)
(* coming back from it: the size_t never wraps below zero and stopping()    *)
(* never sees zero while a thread is inside a task.                         *)
ActiveExact == active = Cardinality({t \in Threads : pc[t] \in Holding})

(* Until a fiber is seized no two threads have the same fiber: taking one   *)
(* that is being parked is the only way there.  And a fiber that some thread*)
(* has is in the queue (so that it can be seized) only from the moment its  *)
(* waker is armed to the end of that round, and once: never one that is     *)
(* about to run, that is READY or that has ended.  An owner who schedules a *)
(* fiber twice (in a pool of one thread) gives up the second part.          *)
Exposed(t) == pc[t] = "park" \/ (pc[t] \in Parking /\ state[ft[t]] = "HOLD")
OneOwner ==
    ~seized =>
        \A f \in Fibers :
            /\ \A t, u \in Threads : ft[t] = f /\ ft[u] = f => t = u
            /\ ~doubled =>
                /\ \A i, j \in DOMAIN queue : queue[i].fiber = f /\ queue[j].fiber = f => i = j
                /\ InQueue(f) =>
                    /\ wakers[f] = 0
                    /\ \A t \in Threads : f \in {ft[t], cbFiber[t]} => ft[t] = f /\ Exposed(t)

(* The assertions of fiber.cpp together, for whatever run() does with a     *)
(* fiber, hold until one is seized: swap it in, reset it for the next       *)
(* callback, let it go.  The one behind a callback that threw is not here:  *)
(* it fails each time (AssertResetEnded).                                   *)
FiberAsserts == ~seized => AssertSwapIn /\ AssertDestructor /\ AssertReset

(* When stop() has returned every task that was ever scheduled has run to   *)
(* its end, although threads may leave while another one still has a READY  *)
(* fiber in its hands.  What can be left are fibers that wait for a waker,  *)
(* which Scheduler::stopping() does not know of and none of which has lost  *)
(* its waker, and callbacks that a task pinned to a thread which had left.  *)
(* (With a fiber scheduled twice any task may be left: a thread whose idle  *)
(* fiber has ended exits when it meets the entry of a dead fiber.)          *)
Left == {i \in DOMAIN queue : queue[i].fiber = NoFiber}
Waiting == {f \in Fibers : state[f] = "HOLD"}
WorkDoneAtStop ==
    mpc = "stopped" /\ ~seized /\ ~doubled =>
        /\ completed + Cardinality(Waiting) + Cardinality(Left) = submitted
        /\ \A f \in Waiting : wakers[f] > 0 \/ InQueue(f)
        /\ \A i \in Left : PinnedSpawn /\ queue[i].thread # AnyThread

(* stop() returns, unless an assertion or a seized fiber comes first or a   *)
(* callback is pinned to a thread that has left, or to the caller when      *)
(* stop() found nothing for it to do: then m_fibers is never empty and the  *)
(* threads that remain idle for ever.                                       *)
Gone == {t \in Threads : pc[t] = "exit" \/ (t = Root /\ mpc = "join" /\ pc[t] = "off")}
Stranded == \E i \in DOMAIN queue : queue[i].thread \in Gone
StopReturns == (mpc = "stop") ~> (mpc = "stopped" \/ Aborted \/ seized \/ Stranded)
=============================================================================
