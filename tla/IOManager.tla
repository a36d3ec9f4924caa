----------------------------- MODULE IOManager ------------------------------
(***************************************************************************)
(* IOManager as a whole (iomanager.cpp over scheduler.cpp and timer.cpp):   *)
(* how the threads of the pool fall asleep in epoll_wait, are woken by the  *)
(* tickle pipe, feed the queue with expired timers and ready events, and    *)
(* leave after stop().  It composes the run loop of Scheduler with idle(),  *)
(* tickle() and stopping() of IOManager; the inside of a timer, of an fd    *)
(* context and of a fiber, which TimerManager, FdEvents and Scheduler       *)
(* model, is reduced to how many there are.                                 *)
(***************************************************************************)
EXTENDS Naturals, FiniteSets

CONSTANTS
    Threads,    \* the worker threads
    MaxTasks,   \* bound: schedule() calls by the owner and by tasks
    MaxTimers,  \* bound: timers added by tasks
    MaxWaits,   \* bound: events waited for by tasks
    MaxYields   \* bound: YieldToReady calls

ASSUME IOManagerAssumption ==
    /\ IsFiniteSet(Threads) /\ Threads # {}    \* asserted by the constructor
    /\ {MaxTasks, MaxTimers, MaxWaits, MaxYields} \subseteq Nat

VARIABLES
    queue,      \* m_fibers.size()
    active,     \* m_activeThreadCount
    idle,       \* m_idleThreadCount
    pending,    \* m_pendingEventCount
    timers,     \* timers in m_timers that are not due yet
    due,        \* timers in m_timers whose time has come
    parked,     \* registered events whose condition does not hold
    hot,        \* registered events on the ready list of epoll
    pipe,       \* the tickle pipe is on the ready list of epoll
    stopFlag,   \* m_autostop and m_stopping
    mpc,        \* where the owner is
    pc, ret,    \* where each thread is; where it goes after tickle()
    idleTerm,   \* its idle fiber has ended
    cbs, got,   \* expired callbacks and events it has collected
    used        \* history: how much of each bound is used up

counts == <<queue, active, idle, pending>>
sources == <<timers, due, parked, hot>>
local == <<pc, ret, idleTerm, cbs, got>>
vars == <<counts, sources, pipe, stopFlag, mpc, local, used>>

Bound == [tasks |-> MaxTasks, timers |-> MaxTimers, waits |-> MaxWaits, yields |-> MaxYields]
Pcs == {"scan", "run", "back", "yielded", "requeue", "none", "timer?", "pending?",
        "queue?", "wait", "expire", "timers", "events", "counted", "leave",
        "tickle", "exit"}

TypeOK ==
    /\ {queue, active, idle, pending, timers, due, parked, hot} \subseteq Nat
    /\ pipe \in BOOLEAN /\ stopFlag \in BOOLEAN
    /\ mpc \in {"user", "tickle", "stop", "join", "stopped"}
    /\ pc \in [Threads -> Pcs] /\ ret \in [Threads -> Pcs]
    /\ idleTerm \in [Threads -> BOOLEAN]
    /\ cbs \in [Threads -> Nat] /\ got \in [Threads -> Nat]
    /\ used \in [DOMAIN Bound -> Nat]

Init ==
    /\ queue = 0 /\ active = 0 /\ idle = 0 /\ pending = 0
    /\ timers = 0 /\ due = 0 /\ parked = 0 /\ hot = 0
    /\ pipe = FALSE /\ stopFlag = FALSE /\ mpc = "user"
    /\ pc = [t \in Threads |-> "scan"] /\ ret = [t \in Threads |-> "scan"]
    /\ idleTerm = [t \in Threads |-> FALSE]
    /\ cbs = [t \in Threads |-> 0] /\ got = [t \in Threads |-> 0]
    /\ used = [b \in DOMAIN Bound |-> 0]

Goto(t, label) == pc' = [pc EXCEPT ![t] = label] /\ UNCHANGED ret
Use(b) == used[b] < Bound[b] /\ used' = [used EXCEPT ![b] = @ + 1]

(* schedule() on thread t: n tasks are pushed under the lock; only a queue  *)
(* that was empty is announced, after the unlock.                           *)
ScheduleThen(t, n, label) ==
    /\ queue' = queue + n
    /\ IF queue = 0
       THEN pc' = [pc EXCEPT ![t] = "tickle"] /\ ret' = [ret EXCEPT ![t] = label]
       ELSE Goto(t, label)

(* IOManager::tickle: nobody idle, nobody to wake.                          *)
WritePipe == pipe' = (pipe \/ idle > 0)

Tickle(t) ==
    /\ pc[t] = "tickle"
    /\ WritePipe
    /\ pc' = [pc EXCEPT ![t] = ret[t]] /\ ret' = [ret EXCEPT ![t] = "scan"]
    /\ UNCHANGED <<counts, sources, stopFlag, mpc, idleTerm, cbs, got, used>>

-----------------------------------------------------------------------------
(* Scheduler::run.                                                          *)

Take(t) ==
    /\ pc[t] = "scan" /\ queue > 0
    /\ queue' = queue - 1 /\ active' = active + 1
    /\ Goto(t, "run")
    /\ UNCHANGED <<idle, pending, sources, pipe, stopFlag, mpc, idleTerm, cbs, got, used>>

TakeNothing(t) ==
    /\ pc[t] = "scan" /\ queue = 0
    /\ Goto(t, "none")
    /\ UNCHANGED <<counts, sources, pipe, stopFlag, mpc, idleTerm, cbs, got, used>>

(* What a task does: schedule another one, ...                              *)
Spawn(t) ==
    /\ pc[t] = "run" /\ Use("tasks")
    /\ ScheduleThen(t, 1, "run")
    /\ UNCHANGED <<active, idle, pending, sources, pipe, stopFlag, mpc, idleTerm, cbs, got>>

(* ... add a timer, at the front or not, ...                                *)
AddTimer(t) ==
    /\ pc[t] = "run" /\ Use("timers")
    /\ timers' = timers + 1
    /\ \E front \in BOOLEAN :
        IF front THEN pc' = [pc EXCEPT ![t] = "tickle"] /\ ret' = [ret EXCEPT ![t] = "run"]
                 ELSE Goto(t, "run")
    /\ UNCHANGED <<counts, due, parked, hot, pipe, stopFlag, mpc, idleTerm, cbs, got>>

(* ... register an event and yield until it is triggered, ...               *)
AwaitEvent(t) ==
    /\ pc[t] = "run" /\ Use("waits")
    /\ pending' = pending + 1 /\ parked' = parked + 1
    /\ Goto(t, "back")
    /\ UNCHANGED <<queue, active, idle, timers, due, hot, pipe, stopFlag, mpc, idleTerm, cbs, got>>

(* ... yield its turn, or end.                                              *)
YieldToReady(t) ==
    /\ pc[t] = "run" /\ Use("yields")
    /\ Goto(t, "yielded")
    /\ UNCHANGED <<counts, sources, pipe, stopFlag, mpc, idleTerm, cbs, got>>

Finish(t) ==
    /\ pc[t] = "run"
    /\ Goto(t, "back")
    /\ UNCHANGED <<counts, sources, pipe, stopFlag, mpc, idleTerm, cbs, got, used>>

(* Behind swapIn the count drops first; a READY fiber is scheduled after.   *)
Back(t) ==
    /\ pc[t] \in {"back", "yielded"}
    /\ active' = active - 1
    /\ Goto(t, IF pc[t] = "back" THEN "scan" ELSE "requeue")
    /\ UNCHANGED <<queue, idle, pending, sources, pipe, stopFlag, mpc, idleTerm, cbs, got, used>>

Requeue(t) ==
    /\ pc[t] = "requeue"
    /\ ScheduleThen(t, 1, "scan")
    /\ UNCHANGED <<active, idle, pending, sources, pipe, stopFlag, mpc, idleTerm, cbs, got, used>>

EnterIdle(t) ==
    /\ pc[t] = "none" /\ ~idleTerm[t]
    /\ idle' = idle + 1
    /\ Goto(t, "timer?")
    /\ UNCHANGED <<queue, active, pending, sources, pipe, stopFlag, mpc, idleTerm, cbs, got, used>>

(* The idle fiber has ended: wake the next thread and leave run().          *)
Exit(t) ==
    /\ pc[t] = "none" /\ idleTerm[t]
    /\ WritePipe
    /\ Goto(t, "exit")
    /\ UNCHANGED <<counts, sources, stopFlag, mpc, idleTerm, cbs, got, used>>

-----------------------------------------------------------------------------
(* IOManager::stopping: three reads, one after the other.                   *)

TestTimers(t) ==
    /\ pc[t] = "timer?"
    /\ Goto(t, IF timers + due = 0 THEN "pending?" ELSE "wait")
    /\ UNCHANGED <<counts, sources, pipe, stopFlag, mpc, idleTerm, cbs, got, used>>

TestPending(t) ==
    /\ pc[t] = "pending?"
    /\ Goto(t, IF pending = 0 THEN "queue?" ELSE "wait")
    /\ UNCHANGED <<counts, sources, pipe, stopFlag, mpc, idleTerm, cbs, got, used>>

(* Scheduler::stopping, under m_mutex.                                      *)
TestQueue(t) ==
    LET stopping == stopFlag /\ queue = 0 /\ active = 0 IN
    /\ pc[t] = "queue?"
    /\ idleTerm' = [idleTerm EXCEPT ![t] = stopping]
    /\ Goto(t, IF stopping THEN "leave" ELSE "wait")
    /\ UNCHANGED <<counts, sources, pipe, stopFlag, mpc, cbs, got, used>>

(* epoll_wait, with what is on the ready list ...                           *)
EpollReady(t) ==
    /\ pc[t] = "wait" /\ (pipe \/ hot > 0)
    /\ pipe' = FALSE /\ hot' = 0
    /\ got' = [got EXCEPT ![t] = hot]
    /\ Goto(t, "expire")
    /\ UNCHANGED <<counts, timers, due, parked, stopFlag, mpc, idleTerm, cbs, used>>

(* Mutant: without a limit of MAX_TIMEOUT.                                  *)
MutEpollTimeout(t) ==
    /\ pc[t] = "wait" /\ ~pipe /\ hot = 0 /\ due > 0
    /\ Goto(t, "expire")
    /\ UNCHANGED <<counts, sources, pipe, stopFlag, mpc, idleTerm, cbs, got, used>>

(* ... or after the time to the first timer, or MAX_TIMEOUT.                *)
EpollTimeout(t) ==
    /\ pc[t] = "wait" /\ ~pipe /\ hot = 0
    /\ Goto(t, "expire")
    /\ UNCHANGED <<counts, sources, pipe, stopFlag, mpc, idleTerm, cbs, got, used>>

ListExpiredCb(t) ==
    /\ pc[t] = "expire"
    /\ cbs' = [cbs EXCEPT ![t] = due] /\ due' = 0
    /\ Goto(t, IF due > 0 THEN "timers" ELSE "events")
    /\ UNCHANGED <<counts, timers, parked, hot, pipe, stopFlag, mpc, idleTerm, got, used>>

ScheduleExpired(t) ==
    /\ pc[t] = "timers"
    /\ cbs' = [cbs EXCEPT ![t] = 0]
    /\ ScheduleThen(t, cbs[t], "events")
    /\ UNCHANGED <<active, idle, pending, sources, pipe, stopFlag, mpc, idleTerm, got, used>>

(* triggerEvent schedules the waiter first; the count drops after it.       *)
TriggerEvent(t) ==
    /\ pc[t] = "events" /\ got[t] > 0
    /\ ScheduleThen(t, 1, "counted")
    /\ UNCHANGED <<active, idle, pending, sources, pipe, stopFlag, mpc, idleTerm, cbs, got, used>>

(* Mutant: counted in triggerEvent and again in idle().                     *)
MutCountEvent(t) ==
    /\ pc[t] = "counted" /\ Goto(t, "events")
    /\ pending' = pending - 2 /\ got' = [got EXCEPT ![t] = @ - 1]
    /\ UNCHANGED <<queue, active, idle, sources, pipe, stopFlag, mpc, idleTerm, cbs, used>>

CountEvent(t) ==
    /\ pc[t] = "counted"
    /\ pending' = pending - 1
    /\ got' = [got EXCEPT ![t] = @ - 1]
    /\ Goto(t, "events")
    /\ UNCHANGED <<queue, active, idle, sources, pipe, stopFlag, mpc, idleTerm, cbs, used>>

(* swapOut, and run() takes the thread off the idle ones.                   *)
LeaveIdle(t) ==
    /\ pc[t] = "leave" \/ (pc[t] = "events" /\ got[t] = 0)
    /\ idle' = idle - 1
    /\ Goto(t, "scan")
    /\ UNCHANGED <<queue, active, pending, sources, pipe, stopFlag, mpc, idleTerm, cbs, got, used>>

-----------------------------------------------------------------------------
(* The world: time passes and conditions arise.                             *)

TimerDue ==
    /\ timers > 0
    /\ timers' = timers - 1 /\ due' = due + 1
    /\ UNCHANGED <<counts, parked, hot, pipe, stopFlag, mpc, local, used>>

EventArises ==
    /\ parked > 0
    /\ parked' = parked - 1 /\ hot' = hot + 1
    /\ UNCHANGED <<counts, timers, due, pipe, stopFlag, mpc, local, used>>

(* The owner: schedule(), and stop(), which the destructor calls.           *)
Submit ==
    /\ mpc = "user" /\ Use("tasks")
    /\ queue' = queue + 1
    /\ mpc' = IF queue = 0 THEN "tickle" ELSE "user"
    /\ UNCHANGED <<active, idle, pending, sources, pipe, stopFlag, local>>

SubmitTickle ==
    /\ mpc = "tickle"
    /\ WritePipe /\ mpc' = "user"
    /\ UNCHANGED <<counts, sources, stopFlag, local, used>>

Stop ==
    /\ mpc = "user"
    /\ stopFlag' = TRUE /\ mpc' = "stop"
    /\ UNCHANGED <<counts, sources, pipe, local, used>>

(* One tickle for each thread: on the ready list they are one.              *)
StopTickle ==
    /\ mpc = "stop"
    /\ WritePipe /\ mpc' = "join"
    /\ UNCHANGED <<counts, sources, stopFlag, local, used>>

(* Mutant: the threads are not joined.                                      *)
MutJoin ==
    /\ mpc = "join" /\ mpc' = "stopped"
    /\ UNCHANGED <<counts, sources, pipe, stopFlag, local, used>>

Join ==
    /\ mpc = "join" /\ \A t \in Threads : pc[t] = "exit"
    /\ mpc' = "stopped"
    /\ UNCHANGED <<counts, sources, pipe, stopFlag, local, used>>

Run(t) ==
    \/ Tickle(t) \/ Take(t) \/ TakeNothing(t) \/ Spawn(t) \/ AddTimer(t) \/ AwaitEvent(t)
    \/ YieldToReady(t) \/ Finish(t) \/ Back(t) \/ Requeue(t) \/ EnterIdle(t) \/ Exit(t)
    \/ TestTimers(t) \/ TestPending(t) \/ TestQueue(t) \/ EpollReady(t) \/ EpollTimeout(t)
    \/ ListExpiredCb(t) \/ ScheduleExpired(t) \/ TriggerEvent(t) \/ CountEvent(t) \/ LeaveIdle(t)
Owner == Submit \/ SubmitTickle \/ Stop \/ StopTickle \/ Join
Stopped == mpc = "stopped" /\ UNCHANGED vars

Next == (\E t \in Threads : Run(t)) \/ TimerDue \/ EventArises \/ Owner \/ Stopped

Spec == Init /\ [][Next]_vars

(* Threads are scheduled and epoll_wait returns after its timeout; calls of *)
(* the owner that have begun go on; time passes and, for stop() to have an  *)
(* end, every event that is waited for arises.                              *)
FairSpec ==
    /\ Spec
    /\ \A t \in Threads : WF_vars(Run(t))
    /\ WF_vars(SubmitTickle \/ StopTickle \/ Join)
    /\ WF_vars(TimerDue) /\ WF_vars(EventArises)

-----------------------------------------------------------------------------
(* Properties.                                                              *)

(* Where a thread is, across the tickle() that may come between.            *)
At(t) == IF pc[t] = "tickle" THEN ret[t] ELSE pc[t]
InTask(t) == At(t) \in {"run", "back", "yielded"}
InIdle(t) == At(t) \in {"timer?", "pending?", "queue?", "wait", "expire", "timers",
                        "events", "counted", "leave"}

(* The waiters that threads have collected from epoll_wait, numbered.       *)
Held == {p \in Threads \X (1..MaxWaits) : p[2] <= got[p[1]]}

(* The three counters that stopping() and tickle() rely on are exact in     *)
(* every interleaving: threads inside a task, threads inside idle(), and    *)
(* waiters that are registered or in the hands of a thread that has not     *)
(* finished with them.                                                      *)
CountsExact ==
    /\ active = Cardinality({t \in Threads : InTask(t)})
    /\ idle = Cardinality({t \in Threads : InIdle(t)})
    /\ pending = parked + hot + Cardinality(Held)

(* When stop() has returned every task that was handed to the scheduler has *)
(* been run and no thread has left with callbacks or events it collected.   *)
DrainedAtStop ==
    mpc = "stopped" => queue = 0 /\ \A t \in Threads : cbs[t] = 0 /\ got[t] = 0

(* Every queued task is eventually taken: a lost tickle costs at most       *)
(* MAX_TIMEOUT.                                                             *)
WorkRuns == (queue > 0) ~> (queue = 0)

(* stop() returns.                                                          *)
StopReturns == (mpc = "stop") ~> (mpc = "stopped")
=============================================================================
