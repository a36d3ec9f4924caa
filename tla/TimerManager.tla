---------------------------- MODULE TimerManager ----------------------------
(***************************************************************************)
(* Timer and TimerManager (timer.h, timer.cpp) with the threads that wait  *)
(* for them: the idle fibers of IOManager, which ask getNextTimer how long *)
(* to sleep in epoll_wait, collect the expired callbacks and schedule      *)
(* them.  Everything done under m_mutex is one step; what the code does    *)
(* before taking the lock (constructing the Timer, reading the clock, the  *)
(* first emptiness test of listExpiredCb) and after releasing it           *)
(* (onTimerInsertedAtFront, scheduling the callbacks) is a step of its own.*)
(***************************************************************************)
EXTENDS Integers, FiniteSets, FiniteSetsExt

CONSTANTS
    Timers,      \* the Timer objects
    Threads,     \* the threads that run the idle loop
    Periods,     \* the values of ms callers pass
    Hour,        \* 60 * 60 * 1000: the backward jump that counts as rollover
    MaxTimeout,  \* MAX_TIMEOUT of IOManager::idle
    IntMod,      \* 2^32: the conversion of the timeout to int wraps here
    MaxTime,     \* bound: the clock, and every m_next a caller asks for
    MaxJumps,    \* bound: how often the administrator sets the clock back
    MaxCallers   \* bound: callers that are between unlock and notification

ASSUME ConstantsAssumption ==
    /\ Periods \subseteq Nat
    /\ Hour \in Nat \ {0} /\ MaxTimeout \in Nat /\ MaxTime \in Nat /\ MaxJumps \in Nat
    /\ MaxCallers \in Nat
    /\ IntMod \in Nat \ {0}

VARIABLES
    now,         \* GetCurrentMS()
    jumps,       \* history: how often the clock was set back
    status,      \* "free", "made" (constructed, not inserted) or "live"
    ms,          \* Timer::m_ms
    next,        \* Timer::m_next
    cb,          \* Timer::m_cb is not null
    recurring,   \* Timer::m_recurring
    timers,      \* m_timers: entries keyed by the m_next they were inserted at
    tickled,     \* m_tickled
    previous,    \* m_previousTime
    notify,      \* onTimerInsertedAtFront calls between unlock and tickle
    pipe,        \* the tickle pipe has an edge no epoll_wait has consumed
    pc,          \* where each idle thread is
    timeout,     \* what is left of the timeout of its epoll_wait
    nowMs,       \* now_ms of its listExpiredCb
    cbs,         \* the timers whose callbacks it has collected
    fires        \* history: timers collected so far (FireCap saturates)

manager == <<status, ms, next, cb, recurring, timers, tickled, previous, notify>>
clock == <<now, jumps>>
idle == <<pc, timeout, nowMs, cbs>>
vars == <<manager, clock, idle, pipe, fires>>

FireCap == 2        \* bound on the history counter; two is already one too many
Forever == -1       \* a negative timeout: epoll_wait waits for an event only

Entry(tm) == [next |-> next[tm], timer |-> tm]
Queued(tm) == \E e \in timers : e.timer = tm
MutIsLast(e, S) == \A f \in S : f.next <= e.next    \* mutant: comparison reversed
IsFirst(e, S) == \A f \in S : e.next <= f.next
(* The pointers that break ties are arbitrary, so any earliest entry may be *)
(* the one at begin().                                                      *)
FrontNext == Min({e.next : e \in timers})

Pcs == {"next", "wait", "check", "lock", "schedule", "busy"}

TypeOK ==
    /\ now \in Nat /\ jumps \in Nat
    /\ status \in [Timers -> {"free", "made", "live"}]
    /\ ms \in [Timers -> Nat] /\ next \in [Timers -> Nat]
    /\ cb \in [Timers -> BOOLEAN] /\ recurring \in [Timers -> BOOLEAN]
    /\ timers \subseteq [next : Nat, timer : Timers]
    /\ tickled \in BOOLEAN /\ previous \in Nat /\ notify \in Nat
    /\ pipe \in BOOLEAN
    /\ pc \in [Threads -> Pcs]
    /\ timeout \in [Threads -> Int] /\ nowMs \in [Threads -> Nat]
    /\ cbs \in [Threads -> SUBSET Timers]
    /\ fires \in [Timers -> 0..FireCap]

Init ==
    /\ now = 0 /\ jumps = 0
    /\ status = [tm \in Timers |-> "free"]
    /\ ms = [tm \in Timers |-> 0] /\ next = [tm \in Timers |-> 0]
    /\ cb = [tm \in Timers |-> FALSE] /\ recurring = [tm \in Timers |-> FALSE]
    /\ timers = {} /\ tickled = FALSE /\ previous = now /\ notify = 0
    /\ pipe = FALSE
    /\ pc = [t \in Threads |-> "busy"]
    /\ timeout = [t \in Threads |-> 0] /\ nowMs = [t \in Threads |-> 0]
    /\ cbs = [t \in Threads |-> {}]
    /\ fires = [tm \in Timers |-> 0]

-----------------------------------------------------------------------------
(* The callers' operations.                                                 *)

(* Timer::Timer: m_next is computed before addTimer takes the lock.         *)
NewTimer(tm) ==
    /\ status[tm] = "free"
    /\ \E p \in Periods, r \in BOOLEAN :
        /\ now + p <= MaxTime
        /\ ms' = [ms EXCEPT ![tm] = p]
        /\ next' = [next EXCEPT ![tm] = now + p]
        /\ recurring' = [recurring EXCEPT ![tm] = r]
    /\ cb' = [cb EXCEPT ![tm] = TRUE]
    /\ status' = [status EXCEPT ![tm] = "made"]
    /\ UNCHANGED <<timers, tickled, previous, notify, clock, idle, pipe, fires>>

(* addTimer(timer, lock): insert; the first insertion at the front since    *)
(* getNextTimer was last asked owes a notification after the unlock.        *)
InsertEntry(e, S) ==
    LET atFront == IsFirst(e, S) /\ ~tickled IN
    /\ notify < MaxCallers
    /\ \E front \in {atFront, atFront /\ \A f \in S : e.next < f.next} :
        /\ timers' = S \cup {e}
        /\ tickled' = (tickled \/ front)
        /\ notify' = IF front THEN notify + 1 ELSE notify

AddTimer(tm) ==
    /\ status[tm] = "made"
    /\ InsertEntry(Entry(tm), timers)
    /\ status' = [status EXCEPT ![tm] = "live"]
    /\ UNCHANGED <<ms, next, cb, recurring, previous, clock, idle, pipe, fires>>

(* Timer::cancel: m_cb alone decides, the entry is erased unconditionally.  *)
Cancel(tm) ==
    /\ status[tm] = "live" /\ cb[tm]
    /\ cb' = [cb EXCEPT ![tm] = FALSE]
    /\ timers' = timers \ {Entry(tm)}
    /\ UNCHANGED <<status, ms, next, recurring, tickled, previous, notify,
                   clock, idle, pipe, fires>>

(* Timer::refresh: reinserts without looking at the front.                  *)
Refresh(tm) ==
    /\ status[tm] = "live" /\ cb[tm] /\ Entry(tm) \in timers
    /\ now + ms[tm] <= MaxTime
    /\ next' = [next EXCEPT ![tm] = now + ms[tm]]
    /\ timers' = (timers \ {Entry(tm)}) \cup {[next |-> now + ms[tm], timer |-> tm]}
    /\ UNCHANGED <<status, ms, cb, recurring, tickled, previous, notify,
                   clock, idle, pipe, fires>>

(* Timer::reset.  The early return (same period, not from now) is a stutter.*)
Reset(tm) ==
    /\ status[tm] = "live" /\ cb[tm] /\ Entry(tm) \in timers
    /\ \E p \in Periods, fromNow \in BOOLEAN :
        LET start == IF fromNow THEN now ELSE next[tm] - ms[tm] IN
        /\ p # ms[tm] \/ fromNow
        /\ start + p <= MaxTime
        /\ ms' = [ms EXCEPT ![tm] = p]
        /\ next' = [next EXCEPT ![tm] = start + p]
        /\ InsertEntry([next |-> start + p, timer |-> tm], timers \ {Entry(tm)})
    /\ UNCHANGED <<status, cb, recurring, previous, clock, idle, pipe, fires>>

(* Mutant: a notification that nobody owes.                                 *)
MutNotifies ==
    /\ notify' = notify - 1 /\ pipe' = TRUE
    /\ UNCHANGED <<status, ms, next, cb, recurring, timers, tickled, previous,
                   clock, idle, fires>>

(* IOManager::onTimerInsertedAtFront -> tickle: the pipe is written only    *)
(* when hasIdleThreads().                                                   *)
OnTimerInsertedAtFront ==
    /\ notify > 0
    /\ notify' = notify - 1
    /\ pipe' = (pipe \/ \E t \in Threads : pc[t] # "busy")
    /\ UNCHANGED <<status, ms, next, cb, recurring, timers, tickled, previous,
                   clock, idle, fires>>

-----------------------------------------------------------------------------
(* One round of the idle loop.                                              *)

(* (int)next_timeout of IOManager::idle.                                    *)
IntCast(x) == LET r == x % IntMod IN IF 2 * r >= IntMod THEN r - IntMod ELSE r
(* Mutant: a timeout that is too long becomes -1.                           *)
MutClamp(x) == IF IntCast(x) > MaxTimeout THEN Forever ELSE IntCast(x)

(* The clamp compares the int but keeps the unconverted value when it is    *)
(* not larger; the call of epoll_wait converts again.                       *)
Clamp(x) == LET i == IntCast(x) IN
    IF i > MaxTimeout THEN MaxTimeout ELSE IF i < 0 THEN Forever ELSE i

GetNextTimer(t) ==
    /\ pc[t] = "next"
    /\ tickled' = FALSE
    /\ timeout' = [timeout EXCEPT ![t] =
            IF timers = {} THEN MaxTimeout
            ELSE Clamp(IF now >= FrontNext THEN 0 ELSE FrontNext - now)]
    /\ pc' = [pc EXCEPT ![t] = "wait"]
    /\ UNCHANGED <<status, ms, next, cb, recurring, timers, previous, notify,
                   clock, nowMs, cbs, pipe, fires>>

(* epoll_wait returns; listExpiredCb starts by reading the clock.           *)
Return(t) ==
    /\ pc' = [pc EXCEPT ![t] = "check"]
    /\ nowMs' = [nowMs EXCEPT ![t] = now]
    /\ timeout' = [timeout EXCEPT ![t] = 0]
    /\ UNCHANGED <<manager, clock, cbs, fires>>

WakeTimeout(t) == pc[t] = "wait" /\ timeout[t] = 0 /\ Return(t) /\ UNCHANGED pipe
WakeTickle(t) == pc[t] = "wait" /\ pipe /\ pipe' = FALSE /\ Return(t)
WakeEvent(t) == pc[t] = "wait" /\ Return(t) /\ UNCHANGED pipe

(* The read-locked emptiness test of listExpiredCb.                         *)
CheckEmpty(t) ==
    /\ pc[t] = "check"
    /\ pc' = [pc EXCEPT ![t] = IF timers = {} THEN "busy" ELSE "lock"]
    /\ nowMs' = [nowMs EXCEPT ![t] = IF timers = {} THEN 0 ELSE nowMs[t]]
    /\ UNCHANGED <<manager, clock, timeout, cbs, pipe, fires>>

MutRollover(nowms) == nowms < previous    \* mutant: any step back is a rollover
DetectClockRollover(nowms) == nowms < previous /\ nowms < previous - Hour

(* upper_bound(now_timer): ties with now are split by pointer comparison    *)
(* with the freshly allocated now_timer.                                    *)
ExpiredSets(nowms) ==
    IF DetectClockRollover(nowms) THEN {timers}
    ELSE LET due == {e \in timers : e.next < nowms}
             ties == {e \in timers : e.next = nowms}
         IN  {due \cup s : s \in SUBSET ties}

(* m_cb of a one-shot timer that has expired is cleared.                    *)
MutCbAfter(gone) == cb    \* mutant: it is not
CbAfter(gone) == [tm \in Timers |-> cb[tm] /\ (tm \in gone => recurring[tm])]

(* The timers in expired leave the set, the recurring ones for a new time.  *)
Collect(t, expired) ==
    LET gone == {e.timer : e \in expired}
        again == {tm \in gone : recurring[tm]}
        moved == [tm \in Timers |->
                    IF tm \in again THEN nowMs[t] + ms[tm] ELSE next[tm]]
    IN
    /\ next' = moved
    /\ timers' = (timers \ expired) \cup {[next |-> moved[tm], timer |-> tm] : tm \in again}
    /\ cb' = CbAfter(gone)
    /\ cbs' = [cbs EXCEPT ![t] = gone]
    /\ fires' = [tm \in Timers |->
                    IF tm \in gone /\ fires[tm] < FireCap THEN fires[tm] + 1 ELSE fires[tm]]
    /\ pc' = [pc EXCEPT ![t] = IF gone = {} THEN "busy" ELSE "schedule"]

(* The write-locked part of listExpiredCb.                                  *)
ListExpiredCb(t) ==
    /\ pc[t] = "lock"
    /\ \E expired \in ExpiredSets(nowMs[t]) : Collect(t, expired)
    /\ previous' = IF timers = {} THEN previous ELSE nowMs[t]
    /\ nowMs' = [nowMs EXCEPT ![t] = 0]
    /\ UNCHANGED <<status, ms, recurring, tickled, notify, clock, timeout, pipe>>

(* schedule(cbs.begin(), cbs.end()); cbs.clear().                           *)
ScheduleExpired(t) ==
    /\ pc[t] = "schedule"
    /\ cbs' = [cbs EXCEPT ![t] = {}]
    /\ pc' = [pc EXCEPT ![t] = "busy"]
    /\ UNCHANGED <<manager, clock, timeout, nowMs, pipe, fires>>

(* The run loop found the queue empty and swaps the idle fiber in again.    *)
EnterIdle(t) ==
    /\ pc[t] = "busy"
    /\ pc' = [pc EXCEPT ![t] = "next"]
    /\ UNCHANGED <<manager, clock, timeout, nowMs, cbs, pipe, fires>>

-----------------------------------------------------------------------------
(* The clock.  A thread is never suspended for an hour between reading the  *)
(* clock in listExpiredCb and taking the lock.                              *)
Prompt(time) == \A t \in Threads : pc[t] \in {"check", "lock"} => time - nowMs[t] < Hour

Tick ==
    /\ now < MaxTime /\ Prompt(now + 1)
    /\ now' = now + 1
    /\ timeout' = [t \in Threads |->
            IF pc[t] = "wait" /\ timeout[t] > 0 THEN timeout[t] - 1 ELSE timeout[t]]
    /\ UNCHANGED <<manager, jumps, pc, nowMs, cbs, pipe, fires>>

SetClockBack ==
    /\ jumps < MaxJumps
    /\ \E n \in 0..now : n < now /\ now' = n
    /\ jumps' = jumps + 1
    /\ UNCHANGED <<manager, idle, pipe, fires>>

Caller(tm) == NewTimer(tm) \/ AddTimer(tm) \/ Cancel(tm) \/ Refresh(tm) \/ Reset(tm)
IdleThread(t) ==
    \/ GetNextTimer(t) \/ WakeTimeout(t) \/ WakeTickle(t) \/ CheckEmpty(t)
    \/ ListExpiredCb(t) \/ ScheduleExpired(t) \/ EnterIdle(t)

Next ==
    \/ \E tm \in Timers : Caller(tm)
    \/ OnTimerInsertedAtFront
    \/ \E t \in Threads : IdleThread(t) \/ WakeEvent(t)
    \/ Tick
    \/ SetClockBack

Spec == Init /\ [][Next]_vars

(* Idle threads are scheduled by the kernel, epoll_wait returns when its    *)
(* timeout has passed, a caller that inserted a timer finishes its call,    *)
(* and time passes.  Nothing obliges callers to start an operation.         *)
FairSpec ==
    /\ Spec
    /\ \A t \in Threads : WF_vars(IdleThread(t))
    /\ WF_vars(OnTimerInsertedAtFront)
    /\ WF_vars(Tick)

-----------------------------------------------------------------------------
(* Properties.                                                              *)

(* The set holds exactly the inserted timers whose callback is still there, *)
(* each under its current m_next.  Timer::cancel depends on it: it erases   *)
(* the result of find without comparing it with end(), and the search only  *)
(* works while no m_next changes inside the set.                            *)
ActiveIffQueued ==
    timers = {Entry(tm) : tm \in {x \in Timers : status[x] = "live" /\ cb[x]}}

(* A one-shot timer is collected by at most one thread, and once collected  *)
(* it can be neither collected nor successfully cancelled again: cancel and *)
(* listExpiredCb race for it and exactly one of them wins.                  *)
OneShotOnce ==
    \A tm \in Timers : ~recurring[tm] => fires[tm] <= 1 /\ (fires[tm] = 1 => ~cb[tm])

(* The optimisation of m_tickled loses no wake-up: while timers are queued, *)
(* some thread is out of epoll_wait, or the pipe is written or about to be, *)
(* or a sleeper wakes up no later than the first timer is due.  (Once the   *)
(* clock has been set back refresh may move a timer before the sleepers'    *)
(* deadline unannounced; then MAX_TIMEOUT bounds the delay.)                *)
FrontWatched ==
    (timers # {} /\ jumps = 0) =>
        \/ \E t \in Threads : pc[t] # "wait"
        \/ pipe \/ notify > 0
        \/ \E t \in Threads : timeout[t] >= 0
                              /\ (timeout[t] = 0 \/ now + timeout[t] <= FrontNext)

(* While nobody has set the clock back no timer is collected before its     *)
(* m_next, although listExpiredCb reads the clock before it has the lock and*)
(* m_previousTime is written by several threads in any order.               *)
NeverEarly ==
    [][jumps = 0 => \A t \in Threads : \A tm \in cbs'[t] \ cbs[t] : next[tm] <= now]_vars

(* A queued timer whose time comes within the modelled horizon is collected,*)
(* cancelled or moved: no wake-up is lost for good.                         *)
TimerFires ==
    \A tm \in Timers : (Queued(tm) /\ next[tm] < MaxTime)
                          ~> (~Queued(tm) \/ next[tm] >= MaxTime)
=============================================================================
