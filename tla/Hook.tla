-------------------------------- MODULE Hook --------------------------------
(***************************************************************************)
(* The hooked blocking calls (hook.cpp): do_io, behind read, write, accept, *)
(* send, recv and their variants, and connect_with_timeout.  One fiber      *)
(* makes a series of calls on one descriptor number and one event; the      *)
(* other threads of the IOManager trigger the event it registered and run   *)
(* the callbacks of its timers, in any order and overlapping with it.  Each *)
(* timer belongs to the call that armed it: its callback holds a weak       *)
(* reference to the tinfo of that call.  That run() and a waker may collide *)
(* on a yielding fiber is the subject of Scheduler; here a fiber that was   *)
(* handed to the scheduler is resumed once it is parked.                    *)
(***************************************************************************)
EXTENDS Naturals

CONSTANTS
    MaxCalls,      \* bound: calls the fiber makes
    Kind,          \* Kind[c]: "io" (do_io) or "connect" (connect_with_timeout)
    MayFail,       \* addEvent may return -1
    EarlyExpiry,   \* a timer may expire before its call has reached addEvent
    MaxTimers      \* bound: timers armed in all, one for each wait

Calls == 1..MaxCalls
TimerIds == 1..MaxTimers

ASSUME HookAssumption ==
    /\ MaxCalls \in Nat \ {0} /\ MaxTimers \in Nat
    /\ Kind \in [Calls -> {"io", "connect"}]
    /\ MayFail \in BOOLEAN /\ EarlyExpiry \in BOOLEAN

VARIABLES
    pc,          \* where the fiber is
    call,        \* the call it makes
    to,          \* that call has a timeout (to # -1)
    cancelled,   \* tinfo->cancelled of each call
    result,      \* "none", "ok", "error" or "timeout" for each call
    truth,       \* history: the state of the fd when the call returned, or
                 \* "unwatched" when its addEvent had failed
    used,        \* timers armed so far; the last one is the current one
    timer,       \* what became of each timer
    owner,       \* the call that armed it
    disturbed,   \* history: calls whose wait the timer of an earlier call ended
    registered,  \* the event is registered with this fiber as its waiter
    resumable,   \* the fiber was handed to the scheduler
    fd           \* "idle", "ready" (data, room, connected) or "broken"

vars == <<pc, call, to, cancelled, result, truth, used, timer, owner, disturbed,
          registered, resumable, fd>>

Pcs == {"call", "timer", "event", "held", "resumed", "test", "returned"}
FdStates == {"idle", "ready", "broken"}
TimerStates == {"none", "armed", "disarmed", "expired", "tested", "cancelling", "over"}

(* The type of the state.                                                   *)
TypeOK ==
    /\ pc \in Pcs /\ call \in Calls /\ to \in BOOLEAN
    /\ cancelled \in [Calls -> BOOLEAN]
    /\ result \in [Calls -> {"none", "ok", "error", "timeout"}]
    /\ truth \in [Calls -> FdStates \cup {"unwatched"}]
    /\ used \in 0..MaxTimers
    /\ timer \in [TimerIds -> TimerStates]
    /\ owner \in [TimerIds -> 0..MaxCalls]
    /\ disturbed \subseteq Calls
    /\ registered \in BOOLEAN /\ resumable \in BOOLEAN /\ fd \in FdStates

Init ==
    /\ pc = "call" /\ call = 1 /\ to \in BOOLEAN
    /\ cancelled = [c \in Calls |-> FALSE]
    /\ result = [c \in Calls |-> "none"]
    /\ truth = [c \in Calls |-> "idle"]
    /\ used = 0
    /\ timer = [i \in TimerIds |-> "none"]
    /\ owner = [i \in TimerIds |-> 0]
    /\ disturbed = {}
    /\ registered = FALSE /\ resumable = FALSE /\ fd = "idle"

-----------------------------------------------------------------------------
(* The fiber.                                                               *)

(* The tinfo of a call lives until the call returns.                        *)
Alive(c) == c = call /\ pc # "returned"

ReturnAs(r, state) ==
    /\ pc' = "returned"
    /\ result' = [result EXCEPT ![call] = r]
    /\ truth' = [truth EXCEPT ![call] = state]
Return(r) == ReturnAs(r, fd)

MutNoError == "ok"      \* mutant: SO_ERROR is ignored

(* What a call on the fd reports: getsockopt(SO_ERROR) is 0 while a         *)
(* connection is still being set up.                                        *)
SoError == IF fd = "broken" THEN "error" ELSE "ok"

(* The system call does not block; do_io takes the data with it.            *)
CallReturns ==
    /\ pc = "call" /\ fd # "idle"
    /\ Return(SoError)
    /\ fd' = IF Kind[call] = "io" /\ fd = "ready" THEN "idle" ELSE fd
    /\ UNCHANGED <<call, to, cancelled, used, timer, owner, disturbed, registered,
                   resumable>>

(* EAGAIN, EINPROGRESS.                                                     *)
CallBlocks ==
    /\ pc = "call" /\ fd = "idle"
    /\ pc' = IF to THEN "timer" ELSE "event"
    /\ UNCHANGED <<call, to, cancelled, result, truth, used, timer, owner, disturbed,
                   registered, resumable, fd>>

(* addConditionTimer, before the event is registered.                       *)
ArmTimer ==
    /\ pc = "timer" /\ used < MaxTimers
    /\ used' = used + 1
    /\ timer' = [timer EXCEPT ![used + 1] = "armed"]
    /\ owner' = [owner EXCEPT ![used + 1] = call]
    /\ pc' = "event"
    /\ UNCHANGED <<call, to, cancelled, result, truth, disturbed, registered, resumable,
                   fd>>

(* timer->cancel() of the current wait; it comes too late for a timer that  *)
(* listExpiredCb has taken.                                                 *)
Disarm ==
    timer' = [i \in TimerIds |->
                IF to /\ i = used /\ timer[i] = "armed" THEN "disarmed" ELSE timer[i]]

(* addEvent, then YieldToHold.                                              *)
AddEvent ==
    /\ pc = "event"
    /\ registered' = TRUE
    /\ pc' = "held"
    /\ UNCHANGED <<call, to, cancelled, result, truth, used, timer, owner, disturbed,
                   resumable, fd>>

(* addEvent fails.  do_io returns -1; connect_with_timeout goes on to ask   *)
(* for SO_ERROR.                                                            *)
AddEventFails ==
    /\ pc = "event" /\ MayFail
    /\ Disarm
    /\ ReturnAs(IF Kind[call] = "connect" THEN SoError ELSE "error", "unwatched")
    /\ UNCHANGED <<call, to, cancelled, used, owner, disturbed, registered, resumable,
                   fd>>

Resume ==
    /\ pc = "held" /\ resumable
    /\ resumable' = FALSE
    /\ pc' = "resumed"
    /\ UNCHANGED <<call, to, cancelled, result, truth, used, timer, owner, disturbed,
                   registered, fd>>

CancelTimer ==
    /\ pc = "resumed"
    /\ Disarm
    /\ pc' = "test"
    /\ UNCHANGED <<call, to, cancelled, result, truth, used, owner, disturbed,
                   registered, resumable, fd>>

(* tinfo->cancelled decides: the call has timed out ...                     *)
TimedOut ==
    /\ pc = "test" /\ cancelled[call]
    /\ Return("timeout")
    /\ UNCHANGED <<call, to, cancelled, used, timer, owner, disturbed, registered,
                   resumable, fd>>

(* ... or do_io tries again, and connect asks for SO_ERROR.                 *)
Retry ==
    /\ pc = "test" /\ ~cancelled[call] /\ Kind[call] = "io"
    /\ pc' = "call"
    /\ UNCHANGED <<call, to, cancelled, result, truth, used, timer, owner, disturbed,
                   registered, resumable, fd>>

Connected ==
    /\ pc = "test" /\ ~cancelled[call] /\ Kind[call] = "connect"
    /\ Return(SoError)
    /\ UNCHANGED <<call, to, cancelled, used, timer, owner, disturbed, registered,
                   resumable, fd>>

(* The caller goes on.  A connect that follows is made on a new socket,     *)
(* which gets the number of the closed one.                                 *)
NextCall ==
    /\ pc = "returned" /\ call < MaxCalls
    /\ call' = call + 1 /\ pc' = "call" /\ to' \in BOOLEAN
    /\ fd' = IF Kind[call + 1] = "connect" THEN "idle" ELSE fd
    /\ UNCHANGED <<cancelled, result, truth, used, timer, owner, disturbed, registered,
                   resumable>>

-----------------------------------------------------------------------------
(* The other threads.                                                       *)

(* Mutants: a waiter is scheduled that is not registered, or none at all.   *)
MutWakesAlways == registered' = FALSE /\ resumable' = TRUE
MutWakesNobody == registered' = FALSE /\ UNCHANGED resumable

(* triggerEvent, or a cancelEvent, which does nothing without the event.    *)
TriggerWaiter == registered' = FALSE /\ resumable' = (resumable \/ registered)

(* idle() triggers the event whose condition holds.                         *)
EventTriggered ==
    /\ registered /\ fd # "idle"
    /\ TriggerWaiter
    /\ UNCHANGED <<pc, call, to, cancelled, result, truth, used, timer, owner,
                   disturbed, fd>>

(* listExpiredCb takes the timer.                                           *)
TimerExpires(i) ==
    /\ timer[i] = "armed"
    /\ EarlyExpiry \/ i < used \/ pc # "event"
    /\ timer' = [timer EXCEPT ![i] = "expired"]
    /\ UNCHANGED <<pc, call, to, cancelled, result, truth, used, owner, disturbed,
                   registered, resumable, fd>>

(* Its callback: winfo.lock(), and the test of t->cancelled ...             *)
CallbackTests(i) ==
    /\ timer[i] = "expired"
    /\ timer' = [timer EXCEPT ![i] =
                   IF Alive(owner[i]) /\ ~cancelled[owner[i]] THEN "tested" ELSE "over"]
    /\ UNCHANGED <<pc, call, to, cancelled, result, truth, used, owner, disturbed,
                   registered, resumable, fd>>

(* Mutant: one tinfo for all calls on the fd.                               *)
MutCallbackSets(i) ==
    /\ timer[i] = "tested"
    /\ cancelled' = [cancelled EXCEPT ![call] = TRUE]
    /\ timer' = [timer EXCEPT ![i] = "cancelling"]
    /\ UNCHANGED <<pc, call, to, result, truth, used, owner, disturbed, registered,
                   resumable, fd>>

(* ... t->cancelled = ETIMEDOUT ...                                         *)
CallbackSets(i) ==
    /\ timer[i] = "tested"
    /\ cancelled' = [cancelled EXCEPT ![owner[i]] = TRUE]
    /\ timer' = [timer EXCEPT ![i] = "cancelling"]
    /\ UNCHANGED <<pc, call, to, result, truth, used, owner, disturbed, registered,
                   resumable, fd>>

(* ... and iom->cancelEvent(fd, event): it triggers whoever is registered   *)
(* for that number by now, which may be a later call.                       *)
CallbackCancels(i) ==
    /\ timer[i] = "cancelling"
    /\ timer' = [timer EXCEPT ![i] = "over"]
    /\ TriggerWaiter
    /\ disturbed' = disturbed \cup {c \in {call} : registered /\ owner[i] # c}
    /\ UNCHANGED <<pc, call, to, cancelled, result, truth, used, owner, fd>>

(* The peer sends, reads, accepts or refuses; what was ready may be gone    *)
(* again (a connection reset before accept).                                *)
FdChanges ==
    /\ fd' \in FdStates \ {fd}
    /\ fd # "broken" /\ (fd = "ready" => Kind[call] = "io")
    /\ UNCHANGED <<pc, call, to, cancelled, result, truth, used, timer, owner,
                   disturbed, registered, resumable>>

Fiber ==
    \/ CallReturns \/ CallBlocks \/ ArmTimer \/ AddEvent \/ AddEventFails \/ Resume
    \/ CancelTimer \/ TimedOut \/ Retry \/ Connected \/ NextCall

TimerThread(i) ==
    TimerExpires(i) \/ CallbackTests(i) \/ CallbackSets(i) \/ CallbackCancels(i)

(* The last call has returned, or the bound on the timers is reached.       *)
Over ==
    /\ \/ pc = "returned" /\ call = MaxCalls
       \/ pc = "timer" /\ used = MaxTimers
    /\ UNCHANGED vars

(* A call without a timeout waits for a peer that need not do anything.     *)
Next ==
    \/ Fiber
    \/ EventTriggered
    \/ \E i \in TimerIds : TimerThread(i)
    \/ FdChanges
    \/ Over

Spec == Init /\ [][Next]_vars

(* Fibers and threads run, and time passes.  The peer need not do anything, *)
(* and an event that lasts, or keeps arising, is triggered.                 *)
FairSpec ==
    /\ Spec
    /\ WF_vars(Fiber) /\ SF_vars(EventTriggered)
    /\ \A i \in TimerIds : WF_vars(TimerThread(i))

-----------------------------------------------------------------------------
(* Properties.                                                              *)

(* No wake-up outlives its wait: when a call starts over or has returned    *)
(* (do_io, connect_with_timeout), its event is not registered and the fiber *)
(* is not in the queue a second time, or it would be resumed in the middle  *)
(* of something else.                                                       *)
NoStrayWake == pc \in {"call", "returned"} => ~registered /\ ~resumable

(* A call reports ETIMEDOUT only when the callback of a timer that it armed *)
(* itself ran: the callbacks of earlier calls cannot make it fail, however  *)
(* late they run.                                                           *)
OwnTimeout ==
    \A c \in Calls : result[c] = "timeout" =>
        \E i \in TimerIds : owner[i] = c /\ timer[i] \in {"cancelling", "over"}

(* connect_with_timeout returns 0 only for a connection that exists, with   *)
(* two exceptions in which SO_ERROR of a connection that is still being set *)
(* up is taken for success: addEvent failed, or a callback that an earlier  *)
(* call on the same number had armed ended the wait.  Nothing else does: no *)
(* timer of its own, and no event.                                          *)
ConnectSound ==
    \A c \in Calls : Kind[c] = "connect" /\ result[c] = "ok" =>
        truth[c] \in {"ready", "unwatched"} \/ c \in disturbed

(* A wait with a timeout ends, whatever the peer does: the timer of do_io   *)
(* or connect_with_timeout wakes the fiber if the event does not.  (A timer *)
(* that expired before addEvent registered the event is spent, and so is    *)
(* every later timer of a call that an expired one has marked cancelled.)   *)
WaitEnds ==
    \A i \in TimerIds :
        (pc = "held" /\ to /\ i = used /\ timer[i] = "armed" /\ ~cancelled[call])
            ~> (pc # "held")
=============================================================================
