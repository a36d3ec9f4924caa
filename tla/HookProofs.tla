----------------------------- MODULE HookProofs -----------------------------
(***************************************************************************)
(* Theorems about Hook, for any series of calls and any number of timers.   *)
(* The argument has three parts.  A wake-up is used up by the wait it belongs *)
(* to: the event is registered, or the fiber queued, only while the fiber   *)
(* is held, and never both (WakeForm).  And a timer stays with the call     *)
(* that armed it: the identifiers are used once, and tinfo->cancelled is    *)
(* written only by a callback that has tested the same tinfo (TimerForm).   *)
(* And cancelEvent reaches no other call unseen (ConnectForm).              *)
(***************************************************************************)
EXTENDS Hook, TLAPS

(* What the fiber waits for: a registered event becomes a queued fiber, and *)
(* a queued fiber is resumed, before the fiber goes on.                     *)
WakeForm ==
    /\ pc # "held" => ~registered /\ ~resumable
    /\ ~(registered /\ resumable)

(* Timers and the calls that armed them.                                    *)
TimerForm ==
    /\ \A i \in TimerIds : timer[i] # "none" => i <= used /\ owner[i] \in 1..call
    /\ \A i \in TimerIds : timer[i] = "cancelling" => cancelled[owner[i]]
    /\ \A c \in Calls : cancelled[c] =>
          \E i \in TimerIds : owner[i] = c /\ timer[i] \in {"cancelling", "over"}
    /\ \A c \in Calls : result[c] = "timeout" => cancelled[c]

(* A connect that is awake although neither its own callback nor that of an *)
(* earlier call woke it has a socket that is connected or refused.          *)
ConnectForm ==
    /\ Kind[call] = "connect" /\ ~cancelled[call] /\ call \notin disturbed
       /\ (pc \in {"resumed", "test"} \/ (pc = "held" /\ ~registered))
          => fd # "idle"
    /\ ConnectSound

HookInv == TypeOK /\ WakeForm /\ TimerForm /\ ConnectForm

-----------------------------------------------------------------------------
LEMMA InvInit == Init => HookInv
<1> SUFFICES ASSUME Init PROVE HookInv
  OBVIOUS
<1> USE HookAssumption
<1>1. 1 \in Calls
  BY DEF Calls
<1>2. TypeOK
  <2>1. /\ pc \in Pcs /\ call \in Calls /\ to \in BOOLEAN
        /\ registered \in BOOLEAN /\ resumable \in BOOLEAN /\ fd \in FdStates
    BY <1>1 DEF Init, Pcs, FdStates
  <2>2. /\ cancelled \in [Calls -> BOOLEAN]
        /\ result \in [Calls -> {"none", "ok", "error", "timeout"}]
        /\ truth \in [Calls -> FdStates \cup {"unwatched"}]
    BY DEF Init, FdStates
  <2>3. /\ used \in 0..MaxTimers
        /\ timer \in [TimerIds -> TimerStates]
        /\ owner \in [TimerIds -> 0..MaxCalls] /\ disturbed \subseteq Calls
    BY DEF Init, TimerStates
  <2> QED BY <2>1, <2>2, <2>3 DEF TypeOK
<1>3. WakeForm
  BY DEF Init, WakeForm
<1>4. TimerForm
  BY DEF Init, TimerForm
<1>5. ConnectForm
  BY DEF Init, ConnectForm, ConnectSound
<1> QED BY <1>2, <1>3, <1>4, <1>5 DEF HookInv

(* timer->cancel() only turns an armed timer into one that never runs.      *)
LEMMA DisarmKeeps ==
    ASSUME TypeOK, Disarm
    PROVE  /\ timer' \in [TimerIds -> TimerStates]
           /\ \A i \in TimerIds : \/ timer'[i] = timer[i]
                                  \/ timer[i] = "armed" /\ timer'[i] = "disarmed"
BY DEF TypeOK, Disarm, TimerStates

(* Every step of the fiber, of a timer's callback and of the peer keeps the *)
(* state well typed.                                                        *)
LEMMA TypeStep == TypeOK /\ TimerForm /\ [Next]_vars => TypeOK'
<1> SUFFICES ASSUME TypeOK, TimerForm, [Next]_vars PROVE TypeOK'
  OBVIOUS
<1> USE HookAssumption DEF TypeOK, Pcs
<1>1. SoError \in {"ok", "error"} /\ fd \in FdStates
  BY DEF SoError
<1>2. CASE CallReturns
  BY <1>1, <1>2 DEF CallReturns, Return, ReturnAs, FdStates
<1>3. CASE CallBlocks
  BY <1>3 DEF CallBlocks
<1>4. CASE ArmTimer
  <2>1. used + 1 \in TimerIds /\ used + 1 \in 0..MaxTimers /\ call \in 0..MaxCalls
    BY <1>4 DEF ArmTimer, TimerIds, Calls
  <2> QED BY <1>4, <2>1 DEF ArmTimer, TimerStates
<1>5. CASE AddEvent
  BY <1>5 DEF AddEvent
<1>6. CASE AddEventFails
  BY <1>1, <1>6, DisarmKeeps DEF AddEventFails, ReturnAs
<1>7. CASE Resume
  BY <1>7 DEF Resume
<1>8. CASE CancelTimer
  BY <1>8, DisarmKeeps DEF CancelTimer
<1>9. CASE TimedOut
  BY <1>9 DEF TimedOut, Return, ReturnAs
<1>10. CASE Retry
  BY <1>10 DEF Retry
<1>11. CASE Connected
  BY <1>1, <1>11 DEF Connected, Return, ReturnAs
<1>12. CASE NextCall
  <2>1. call + 1 \in Calls
    BY <1>12 DEF NextCall, Calls
  <2> QED BY <1>12, <2>1 DEF NextCall, FdStates
<1>13. CASE EventTriggered
  BY <1>13 DEF EventTriggered, TriggerWaiter
<1>14. ASSUME NEW i \in TimerIds, TimerThread(i) PROVE TypeOK'
  <2>1. CASE TimerExpires(i)
    BY <2>1 DEF TimerExpires, TimerStates
  <2>2. CASE CallbackTests(i)
    BY <2>2 DEF CallbackTests, TimerStates
  <2>3. CASE CallbackSets(i)
    BY <2>3 DEF CallbackSets, TimerStates
  <2>4. CASE CallbackCancels(i)
    BY <2>4 DEF CallbackCancels, TriggerWaiter, TimerStates
  <2> QED BY <1>14, <2>1, <2>2, <2>3, <2>4 DEF TimerThread
<1>15. CASE FdChanges
  BY <1>15 DEF FdChanges
<1>16. CASE UNCHANGED vars
  BY <1>16 DEF vars
<1> QED BY <1>2, <1>3, <1>4, <1>5, <1>6, <1>7, <1>8, <1>9, <1>10, <1>11, <1>12, <1>13,
           <1>14, <1>15, <1>16 DEF Next, Fiber, Over

(* A wake-up belongs to one wait: only addEvent registers, only a trigger   *)
(* of a registered event queues, and the fiber leaves "held" by using the   *)
(* wake-up up.                                                              *)
LEMMA WakeStep == TypeOK /\ WakeForm /\ [Next]_vars => WakeForm'
<1> SUFFICES ASSUME TypeOK, WakeForm, [Next]_vars PROVE WakeForm'
  OBVIOUS
<1> USE DEF WakeForm
<1>1. CASE CallReturns \/ CallBlocks \/ ArmTimer \/ AddEventFails \/ CancelTimer
           \/ TimedOut \/ Retry \/ Connected \/ NextCall
  BY <1>1 DEF CallReturns, CallBlocks, ArmTimer, AddEventFails, CancelTimer, TimedOut,
              Retry, Connected, NextCall, Return, ReturnAs
<1>2. CASE AddEvent
  BY <1>2 DEF AddEvent
<1>3. CASE Resume
  BY <1>3 DEF Resume
<1>4. CASE EventTriggered
  BY <1>4 DEF EventTriggered, TriggerWaiter
<1>5. ASSUME NEW i \in TimerIds, TimerThread(i) PROVE WakeForm'
  <2>1. CASE TimerExpires(i) \/ CallbackTests(i) \/ CallbackSets(i)
    BY <2>1 DEF TimerExpires, CallbackTests, CallbackSets
  <2>2. CASE CallbackCancels(i)
    BY <2>2 DEF CallbackCancels, TriggerWaiter
  <2> QED BY <1>5, <2>1, <2>2 DEF TimerThread
<1>6. CASE FdChanges
  BY <1>6 DEF FdChanges
<1>7. CASE UNCHANGED vars
  BY <1>7 DEF vars
<1> QED BY <1>1, <1>2, <1>3, <1>4, <1>5, <1>6, <1>7 DEF Next, Fiber, Over

-----------------------------------------------------------------------------
(* A timer stays with the call that armed it.                               *)
LEMMA TimerStep == TypeOK /\ TimerForm /\ [Next]_vars => TimerForm'
<1> SUFFICES ASSUME TypeOK, TimerForm, [Next]_vars PROVE TimerForm'
  OBVIOUS
<1> USE HookAssumption
<1>1. CASE CallBlocks \/ AddEvent \/ Resume \/ Retry \/ EventTriggered \/ FdChanges
           \/ UNCHANGED vars
  BY <1>1 DEF CallBlocks, AddEvent, Resume, Retry, EventTriggered, FdChanges, vars,
              TimerForm
<1>2. CASE CallReturns \/ Connected
  BY <1>2 DEF CallReturns, Connected, Return, ReturnAs, SoError, TypeOK, TimerForm
<1>3. CASE TimedOut
  BY <1>3 DEF TimedOut, Return, ReturnAs, TypeOK, TimerForm
<1>4. CASE NextCall
  <2>1. \A i \in TimerIds : owner[i] \in 1..call => owner[i] \in 1..call'
    BY <1>4 DEF NextCall, TypeOK, Calls
  <2> QED BY <1>4, <2>1 DEF NextCall, TimerForm
<1>5. CASE ArmTimer
  <2>1. used + 1 \in TimerIds /\ call \in 1..call /\ used \in Nat
    BY <1>5 DEF ArmTimer, TypeOK, TimerIds, Calls
  <2>2. timer[used + 1] = "none"
    BY <2>1 DEF TimerForm
  <2>3. \A i \in TimerIds : i # used + 1 => timer'[i] = timer[i] /\ owner'[i] = owner[i]
    BY <1>5 DEF ArmTimer, TypeOK
  <2>4. timer'[used + 1] = "armed" /\ owner'[used + 1] = call
    BY <1>5, <2>1 DEF ArmTimer, TypeOK
  <2>5. \A i \in TimerIds : timer'[i] # "none" => i <= used' /\ owner'[i] \in 1..call'
    <3> TAKE i \in TimerIds
    <3>1. i \in Nat /\ used' = used + 1 /\ call' = call
      BY <1>5 DEF ArmTimer, TimerIds
    <3> QED BY <2>1, <2>3, <2>4, <3>1 DEF TimerForm
  <2>6. \A c \in Calls : cancelled'[c] =>
          \E i \in TimerIds : owner'[i] = c /\ timer'[i] \in {"cancelling", "over"}
    <3> SUFFICES ASSUME NEW c \in Calls, cancelled[c]
                 PROVE  \E i \in TimerIds : owner'[i] = c
                                            /\ timer'[i] \in {"cancelling", "over"}
      BY <1>5 DEF ArmTimer
    <3>1. PICK i \in TimerIds : owner[i] = c /\ timer[i] \in {"cancelling", "over"}
      BY DEF TimerForm
    <3>2. i # used + 1
      BY <2>2, <3>1
    <3> QED BY <2>3, <3>1, <3>2
  <2>7. /\ \A i \in TimerIds : timer'[i] = "cancelling" => cancelled'[owner'[i]]
        /\ \A c \in Calls : result'[c] = "timeout" => cancelled'[c]
    BY <1>5, <2>3, <2>4 DEF ArmTimer, TimerForm
  <2> QED BY <2>5, <2>6, <2>7 DEF TimerForm
<1>6. CASE AddEventFails \/ CancelTimer
  <2>1. /\ \A i \in TimerIds : \/ timer'[i] = timer[i]
                               \/ timer[i] = "armed" /\ timer'[i] = "disarmed"
        /\ used' = used /\ owner' = owner /\ cancelled' = cancelled /\ call' = call
    BY <1>6, DisarmKeeps DEF AddEventFails, CancelTimer
  <2>2. \A c \in Calls : result'[c] = "timeout" => cancelled'[c]
    BY <1>6, <2>1 DEF AddEventFails, CancelTimer, ReturnAs, SoError, TypeOK, TimerForm
  <2>3. \A c \in Calls : cancelled'[c] =>
          \E i \in TimerIds : owner'[i] = c /\ timer'[i] \in {"cancelling", "over"}
    BY <2>1 DEF TimerForm
  <2> QED BY <2>1, <2>2, <2>3 DEF TimerForm
<1>7. ASSUME NEW i \in TimerIds, TimerExpires(i) \/ CallbackTests(i) \/ CallbackCancels(i)
      PROVE  TimerForm'
  <2>1. /\ \A j \in TimerIds : j # i => timer'[j] = timer[j]
        /\ timer[i] # "none" /\ timer'[i] # "cancelling"
        /\ timer[i] \in {"cancelling", "over"} => timer'[i] = "over"
        /\ used' = used /\ owner' = owner /\ cancelled' = cancelled /\ call' = call
        /\ result' = result
    BY <1>7 DEF TimerExpires, CallbackTests, CallbackCancels, TypeOK
  <2> QED BY <2>1 DEF TimerForm
<1>8. ASSUME NEW i \in TimerIds, CallbackSets(i) PROVE TimerForm'
  <2>1. /\ \A j \in TimerIds : j # i => timer'[j] = timer[j]
        /\ timer[i] = "tested" /\ timer'[i] = "cancelling"
        /\ used' = used /\ owner' = owner /\ call' = call /\ result' = result
    BY <1>8 DEF CallbackSets, TypeOK
  <2>2. owner[i] \in Calls
    BY <2>1 DEF TimerForm, TypeOK, Calls
  <2>3. /\ cancelled'[owner[i]]
        /\ \A c \in Calls : cancelled'[c] => c = owner[i] \/ cancelled[c]
        /\ \A c \in Calls : cancelled[c] => cancelled'[c]
    BY <1>8, <2>2 DEF CallbackSets, TypeOK
  <2>4. \A j \in TimerIds : timer'[j] = "cancelling" => cancelled'[owner'[j]]
    <3> SUFFICES ASSUME NEW j \in TimerIds, timer'[j] = "cancelling", j # i
                 PROVE  cancelled'[owner'[j]]
      BY <2>1, <2>3
    <3>1. cancelled[owner[j]] /\ owner[j] \in Calls
      BY <2>1 DEF TimerForm, TypeOK, Calls
    <3> QED BY <2>1, <2>3, <3>1
  <2>5. \A c \in Calls : cancelled'[c] =>
          \E j \in TimerIds : owner'[j] = c /\ timer'[j] \in {"cancelling", "over"}
    BY <2>1, <2>3 DEF TimerForm
  <2>6. \A c \in Calls : result'[c] = "timeout" => cancelled'[c]
    BY <2>1, <2>3 DEF TimerForm
  <2>7. \A j \in TimerIds : timer'[j] # "none" => j <= used' /\ owner'[j] \in 1..call'
    BY <2>1 DEF TimerForm
  <2> QED BY <2>4, <2>5, <2>6, <2>7 DEF TimerForm
<1> QED BY <1>1, <1>2, <1>3, <1>4, <1>5, <1>6, <1>7, <1>8 DEF Next, Fiber, Over, TimerThread

-----------------------------------------------------------------------------
(* What wakes a connect, other than its own callback and one of an earlier  *)
(* call, is a socket that is no longer being set up, and such a socket does *)
(* not go back.                                                             *)
LEMMA ConnectStep == HookInv /\ [Next]_vars => ConnectForm'
<1> SUFFICES ASSUME HookInv, [Next]_vars PROVE ConnectForm'
  OBVIOUS
<1> USE HookAssumption DEF HookInv
<1>0. call \in Calls /\ fd \in FdStates
  BY DEF TypeOK
(* A call that returns: what it reports is what the descriptor is.          *)
<1>1. ASSUME NEW r, NEW s, ReturnAs(r, s), disturbed' = disturbed,
             Kind[call] = "connect" /\ r = "ok" => s \in {"ready", "unwatched"} \/ call \in disturbed
      PROVE  ConnectForm'
  <2>1. ConnectSound'
    BY <1>0, <1>1 DEF ReturnAs, TypeOK, ConnectForm, ConnectSound
  <2> QED BY <1>1, <2>1 DEF ReturnAs, ConnectForm
<1>2. CASE CallReturns
  <2>1. SoError = "ok" => fd = "ready"
    BY <1>0, <1>2 DEF CallReturns, SoError, FdStates
  <2> QED BY <1>1, <1>2, <2>1 DEF CallReturns, Return
<1>3. CASE CallBlocks \/ ArmTimer \/ AddEvent \/ Retry
  BY <1>3 DEF CallBlocks, ArmTimer, AddEvent, Retry, ConnectForm, ConnectSound
<1>4. CASE AddEventFails
  BY <1>1, <1>4 DEF AddEventFails
<1>5. CASE Resume
  BY <1>5 DEF Resume, ConnectForm, ConnectSound, WakeForm
<1>6. CASE CancelTimer
  BY <1>6 DEF CancelTimer, ConnectForm, ConnectSound
<1>7. CASE TimedOut
  BY <1>1, <1>7 DEF TimedOut, Return
<1>8. CASE Connected
  <2>1. call \notin disturbed /\ SoError = "ok" => fd = "ready"
    BY <1>0, <1>8 DEF Connected, ConnectForm, SoError, FdStates
  <2> QED BY <1>1, <1>8, <2>1 DEF Connected, Return
<1>9. CASE NextCall
  BY <1>9 DEF NextCall, ConnectForm, ConnectSound
<1>10. CASE EventTriggered
  BY <1>10 DEF EventTriggered, ConnectForm, ConnectSound
<1>11. ASSUME NEW i \in TimerIds, TimerExpires(i) \/ CallbackTests(i) PROVE ConnectForm'
  BY <1>11 DEF TimerExpires, CallbackTests, ConnectForm, ConnectSound
<1>12. ASSUME NEW i \in TimerIds, CallbackSets(i) PROVE ConnectForm'
  <2>1. ~cancelled'[call] => ~cancelled[call]
    BY <1>0, <1>12 DEF CallbackSets, TypeOK
  <2> QED BY <1>12, <2>1 DEF CallbackSets, ConnectForm, ConnectSound
(* cancelEvent ends the wait of its own call, which is marked, or that of   *)
(* another one, which is disturbed, or nobody's.                            *)
<1>13. ASSUME NEW i \in TimerIds, CallbackCancels(i) PROVE ConnectForm'
  <2>1. cancelled[owner[i]]
    BY <1>13 DEF CallbackCancels, TimerForm
  <2>2. disturbed \subseteq disturbed' /\ (registered => cancelled[call] \/ call \in disturbed')
    BY <1>13, <2>1 DEF CallbackCancels
  <2> QED BY <1>13, <2>2 DEF CallbackCancels, ConnectForm, ConnectSound
<1>14. CASE FdChanges
  <2>1. Kind[call] = "connect" => fd = "idle" /\ fd' # "idle"
    BY <1>0, <1>14 DEF FdChanges, FdStates
  <2> QED BY <1>14, <2>1 DEF FdChanges, ConnectForm, ConnectSound
<1>15. CASE UNCHANGED vars
  BY <1>15 DEF vars, ConnectForm, ConnectSound
<1> QED BY <1>2, <1>3, <1>4, <1>5, <1>6, <1>7, <1>8, <1>9, <1>10, <1>11, <1>12,
           <1>13, <1>14, <1>15 DEF Next, Fiber, Over, TimerThread

LEMMA InvStep == HookInv /\ [Next]_vars => HookInv'
BY TypeStep, WakeStep, TimerStep, ConnectStep DEF HookInv

LEMMA Invariance == Spec => []HookInv
BY InvInit, InvStep, PTL DEF Spec

-----------------------------------------------------------------------------
(* The variables of Hook keep their types: the index of a timer never       *)
(* leaves the array, and the tinfo a callback writes is that of a call.     *)
THEOREM TypeCorrect == Spec => []TypeOK
<1>1. HookInv => TypeOK
  BY DEF HookInv
<1> QED BY <1>1, Invariance, PTL

(* NoStrayWake for every series of calls: do_io and connect_with_timeout    *)
(* leave neither a registered event nor a queued fiber behind, whichever    *)
(* of triggerEvent and cancelEvent came first and however late.             *)
THEOREM WakeUsedUp == Spec => []NoStrayWake
<1>1. HookInv => NoStrayWake
  BY DEF HookInv, WakeForm, NoStrayWake
<1> QED BY <1>1, Invariance, PTL

(* OwnTimeout for every series of calls: the weak tinfo of the callback in  *)
(* do_io keeps a late callback from failing a later call.                   *)
THEOREM TimeoutIsOwn == Spec => []OwnTimeout
<1>1. HookInv => OwnTimeout
  BY DEF HookInv, TimerForm, OwnTimeout
<1> QED BY <1>1, Invariance, PTL

(* ConnectSound for every series of calls on one number: 0 for a connection *)
(* that does not exist comes from a failed addEvent or from the cancelEvent *)
(* of a timer that an earlier call armed, and from nothing else.            *)
THEOREM ConnectIsSound == Spec => []ConnectSound
<1>1. HookInv => ConnectSound
  BY DEF HookInv, ConnectForm
<1> QED BY <1>1, Invariance, PTL
=============================================================================
