------------------------- MODULE TimerManagerProofs -------------------------
(***************************************************************************)
(* Theorems about TimerManager, for any number of timers and threads, any   *)
(* periods and any clock.  The argument: m_timers is a faithful index of    *)
(* the timers that still have a callback (QueueForm); what is collected     *)
(* therefore had its callback and loses it under the same lock, and the key *)
(* it was found by is its m_next.                                           *)
(***************************************************************************)
EXTENDS TimerManager, WellFoundedInduction, TLAPS

(* A nonempty set of times has a first one, so what getNextTimer finds at   *)
(* the front of m_timers is a number.                                       *)
LEMMA MinOfNats ==
    ASSUME NEW S, S \subseteq Nat, S # {}
    PROVE  Min(S) \in Nat /\ Min(S) \in S /\ \A y \in S : Min(S) <= y
<1>1. PICK x \in S : \A y \in S : ~(<<y, x>> \in OpToRel(<, Nat))
  <2> HIDE DEF OpToRel
  <2> QED BY NatLessThanWellFounded, WFMin
<1>2. \A y \in S : x <= y
  <2> TAKE y \in S
  <2>1. ~(<<y, x>> \in OpToRel(<, Nat)) /\ x \in Nat /\ y \in Nat
    BY <1>1
  <2>2. ~(y < x)
    BY <2>1 DEF OpToRel
  <2>3. x \in Nat /\ y \in Nat
    OBVIOUS
  <2> QED BY <2>2, <2>3
<1> QED BY <1>2 DEF Min

(* What reaches epoll_wait as the timeout is an int.                        *)
LEMMA ClampIsInt ==
    ASSUME NEW x \in Nat
    PROVE  Clamp(x) \in Int
BY ConstantsAssumption DEF Clamp, IntCast, Forever

-----------------------------------------------------------------------------
(* Type correctness needs that m_next - m_ms, the start time reset() works  *)
(* with, is not negative.                                                   *)
NextFromMs == \A tm \in Timers : ms[tm] <= next[tm]

TypeInv == TypeOK /\ NextFromMs

LEMMA TypeInit == Init => TypeInv
<1> SUFFICES ASSUME Init PROVE TypeInv
  OBVIOUS
<1>1. TypeOK
  <2>1. /\ timers \subseteq [next : Nat, timer : Timers]
        /\ cbs \in [Threads -> SUBSET Timers]
        /\ fires \in [Timers -> 0..FireCap]
    BY DEF Init, FireCap
  <2>2. /\ status \in [Timers -> {"free", "made", "live"}]
        /\ ms \in [Timers -> Nat] /\ next \in [Timers -> Nat]
        /\ cb \in [Timers -> BOOLEAN] /\ recurring \in [Timers -> BOOLEAN]
    BY DEF Init
  <2>3. /\ pc \in [Threads -> Pcs]
        /\ timeout \in [Threads -> Int] /\ nowMs \in [Threads -> Nat]
    BY DEF Init, Pcs
  <2>4. /\ now \in Nat /\ jumps \in Nat /\ previous \in Nat /\ notify \in Nat
        /\ tickled \in BOOLEAN /\ pipe \in BOOLEAN
    BY DEF Init
  <2> QED BY <2>1, <2>2, <2>3, <2>4 DEF TypeOK
<1>2. NextFromMs
  BY DEF Init, NextFromMs
<1> QED BY <1>1, <1>2 DEF TypeInv

(* An insertion keeps the set and the counters of the manager well typed.   *)
LEMMA InsertType ==
    ASSUME TypeOK, NEW e \in [next : Nat, timer : Timers],
           NEW S, S \subseteq timers, InsertEntry(e, S)
    PROVE  /\ timers' \subseteq [next : Nat, timer : Timers]
           /\ tickled' \in BOOLEAN
           /\ notify' \in Nat
<1>1. PICK front \in BOOLEAN : /\ timers' = S \cup {e}
                               /\ tickled' = (tickled \/ front)
                               /\ notify' = IF front THEN notify + 1 ELSE notify
  BY DEF InsertEntry, TypeOK
<1>2. tickled' \in BOOLEAN
  BY <1>1 DEF TypeOK
<1>3. notify' \in Nat
  BY <1>1 DEF TypeOK
<1>4. timers' \subseteq [next : Nat, timer : Timers]
  BY <1>1 DEF TypeOK
<1> QED BY <1>2, <1>3, <1>4

LEMMA TypeStep == TypeInv /\ [Next]_vars => TypeInv'
<1> SUFFICES ASSUME TypeInv, [Next]_vars PROVE TypeInv'
  OBVIOUS
<1> USE ConstantsAssumption DEF TypeInv
<1>1. ASSUME NEW tm \in Timers, NewTimer(tm) PROVE TypeInv'
  BY <1>1 DEF NewTimer, TypeOK, NextFromMs, clock, idle
<1>2. ASSUME NEW tm \in Timers, AddTimer(tm) PROVE TypeInv'
  <2>1. Entry(tm) \in [next : Nat, timer : Timers]
    BY DEF TypeOK, Entry
  <2>2. InsertEntry(Entry(tm), timers)
    BY <1>2 DEF AddTimer
  <2>3. /\ timers' \subseteq [next : Nat, timer : Timers]
        /\ tickled' \in BOOLEAN
        /\ notify' \in Nat
    BY <2>1, <2>2, InsertType
  <2> QED BY <1>2, <2>3 DEF AddTimer, TypeOK, NextFromMs, clock, idle
<1>3. ASSUME NEW tm \in Timers, Cancel(tm) PROVE TypeInv'
  BY <1>3 DEF Cancel, TypeOK, NextFromMs, clock, idle
<1>4. ASSUME NEW tm \in Timers, Refresh(tm) PROVE TypeInv'
  <2>1. now + ms[tm] \in Nat /\ ms[tm] <= now + ms[tm]
    BY DEF TypeOK
  <2> QED BY <1>4, <2>1 DEF Refresh, TypeOK, NextFromMs, clock, idle
<1>5. ASSUME NEW tm \in Timers, Reset(tm) PROVE TypeInv'
  <2>1. PICK p \in Periods, fromNow \in BOOLEAN :
          LET start == IF fromNow THEN now ELSE next[tm] - ms[tm] IN
          /\ ms' = [ms EXCEPT ![tm] = p]
          /\ next' = [next EXCEPT ![tm] = start + p]
          /\ InsertEntry([next |-> start + p, timer |-> tm], timers \ {Entry(tm)})
    BY <1>5 DEF Reset
  <2> DEFINE start == IF fromNow THEN now ELSE next[tm] - ms[tm]
  <2>2. start \in Nat /\ p \in Nat
    BY DEF TypeOK, NextFromMs
  <2> HIDE DEF start
  <2>3. start + p \in Nat /\ p <= start + p
    BY <2>2
  <2>4. [next |-> start + p, timer |-> tm] \in [next : Nat, timer : Timers]
    BY <2>3
  <2>5. /\ InsertEntry([next |-> start + p, timer |-> tm], timers \ {Entry(tm)})
        /\ ms' = [ms EXCEPT ![tm] = p]
        /\ next' = [next EXCEPT ![tm] = start + p]
    BY <2>1 DEF start
  <2>6. /\ timers' \subseteq [next : Nat, timer : Timers]
        /\ tickled' \in BOOLEAN
        /\ notify' \in Nat
    BY <2>4, <2>5, InsertType
  <2> QED BY <1>5, <2>2, <2>3, <2>5, <2>6 DEF Reset, TypeOK, NextFromMs, clock, idle
<1>6. ASSUME OnTimerInsertedAtFront PROVE TypeInv'
  BY <1>6 DEF OnTimerInsertedAtFront, TypeOK, NextFromMs, clock, idle
<1>7. ASSUME NEW t \in Threads, GetNextTimer(t) PROVE TypeInv'
  <2> DEFINE wait == IF timers = {} THEN MaxTimeout
                     ELSE Clamp(IF now >= FrontNext THEN 0 ELSE FrontNext - now)
  <2>1. wait \in Int
    <3>1. CASE timers = {}
      BY <3>1
    <3>2. CASE timers # {}
      <4>1. FrontNext \in Nat
        <5>1. {e.next : e \in timers} \subseteq Nat /\ {e.next : e \in timers} # {}
          BY <3>2 DEF TypeOK
        <5> QED BY <5>1, MinOfNats DEF FrontNext
      <4>2. (IF now >= FrontNext THEN 0 ELSE FrontNext - now) \in Nat
        BY <4>1 DEF TypeOK
      <4> QED BY <3>2, <4>2, ClampIsInt
    <3> QED BY <3>1, <3>2
  <2>2. timeout' = [timeout EXCEPT ![t] = wait]
    BY <1>7 DEF GetNextTimer
  <2> HIDE DEF wait
  <2>3. timeout' \in [Threads -> Int]
    BY <2>1, <2>2 DEF TypeOK
  <2>4. pc' \in [Threads -> Pcs] /\ tickled' \in BOOLEAN
    BY <1>7 DEF GetNextTimer, TypeOK, Pcs
  <2>5. UNCHANGED <<status, ms, next, cb, recurring, timers, previous, notify,
                    now, jumps, nowMs, cbs, pipe, fires>>
    BY <1>7 DEF GetNextTimer, clock
  <2> QED BY <2>3, <2>4, <2>5 DEF TypeOK, NextFromMs
<1>8. ASSUME NEW t \in Threads, WakeTimeout(t) \/ WakeTickle(t) \/ WakeEvent(t)
      PROVE  TypeInv'
  <2>1. Return(t) /\ pipe' \in BOOLEAN
    BY <1>8 DEF WakeTimeout, WakeTickle, WakeEvent, TypeOK
  <2> QED BY <2>1 DEF Return, TypeOK, NextFromMs, manager, clock, Pcs
<1>9. ASSUME NEW t \in Threads, CheckEmpty(t) PROVE TypeInv'
  BY <1>9 DEF CheckEmpty, TypeOK, NextFromMs, manager, clock, Pcs
<1>10. ASSUME NEW t \in Threads, ListExpiredCb(t) PROVE TypeInv'
  <2>1. PICK expired \in ExpiredSets(nowMs[t]) : Collect(t, expired)
    BY <1>10 DEF ListExpiredCb
  <2> DEFINE gone == {e.timer : e \in expired}
             again == {tm \in gone : recurring[tm]}
             moved == [tm \in Timers |->
                         IF tm \in again THEN nowMs[t] + ms[tm] ELSE next[tm]]
  <2>2. expired \subseteq timers
    BY DEF ExpiredSets
  <2>3. gone \subseteq Timers /\ again \subseteq Timers
    BY <2>2 DEF TypeOK
  <2>4. /\ moved \in [Timers -> Nat]
        /\ \A tm \in Timers : ms[tm] <= moved[tm]
    BY DEF TypeOK, NextFromMs
  <2> HIDE DEF gone, again, moved
  <2>5. /\ next' = moved
        /\ timers' = (timers \ expired)
                        \cup {[next |-> moved[tm], timer |-> tm] : tm \in again}
        /\ cb' = CbAfter(gone)
        /\ cbs' = [cbs EXCEPT ![t] = gone]
        /\ pc' = [pc EXCEPT ![t] = IF gone = {} THEN "busy" ELSE "schedule"]
    BY <2>1 DEF Collect, gone, again, moved
  <2>6. fires' \in [Timers -> 0..FireCap]
    BY <2>1 DEF Collect, TypeOK, FireCap
  <2>7. timers' \subseteq [next : Nat, timer : Timers]
    BY <2>3, <2>4, <2>5 DEF TypeOK
  <2>8. cb' \in [Timers -> BOOLEAN]
    BY <2>5 DEF CbAfter, TypeOK
  <2>9. pc' \in [Threads -> Pcs] /\ cbs' \in [Threads -> SUBSET Timers]
    BY <2>3, <2>5 DEF TypeOK, Pcs
  <2>10. previous' \in Nat /\ nowMs' \in [Threads -> Nat]
    BY <1>10 DEF ListExpiredCb, TypeOK
  <2> QED BY <1>10, <2>4, <2>5, <2>6, <2>7, <2>8, <2>9, <2>10
          DEF ListExpiredCb, TypeOK, NextFromMs, clock
<1>11. ASSUME NEW t \in Threads, ScheduleExpired(t) PROVE TypeInv'
  BY <1>11 DEF ScheduleExpired, TypeOK, NextFromMs, manager, clock, Pcs
<1>12. ASSUME NEW t \in Threads, EnterIdle(t) PROVE TypeInv'
  BY <1>12 DEF EnterIdle, TypeOK, NextFromMs, manager, clock, Pcs
<1>13. ASSUME Tick PROVE TypeInv'
  BY <1>13 DEF Tick, TypeOK, NextFromMs, manager
<1>14. ASSUME SetClockBack PROVE TypeInv'
  BY <1>14 DEF SetClockBack, TypeOK, NextFromMs, manager, idle
<1>15. ASSUME UNCHANGED vars PROVE TypeInv'
  BY <1>15 DEF vars, TypeOK, NextFromMs, manager, clock, idle
<1> QED BY <1>1, <1>2, <1>3, <1>4, <1>5, <1>6, <1>7, <1>8, <1>9, <1>10, <1>11, <1>12,
           <1>13, <1>14, <1>15 DEF Next, Caller, IdleThread

(* Every state of the timer manager is well typed: no m_next is negative,   *)
(* no timeout is anything but an int.                                       *)
THEOREM TypeCorrect == Spec => []TypeOK
<1>1. TypeInv => TypeOK
  BY DEF TypeInv
<1> QED BY <1>1, TypeInit, TypeStep, PTL DEF Spec

-----------------------------------------------------------------------------
(* The index, entry by entry and timer by timer.  A timer between its       *)
(* constructor and addTimer has its callback and is in no set yet.          *)
EntriesActive ==
    \A e \in timers : status[e.timer] = "live" /\ cb[e.timer] /\ e.next = next[e.timer]
ActiveQueued == \A tm \in Timers : status[tm] = "live" /\ cb[tm] => Entry(tm) \in timers
MadeHasCb == \A tm \in Timers : status[tm] = "made" => cb[tm]

QueueForm == EntriesActive /\ ActiveQueued /\ MadeHasCb

(* An entry of the set is the entry of its timer.                           *)
LEMMA EntryOfTimer ==
    ASSUME TypeOK, EntriesActive, NEW e \in timers
    PROVE  e.timer \in Timers /\ e = Entry(e.timer)
BY DEF TypeOK, EntriesActive, Entry

LEMMA QueueFormImplies == TypeOK /\ QueueForm => ActiveIffQueued
<1> SUFFICES ASSUME TypeOK, QueueForm PROVE ActiveIffQueued
  OBVIOUS
<1> DEFINE act == {x \in Timers : status[x] = "live" /\ cb[x]}
<1>1. ASSUME NEW e \in timers PROVE \E tm \in act : e = Entry(tm)
  <2>1. e.timer \in act /\ e = Entry(e.timer)
    BY EntryOfTimer DEF QueueForm, EntriesActive
  <2> QED BY <2>1
<1>2. ASSUME NEW tm \in act PROVE Entry(tm) \in timers
  BY DEF QueueForm, ActiveQueued
<1> QED BY <1>1, <1>2 DEF ActiveIffQueued

LEMMA QueueInit == Init => QueueForm
BY DEF Init, QueueForm, EntriesActive, ActiveQueued, MadeHasCb

LEMMA QueueStep == TypeInv /\ QueueForm /\ [Next]_vars => QueueForm'
<1> SUFFICES ASSUME TypeOK, NextFromMs, QueueForm, [Next]_vars PROVE QueueForm'
  BY DEF TypeInv
<1> USE DEF QueueForm, EntriesActive, ActiveQueued, MadeHasCb, Entry
<1>1. ASSUME NEW tm \in Timers, NewTimer(tm) PROVE QueueForm'
  BY <1>1 DEF NewTimer, TypeOK
<1>2. ASSUME NEW tm \in Timers, AddTimer(tm) PROVE QueueForm'
  <2>1. timers' = timers \cup {Entry(tm)}
    BY <1>2 DEF AddTimer, InsertEntry
  <2> QED BY <1>2, <2>1 DEF AddTimer, TypeOK
<1>3. ASSUME NEW tm \in Timers, Cancel(tm) PROVE QueueForm'
  <2>1. \A e \in timers' : e \in timers /\ e.timer # tm
    BY <1>3, EntryOfTimer DEF Cancel
  <2> QED BY <1>3, <2>1 DEF Cancel, TypeOK
<1>4. ASSUME NEW tm \in Timers, NEW n \in Nat,
             status[tm] = "live", cb[tm],
             next' = [next EXCEPT ![tm] = n],
             timers' = (timers \ {Entry(tm)}) \cup {[next |-> n, timer |-> tm]},
             UNCHANGED <<status, cb>>
      PROVE  QueueForm'
  <2>1. \A e \in timers' : \/ e \in timers /\ e.timer # tm
                           \/ e = [next |-> n, timer |-> tm]
    BY <1>4, EntryOfTimer
  <2> QED BY <1>4, <2>1 DEF TypeOK
<1>5. ASSUME NEW tm \in Timers, Refresh(tm) PROVE QueueForm'
  <2>1. now + ms[tm] \in Nat
    BY DEF TypeOK
  <2> QED BY <1>4, <1>5, <2>1 DEF Refresh
<1>6. ASSUME NEW tm \in Timers, Reset(tm) PROVE QueueForm'
  <2>1. PICK p \in Periods, fromNow \in BOOLEAN :
          LET start == IF fromNow THEN now ELSE next[tm] - ms[tm] IN
          /\ next' = [next EXCEPT ![tm] = start + p]
          /\ InsertEntry([next |-> start + p, timer |-> tm], timers \ {Entry(tm)})
    BY <1>6 DEF Reset
  <2> DEFINE n == (IF fromNow THEN now ELSE next[tm] - ms[tm]) + p
  <2>2. n \in Nat
    BY ConstantsAssumption DEF TypeOK, NextFromMs
  <2>3. /\ next' = [next EXCEPT ![tm] = n]
        /\ timers' = (timers \ {Entry(tm)}) \cup {[next |-> n, timer |-> tm]}
    BY <2>1 DEF InsertEntry
  <2> HIDE DEF n
  <2> QED BY <1>4, <1>6, <2>2, <2>3 DEF Reset
<1>7. ASSUME NEW t \in Threads, ListExpiredCb(t) PROVE QueueForm'
  <2>1. PICK expired \in ExpiredSets(nowMs[t]) : Collect(t, expired)
    BY <1>7 DEF ListExpiredCb
  <2> DEFINE gone == {e.timer : e \in expired}
             again == {tm \in gone : recurring[tm]}
             moved == [tm \in Timers |->
                         IF tm \in again THEN nowMs[t] + ms[tm] ELSE next[tm]]
  <2>2. expired \subseteq timers
    BY DEF ExpiredSets
  <2>3. gone \subseteq Timers
    BY <2>2, EntryOfTimer
  <2>4. \A tm \in gone : status[tm] = "live" /\ cb[tm] /\ Entry(tm) \in expired
    BY <2>2, EntryOfTimer
  <2>5. \A e \in timers : e \in expired <=> e.timer \in gone
    BY <2>4, EntryOfTimer
  <2>6. /\ next' = moved
        /\ timers' = (timers \ expired)
                        \cup {[next |-> moved[tm], timer |-> tm] : tm \in again}
        /\ \A tm \in Timers : cb'[tm] = (cb[tm] /\ (tm \in gone => recurring[tm]))
        /\ status' = status
    BY <1>7, <2>1 DEF ListExpiredCb, Collect, CbAfter
  <2>7. \A tm \in Timers : tm \notin gone => next'[tm] = next[tm] /\ cb'[tm] = cb[tm]
    BY <2>6 DEF TypeOK
  <2>8. \A tm \in again : next'[tm] = moved[tm] /\ cb'[tm] = cb[tm]
    BY <2>3, <2>6 DEF TypeOK
  <2>9. EntriesActive'
    <3> SUFFICES ASSUME NEW e \in timers'
                 PROVE  status[e.timer] = "live" /\ cb'[e.timer] /\ e.next = next'[e.timer]
      BY <2>6
    <3>1. CASE e \in timers \ expired
      <4>1. e.timer \notin gone /\ e.timer \in Timers
        BY <3>1, <2>5, EntryOfTimer
      <4> QED BY <3>1, <4>1, <2>7
    <3>2. CASE \E tm \in again : e = [next |-> moved[tm], timer |-> tm]
      <4>1. PICK tm \in again : e = [next |-> moved[tm], timer |-> tm]
        BY <3>2
      <4>2. e.timer = tm /\ e.next = moved[tm]
        BY <4>1
      <4>3. next'[tm] = moved[tm] /\ status[tm] = "live" /\ cb'[tm]
        BY <2>4, <2>8
      <4> QED BY <4>2, <4>3
    <3> QED BY <3>1, <3>2, <2>6
  <2>10. ActiveQueued'
    <3> SUFFICES ASSUME NEW tm \in Timers, status[tm] = "live", cb'[tm]
                 PROVE  [next |-> next'[tm], timer |-> tm] \in timers'
      BY <2>6
    <3>1. CASE tm \notin gone
      <4>1. Entry(tm) \in timers /\ cb[tm] /\ next'[tm] = next[tm]
        BY <3>1, <2>7
      <4>2. Entry(tm) \notin expired
        BY <3>1, <4>1, <2>5
      <4> QED BY <4>1, <4>2, <2>6
    <3>2. CASE tm \in gone
      <4>1. tm \in again
        BY <3>2, <2>6
      <4> QED BY <4>1, <2>6, <2>8
    <3> QED BY <3>1, <3>2
  <2>11. MadeHasCb'
    <3> SUFFICES ASSUME NEW tm \in Timers, status[tm] = "made" PROVE cb'[tm]
      BY <2>6
    <3>1. tm \notin gone
      BY <2>4
    <3> QED BY <3>1, <2>7
  <2> QED BY <2>9, <2>10, <2>11
<1>8. ASSUME UNCHANGED <<status, next, cb, timers>> PROVE QueueForm'
  BY <1>8
<1>9. ASSUME OnTimerInsertedAtFront PROVE QueueForm'
  BY <1>8, <1>9 DEF OnTimerInsertedAtFront
<1>10. ASSUME NEW t \in Threads,
              \/ GetNextTimer(t) \/ WakeTimeout(t) \/ WakeTickle(t) \/ WakeEvent(t)
              \/ CheckEmpty(t) \/ ScheduleExpired(t) \/ EnterIdle(t)
       PROVE  QueueForm'
  BY <1>8, <1>10 DEF GetNextTimer, WakeTimeout, WakeTickle, WakeEvent, Return, CheckEmpty,
                     ScheduleExpired, EnterIdle, manager
<1>11. ASSUME Tick \/ SetClockBack \/ UNCHANGED vars PROVE QueueForm'
  BY <1>8, <1>11 DEF Tick, SetClockBack, vars, manager
<1> QED BY <1>1, <1>2, <1>3, <1>5, <1>6, <1>7, <1>9, <1>10, <1>11
        DEF Next, Caller, IdleThread

(* m_timers is exactly the set of inserted timers that still have their     *)
(* callback, each under its current m_next: the unchecked erase of          *)
(* Timer::cancel always finds its entry.                                    *)
THEOREM IndexExact == Spec => []ActiveIffQueued
<1> QED BY TypeInit, TypeStep, QueueInit, QueueStep, QueueFormImplies, PTL DEF Spec, TypeInv

-----------------------------------------------------------------------------
(* A timer that was never inserted was never collected: with QueueForm this *)
(* makes OneShotOnce inductive.                                             *)
FiredWasLive == \A tm \in Timers : status[tm] # "live" => fires[tm] = 0

FireInv == OneShotOnce /\ FiredWasLive

LEMMA FireStep == TypeInv /\ QueueForm /\ FireInv /\ [Next]_vars => FireInv'
<1> SUFFICES ASSUME TypeOK, QueueForm, FireInv, [Next]_vars PROVE FireInv'
  BY DEF TypeInv
<1> USE DEF FireInv, OneShotOnce, FiredWasLive
<1>1. ASSUME NEW tm \in Timers, NewTimer(tm) PROVE FireInv'
  BY <1>1 DEF NewTimer, TypeOK
<1>2. ASSUME NEW tm \in Timers, AddTimer(tm) PROVE FireInv'
  BY <1>2 DEF AddTimer, TypeOK
<1>3. ASSUME NEW tm \in Timers, Cancel(tm) PROVE FireInv'
  BY <1>3 DEF Cancel, TypeOK
<1>4. ASSUME NEW t \in Threads, ListExpiredCb(t) PROVE FireInv'
  <2>1. PICK expired \in ExpiredSets(nowMs[t]) : Collect(t, expired)
    BY <1>4 DEF ListExpiredCb
  <2> DEFINE gone == {e.timer : e \in expired}
  <2>2. \A tm \in gone : tm \in Timers /\ status[tm] = "live" /\ cb[tm]
    BY EntryOfTimer DEF ExpiredSets, QueueForm, EntriesActive
  <2>3. /\ \A tm \in Timers : fires'[tm] = IF tm \in gone /\ fires[tm] < FireCap
                                          THEN fires[tm] + 1 ELSE fires[tm]
        /\ \A tm \in Timers : cb'[tm] = (cb[tm] /\ (tm \in gone => recurring[tm]))
        /\ status' = status /\ recurring' = recurring
    BY <1>4, <2>1 DEF ListExpiredCb, Collect, CbAfter
  <2> HIDE DEF gone
  <2>4. FiredWasLive'
    BY <2>2, <2>3
  <2>5. ASSUME NEW tm \in Timers, ~recurring[tm]
        PROVE  fires'[tm] <= 1 /\ (fires'[tm] = 1 => ~cb'[tm])
    <3>1. CASE tm \in gone
      <4>1. fires[tm] = 0
        BY <3>1, <2>2, <2>5 DEF TypeOK, FireCap
      <4>2. fires'[tm] = 1
        BY <3>1, <4>1, <2>3 DEF FireCap
      <4>3. ~cb'[tm]
        BY <3>1, <2>3, <2>5
      <4> QED BY <4>2, <4>3
    <3>2. CASE tm \notin gone
      <4>1. fires'[tm] = fires[tm] /\ (cb'[tm] => cb[tm])
        BY <3>2, <2>3
      <4> QED BY <4>1, <2>5
    <3> QED BY <3>1, <3>2
  <2> QED BY <2>3, <2>4, <2>5
<1>5. ASSUME UNCHANGED <<status, cb, recurring, fires>> PROVE FireInv'
  BY <1>5
<1>6. ASSUME NEW tm \in Timers, Refresh(tm) \/ Reset(tm) PROVE FireInv'
  BY <1>5, <1>6 DEF Refresh, Reset
<1>7. ASSUME OnTimerInsertedAtFront \/ Tick \/ SetClockBack \/ UNCHANGED vars PROVE FireInv'
  BY <1>5, <1>7 DEF OnTimerInsertedAtFront, Tick, SetClockBack, vars, manager
<1>8. ASSUME NEW t \in Threads,
             \/ GetNextTimer(t) \/ WakeTimeout(t) \/ WakeTickle(t) \/ WakeEvent(t)
             \/ CheckEmpty(t) \/ ScheduleExpired(t) \/ EnterIdle(t)
      PROVE  FireInv'
  BY <1>5, <1>8 DEF GetNextTimer, WakeTimeout, WakeTickle, WakeEvent, Return, CheckEmpty,
                    ScheduleExpired, EnterIdle, manager
<1> QED BY <1>1, <1>2, <1>3, <1>4, <1>6, <1>7, <1>8 DEF Next, Caller, IdleThread

(* A one-shot timer is collected at most once, by one of the threads that   *)
(* race for it in listExpiredCb, and cancel() of a collected one fails.     *)
THEOREM CollectedOnce == Spec => []OneShotOnce
<1>1. Init => FireInv
  BY DEF Init, FireInv, OneShotOnce, FiredWasLive
<1>2. FireInv => OneShotOnce
  BY DEF FireInv
<1> QED BY <1>1, <1>2, TypeInit, TypeStep, QueueInit, QueueStep, FireStep, PTL DEF Spec

-----------------------------------------------------------------------------
(* While the clock was never set back it never runs behind what anybody     *)
(* read from it, and nobody is an hour behind when it takes the lock.       *)
ClockInv ==
    jumps = 0 => /\ previous <= now
                 /\ \A t \in Threads : nowMs[t] <= now
                 /\ Prompt(now)

LEMMA ClockStep == TypeInv /\ ClockInv /\ [Next]_vars => ClockInv'
<1> SUFFICES ASSUME TypeOK, ClockInv, [Next]_vars, jumps' = 0
             PROVE  /\ previous' <= now'
                    /\ \A t \in Threads : nowMs'[t] <= now'
                    /\ \A t \in Threads : pc'[t] \in {"check", "lock"}
                                            => now' - nowMs'[t] < Hour
  BY DEF TypeInv, ClockInv, Prompt
<1> USE ConstantsAssumption
<1>1. CASE SetClockBack
  BY <1>1 DEF SetClockBack, TypeOK
<1> SUFFICES ASSUME jumps = 0, ~SetClockBack
             PROVE  /\ previous' <= now'
                    /\ \A t \in Threads : nowMs'[t] <= now'
                    /\ \A t \in Threads : pc'[t] \in {"check", "lock"}
                                            => now' - nowMs'[t] < Hour
  <2>1. ~SetClockBack => jumps' = jumps
    BY DEF Next, Caller, IdleThread, NewTimer, AddTimer, Cancel, Refresh, Reset,
           OnTimerInsertedAtFront, GetNextTimer, WakeTimeout, WakeTickle, WakeEvent, Return,
           CheckEmpty, ListExpiredCb, ScheduleExpired, EnterIdle, Tick, vars, clock
  <2> QED BY <1>1, <2>1
<1>2. /\ previous <= now
      /\ \A t \in Threads : nowMs[t] <= now
      /\ \A t \in Threads : pc[t] \in {"check", "lock"} => now - nowMs[t] < Hour
  BY DEF ClockInv, Prompt
<1> DEFINE Goal == /\ previous' <= now'
                   /\ \A t \in Threads : nowMs'[t] <= now'
                   /\ \A t \in Threads : pc'[t] \in {"check", "lock"}
                                           => now' - nowMs'[t] < Hour
<1>3. ASSUME UNCHANGED <<previous, now, nowMs, pc>> PROVE Goal
  BY <1>2, <1>3
<1>4. ASSUME NEW tm \in Timers, Caller(tm) PROVE Goal
  BY <1>3, <1>4 DEF Caller, NewTimer, AddTimer, Cancel, Refresh, Reset, clock, idle
<1>5. ASSUME OnTimerInsertedAtFront \/ UNCHANGED vars PROVE Goal
  BY <1>3, <1>5 DEF OnTimerInsertedAtFront, vars, manager, clock, idle
<1>6. ASSUME NEW t \in Threads, GetNextTimer(t) \/ ScheduleExpired(t) \/ EnterIdle(t)
      PROVE  Goal
  BY <1>2, <1>6 DEF GetNextTimer, ScheduleExpired, EnterIdle, manager, clock, TypeOK, Pcs
<1>7. ASSUME NEW t \in Threads, Return(t) PROVE Goal
  BY <1>2, <1>7 DEF Return, manager, clock, TypeOK
<1>8. ASSUME NEW t \in Threads, CheckEmpty(t) PROVE Goal
  BY <1>2, <1>8 DEF CheckEmpty, manager, clock, TypeOK
<1>9. ASSUME NEW t \in Threads, ListExpiredCb(t) PROVE Goal
  <2>1. /\ previous' \in {previous, nowMs[t]} /\ now' = now
        /\ nowMs' = [nowMs EXCEPT ![t] = 0]
        /\ \E label \in {"busy", "schedule"} : pc' = [pc EXCEPT ![t] = label]
    BY <1>9 DEF ListExpiredCb, Collect, clock
  <2> QED BY <1>2, <2>1 DEF TypeOK
<1>10. ASSUME Tick PROVE Goal
  BY <1>2, <1>10 DEF Tick, Prompt, manager, TypeOK
<1> QED BY <1>4, <1>5, <1>6, <1>7, <1>8, <1>9, <1>10
        DEF Next, IdleThread, WakeTimeout, WakeTickle, WakeEvent

(* What a step of NeverEarly may do.                                        *)
NotEarly == jumps = 0 => \A t \in Threads : \A tm \in cbs'[t] \ cbs[t] : next[tm] <= now

LEMMA NotEarlyStep == TypeInv /\ QueueForm /\ ClockInv /\ [Next]_vars => [NotEarly]_vars
<1> SUFFICES ASSUME TypeOK, QueueForm, ClockInv, Next, jumps = 0,
                    NEW t \in Threads, NEW tm \in cbs'[t] \ cbs[t]
             PROVE  next[tm] <= now
  BY DEF TypeInv, NotEarly
<1>1. PICK u \in Threads : ListExpiredCb(u) \/ ScheduleExpired(u)
  BY DEF Next, Caller, IdleThread, NewTimer, AddTimer, Cancel, Refresh, Reset,
         OnTimerInsertedAtFront, GetNextTimer, WakeTimeout, WakeTickle, WakeEvent, Return,
         CheckEmpty, EnterIdle, Tick, SetClockBack, idle
<1>2. CASE ScheduleExpired(u)
  BY <1>2 DEF ScheduleExpired, TypeOK
<1>3. CASE ListExpiredCb(u)
  <2>1. PICK expired \in ExpiredSets(nowMs[u]) : Collect(u, expired)
    BY <1>3 DEF ListExpiredCb
  <2>2. cbs' = [cbs EXCEPT ![u] = {e.timer : e \in expired}]
    BY <2>1 DEF Collect
  <2>3. PICK e \in expired : e.timer = tm
    BY <2>2 DEF TypeOK
  <2>4. now \in Nat /\ previous \in Nat /\ nowMs[u] \in Nat
    BY DEF TypeOK
  <2>5. previous <= now /\ nowMs[u] <= now /\ now - nowMs[u] < Hour
    BY <1>3 DEF ClockInv, Prompt, ListExpiredCb
  <2>6. ~DetectClockRollover(nowMs[u])
    BY <2>4, <2>5, ConstantsAssumption DEF DetectClockRollover
  <2>7. e \in timers /\ e.next <= nowMs[u]
    BY <2>4, <2>6 DEF ExpiredSets, TypeOK
  <2>8. e.next = next[tm] /\ e.next \in Nat
    BY <2>3, <2>7 DEF QueueForm, EntriesActive, TypeOK
  <2> QED BY <2>4, <2>5, <2>7, <2>8
<1> QED BY <1>1, <1>2, <1>3

(* No timer is collected before its m_next while nobody sets the clock      *)
(* back: a clock read that is stale by the time listExpiredCb has the lock  *)
(* is never mistaken for a rollover.                                        *)
THEOREM NotCollectedEarly == Spec => NeverEarly
<1>1. Init => ClockInv
  BY ConstantsAssumption DEF Init, ClockInv, Prompt
<1> QED BY <1>1, TypeInit, TypeStep, QueueInit, QueueStep, ClockStep, NotEarlyStep, PTL
        DEF Spec, NeverEarly, NotEarly

-----------------------------------------------------------------------------
(* Lost wake-ups.  Awake: some thread will ask getNextTimer again, or has a *)
(* reason to.  An insertion is announced unless m_tickled is set or it is   *)
(* not at the front; so m_tickled must imply Awake, and otherwise one of    *)
(* the sleepers covers the front of m_timers.                               *)
Awake == (\E t \in Threads : pc[t] # "wait") \/ pipe \/ notify > 0
Covers(t) ==
    timeout[t] >= 0 /\ (timeout[t] = 0 \/ \A e \in timers : now + timeout[t] <= e.next)
FrontForm ==
    /\ tickled => Awake
    /\ (timers # {} /\ jumps = 0) => Awake \/ \E t \in Threads : Covers(t)

(* Without a jump of the clock no timer is later than its period from now,  *)
(* so refresh() never moves one to an earlier time.                         *)
StartForm ==
    /\ \A tm \in Timers : ms[tm] \in Periods \cup {0}
    /\ jumps = 0 => \A tm \in Timers : next[tm] <= now + ms[tm]

(* No period is as long as 2^31 ms, about 25 days: the conversion of the    *)
(* timeout to int would make a negative number of it.                       *)
ShortPeriods == \A p \in Periods : 2 * p < IntMod

(* The front of a set of entries is one of them, and none is before it.     *)
LEMMA FrontIsFirst ==
    ASSUME TypeOK, timers # {}
    PROVE  /\ FrontNext \in Nat
           /\ \A e \in timers : FrontNext <= e.next
           /\ \E e \in timers : FrontNext = e.next
<1> DEFINE S == {e.next : e \in timers}
<1>1. S \subseteq Nat /\ S # {} /\ \A e \in timers : e.next \in S
  BY DEF TypeOK
<1> HIDE DEF S
<1>2. Min(S) \in S /\ \A y \in S : Min(S) <= y
  BY <1>1, MinOfNats
<1>3. FrontNext = Min(S)
  BY DEF FrontNext, S
<1>4. \E e \in timers : Min(S) = e.next
  BY <1>2 DEF S
<1> QED BY <1>1, <1>2, <1>3, <1>4

(* A timeout of less than 2^31 ms is not lengthened and not made negative.  *)
LEMMA ClampShortens ==
    ASSUME NEW x \in Nat, 2 * x < IntMod
    PROVE  0 <= Clamp(x) /\ Clamp(x) <= x
<1>1. x % IntMod = x
  BY ConstantsAssumption
<1> QED BY <1>1, ConstantsAssumption DEF Clamp, IntCast

(* Every step keeps timers within their period from now.                    *)
LEMMA StartStep == TypeInv /\ QueueForm /\ ClockInv /\ StartForm /\ [Next]_vars => StartForm'
<1> SUFFICES ASSUME TypeOK, QueueForm, ClockInv, StartForm, [Next]_vars PROVE StartForm'
  BY DEF TypeInv
<1> USE ConstantsAssumption
<1>1. ASSUME UNCHANGED <<ms, next, now, jumps>> PROVE StartForm'
  BY <1>1 DEF StartForm
<1>2. ASSUME NEW tm \in Timers, NewTimer(tm) PROVE StartForm'
  <2>1. PICK p \in Periods : ms' = [ms EXCEPT ![tm] = p] /\ next' = [next EXCEPT ![tm] = now + p]
    BY <1>2 DEF NewTimer
  <2>2. now' = now /\ jumps' = jumps
    BY <1>2 DEF NewTimer, clock
  <2>3. \A x \in Timers : /\ ms'[x] = (IF x = tm THEN p ELSE ms[x])
                          /\ next'[x] = (IF x = tm THEN now + p ELSE next[x])
    BY <2>1 DEF TypeOK
  <2>4. now \in Nat /\ p \in Nat
    BY DEF TypeOK
  <2> QED BY <2>2, <2>3, <2>4 DEF StartForm
<1>3. ASSUME NEW tm \in Timers, Refresh(tm) PROVE StartForm'
  <2>1. /\ ms' = ms /\ now' = now /\ jumps' = jumps
        /\ \A x \in Timers : next'[x] = IF x = tm THEN now + ms[x] ELSE next[x]
    BY <1>3 DEF Refresh, clock, TypeOK
  <2> QED BY <2>1 DEF StartForm, TypeOK
<1>4. ASSUME NEW tm \in Timers, Reset(tm) PROVE StartForm'
  <2>1. PICK p \in Periods, fromNow \in BOOLEAN :
            /\ ms' = [ms EXCEPT ![tm] = p]
            /\ next' = [next EXCEPT ![tm] = (IF fromNow THEN now ELSE next[tm] - ms[tm]) + p]
    BY <1>4 DEF Reset
  <2>2. now' = now /\ jumps' = jumps
    BY <1>4 DEF Reset, clock
  <2>3. \A x \in Timers : /\ ms'[x] = (IF x = tm THEN p ELSE ms[x])
                          /\ next'[x] = (IF x = tm THEN (IF fromNow THEN now ELSE next[tm] - ms[tm]) + p
                                         ELSE next[x])
    BY <2>1 DEF TypeOK
  <2>4. now \in Nat /\ next[tm] \in Nat /\ ms[tm] \in Nat /\ p \in Nat
    BY DEF TypeOK
  <2>5. jumps = 0 => (IF fromNow THEN now ELSE next[tm] - ms[tm]) + p <= now + p
    BY <2>4 DEF StartForm
  <2> QED BY <2>2, <2>3, <2>5 DEF StartForm
<1>5. ASSUME NEW t \in Threads, ListExpiredCb(t) PROVE StartForm'
  <2>1. PICK expired \in ExpiredSets(nowMs[t]) : Collect(t, expired)
    BY <1>5 DEF ListExpiredCb
  <2>2. ms' = ms /\ now' = now /\ jumps' = jumps
    BY <1>5 DEF ListExpiredCb, clock
  <2>3. \A x \in Timers : next'[x] = nowMs[t] + ms[x] \/ next'[x] = next[x]
    BY <2>1 DEF Collect
  <2>4. jumps = 0 => nowMs[t] <= now
    BY DEF ClockInv
  <2>5. now \in Nat /\ nowMs[t] \in Nat /\ ms \in [Timers -> Nat]
    BY DEF TypeOK
  <2> QED BY <2>2, <2>3, <2>4, <2>5 DEF StartForm
<1>6. ASSUME Tick PROVE StartForm'
  BY <1>6 DEF Tick, manager, StartForm, TypeOK
<1>7. ASSUME SetClockBack PROVE StartForm'
  BY <1>7 DEF SetClockBack, manager, StartForm, TypeOK
<1>8. ASSUME NEW tm \in Timers, AddTimer(tm) \/ Cancel(tm) PROVE StartForm'
  BY <1>1, <1>8 DEF AddTimer, Cancel, clock
<1>9. ASSUME NEW t \in Threads,
             \/ GetNextTimer(t) \/ WakeTimeout(t) \/ WakeTickle(t) \/ WakeEvent(t)
             \/ CheckEmpty(t) \/ ScheduleExpired(t) \/ EnterIdle(t)
      PROVE  StartForm'
  BY <1>1, <1>9 DEF GetNextTimer, WakeTimeout, WakeTickle, WakeEvent, Return, CheckEmpty,
                    ScheduleExpired, EnterIdle, manager, clock
<1>10. ASSUME OnTimerInsertedAtFront \/ UNCHANGED vars PROVE StartForm'
  BY <1>1, <1>10 DEF OnTimerInsertedAtFront, vars, manager, clock
<1> QED BY <1>2, <1>3, <1>4, <1>5, <1>6, <1>7, <1>8, <1>9, <1>10 DEF Next, Caller, IdleThread

(* An insertion that is not announced is behind an entry that stays.        *)
LEMMA InsertCovered ==
    ASSUME TypeOK, FrontForm, NEW S \in SUBSET timers, NEW e \in [next : Nat, timer : Timers],
           InsertEntry(e, S), UNCHANGED <<pc, timeout, now, jumps, pipe>>
    PROVE  FrontForm'
<1>1. PICK front \in {IsFirst(e, S) /\ ~tickled,
                      IsFirst(e, S) /\ ~tickled /\ \A f \in S : e.next < f.next} :
          /\ timers' = S \cup {e}
          /\ tickled' = (tickled \/ front)
          /\ notify' = IF front THEN notify + 1 ELSE notify
  BY DEF InsertEntry
<1>2. Awake => Awake'
  BY <1>1 DEF Awake, TypeOK
<1>3. CASE front
  <2>1. notify' = notify + 1 /\ notify \in Nat
    BY <1>1, <1>3 DEF TypeOK
  <2>2. Awake'
    BY <2>1 DEF Awake
  <2> QED BY <2>2 DEF FrontForm
<1>4. CASE tickled
  BY <1>2, <1>4 DEF FrontForm
<1>5. CASE ~front /\ ~tickled
  <2>1. PICK f \in S : f.next <= e.next
    <3>1. ~IsFirst(e, S) \/ ~(\A f \in S : e.next < f.next)
      BY <1>5
    <3>2. \A f \in S : f.next \in Nat
      BY DEF TypeOK
    <3> QED BY <3>1, <3>2 DEF IsFirst
  <2>2. ~tickled'
    BY <1>1, <1>5
  <2>3. ASSUME NEW t \in Threads, Covers(t) PROVE Covers(t)'
    <3>1. timeout'[t] = timeout[t] /\ now' = now /\ now \in Nat /\ timeout[t] \in Int
      BY DEF TypeOK
    <3>2. \A g \in timers : g.next \in Nat
      BY DEF TypeOK
    <3>3. CASE timeout[t] = 0
      BY <3>1, <3>3 DEF Covers
    <3>4. CASE timeout[t] # 0
      <4>1. \A g \in timers : now + timeout[t] <= g.next
        BY <2>3, <3>4 DEF Covers
      <4>2. now + timeout[t] <= e.next
        BY <2>1, <3>1, <3>2, <4>1
      <4> QED BY <1>1, <2>3, <3>1, <4>1, <4>2 DEF Covers
    <3> QED BY <3>3, <3>4
  <2> QED BY <1>2, <2>1, <2>2, <2>3 DEF FrontForm
<1> QED BY <1>3, <1>4, <1>5

(* Entries that leave or move back uncover nothing.                         *)
LEMMA LaterCovered ==
    ASSUME TypeOK, FrontForm, \A e \in timers' : e.next \in Nat /\ \E f \in timers : f.next <= e.next,
           UNCHANGED <<pc, timeout, now, jumps, pipe, tickled, notify>>
    PROVE  FrontForm'
<1>1. Awake' = Awake
  BY DEF Awake
<1>2. ASSUME NEW t \in Threads, Covers(t) PROVE Covers(t)'
  <2>1. timeout'[t] = timeout[t] /\ now' = now /\ now \in Nat /\ timeout[t] \in Int
    BY DEF TypeOK
  <2>2. \A g \in timers : g.next \in Nat
    BY DEF TypeOK
  <2>3. CASE timeout[t] = 0
    BY <2>1, <2>3 DEF Covers
  <2>4. CASE timeout[t] # 0
    <3>1. \A g \in timers : now + timeout[t] <= g.next
      BY <1>2, <2>4 DEF Covers
    <3>2. \A e \in timers' : now + timeout[t] <= e.next
      BY <2>1, <2>2, <3>1
    <3> QED BY <1>2, <2>1, <3>2 DEF Covers
  <2> QED BY <2>3, <2>4
<1>3. timers' # {} => timers # {}
  OBVIOUS
<1> QED BY <1>1, <1>2, <1>3 DEF FrontForm

(* Every step keeps the front covered or announced.                         *)
LEMMA FrontStep ==
    ASSUME Threads # {}, ShortPeriods,
           TypeOK, NextFromMs, QueueForm, StartForm, FrontForm, [Next]_vars
    PROVE  FrontForm'
<1> USE ConstantsAssumption
<1>0. ASSUME NEW t \in Threads, pc'[t] # "wait" PROVE FrontForm'
  BY <1>0 DEF FrontForm, Awake
<1>1. ASSUME NEW tm \in Timers, NewTimer(tm) PROVE FrontForm'
  <2>1. UNCHANGED <<timers, tickled, notify, pipe, pc, timeout, now, jumps>>
    BY <1>1 DEF NewTimer, idle, clock
  <2> QED BY <2>1 DEF FrontForm, Awake, Covers
<1>2. ASSUME NEW tm \in Timers, AddTimer(tm) PROVE FrontForm'
  <2>1. InsertEntry(Entry(tm), timers) /\ UNCHANGED <<pc, timeout, now, jumps, pipe>>
    BY <1>2 DEF AddTimer, idle, clock
  <2>2. Entry(tm) \in [next : Nat, timer : Timers] /\ timers \in SUBSET timers
    BY DEF Entry, TypeOK
  <2> QED BY <2>1, <2>2, InsertCovered
<1>3. ASSUME NEW tm \in Timers, Cancel(tm) PROVE FrontForm'
  <2>1. timers' \subseteq timers /\ UNCHANGED <<pc, timeout, now, jumps, pipe, tickled, notify>>
    BY <1>3 DEF Cancel, idle, clock
  <2>2. \A e \in timers' : e.next \in Nat /\ \E f \in timers : f.next <= e.next
    <3>1. \A e \in timers' : e \in timers /\ e.next \in Nat /\ e.next <= e.next
      BY <2>1 DEF TypeOK
    <3> QED BY <3>1
  <2> QED BY <2>1, <2>2, LaterCovered
<1>4. ASSUME NEW tm \in Timers, Refresh(tm) PROVE FrontForm'
  <2>1. /\ Entry(tm) \in timers
        /\ timers' = (timers \ {Entry(tm)}) \cup {[next |-> now + ms[tm], timer |-> tm]}
        /\ UNCHANGED <<pc, timeout, now, jumps, pipe, tickled, notify>>
    BY <1>4 DEF Refresh, idle, clock
  <2>2. now \in Nat /\ ms[tm] \in Nat /\ next[tm] \in Nat
    BY DEF TypeOK
  <2>3. CASE jumps = 0
    <3>1. Entry(tm).next <= now + ms[tm]
      BY <2>2, <2>3 DEF StartForm, Entry
    <3>2. \A e \in timers : e.next \in Nat /\ e.next <= e.next
      BY DEF TypeOK
    <3>3. \A e \in timers' : e.next \in Nat /\ \E f \in timers : f.next <= e.next
      BY <2>1, <2>2, <3>1, <3>2
    <3> QED BY <2>1, <3>3, LaterCovered
  <2>4. CASE jumps # 0
    BY <2>1, <2>4 DEF FrontForm, Awake
  <2> QED BY <2>3, <2>4
<1>5. ASSUME NEW tm \in Timers, Reset(tm) PROVE FrontForm'
  <2>1. PICK p \in Periods, fromNow \in BOOLEAN :
            LET start == IF fromNow THEN now ELSE next[tm] - ms[tm] IN
            /\ next' = [next EXCEPT ![tm] = start + p]
            /\ InsertEntry([next |-> start + p, timer |-> tm], timers \ {Entry(tm)})
    BY <1>5 DEF Reset
  <2> DEFINE new == (IF fromNow THEN now ELSE next[tm] - ms[tm]) + p
  <2>2. UNCHANGED <<pc, timeout, now, jumps, pipe>>
    BY <1>5 DEF Reset, idle, clock
  <2>3. InsertEntry([next |-> new, timer |-> tm], timers \ {Entry(tm)})
    BY <2>1
  <2>4. new \in Nat
    BY DEF TypeOK, NextFromMs
  <2> HIDE DEF new
  <2>5. [next |-> new, timer |-> tm] \in [next : Nat, timer : Timers]
    BY <2>4
  <2> QED BY <2>2, <2>3, <2>5, InsertCovered
<1>6. ASSUME OnTimerInsertedAtFront PROVE FrontForm'
  <2>1. CASE \E t \in Threads : pc[t] # "busy"
    <3>1. pipe'
      BY <1>6, <2>1 DEF OnTimerInsertedAtFront
    <3> QED BY <3>1 DEF FrontForm, Awake
  <2>2. CASE \A t \in Threads : pc[t] = "busy"
    BY <1>0, <1>6, <2>2 DEF OnTimerInsertedAtFront, idle
  <2> QED BY <2>1, <2>2
<1>7. ASSUME NEW t \in Threads, GetNextTimer(t) PROVE FrontForm'
  <2>1. /\ ~tickled' /\ UNCHANGED <<timers, jumps, now, notify, pipe>>
        /\ timeout' = [timeout EXCEPT ![t] = IF timers = {} THEN MaxTimeout
                          ELSE Clamp(IF now >= FrontNext THEN 0 ELSE FrontNext - now)]
    BY <1>7 DEF GetNextTimer, clock
  <2>2. CASE timers = {} \/ jumps # 0
    BY <2>1, <2>2 DEF FrontForm
  <2>3. CASE timers # {} /\ jumps = 0
    <3> DEFINE x == IF now >= FrontNext THEN 0 ELSE FrontNext - now
    <3>1. /\ FrontNext \in Nat /\ now \in Nat
          /\ \A e \in timers : FrontNext <= e.next
          /\ \E e \in timers : FrontNext = e.next
      BY <2>3, FrontIsFirst DEF TypeOK
    <3>2. PICK e \in timers : FrontNext = e.next
      BY <3>1
    <3>3. e.timer \in Timers /\ next[e.timer] = FrontNext /\ ms[e.timer] \in Nat
      BY <3>2 DEF QueueForm, EntriesActive, TypeOK
    <3>4. FrontNext <= now + ms[e.timer] /\ 2 * ms[e.timer] < IntMod
      BY <2>3, <3>3 DEF StartForm, ShortPeriods
    <3>5. x \in Nat /\ 2 * x < IntMod
      BY <3>1, <3>3, <3>4
    <3>6. 0 <= Clamp(x) /\ Clamp(x) <= x /\ Clamp(x) \in Int
      BY <3>5, ClampShortens, ClampIsInt
    <3>7. timeout'[t] = Clamp(x)
      BY <2>1, <2>3 DEF TypeOK
    <3>8. \A f \in timers : f.next \in Nat
      BY DEF TypeOK
    <3>9. timeout'[t] = 0 \/ \A f \in timers : now + timeout'[t] <= f.next
      <4>1. CASE now >= FrontNext
        BY <3>6, <3>7, <4>1
      <4>2. CASE now < FrontNext
        <5>1. x = FrontNext - now
          BY <3>1, <4>2
        <5> HIDE DEF x
        <5>2. now + Clamp(x) <= FrontNext
          BY <3>1, <3>6, <5>1
        <5> QED BY <3>1, <3>6, <3>7, <3>8, <5>2
      <4> QED BY <3>1, <4>1, <4>2
    <3>10. Covers(t)'
      BY <2>1, <3>6, <3>7, <3>9 DEF Covers
    <3> QED BY <2>1, <3>10 DEF FrontForm
  <2> QED BY <2>2, <2>3
<1>8. ASSUME NEW t \in Threads,
             \/ WakeTimeout(t) \/ WakeTickle(t) \/ WakeEvent(t) \/ CheckEmpty(t)
             \/ ListExpiredCb(t) \/ ScheduleExpired(t) \/ EnterIdle(t)
      PROVE  FrontForm'
  <2>1. pc'[t] # "wait"
    BY <1>8 DEF WakeTimeout, WakeTickle, WakeEvent, Return, CheckEmpty, ListExpiredCb, Collect,
                ScheduleExpired, EnterIdle, TypeOK
  <2> QED BY <1>0, <2>1
<1>9. ASSUME Tick PROVE FrontForm'
  <2>1. UNCHANGED <<timers, jumps, tickled, notify, pipe, pc>> /\ now' = now + 1
    BY <1>9 DEF Tick, manager
  <2>2. Awake' = Awake
    BY <2>1 DEF Awake
  <2>3. ASSUME ~Awake, NEW t \in Threads, Covers(t) PROVE Covers(t)'
    <3>1. timeout[t] \in Int /\ now \in Nat /\ \A e \in timers : e.next \in Nat
      BY DEF TypeOK
    <3>2. timeout'[t] = IF timeout[t] > 0 THEN timeout[t] - 1 ELSE timeout[t]
      BY <1>9, <2>3 DEF Tick, Awake
    <3>3. CASE timeout[t] = 0
      BY <3>2, <3>3 DEF Covers
    <3>4. CASE timeout[t] > 0
      <4>1. \A e \in timers : now + timeout[t] <= e.next
        BY <2>3, <3>4 DEF Covers
      <4>2. timeout'[t] >= 0 /\ now' + timeout'[t] = now + timeout[t]
        BY <2>1, <3>1, <3>2, <3>4
      <4> QED BY <2>1, <4>1, <4>2 DEF Covers
    <3> QED BY <2>3, <3>1, <3>3, <3>4 DEF Covers
  <2> QED BY <2>1, <2>2, <2>3 DEF FrontForm
<1>10. ASSUME SetClockBack PROVE FrontForm'
  <2>1. jumps' # 0 /\ UNCHANGED <<tickled, notify, pipe, pc>>
    BY <1>10 DEF SetClockBack, manager, idle, TypeOK
  <2> QED BY <2>1 DEF FrontForm, Awake
<1>11. ASSUME UNCHANGED vars PROVE FrontForm'
  BY <1>11 DEF vars, manager, clock, idle, FrontForm, Awake, Covers
<1> QED BY <1>1, <1>2, <1>3, <1>4, <1>5, <1>6, <1>7, <1>8, <1>9, <1>10, <1>11
        DEF Next, Caller, IdleThread

(* The single m_tickled flag loses no wake-up, for any number of callers    *)
(* and sleepers, as long as there is a thread and no period reaches 2^31    *)
(* ms: while timers are queued and nobody has set the clock back, somebody  *)
(* is out of epoll_wait or about to be woken, or sleeps no longer than      *)
(* until the first timer is due.                                            *)
THEOREM NoWakeupLost ==
    ASSUME Threads # {}, ShortPeriods
    PROVE  Spec => []FrontWatched
<1>1. Init => ClockInv /\ StartForm /\ FrontForm
  BY ConstantsAssumption DEF Init, ClockInv, Prompt, StartForm, FrontForm, Awake
<1>2. TypeInv /\ QueueForm /\ StartForm /\ FrontForm /\ [Next]_vars => FrontForm'
  BY FrontStep DEF TypeInv
<1>3. TypeInv /\ FrontForm => FrontWatched
  <2> SUFFICES ASSUME TypeOK, FrontForm, timers # {}, jumps = 0, ~Awake
               PROVE  \E t \in Threads : timeout[t] >= 0
                          /\ (timeout[t] = 0 \/ now + timeout[t] <= FrontNext)
    BY DEF TypeInv, FrontWatched, Awake
  <2>1. PICK t \in Threads : Covers(t)
    BY DEF FrontForm
  <2>2. \E e \in timers : FrontNext = e.next
    BY FrontIsFirst
  <2> QED BY <2>1, <2>2 DEF Covers
<1> QED BY <1>1, <1>2, <1>3, TypeInit, TypeStep, QueueInit, QueueStep, ClockStep, StartStep, PTL
        DEF Spec
=============================================================================
