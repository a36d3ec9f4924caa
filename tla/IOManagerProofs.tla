--------------------------- MODULE IOManagerProofs --------------------------
(***************************************************************************)
(* Proofs about IOManager, for any pool of threads and any bounds.  The     *)
(* inductive invariant IOInv says, besides the types,                       *)
(*   HoldForm    where a thread may have callbacks or events in its hands;  *)
(*   CountsExact, as the run checks it;                                     *)
(*   BoundForm   no more events are counted than were ever registered;      *)
(*   StopForm    no thread leaves before stop() was called, and stop()      *)
(*               returns when all have left;                                *)
(*   DrainForm   a queue that is not empty has a thread that will look at   *)
(*               it again: the one that pushed last always comes back to    *)
(*               the scan, and an idle fiber ends on an empty queue only.   *)
(***************************************************************************)
EXTENDS IOManager, FiniteSetTheorems, TLAPS

(* The types apart from the three counters that are decremented without a   *)
(* test: that they stay above zero follows from CountsExact.                *)
Typed ==
    /\ queue \in Nat /\ timers \in Nat /\ due \in Nat /\ parked \in Nat /\ hot \in Nat
    /\ active \in Int /\ idle \in Int /\ pending \in Int
    /\ pipe \in BOOLEAN /\ stopFlag \in BOOLEAN
    /\ mpc \in {"user", "tickle", "stop", "join", "stopped"}
    /\ pc \in [Threads -> Pcs] /\ ret \in [Threads -> Pcs]
    /\ idleTerm \in [Threads -> BOOLEAN]
    /\ cbs \in [Threads -> Nat] /\ got \in [Threads -> Nat]
    /\ used \in [DOMAIN Bound -> Nat]

HoldForm ==
    \A t \in Threads :
        /\ pc[t] = "tickle" => ret[t] \in {"run", "scan", "events", "counted"}
        /\ At(t) # "timers" => cbs[t] = 0
        /\ At(t) \notin {"expire", "timers", "events", "counted"} => got[t] = 0
        /\ At(t) = "counted" => got[t] > 0

BoundForm ==
    /\ pending <= used["waits"] /\ used["waits"] <= MaxWaits
    /\ \A t \in Threads : got[t] <= MaxWaits

StopForm ==
    /\ stopFlag <=> mpc \in {"stop", "join", "stopped"}
    /\ ~stopFlag => \A t \in Threads : pc[t] # "exit" /\ ~idleTerm[t]
    /\ mpc = "stopped" => \A t \in Threads : pc[t] = "exit"

(* Thread t will come to the scan of the queue again.                       *)
Returns(t) == pc[t] # "exit" /\ ~(pc[t] = "none" /\ idleTerm[t])
DrainForm == queue > 0 => \E t \in Threads : Returns(t)

IOInv == Typed /\ HoldForm /\ CountsExact /\ BoundForm /\ StopForm /\ DrainForm

-----------------------------------------------------------------------------
(* Thread t is at label after the step, or in a tickle() that leads there.  *)
Moved(t, label) ==
    /\ pc' \in [Threads -> Pcs] /\ ret' \in [Threads -> Pcs]
    /\ \A u \in Threads \ {t} : pc'[u] = pc[u] /\ ret'[u] = ret[u]
    /\ label # "tickle"
    /\ \/ pc'[t] = label
       \/ /\ pc'[t] = "tickle" /\ ret'[t] = label
          /\ label \in {"run", "scan", "events", "counted"}

(* Everything a thread keeps to itself, of the other threads.               *)
OthersKeep(t) ==
    \A u \in Threads \ {t} : /\ idleTerm'[u] = idleTerm[u]
                             /\ cbs'[u] = cbs[u] /\ got'[u] = got[u]

(* A move is seen by t alone.                                               *)
LEMMA MovedAt ==
    ASSUME NEW t \in Threads, NEW label, Moved(t, label)
    PROVE  /\ At(t)' = label
           /\ \A u \in Threads \ {t} : At(u)' = At(u)
BY DEF Moved, At

(* The two ways a thread goes on.                                           *)
LEMMA GotoMoves ==
    ASSUME Typed, NEW t \in Threads, NEW label \in Pcs \ {"tickle"}, Goto(t, label)
    PROVE  Moved(t, label)
BY DEF Typed, Goto, Moved

LEMMA ScheduleMoves ==
    ASSUME Typed, NEW t \in Threads, NEW n, NEW label \in {"run", "scan", "events", "counted"},
           ScheduleThen(t, n, label)
    PROVE  Moved(t, label) /\ queue' = queue + n
<1>1. label \in Pcs \ {"tickle"} /\ "tickle" \in Pcs
  BY DEF Pcs
<1>2. CASE queue = 0
  BY <1>1, <1>2 DEF Typed, ScheduleThen, Moved
<1>3. CASE queue # 0
  BY <1>1, <1>3, GotoMoves DEF ScheduleThen
<1> QED
  BY <1>2, <1>3 DEF ScheduleThen

-----------------------------------------------------------------------------
(* Counting: the counters and the sets they count.                          *)
Tasks == {t \in Threads : InTask(t)}
Idles == {t \in Threads : InIdle(t)}
One(b) == IF b THEN 1 ELSE 0

LEMMA CountSets == IsFiniteSet(Tasks) /\ IsFiniteSet(Idles) /\ IsFiniteSet(Held)
<1>1. IsFiniteSet(Tasks) /\ IsFiniteSet(Idles)
  BY FS_Subset, IOManagerAssumption DEF Tasks, Idles
<1>2. IsFiniteSet(1..MaxWaits)
  BY FS_Interval, IOManagerAssumption
<1>3. IsFiniteSet(Threads \X (1..MaxWaits))
  BY <1>2, FS_Product, IOManagerAssumption
<1> QED
  BY <1>1, <1>3, FS_Subset DEF Held

(* A set that gains or loses at most one element.                           *)
LEMMA OneMoves ==
    ASSUME NEW S, NEW T, NEW x, IsFiniteSet(S), \A y : y # x => (y \in S <=> y \in T)
    PROVE  Cardinality(T) = Cardinality(S) + One(x \in T) - One(x \in S)
<1>0. Cardinality(S) \in Nat
  BY FS_CardinalityType
<1>1. CASE x \in S <=> x \in T
  <2>1. S = T
    BY <1>1
  <2> QED
    BY <1>0, <2>1 DEF One
<1>2. CASE x \in T /\ x \notin S
  <2>1. T = S \cup {x}
    BY <1>2
  <2> QED
    BY <1>0, <1>2, <2>1, FS_AddElement DEF One
<1>3. CASE x \notin T /\ x \in S
  <2>1. T = S \ {x}
    BY <1>3
  <2> QED
    BY <1>0, <1>3, <2>1, FS_RemoveElement DEF One
<1> QED
  BY <1>1, <1>2, <1>3

(* Threads in a task and threads in idle() when one thread moves.           *)
LEMMA CountMove ==
    ASSUME NEW t \in Threads, \A u \in Threads \ {t} : At(u)' = At(u),
           active = Cardinality(Tasks), idle = Cardinality(Idles),
           active' = active + One(InTask(t)') - One(InTask(t)),
           idle' = idle + One(InIdle(t)') - One(InIdle(t))
    PROVE  active' = Cardinality(Tasks') /\ idle' = Cardinality(Idles')
<1>1. \A y : y # t => (y \in Tasks <=> y \in Tasks')
  BY DEF Tasks, InTask
<1>2. \A y : y # t => (y \in Idles <=> y \in Idles')
  BY DEF Idles, InIdle
<1>3. /\ t \in Tasks <=> InTask(t) 
      /\ t \in Tasks' <=> InTask(t)'
      /\ t \in Idles <=> InIdle(t) 
      /\ t \in Idles' <=> InIdle(t)'
  BY DEF Tasks, Idles
<1>4. Cardinality(Tasks') = Cardinality(Tasks) + One(t \in Tasks') - One(t \in Tasks)
  BY <1>1, CountSets, OneMoves
<1>5. Cardinality(Idles') = Cardinality(Idles) + One(t \in Idles') - One(t \in Idles)
  BY <1>2, CountSets, OneMoves
<1> QED
  BY <1>3, <1>4, <1>5 DEF One

(* Events in the hands of the threads: t takes a batch ...                  *)
LEMMA HeldGrows ==
    ASSUME Typed, NEW t \in Threads, NEW n \in 0..MaxWaits, got[t] = 0,
           got' = [got EXCEPT ![t] = n]
    PROVE  Cardinality(Held') = Cardinality(Held) + n
<1> USE IOManagerAssumption
<1> DEFINE Fresh == {<<t, i>> : i \in 1..n}
           f == [i \in 1..n |-> <<t, i>>]
<1>1. f \in Bijection(1..n, Fresh)
  BY DEF Bijection, Injection, Surjection, IsInjective
<1>2. ExistsBijection(1..n, Fresh)
  BY <1>1 DEF ExistsBijection
<1>3. \A u \in Threads : got'[u] = (IF u = t THEN n ELSE got[u]) /\ got[u] \in Nat
  BY DEF Typed
<1>4. \A p \in Threads \X (1..MaxWaits) : p \in Fresh <=> p[1] = t /\ p[2] <= n
  OBVIOUS
<1>5. Fresh \subseteq Threads \X (1..MaxWaits)
  OBVIOUS
<1>6. Held' = Held \cup Fresh /\ Held \cap Fresh = {}
  <2>1. \A p \in Threads \X (1..MaxWaits) : p \in Held' <=> p \in Held \/ p \in Fresh
    BY <1>3, <1>4 DEF Held
  <2>2. \A p \in Threads \X (1..MaxWaits) : ~(p \in Held /\ p \in Fresh)
    BY <1>4 DEF Held
  <2>3. Held \subseteq Threads \X (1..MaxWaits) /\ Held' \subseteq Threads \X (1..MaxWaits)
    BY DEF Held
  <2> HIDE DEF Fresh
  <2> QED
    BY <1>5, <2>1, <2>2, <2>3
<1> HIDE DEF Fresh, f
<1>7. IsFiniteSet(1..n) /\ Cardinality(1..n) = n
  BY FS_Interval
<1>8. IsFiniteSet(Fresh) /\ Cardinality(Fresh) = n
  BY <1>2, <1>7, FS_Bijection
<1>9. Cardinality(Held') = Cardinality(Held) + Cardinality(Fresh) - Cardinality(Held \cap Fresh)
  BY <1>6, <1>8, CountSets, FS_Union
<1>10. Cardinality(Held \cap Fresh) = 0 /\ Cardinality(Held) \in Nat
  BY <1>6, CountSets, FS_CardinalityType, FS_EmptySet
<1> QED
  BY <1>8, <1>9, <1>10

(* ... and hands them over one by one.                                      *)
LEMMA HeldShrinks ==
    ASSUME Typed, NEW t \in Threads, got[t] \in 1..MaxWaits,
           got' = [got EXCEPT ![t] = @ - 1]
    PROVE  Cardinality(Held') = Cardinality(Held) - 1
<1> USE IOManagerAssumption
<1>1. \A u \in Threads : got'[u] = (IF u = t THEN got[u] - 1 ELSE got[u]) /\ got[u] \in Nat
  BY DEF Typed
<1>2. \A p \in Threads \X (1..MaxWaits) : p \in Held' <=> p \in Held /\ p # <<t, got[t]>>
  BY <1>1 DEF Held
<1>3. Held' = Held \ {<<t, got[t]>>} /\ <<t, got[t]>> \in Held
  <2>1. Held \subseteq Threads \X (1..MaxWaits) /\ Held' \subseteq Threads \X (1..MaxWaits)
    BY DEF Held
  <2>2. <<t, got[t]>> \in Held
    BY DEF Held
  <2> QED
    BY <1>2, <2>1, <2>2
<1> QED
  BY <1>3, CountSets, FS_RemoveElement, FS_CardinalityType

-----------------------------------------------------------------------------
(* Where threads are in a task, and where in idle().                        *)
TaskPcs == {"run", "back", "yielded"}
IdlePcs == {"timer?", "pending?", "queue?", "wait", "expire", "timers", "events", "counted",
            "leave"}

(* What a step of thread t that takes it to label does, seen from outside:  *)
(* the two thread counters follow the move, only some places hold callbacks *)
(* or events, an idle fiber ends after stop() only, run() is left through   *)
(* the ended idle fiber only, and who pushes does not leave.                *)
Effect(t, label) ==
    /\ Moved(t, label) /\ OthersKeep(t)
    /\ idleTerm' \in [Threads -> BOOLEAN]
    /\ active' = active + One(label \in TaskPcs) - One(At(t) \in TaskPcs)
    /\ idle' = idle + One(label \in IdlePcs) - One(At(t) \in IdlePcs)
    /\ label = "timers" \/ cbs'[t] = 0
    /\ label \in {"expire", "timers", "events", "counted"} \/ got'[t] = 0
    /\ label = "counted" => got'[t] > 0
    /\ idleTerm'[t] => idleTerm[t] \/ stopFlag
    /\ label = "exit" => pc[t] = "none" /\ idleTerm[t]
    /\ label = "none" => queue' = 0
    /\ pc[t] # "exit"
    /\ stopFlag' = stopFlag /\ mpc' = mpc
    /\ queue' \in Nat
    /\ queue' > queue => label \notin {"none", "exit"}

(* Every action of a thread has such an effect.                             *)
LEMMA RunEffect ==
    ASSUME Typed, HoldForm, NEW t \in Threads, Run(t)
    PROVE  \E label \in Pcs : Effect(t, label)
<1> USE DEF TaskPcs, IdlePcs, One
<1>1. CASE Tickle(t)
  <2>1. ret[t] \in {"run", "scan", "events", "counted"} /\ At(t) = ret[t] /\ pc[t] # "exit"
    BY <1>1 DEF Tickle, HoldForm, At
  <2>2. Moved(t, ret[t]) /\ ret[t] \in Pcs
    BY <1>1, <2>1 DEF Tickle, Typed, Moved, Pcs
  <2>3. UNCHANGED <<queue, active, idle, stopFlag, mpc, idleTerm, cbs, got>>
    BY <1>1 DEF Tickle, counts
  <2>4. active \in Int /\ idle \in Int /\ queue \in Nat /\ idleTerm \in [Threads -> BOOLEAN]
    BY DEF Typed
  <2>5. Effect(t, ret[t])
    BY <2>1, <2>2, <2>3, <2>4 DEF Effect, HoldForm, OthersKeep
  <2> QED
    BY <2>2, <2>5
<1>2. CASE Take(t)
  <2>1. Moved(t, "run") /\ At(t) = pc[t] /\ pc[t] = "scan"
    BY <1>2, GotoMoves DEF Take, At, Pcs
  <2> QED
    BY <1>2, <2>1 DEF Effect, Take, Typed, HoldForm, OthersKeep, counts, Pcs
<1>3. CASE TakeNothing(t)
  <2>1. Moved(t, "none") /\ At(t) = pc[t] /\ pc[t] = "scan"
    BY <1>3, GotoMoves DEF TakeNothing, At, Pcs
  <2> QED
    BY <1>3, <2>1 DEF Effect, TakeNothing, Typed, HoldForm, OthersKeep, counts, Pcs
<1>4. CASE Spawn(t)
  <2>1. Moved(t, "run") /\ queue' = queue + 1 /\ At(t) = pc[t] /\ pc[t] = "run"
    BY <1>4, ScheduleMoves DEF Spawn, At
  <2> QED
    BY <1>4, <2>1 DEF Effect, Spawn, Typed, HoldForm, OthersKeep, counts, Pcs
<1>5. CASE AddTimer(t)
  <2>1. Moved(t, "run") /\ At(t) = pc[t] /\ pc[t] = "run"
    BY <1>5, GotoMoves DEF AddTimer, At, Pcs, Moved, Typed
  <2> QED
    BY <1>5, <2>1 DEF Effect, AddTimer, Typed, HoldForm, OthersKeep, counts, Pcs
<1>6. CASE AwaitEvent(t)
  <2>1. Moved(t, "back") /\ At(t) = pc[t] /\ pc[t] = "run"
    BY <1>6, GotoMoves DEF AwaitEvent, At, Pcs
  <2> QED
    BY <1>6, <2>1 DEF Effect, AwaitEvent, Typed, HoldForm, OthersKeep, counts, Pcs
<1>7. CASE YieldToReady(t)
  <2>1. Moved(t, "yielded") /\ At(t) = pc[t] /\ pc[t] = "run"
    BY <1>7, GotoMoves DEF YieldToReady, At, Pcs
  <2> QED
    BY <1>7, <2>1 DEF Effect, YieldToReady, Typed, HoldForm, OthersKeep, counts, Pcs
<1>8. CASE Finish(t)
  <2>1. Moved(t, "back") /\ At(t) = pc[t] /\ pc[t] = "run"
    BY <1>8, GotoMoves DEF Finish, At, Pcs
  <2> QED
    BY <1>8, <2>1 DEF Effect, Finish, Typed, HoldForm, OthersKeep, counts, Pcs
<1>9. CASE Back(t)
  <2> DEFINE label == IF pc[t] = "back" THEN "scan" ELSE "requeue"
  <2>0. label \in Pcs \ {"tickle"}
    BY DEF Pcs
  <2>1. Moved(t, label) /\ At(t) = pc[t]
    BY <2>0, <1>9, GotoMoves DEF Back, At, Pcs
  <2> QED
    BY <2>0, <1>9, <2>1 DEF Effect, Back, Typed, HoldForm, OthersKeep, counts, Pcs
<1>10. CASE Requeue(t)
  <2>1. Moved(t, "scan") /\ queue' = queue + 1 /\ At(t) = pc[t] /\ pc[t] = "requeue"
    BY <1>10, ScheduleMoves DEF Requeue, At
  <2> QED
    BY <1>10, <2>1 DEF Effect, Requeue, Typed, HoldForm, OthersKeep, counts, Pcs
<1>11. CASE EnterIdle(t)
  <2>1. Moved(t, "timer?") /\ At(t) = pc[t] /\ pc[t] = "none"
    BY <1>11, GotoMoves DEF EnterIdle, At, Pcs
  <2> QED
    BY <1>11, <2>1 DEF Effect, EnterIdle, Typed, HoldForm, OthersKeep, counts, Pcs
<1>12. CASE Exit(t)
  <2>1. Moved(t, "exit") /\ At(t) = pc[t] /\ pc[t] = "none"
    BY <1>12, GotoMoves DEF Exit, At, Pcs
  <2> QED
    BY <1>12, <2>1 DEF Effect, Exit, Typed, HoldForm, OthersKeep, counts, Pcs
<1>13. CASE TestTimers(t)
  <2> DEFINE label == IF timers + due = 0 THEN "pending?" ELSE "wait"
  <2>0. label \in Pcs \ {"tickle"}
    BY DEF Pcs
  <2>1. Moved(t, label) /\ At(t) = pc[t] /\ pc[t] = "timer?"
    BY <2>0, <1>13, GotoMoves DEF TestTimers, At, Pcs
  <2> QED
    BY <2>0, <1>13, <2>1 DEF Effect, TestTimers, Typed, HoldForm, OthersKeep, counts, Pcs
<1>14. CASE TestPending(t)
  <2> DEFINE label == IF pending = 0 THEN "queue?" ELSE "wait"
  <2>0. label \in Pcs \ {"tickle"}
    BY DEF Pcs
  <2>1. Moved(t, label) /\ At(t) = pc[t] /\ pc[t] = "pending?"
    BY <2>0, <1>14, GotoMoves DEF TestPending, At, Pcs
  <2> QED
    BY <2>0, <1>14, <2>1 DEF Effect, TestPending, Typed, HoldForm, OthersKeep, counts, Pcs
<1>15. CASE TestQueue(t)
  <2> DEFINE label == IF stopFlag /\ queue = 0 /\ active = 0 THEN "leave" ELSE "wait"
  <2>0. label \in Pcs \ {"tickle"}
    BY DEF Pcs
  <2>1. Moved(t, label) /\ At(t) = pc[t] /\ pc[t] = "queue?"
    BY <2>0, <1>15, GotoMoves DEF TestQueue, At, Pcs
  <2> QED
    BY <2>0, <1>15, <2>1 DEF Effect, TestQueue, Typed, HoldForm, OthersKeep, counts, Pcs
<1>16. CASE EpollReady(t)
  <2>1. Moved(t, "expire") /\ At(t) = pc[t] /\ pc[t] = "wait"
    BY <1>16, GotoMoves DEF EpollReady, At, Pcs
  <2> QED
    BY <1>16, <2>1 DEF Effect, EpollReady, Typed, HoldForm, OthersKeep, counts, Pcs
<1>17. CASE EpollTimeout(t)
  <2>1. Moved(t, "expire") /\ At(t) = pc[t] /\ pc[t] = "wait"
    BY <1>17, GotoMoves DEF EpollTimeout, At, Pcs
  <2> QED
    BY <1>17, <2>1 DEF Effect, EpollTimeout, Typed, HoldForm, OthersKeep, counts, Pcs
<1>18. CASE ListExpiredCb(t)
  <2> DEFINE label == IF due > 0 THEN "timers" ELSE "events"
  <2>0. label \in Pcs \ {"tickle"}
    BY DEF Pcs
  <2>1. Moved(t, label) /\ At(t) = pc[t] /\ pc[t] = "expire"
    BY <2>0, <1>18, GotoMoves DEF ListExpiredCb, At, Pcs
  <2> QED
    BY <2>0, <1>18, <2>1 DEF Effect, ListExpiredCb, Typed, HoldForm, OthersKeep, counts, Pcs
<1>19. CASE ScheduleExpired(t)
  <2>1. Moved(t, "events") /\ queue' = queue + cbs[t] /\ At(t) = pc[t] /\ pc[t] = "timers"
    BY <1>19, ScheduleMoves DEF ScheduleExpired, At
  <2> QED
    BY <1>19, <2>1 DEF Effect, ScheduleExpired, Typed, HoldForm, OthersKeep, counts, Pcs
<1>20. CASE TriggerEvent(t)
  <2>1. Moved(t, "counted") /\ queue' = queue + 1 /\ At(t) = pc[t] /\ pc[t] = "events"
    BY <1>20, ScheduleMoves DEF TriggerEvent, At
  <2> QED
    BY <1>20, <2>1 DEF Effect, TriggerEvent, Typed, HoldForm, OthersKeep, counts, Pcs
<1>21. CASE CountEvent(t)
  <2>1. Moved(t, "events") /\ At(t) = pc[t] /\ pc[t] = "counted"
    BY <1>21, GotoMoves DEF CountEvent, At, Pcs
  <2> QED
    BY <1>21, <2>1 DEF Effect, CountEvent, Typed, HoldForm, OthersKeep, counts, Pcs
<1>22. CASE LeaveIdle(t)
  <2>1. Moved(t, "scan") /\ At(t) = pc[t]
    BY <1>22, GotoMoves DEF LeaveIdle, At, Pcs
  <2> QED
    BY <1>22, <2>1 DEF Effect, LeaveIdle, Typed, HoldForm, OthersKeep, counts, Pcs
<1> QED
  BY <1>1, <1>2, <1>3, <1>4, <1>5, <1>6, <1>7, <1>8, <1>9, <1>10, <1>11, <1>12, <1>13, <1>14, <1>15, <1>16, <1>17, <1>18, <1>19, <1>20, <1>21, <1>22
     DEF Run

-----------------------------------------------------------------------------
(* Steps that are not a thread's leave the threads alone.                   *)
Outside == TimerDue \/ EventArises \/ Owner \/ Stopped \/ UNCHANGED vars

LEMMA OutsideKeeps ==
    ASSUME Outside
    PROVE  UNCHANGED <<pc, ret, idleTerm, cbs, got, active, idle, pending>>
BY DEF Outside, TimerDue, EventArises, Owner, Submit, SubmitTickle, Stop, StopTickle, Join,
       Stopped, vars, local, counts

(* A step is a thread's or one of those.                                    *)
LEMMA StepCases ==
    ASSUME [Next]_vars
    PROVE  Outside \/ \E t \in Threads : Run(t)
BY DEF Next, Outside

(* Where callbacks and events are held.                                     *)
LEMMA HoldStep ==
    ASSUME Typed, HoldForm, [Next]_vars
    PROVE  HoldForm'
<1>1. CASE Outside
  BY <1>1, OutsideKeeps DEF HoldForm, At
<1>2. ASSUME NEW t \in Threads, Run(t)
      PROVE  HoldForm'
  <2>1. PICK label \in Pcs : Effect(t, label)
    BY <1>2, RunEffect
  <2>2. At(t)' = label /\ \A u \in Threads \ {t} : At(u)' = At(u)
    BY <2>1, MovedAt DEF Effect
  <2> QED
    BY <2>1, <2>2 DEF HoldForm, Effect, Moved, OthersKeep
<1> QED
  BY <1>1, <1>2, StepCases

(* The threads in a task and in idle() are counted exactly.                 *)
ThreadCounts == active = Cardinality(Tasks) /\ idle = Cardinality(Idles)

LEMMA ThreadCountStep ==
    ASSUME Typed, HoldForm, ThreadCounts, [Next]_vars
    PROVE  ThreadCounts'
<1>1. CASE Outside
  <2>1. Tasks' = Tasks /\ Idles' = Idles
    BY <1>1, OutsideKeeps DEF Tasks, Idles, InTask, InIdle, At
  <2> QED
    BY <1>1, <2>1, OutsideKeeps DEF ThreadCounts
<1>2. ASSUME NEW t \in Threads, Run(t)
      PROVE  ThreadCounts'
  <2>1. PICK label \in Pcs : Effect(t, label)
    BY <1>2, RunEffect
  <2>2. At(t)' = label /\ \A u \in Threads \ {t} : At(u)' = At(u)
    BY <2>1, MovedAt DEF Effect
  <2>3. /\ InTask(t)' <=> label \in TaskPcs
        /\ InTask(t) <=> At(t) \in TaskPcs
        /\ InIdle(t)' <=> label \in IdlePcs
        /\ InIdle(t) <=> At(t) \in IdlePcs
    BY <2>2 DEF InTask, InIdle, TaskPcs, IdlePcs
  <2>4. active' = active + One(InTask(t)') - One(InTask(t))
    BY <2>1, <2>3 DEF Effect, One
  <2>5. idle' = idle + One(InIdle(t)') - One(InIdle(t))
    BY <2>1, <2>3 DEF Effect, One
  <2> QED
    BY <2>2, <2>4, <2>5, CountMove DEF ThreadCounts
<1> QED
  BY <1>1, <1>2, StepCases

(* Registered and collected events are counted exactly.                     *)
EventCount == pending = parked + hot + Cardinality(Held)

LEMMA EventCountStep ==
    ASSUME Typed, HoldForm, EventCount, BoundForm, [Next]_vars
    PROVE  EventCount' /\ BoundForm'
<1> USE IOManagerAssumption
<1>0. Cardinality(Held) \in Nat
  BY CountSets, FS_CardinalityType
<1>1. ASSUME UNCHANGED <<pending, parked, hot, got>>, used'["waits"] = used["waits"]
      PROVE  EventCount' /\ BoundForm'
  BY <1>1 DEF EventCount, BoundForm, Held
<1>2. used["tasks"] \in Nat /\ used["timers"] \in Nat /\ used["yields"] \in Nat
      /\ used["waits"] \in Nat /\ MaxWaits \in Nat
      /\ \A b \in {"tasks", "timers", "yields"} : Use(b) => used'["waits"] = used["waits"]
  BY DEF Typed, Bound, Use
<1>3. CASE Outside
  <2>1. CASE EventArises
    <3>1. Held' = Held
      BY <2>1 DEF EventArises, local, Held
    <3>2. pending' = pending /\ parked' = parked - 1 /\ hot' = hot + 1 /\ got' = got /\ used' = used
      BY <2>1 DEF EventArises, counts, local
    <3> QED
      BY <1>0, <3>1, <3>2 DEF EventCount, BoundForm, Typed
  <2>2. CASE TimerDue \/ SubmitTickle \/ Stop \/ StopTickle \/ Join \/ Stopped \/ UNCHANGED vars
    BY <1>1, <2>2 DEF TimerDue, SubmitTickle, Stop, StopTickle, Join, Stopped, vars, counts,
       sources, local
  <2>3. CASE Submit
    BY <1>1, <1>2, <2>3 DEF Submit, sources, local
  <2> QED
    BY <1>3, <2>1, <2>2, <2>3 DEF Outside, Owner
<1>4. ASSUME NEW t \in Threads, AwaitEvent(t)
      PROVE  EventCount' /\ BoundForm'
  <2>1. Held' = Held /\ got' = got /\ hot' = hot
    BY <1>4 DEF AwaitEvent, Held
  <2>2. pending' = pending + 1 /\ parked' = parked + 1
    BY <1>4 DEF AwaitEvent
  <2>3. used'["waits"] = used["waits"] + 1 /\ used["waits"] < MaxWaits
    BY <1>4 DEF AwaitEvent, Use, Bound, Typed
  <2> QED
    BY <1>0, <1>2, <2>1, <2>2, <2>3 DEF EventCount, BoundForm, Typed
<1>5. ASSUME NEW t \in Threads, EpollReady(t)
      PROVE  EventCount' /\ BoundForm'
  <2>1. hot \in 0..MaxWaits
    BY <1>0, <1>2 DEF EventCount, BoundForm, Typed
  <2>2. got[t] = 0
    BY <1>5 DEF EpollReady, HoldForm, At
  <2>3. got' = [got EXCEPT ![t] = hot] /\ hot' = 0 /\ parked' = parked /\ pending' = pending
        /\ used' = used
    BY <1>5 DEF EpollReady, counts
  <2>4. Cardinality(Held') = Cardinality(Held) + hot
    BY <2>1, <2>2, <2>3, HeldGrows
  <2>5. \A u \in Threads : got'[u] <= MaxWaits
    BY <2>1, <2>3 DEF BoundForm, Typed
  <2> QED
    BY <1>0, <2>1, <2>3, <2>4, <2>5 DEF EventCount, BoundForm, Typed
<1>6. ASSUME NEW t \in Threads, CountEvent(t)
      PROVE  EventCount' /\ BoundForm'
  <2>1. got[t] \in 1..MaxWaits
    BY <1>6 DEF CountEvent, HoldForm, At, BoundForm, Typed
  <2>2. got' = [got EXCEPT ![t] = @ - 1] /\ hot' = hot /\ parked' = parked
        /\ pending' = pending - 1 /\ used' = used
    BY <1>6 DEF CountEvent, sources
  <2>3. Cardinality(Held') = Cardinality(Held) - 1
    BY <2>1, <2>2, HeldShrinks
  <2>4. \A u \in Threads : got'[u] <= MaxWaits
    BY <2>1, <2>2 DEF BoundForm, Typed
  <2> QED
    BY <1>0, <1>2, <2>2, <2>3, <2>4 DEF EventCount, BoundForm, Typed
<1>7. ASSUME NEW t \in Threads, Spawn(t) \/ AddTimer(t) \/ YieldToReady(t)
      PROVE  EventCount' /\ BoundForm'
  BY <1>1, <1>2, <1>7 DEF Spawn, AddTimer, YieldToReady, counts, sources
<1>8. ASSUME NEW t \in Threads,
             \/ Tickle(t) \/ Take(t) \/ TakeNothing(t) \/ Finish(t) \/ Back(t) \/ Requeue(t)
             \/ EnterIdle(t) \/ Exit(t) \/ TestTimers(t) \/ TestPending(t) \/ TestQueue(t)
             \/ EpollTimeout(t) \/ ListExpiredCb(t) \/ ScheduleExpired(t) \/ TriggerEvent(t)
             \/ LeaveIdle(t)
      PROVE  EventCount' /\ BoundForm'
  BY <1>1, <1>8 DEF Tickle, Take, TakeNothing, Finish, Back, Requeue, EnterIdle, Exit, TestTimers,
     TestPending, TestQueue, EpollTimeout, ListExpiredCb, ScheduleExpired, TriggerEvent, LeaveIdle,
     counts, sources
<1> QED
  BY <1>3, <1>4, <1>5, <1>6, <1>7, <1>8, StepCases DEF Run

-----------------------------------------------------------------------------
(* Nobody leaves before stop(), and stop() waits for all to leave.          *)
LEMMA StopStep ==
    ASSUME Typed, HoldForm, StopForm, [Next]_vars
    PROVE  StopForm'
<1>1. CASE Outside
  <2>1. UNCHANGED <<pc, idleTerm>>
    BY <1>1, OutsideKeeps
  <2>2. CASE TimerDue \/ EventArises \/ Stopped \/ UNCHANGED vars
    BY <2>1, <2>2 DEF TimerDue, EventArises, Stopped, vars, StopForm
  <2>3. CASE Owner
    BY <2>1, <2>3 DEF Owner, Submit, SubmitTickle, Stop, StopTickle, Join, StopForm
  <2> QED
    BY <1>1, <2>2, <2>3 DEF Outside
<1>2. ASSUME NEW t \in Threads, Run(t)
      PROVE  StopForm'
  <2>1. PICK label \in Pcs : Effect(t, label)
    BY <1>2, RunEffect
  <2>2. \A u \in Threads \ {t} : pc'[u] = pc[u] /\ idleTerm'[u] = idleTerm[u]
    BY <2>1 DEF Effect, Moved, OthersKeep
  <2>3. pc'[t] = "exit" => idleTerm[t]
    BY <2>1 DEF Effect, Moved
  <2>4. stopFlag' = stopFlag /\ mpc' = mpc /\ pc[t] # "exit"
        /\ (idleTerm'[t] => idleTerm[t] \/ stopFlag)
    BY <2>1 DEF Effect
  <2> QED
    BY <2>2, <2>3, <2>4 DEF StopForm
<1> QED
  BY <1>1, <1>2, StepCases

(* Whoever pushes comes back; and no thread leaves while there is work.     *)
LEMMA DrainStep ==
    ASSUME Typed, HoldForm, StopForm, DrainForm, [Next]_vars
    PROVE  DrainForm'
<1>1. CASE Outside
  <2>1. UNCHANGED <<pc, idleTerm>>
    BY <1>1, OutsideKeeps
  <2>2. CASE Submit
    <3>1. \A t \in Threads : Returns(t)'
      BY <2>1, <2>2 DEF Submit, StopForm, Returns
    <3> QED
      BY <3>1, IOManagerAssumption DEF DrainForm
  <2>3. CASE ~Submit
    <3>1. queue' = queue
      BY <1>1, <2>3 DEF Outside, TimerDue, EventArises, Owner, SubmitTickle, Stop, StopTickle, Join,
         Stopped, vars, counts
    <3> QED
      BY <2>1, <3>1 DEF DrainForm, Returns
  <2> QED
    BY <2>2, <2>3
<1>2. ASSUME NEW t \in Threads, Run(t)
      PROVE  DrainForm'
  <2>1. PICK label \in Pcs : Effect(t, label)
    BY <1>2, RunEffect
  <2>2. \A u \in Threads \ {t} : Returns(u) => Returns(u)'
    BY <2>1 DEF Effect, Moved, OthersKeep, Returns
  <2>3. label \in {"none", "exit"} \/ Returns(t)'
    BY <2>1 DEF Effect, Moved, Returns
  <2>4. CASE queue' > 0 /\ ~Returns(t)'
    <3>1. label = "exit"
      BY <2>1, <2>3, <2>4 DEF Effect
    <3>2. ~Returns(t) /\ queue > 0
      BY <2>1, <2>4, <3>1 DEF Effect, Returns, Typed
    <3>3. PICK u \in Threads : Returns(u)
      BY <3>2 DEF DrainForm
    <3> QED
      BY <2>2, <3>2, <3>3 DEF DrainForm
  <2> QED
    BY <2>4 DEF DrainForm
<1> QED
  BY <1>1, <1>2, StepCases

(* Every action keeps the types.                                            *)
LEMMA TypedStep ==
    ASSUME Typed, HoldForm, [Next]_vars
    PROVE  Typed'
<1> USE IOManagerAssumption
<1>1. ASSUME NEW b \in DOMAIN Bound, Use(b)
      PROVE  used' \in [DOMAIN Bound -> Nat]
  BY <1>1 DEF Use, Typed
<1>2. {"tasks", "timers", "waits", "yields"} \subseteq DOMAIN Bound
  BY DEF Bound
<1>3. CASE Outside
  <2>1. UNCHANGED <<pc, ret, idleTerm, cbs, got, active, idle, pending>>
    BY <1>3, OutsideKeeps
  <2>2. CASE Submit
    BY <1>1, <1>2, <2>1, <2>2 DEF Submit, sources, Typed
  <2>3. CASE TimerDue \/ EventArises
    BY <2>1, <2>3 DEF TimerDue, EventArises, counts, Typed
  <2>4. CASE SubmitTickle \/ Stop \/ StopTickle \/ Join \/ Stopped \/ UNCHANGED vars
    BY <2>1, <2>4 DEF SubmitTickle, Stop, StopTickle, Join, Stopped, WritePipe, vars, counts, sources, Typed
  <2> QED
    BY <1>3, <2>2, <2>3, <2>4 DEF Outside, Owner
<1>4. ASSUME NEW t \in Threads, Run(t)
      PROVE  Typed'
  <2>1. PICK label \in Pcs : Effect(t, label)
    BY <1>4, RunEffect
  <2>2. /\ pc' \in [Threads -> Pcs] /\ ret' \in [Threads -> Pcs]
        /\ idleTerm' \in [Threads -> BOOLEAN]
        /\ queue' \in Nat /\ active' \in Int /\ idle' \in Int
        /\ stopFlag' = stopFlag /\ mpc' = mpc
    BY <2>1 DEF Effect, Moved, One, Typed
  <2>3. timers' \in Nat /\ due' \in Nat /\ parked' \in Nat /\ hot' \in Nat /\ pending' \in Int
    <3>1. CASE Tickle(t) \/ Take(t) \/ TakeNothing(t) \/ Spawn(t) \/ AddTimer(t) \/ AwaitEvent(t)
               \/ YieldToReady(t) \/ Finish(t) \/ Back(t) \/ Requeue(t) \/ EnterIdle(t) \/ Exit(t)
      BY <3>1 DEF Typed, Tickle, Take, TakeNothing, Spawn, AddTimer, AwaitEvent, YieldToReady,
         Finish, Back, Requeue, EnterIdle, Exit, counts, sources
    <3>2. CASE TestTimers(t) \/ TestPending(t) \/ TestQueue(t) \/ EpollReady(t) \/ EpollTimeout(t)
               \/ ListExpiredCb(t) \/ ScheduleExpired(t) \/ TriggerEvent(t) \/ CountEvent(t)
               \/ LeaveIdle(t)
      BY <3>2 DEF Typed, TestTimers, TestPending, TestQueue, EpollReady, EpollTimeout,
         ListExpiredCb, ScheduleExpired, TriggerEvent, CountEvent, LeaveIdle, counts, sources
    <3> QED
      BY <1>4, <3>1, <3>2 DEF Run
  <2>4. pipe' \in BOOLEAN /\ used' \in [DOMAIN Bound -> Nat]
    <3>1. CASE Tickle(t) \/ Exit(t) \/ EpollReady(t)
      BY <3>1 DEF Typed, Tickle, Exit, EpollReady, WritePipe
    <3>2. CASE Spawn(t) \/ AddTimer(t) \/ AwaitEvent(t) \/ YieldToReady(t)
      BY <1>1, <1>2, <3>2 DEF Typed, Spawn, AddTimer, AwaitEvent, YieldToReady
    <3>3. CASE Take(t) \/ TakeNothing(t) \/ Finish(t) \/ Back(t) \/ Requeue(t) \/ EnterIdle(t)
               \/ TestTimers(t) \/ TestPending(t) \/ TestQueue(t) \/ EpollTimeout(t)
               \/ ListExpiredCb(t) \/ ScheduleExpired(t) \/ TriggerEvent(t) \/ CountEvent(t)
               \/ LeaveIdle(t)
      BY <3>3 DEF Typed, Take, TakeNothing, Finish, Back, Requeue, EnterIdle, TestTimers,
         TestPending, TestQueue, EpollTimeout, ListExpiredCb, ScheduleExpired, TriggerEvent,
         CountEvent, LeaveIdle
    <3> QED
      BY <1>4, <3>1, <3>2, <3>3 DEF Run
  <2>5. cbs' \in [Threads -> Nat] /\ got' \in [Threads -> Nat]
    <3>1. CASE EpollReady(t) \/ ListExpiredCb(t) \/ ScheduleExpired(t)
      BY <3>1 DEF Typed, EpollReady, ListExpiredCb, ScheduleExpired
    <3>2. CASE CountEvent(t)
      <4>1. got[t] \in Nat /\ got[t] > 0
        BY <3>2 DEF CountEvent, HoldForm, At, Typed
      <4> QED
        BY <3>2, <4>1 DEF Typed, CountEvent
    <3>3. CASE Tickle(t) \/ Take(t) \/ TakeNothing(t) \/ Spawn(t) \/ AddTimer(t) \/ AwaitEvent(t)
               \/ YieldToReady(t) \/ Finish(t) \/ Back(t) \/ Requeue(t) \/ EnterIdle(t) \/ Exit(t)
               \/ TestTimers(t) \/ TestPending(t) \/ TestQueue(t) \/ EpollTimeout(t)
               \/ TriggerEvent(t) \/ LeaveIdle(t)
      BY <3>3 DEF Typed, Tickle, Take, TakeNothing, Spawn, AddTimer, AwaitEvent, YieldToReady,
         Finish, Back, Requeue, EnterIdle, Exit, TestTimers, TestPending, TestQueue, EpollTimeout,
         TriggerEvent, LeaveIdle
    <3> QED
      BY <1>4, <3>1, <3>2, <3>3 DEF Run
  <2> QED
    BY <2>2, <2>3, <2>4, <2>5 DEF Typed
<1> QED
  BY <1>3, <1>4, StepCases

-----------------------------------------------------------------------------
(* The invariant holds at the start ...                                     *)
LEMMA IOInit ==
    ASSUME Init
    PROVE  IOInv
<1>1. Typed
  <2>1. used \in [DOMAIN Bound -> Nat]
    BY DEF Init
  <2>2. /\ pc \in [Threads -> Pcs] /\ ret \in [Threads -> Pcs]
        /\ idleTerm \in [Threads -> BOOLEAN]
        /\ cbs \in [Threads -> Nat] /\ got \in [Threads -> Nat]
    BY DEF Init, Pcs
  <2>3. /\ queue \in Nat /\ timers \in Nat /\ due \in Nat /\ parked \in Nat /\ hot \in Nat
        /\ active \in Int /\ idle \in Int /\ pending \in Int
    BY DEF Init
  <2>4. pipe \in BOOLEAN /\ stopFlag \in BOOLEAN
    BY Zenon DEF Init
  <2>5. mpc \in {"user", "tickle", "stop", "join", "stopped"}
    BY DEF Init
  <2> QED
    BY <2>1, <2>2, <2>3, <2>4, <2>5 DEF Typed
<1>2. HoldForm /\ StopForm /\ DrainForm
  BY DEF Init, HoldForm, StopForm, DrainForm, At
<1>3. Tasks = {} /\ Idles = {} /\ Held = {}
  BY DEF Init, Tasks, Idles, Held, InTask, InIdle, At
<1>4. CountsExact
  BY <1>3, FS_EmptySet DEF Init, CountsExact, Tasks, Idles
<1>5. BoundForm
  BY IOManagerAssumption DEF Init, BoundForm, Bound
<1> QED
  BY <1>1, <1>2, <1>4, <1>5 DEF IOInv

(* ... and every step keeps it.                                             *)
LEMMA IOInvariance == Spec => []IOInv
<1>1. ASSUME IOInv, [Next]_vars
      PROVE  IOInv'
  <2>1. ThreadCounts /\ EventCount
    BY <1>1 DEF IOInv, CountsExact, ThreadCounts, EventCount, Tasks, Idles
  <2>2. Typed' /\ HoldForm' /\ StopForm' /\ DrainForm'
    BY <1>1, TypedStep, HoldStep, StopStep, DrainStep DEF IOInv
  <2>3. ThreadCounts' /\ EventCount' /\ BoundForm'
    BY <1>1, <2>1, ThreadCountStep, EventCountStep DEF IOInv
  <2>4. CountsExact'
    BY <2>3 DEF CountsExact, ThreadCounts, EventCount, Tasks, Idles
  <2> QED
    BY <2>2, <2>3, <2>4 DEF IOInv
<1> QED
  BY <1>1, IOInit, PTL DEF Spec

(* The state keeps its types: none of the counters that run() and idle()    *)
(* decrement ever drops below zero.                                         *)
THEOREM TypeCorrect == Spec => []TypeOK
<1>1. ASSUME IOInv
      PROVE  TypeOK
  <2>1. active \in Nat /\ idle \in Nat /\ Cardinality(Held) \in Nat
    BY <1>1, CountSets, FS_CardinalityType DEF IOInv, CountsExact, Tasks, Idles
  <2>2. pending \in Nat
    BY <1>1, <2>1 DEF IOInv, CountsExact, Typed
  <2> QED
    BY <1>1, <2>1, <2>2 DEF IOInv, Typed, TypeOK
<1> QED
  BY <1>1, IOInvariance, PTL

(* The three counters on which stopping() and tickle() decide are exact in  *)
(* every interleaving, whatever the size of the pool.                       *)
THEOREM CountsAreExact == Spec => []CountsExact
<1>1. IOInv => CountsExact
  BY DEF IOInv
<1> QED
  BY <1>1, IOInvariance, PTL

(* When stop() has returned the queue is empty and no thread has taken      *)
(* expired callbacks or ready events with it: although stopping() reads its *)
(* three values one after the other, and a thread may push after another    *)
(* one has decided to leave.                                                *)
THEOREM StopDrains == Spec => []DrainedAtStop
<1>1. ASSUME IOInv
      PROVE  DrainedAtStop
  <2>1. SUFFICES ASSUME mpc = "stopped"
                 PROVE  queue = 0 /\ \A t \in Threads : cbs[t] = 0 /\ got[t] = 0
    BY DEF DrainedAtStop
  <2>2. \A t \in Threads : pc[t] = "exit" /\ At(t) = "exit"
    BY <1>1, <2>1 DEF IOInv, StopForm, At
  <2>3. queue = 0
    BY <1>1, <2>2 DEF IOInv, DrainForm, Returns, Typed
  <2> QED
    BY <1>1, <2>2, <2>3 DEF IOInv, HoldForm
<1> QED
  BY <1>1, IOInvariance, PTL
=============================================================================
