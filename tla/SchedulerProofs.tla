--------------------------- MODULE SchedulerProofs --------------------------
(***************************************************************************)
(* Theorems about Scheduler, for any number of threads, fibers and tasks    *)
(* and whatever wakers, callbacks and pinned tasks do; first what holds in  *)
(* every state, then what holds until a fiber is seized.  The types need    *)
(* ThreadForm: which threads run, and that one has a fiber in its hands     *)
(* exactly at the places of run() where it works on one.  The count of      *)
(* active threads then follows the places alone.                            *)
(***************************************************************************)
EXTENDS Scheduler, FiniteSetTheorems, TLAPS

-----------------------------------------------------------------------------
(* The queue: what push_back and erase do to its entries.                   *)
LEMMA PushFacts ==
    ASSUME NEW q \in Seq(Entries), NEW e \in Entries
    PROVE  /\ Append(q, e) \in Seq(Entries)
           /\ DOMAIN q = 1..Len(q) /\ Len(q) \in Nat
           /\ DOMAIN Append(q, e) = 1..(Len(q) + 1)
           /\ \A i \in DOMAIN q : Append(q, e)[i] = q[i]
           /\ Append(q, e)[Len(q) + 1] = e
OBVIOUS

LEMMA WithoutFacts ==
    ASSUME NEW q \in Seq(Entries), NEW k \in DOMAIN q
    PROVE  /\ Without(q, k) \in Seq(Entries)
           /\ DOMAIN q = 1..Len(q) /\ Len(q) \in Nat
           /\ DOMAIN Without(q, k) = 1..(Len(q) - 1)
           /\ \A j \in DOMAIN Without(q, k) :
                 /\ j < k => j \in DOMAIN q /\ Without(q, k)[j] = q[j]
                 /\ j >= k => j + 1 \in DOMAIN q /\ Without(q, k)[j] = q[j + 1]
<1>1. DOMAIN q = 1..Len(q) /\ Len(q) \in Nat /\ k \in 1..Len(q)
  OBVIOUS
<1>2. Len(q) - 1 \in Nat
  BY <1>1
<1>3. DOMAIN Without(q, k) = 1..(Len(q) - 1)
  BY DEF Without
<1>4. \A j \in DOMAIN Without(q, k) :
        /\ j < k => j \in DOMAIN q /\ Without(q, k)[j] = q[j]
        /\ j >= k => j + 1 \in DOMAIN q /\ Without(q, k)[j] = q[j + 1]
  BY <1>1, <1>3 DEF Without
<1>5. \A j \in 1..(Len(q) - 1) : Without(q, k)[j] \in Entries
  BY <1>1, <1>3, <1>4
<1>6. Without(q, k) \in [1..(Len(q) - 1) -> Entries]
  BY <1>5 DEF Without
<1>7. Without(q, k) \in Seq(Entries)
  BY <1>2, <1>6
<1> QED BY <1>1, <1>3, <1>4, <1>7

-----------------------------------------------------------------------------
(* Types, and the threads.  A thread has a fiber in its hands exactly in    *)
(* the middle of a round of run(); only the threads of the pool, and Root   *)
(* during stop(), ever run; a thread leaves only after stop() was called.   *)
Bound == {"exec", "park", "leaving", "back", "post", "test", "hold"}

ThreadForm ==
    /\ \A t \in Threads :
        /\ pc[t] \in Bound => ft[t] \in Fibers
        /\ pc[t] \notin Bound \cup {"dispatch"} => ft[t] = NoFiber
        /\ pc[t] # "off" => t \in Runners
        /\ mpc = "init" => pc[t] = "off"
        /\ pc[t] = "exit" => idleTerm[t]
        /\ idleTerm[t] => autostop
        /\ t = Root /\ mpc \in {"init", "user", "stop"} => pc[t] = "off"
        /\ t = Root /\ mpc \in {"join", "stopped"} => pc[t] \in {"off", "exit"}
        /\ t \in pool /\ mpc # "init" => pc[t] # "off"
        /\ t \in pool /\ mpc = "stopped" => pc[t] = "exit"
    /\ autostop <=> mpc \notin {"init", "user"}
    /\ Runners # {}

Base == TypeOK /\ ThreadForm /\ ActiveExact

LEMMA ThreadFacts ==
    /\ IsFiniteSet(Threads) /\ Root \notin Workers /\ NoFiber \notin Fibers
    /\ AnyThread \notin Threads /\ Workers \subseteq Threads
    /\ Root # NoThread => Root \in Threads
<1>1. IsFiniteSet({Root} \ {NoThread})
  BY FS_Singleton, FS_Difference
<1>2. IsFiniteSet(Threads)
  BY <1>1, SchedulerAssumption, FS_Union DEF Threads
<1> QED BY <1>2, SchedulerAssumption DEF Threads

LEMMA BaseInit == Init => Base
<1> SUFFICES ASSUME Init PROVE Base
  OBVIOUS
<1>1. TypeOK
  <2>1. /\ pool \subseteq Workers /\ queue \in Seq(Entries) /\ active \in Nat
        /\ stopFlag \in BOOLEAN /\ autostop \in BOOLEAN /\ finished \subseteq Fibers
        /\ doubled \in BOOLEAN /\ seized \in BOOLEAN
        /\ mpc \in {"init", "user", "stop", "called", "join", "stopped"}
        /\ submitted \in Nat /\ completed \in Nat /\ yields \in Nat /\ waits \in Nat
    <3>1. pool \subseteq Workers /\ queue = <<>> /\ finished \subseteq Fibers
      BY DEF Init
    <3>2. /\ active \in Nat /\ stopFlag \in BOOLEAN /\ autostop \in BOOLEAN
          /\ doubled \in BOOLEAN /\ seized \in BOOLEAN
          /\ mpc \in {"init", "user", "stop", "called", "join", "stopped"}
          /\ submitted \in Nat /\ completed \in Nat /\ yields \in Nat /\ waits \in Nat
      BY DEF Init
    <3> QED BY <3>1, <3>2
  <2>2. /\ pc \in [Threads -> Pcs] /\ ft \in [Threads -> Fibers \cup {NoFiber}]
        /\ cbFiber \in [Threads -> Fibers \cup {NoFiber}]
    BY DEF Init, Pcs
  <2>3. viaCb \in [Threads -> BOOLEAN] /\ idleTerm \in [Threads -> BOOLEAN]
    BY DEF Init
  <2>4. state \in [Fibers -> FiberStates] /\ wakers \in [Fibers -> Nat]
    BY DEF Init, FiberStates
  <2> QED BY <2>1, <2>2, <2>3, <2>4 DEF TypeOK
<1>2. ThreadForm
  BY DEF Init, ThreadForm, Bound
<1>3. {t \in Threads : pc[t] \in Holding} = {}
  BY DEF Init, Holding
<1>4. ActiveExact
  BY <1>3, FS_EmptySet DEF Init, ActiveExact
<1> QED BY <1>1, <1>2, <1>4 DEF Base

LEMMA TypeStep == TypeOK /\ ThreadForm /\ [Next]_vars => TypeOK' \/ active' \notin Nat
<1> SUFFICES ASSUME TypeOK, ThreadForm, [Next]_vars, active' \in Nat PROVE TypeOK'
  OBVIOUS
<1> USE DEF TypeOK
<1> DEFINE Same == UNCHANGED pool /\ seized' \in BOOLEAN
<1>0. Proceeds => Same
  BY DEF Proceeds
<1>1. ASSUME Owner, Same PROVE TypeOK'
  <2>1. CASE Start
    BY <1>1, <2>1 DEF Start, fibers, Pcs
  <2>2. CASE Submit
    <3>1. PICK th \in Runners \cup {AnyThread} :
            \/ \E f \in Fibers : state[f] = "NONE" /\ SetState(f, "INIT") /\ Push(f, th)
            \/ Push(NoFiber, th) /\ UNCHANGED state
      BY <2>2 DEF Submit
    <3>2. Runners \subseteq Threads
      BY DEF Runners, Threads
    <3>3. \A f \in Fibers \cup {NoFiber} : [fiber |-> f, thread |-> th] \in Entries
      BY <3>2 DEF Entries
    <3>4. queue' \in Seq(Entries)
      <4>1. \A f \in Fibers \cup {NoFiber} : Push(f, th) => queue' \in Seq(Entries)
        BY <3>3, PushFacts DEF Push
      <4> QED BY <3>1, <4>1
    <3>5. state' \in [Fibers -> FiberStates]
      BY <3>1 DEF SetState, FiberStates
    <3> QED BY <1>1, <2>2, <3>4, <3>5 DEF Submit, owner, local
  <2>3. CASE SubmitAgain
    <3>1. PICK f \in Fibers : Push(f, AnyThread)
      BY <2>3 DEF SubmitAgain
    <3>2. [fiber |-> f, thread |-> AnyThread] \in Entries
      BY DEF Entries
    <3>3. queue' \in Seq(Entries)
      BY <3>1, <3>2, PushFacts DEF Push
    <3> QED BY <1>1, <2>3, <3>3 DEF SubmitAgain, owner, local, fibers
  <2>4. CASE Stop
    BY <1>1, <2>4 DEF Stop, local, fibers
  <2>5. CASE StopCall
    <3>1. pc' \in [Threads -> Pcs]
      BY <2>5 DEF StopCall, Goto, Pcs
    <3> QED BY <1>1, <2>5, <3>1 DEF StopCall, fibers
  <2>6. CASE StopReturn
    BY <1>1, <2>6 DEF StopReturn, local, fibers
  <2>7. CASE Join
    BY <1>1, <2>7 DEF Join, local, fibers
  <2> QED BY <1>1, <2>1, <2>2, <2>3, <2>4, <2>5, <2>6, <2>7 DEF Owner
<1>2. ASSUME NEW t \in Threads, Run(t), Same PROVE TypeOK'
  <2>1. CASE Take(t)
    <3>1. PICK i \in DOMAIN queue : /\ ft' = [ft EXCEPT ![t] = queue[i].fiber]
                                    /\ queue' = Without(queue, i)
      BY <2>1 DEF Take
    <3>2. queue' \in Seq(Entries) /\ queue[i] \in Entries
      BY <3>1, WithoutFacts
    <3>3. ft' \in [Threads -> Fibers \cup {NoFiber}]
      BY <3>1, <3>2 DEF Entries
    <3>4. pc' \in [Threads -> Pcs]
      BY <2>1 DEF Take, Goto, Pcs
    <3> QED BY <1>2, <2>1, <3>2, <3>3, <3>4 DEF Take, owner, fibers
  <2>2. CASE TakeNothing(t) \/ SkipDead(t) \/ SwapOut(t) \/ Back(t) \/ NotReady(t) \/ TestHold(t)
             \/ EnterIdle(t) \/ Exit(t)
    <3>1. pc' \in [Threads -> Pcs]
      BY <2>2 DEF TakeNothing, SkipDead, SwapOut, Back, NotReady, TestHold, EnterIdle, Exit, Goto, Pcs
    <3>2. ft' \in [Threads -> Fibers \cup {NoFiber}]
      BY <2>2 DEF TakeNothing, SkipDead, SwapOut, Back, NotReady, TestHold, EnterIdle, Exit
    <3> QED BY <1>2, <2>2, <3>1, <3>2 DEF TakeNothing, SkipDead, SwapOut, Back, NotReady, TestHold,
                                          EnterIdle, Exit, owner, fibers
  <2>3. CASE Idle(t)
    <3>1. pc' \in [Threads -> Pcs] /\ idleTerm' \in [Threads -> BOOLEAN]
      BY <2>3 DEF Idle, Goto, Pcs, Stopping
    <3> QED BY <1>2, <2>3, <3>1 DEF Idle, owner, fibers
  <2>4. CASE SwapIn(t)
    <3>1. state' \in [Fibers -> FiberStates]
      BY <2>4 DEF SwapIn, SetState, FiberStates
    <3>2. viaCb' \in [Threads -> BOOLEAN] /\ pc' \in [Threads -> Pcs]
      BY <2>4 DEF SwapIn, Goto, Pcs
    <3> QED BY <1>2, <2>4, <3>1, <3>2 DEF SwapIn, owner
  <2>5. CASE RunCallback(t)
    <3>1. PICK f \in Fibers : /\ SetState(f, "EXEC")
                              /\ ft' = [ft EXCEPT ![t] = f]
                              /\ cbFiber' = [cbFiber EXCEPT ![t] = f]
                              /\ finished' = finished \ {f}
      BY <2>5 DEF RunCallback
    <3>2. /\ state' \in [Fibers -> FiberStates] /\ ft' \in [Threads -> Fibers \cup {NoFiber}]
          /\ cbFiber' \in [Threads -> Fibers \cup {NoFiber}] /\ finished' \subseteq Fibers
      BY <3>1 DEF SetState, FiberStates
    <3>3. viaCb' \in [Threads -> BOOLEAN] /\ pc' \in [Threads -> Pcs]
      BY <2>5 DEF RunCallback, Goto, Pcs
    <3> QED BY <1>2, <2>5, <3>2, <3>3 DEF RunCallback, owner
  <2>6. CASE Spawn(t)
    <3>1. PICK th \in Threads \cup {AnyThread} : Push(NoFiber, th)
      BY <2>6 DEF Spawn, Runners, Threads
    <3>2. [fiber |-> NoFiber, thread |-> th] \in Entries
      BY DEF Entries
    <3>3. queue' \in Seq(Entries)
      BY <3>1, <3>2, PushFacts DEF Push
    <3> QED BY <1>2, <2>6, <3>3 DEF Spawn, owner, local, fibers
  <2>7. CASE Arm(t)
    <3>1. wakers' = [wakers EXCEPT ![ft[t]] = @ + 1] /\ waits' = waits + 1
      BY <2>7 DEF Arm
    <3>2. wakers' \in [Fibers -> Nat]
      <4>1. ft[t] \in Fibers
        BY <2>7 DEF Arm, ThreadForm, Bound
      <4>2. wakers[ft[t]] + 1 \in Nat
        BY <4>1
      <4> QED BY <3>1, <4>2
    <3>3. pc' \in [Threads -> Pcs]
      BY <2>7 DEF Arm, Goto, Pcs
    <3> QED BY <1>2, <2>7, <3>1, <3>2, <3>3 DEF Arm, owner
  <2>8. CASE YieldToHold(t) \/ YieldToReady(t) \/ Finish(t) \/ Throw(t)
    <3>1. ft[t] \in Fibers
      BY <2>8 DEF YieldToHold, YieldToReady, Finish, Throw, End, ThreadForm, Bound
    <3>2. PICK s \in FiberStates : Leave(t, s)
      BY <2>8 DEF YieldToHold, YieldToReady, Finish, Throw, End, FiberStates
    <3>3. state' \in [Fibers -> FiberStates] /\ pc' \in [Threads -> Pcs]
      BY <3>2 DEF Leave, SetState, Goto, Pcs
    <3>4. finished' \subseteq Fibers /\ completed' \in Nat /\ yields' \in Nat
      BY <2>8, <3>1 DEF YieldToHold, YieldToReady, Finish, Throw, End
    <3> QED BY <1>2, <3>2, <3>3, <3>4 DEF Leave, owner
  <2>9. CASE Requeue(t)
    <3>1. [fiber |-> ft[t], thread |-> AnyThread] \in Entries
      BY DEF Entries
    <3>2. queue' \in Seq(Entries)
      BY <2>9, <3>1, PushFacts DEF Requeue, Push
    <3>3. /\ pc' \in [Threads -> Pcs] /\ ft' \in [Threads -> Fibers \cup {NoFiber}]
          /\ cbFiber' \in [Threads -> Fibers \cup {NoFiber}]
      BY <2>9 DEF Requeue, Goto, Drop, DropCbFiber, Pcs
    <3> QED BY <1>2, <2>9, <3>2, <3>3 DEF Requeue, owner, fibers
  <2>10. CASE Ended(t)
    <3>1. state' \in [Fibers -> FiberStates]
      BY <2>10 DEF Ended, SetState, FiberStates
    <3>2. pc' \in [Threads -> Pcs] /\ ft' \in [Threads -> Fibers \cup {NoFiber}]
      BY <2>10 DEF Ended, Goto, Drop, Pcs
    <3> QED BY <1>2, <2>10, <3>1, <3>2 DEF Ended, owner
  <2>11. CASE WriteHold(t)
    <3>1. state' \in [Fibers -> FiberStates]
      BY <2>11 DEF WriteHold, SetState, FiberStates
    <3>2. /\ pc' \in [Threads -> Pcs] /\ ft' \in [Threads -> Fibers \cup {NoFiber}]
          /\ cbFiber' \in [Threads -> Fibers \cup {NoFiber}]
      BY <2>11 DEF WriteHold, Goto, Drop, DropCbFiber, Pcs
    <3> QED BY <1>2, <2>11, <3>1, <3>2 DEF WriteHold, owner
  <2> QED BY <1>2, <2>1, <2>2, <2>3, <2>4, <2>5, <2>6, <2>7, <2>8, <2>9, <2>10, <2>11 DEF Run
<1>3. ASSUME NEW f \in Fibers, Wake(f), Same PROVE TypeOK'
  <2>1. [fiber |-> f, thread |-> AnyThread] \in Entries
    BY DEF Entries
  <2>2. queue' \in Seq(Entries)
    BY <1>3, <2>1, PushFacts DEF Wake, Push
  <2>3. wakers' \in [Fibers -> Nat]
    BY <1>3 DEF Wake
  <2> QED BY <1>3, <2>2, <2>3 DEF Wake, owner, local
<1>4. CASE UNCHANGED vars
  BY <1>4 DEF vars, owner, local, fibers
<1> QED BY <1>0, <1>1, <1>2, <1>3, <1>4 DEF Next, Terminated

-----------------------------------------------------------------------------
(* The places of the threads.                                               *)
LEMMA ThreadStep == TypeOK /\ ThreadForm /\ [Next]_vars => ThreadForm'
<1> SUFFICES ASSUME TypeOK, ThreadForm, [Next]_vars PROVE ThreadForm'
  OBVIOUS
<1> USE DEF ThreadForm
<1> DEFINE Same == UNCHANGED pool
<1>00. Proceeds => Same
  BY DEF Proceeds
<1>0. Same => Runners' = Runners
  BY DEF Runners
<1>1. ASSUME Owner, Same PROVE ThreadForm'
  <2> USE <1>0, <1>1
  <2>1. CASE Start
    <3>1. \A t \in Threads : pc'[t] = IF t \in pool THEN "scan" ELSE "off"
      BY <2>1 DEF Start
    <3>2. Root \notin pool /\ pool \subseteq Runners
      BY ThreadFacts DEF TypeOK, Runners
    <3> QED BY <2>1, <3>1, <3>2 DEF Start, Bound
  <2>2. CASE Submit
    BY <2>2 DEF Submit, owner, local
  <2>3. CASE SubmitAgain
    BY <2>3 DEF SubmitAgain, owner, local
  <2>4. CASE Stop
    BY <2>4 DEF Stop, local
  <2>5. CASE StopCall
    <3>1. CASE Root # NoThread /\ ~Stopping
      <4>1. /\ mpc' = "called" /\ pc'[Root] = "scan" /\ Root \in Runners /\ Root \in Threads
            /\ \A t \in Threads : t # Root => pc'[t] = pc[t]
        BY <2>5, <3>1, ThreadFacts DEF StopCall, Goto, TypeOK, Runners
      <4> QED BY <2>5, <4>1 DEF StopCall, Bound
    <3>2. CASE ~(Root # NoThread /\ ~Stopping)
      BY <2>5, <3>2 DEF StopCall
    <3> QED BY <3>1, <3>2
  <2>6. CASE StopReturn
    BY <2>6 DEF StopReturn, local
  <2>7. CASE Join
    BY <2>7 DEF Join, local
  <2> QED BY <2>1, <2>2, <2>3, <2>4, <2>5, <2>6, <2>7 DEF Owner
<1>2. ASSUME NEW t \in Threads, Run(t), Same PROVE ThreadForm'
  (* What a round of run() may do to the fields of its own thread.          *)
  <2> DEFINE Moves ==
        /\ pc[t] \notin {"off", "exit"} /\ pc'[t] # "off"
        /\ pc'[t] \in Bound => ft'[t] \in Fibers
        /\ pc'[t] \notin Bound \cup {"dispatch"} => ft'[t] = NoFiber
        /\ pc'[t] = "exit" => idleTerm'[t]
        /\ idleTerm'[t] => autostop
        /\ \A u \in Threads : u # t =>
              pc'[u] = pc[u] /\ ft'[u] = ft[u] /\ idleTerm'[u] = idleTerm[u]
        /\ mpc' = mpc /\ autostop' = autostop
  <2>1. Moves => ThreadForm'
    BY <1>0, <1>2
  <2> HIDE DEF ThreadForm
  <2> USE DEF TypeOK, Bound, Goto, owner, local
  <2>2. CASE Take(t)
    BY <2>1, <2>2 DEF Take, ThreadForm
  <2>3. CASE TakeNothing(t) \/ EnterIdle(t) \/ Exit(t)
    BY <2>1, <2>3 DEF TakeNothing, EnterIdle, Exit, ThreadForm
  <2>4. CASE Idle(t)
    BY <2>1, <2>4 DEF Idle, Stopping, ThreadForm
  <2>5. CASE SwapIn(t)
    BY <2>1, <2>5 DEF SwapIn, ThreadForm
  <2>6. CASE SkipDead(t)
    BY <2>1, <2>6 DEF SkipDead, ThreadForm
  <2>7. CASE RunCallback(t)
    BY <2>1, <2>7 DEF RunCallback, ThreadForm
  <2>8. CASE Spawn(t) \/ Arm(t)
    BY <2>1, <2>8 DEF Spawn, Arm, ThreadForm
  <2>9. CASE YieldToHold(t) \/ YieldToReady(t) \/ Finish(t) \/ Throw(t)
    BY <2>1, <2>9 DEF YieldToHold, YieldToReady, Finish, Throw, End, Leave, ThreadForm
  <2>10. CASE SwapOut(t) \/ Back(t) \/ NotReady(t) \/ TestHold(t)
    BY <2>1, <2>10 DEF SwapOut, Back, NotReady, TestHold, ThreadForm
  <2>11. CASE Requeue(t) \/ Ended(t) \/ WriteHold(t)
    BY <2>1, <2>11 DEF Requeue, Ended, WriteHold, Drop, ThreadForm
  <2> QED BY <1>2, <2>2, <2>3, <2>4, <2>5, <2>6, <2>7, <2>8, <2>9, <2>10, <2>11 DEF Run
<1>3. ASSUME NEW f \in Fibers, Wake(f), Same PROVE ThreadForm'
  BY <1>0, <1>3 DEF Wake, owner, local
<1>4. CASE UNCHANGED vars
  BY <1>4 DEF vars, owner, local, Runners
<1> QED BY <1>00, <1>1, <1>2, <1>3, <1>4 DEF Next, Terminated

(* m_activeThreadCount: Take adds the thread to those inside a task, and    *)
(* SkipDead and Back take it away, which is why the count stays a number.   *)
LEMMA ActiveStep == Base /\ [Next]_vars => ActiveExact' /\ active' \in Nat
<1> SUFFICES ASSUME Base, [Next]_vars PROVE ActiveExact' /\ active' \in Nat
  OBVIOUS
<1> USE DEF Base
<1> DEFINE H == {t \in Threads : pc[t] \in Holding}
<1>1. IsFiniteSet(H) /\ Cardinality(H) \in Nat /\ active = Cardinality(H)
  BY ThreadFacts, FS_Subset, FS_CardinalityType DEF ActiveExact
<1>2. ASSUME active' = active, \A t \in Threads : pc'[t] \in Holding <=> pc[t] \in Holding
      PROVE  ActiveExact' /\ active' \in Nat
  <2>1. H' = H
    BY <1>2
  <2> QED BY <1>1, <1>2, <2>1 DEF ActiveExact
<1>3. ASSUME NEW t \in Threads, active' = active + 1, pc[t] \notin Holding, pc'[t] \in Holding,
             \A u \in Threads : u # t => pc'[u] = pc[u]
      PROVE  ActiveExact' /\ active' \in Nat
  <2>1. H' = H \cup {t} /\ t \notin H
    BY <1>3
  <2>2. Cardinality(H') = Cardinality(H) + 1
    BY <1>1, <2>1, FS_AddElement
  <2> QED BY <1>1, <1>3, <2>2 DEF ActiveExact
<1>4. ASSUME NEW t \in Threads, active' = active - 1, pc[t] \in Holding, pc'[t] \notin Holding,
             \A u \in Threads : u # t => pc'[u] = pc[u]
      PROVE  ActiveExact' /\ active' \in Nat
  <2>1. H' = H \ {t} /\ t \in H
    BY <1>4
  <2>2. Cardinality(H') = Cardinality(H) - 1 /\ Cardinality(H') \in Nat
    BY <1>1, <2>1, FS_RemoveElement, FS_CardinalityType
  <2> QED BY <1>1, <1>4, <2>2 DEF ActiveExact
<1> HIDE DEF H
<1>5. CASE Owner
  <2>1. CASE Start
    BY <1>2, <2>1 DEF Start, Holding, ThreadForm
  <2>2. CASE Submit \/ SubmitAgain \/ Stop \/ StopReturn \/ Join
    BY <1>2, <2>2 DEF Submit, SubmitAgain, Stop, StopReturn, Join, local
  <2>3. CASE StopCall
    BY <1>2, <2>3, ThreadFacts DEF StopCall, Goto, Holding, ThreadForm, TypeOK
  <2> QED BY <1>5, <2>1, <2>2, <2>3 DEF Owner
<1>6. ASSUME NEW t \in Threads, Run(t) PROVE ActiveExact' /\ active' \in Nat
  <2> USE DEF Holding, Goto, TypeOK
  <2>1. CASE Take(t)
    BY <1>3, <2>1 DEF Take
  <2>2. CASE SkipDead(t) \/ Back(t)
    BY <1>4, <2>2 DEF SkipDead, Back
  <2>3. CASE TakeNothing(t) \/ EnterIdle(t) \/ Exit(t) \/ Idle(t) \/ NotReady(t) \/ TestHold(t)
             \/ Requeue(t) \/ Ended(t) \/ WriteHold(t)
    BY <1>2, <2>3 DEF TakeNothing, EnterIdle, Exit, Idle, NotReady, TestHold, Requeue, Ended, WriteHold
  <2>4. CASE SwapIn(t) \/ RunCallback(t) \/ SwapOut(t)
    BY <1>2, <2>4 DEF SwapIn, RunCallback, SwapOut
  <2>5. CASE Spawn(t) \/ Arm(t)
    BY <1>2, <2>5 DEF Spawn, Arm, local
  <2>6. CASE YieldToHold(t) \/ YieldToReady(t) \/ Finish(t) \/ Throw(t)
    BY <1>2, <2>6 DEF YieldToHold, YieldToReady, Finish, Throw, End, Leave
  <2> QED BY <1>6, <2>1, <2>2, <2>3, <2>4, <2>5, <2>6 DEF Run
<1>7. ASSUME NEW f \in Fibers, Wake(f) PROVE ActiveExact' /\ active' \in Nat
  BY <1>2, <1>7 DEF Wake, local
<1>8. CASE UNCHANGED vars
  BY <1>2, <1>8 DEF vars, local
<1> QED BY <1>5, <1>6, <1>7, <1>8 DEF Next, Terminated

LEMMA BaseInvariance == Spec => []Base
<1>1. Base /\ [Next]_vars => Base'
  BY TypeStep, ThreadStep, ActiveStep DEF Base
<1> QED BY <1>1, BaseInit, PTL DEF Spec

(* The variables of Scheduler keep their types; in particular the size_t    *)
(* m_activeThreadCount does not wrap when run() decrements it.              *)
THEOREM TypeCorrect == Spec => []TypeOK
<1>1. Base => TypeOK
  BY DEF Base
<1> QED BY <1>1, BaseInvariance, PTL

(* m_activeThreadCount is the number of threads inside a task, whatever the *)
(* wakers do and however often a fiber is scheduled: what run() adds before *)
(* a task it takes away on every way back.                                  *)
THEOREM ActiveIsExact == Spec => []ActiveExact
<1>1. Base => ActiveExact
  BY DEF Base
<1> QED BY <1>1, BaseInvariance, PTL


-----------------------------------------------------------------------------
(***************************************************************************)
(* Who has a fiber, until one is seized.  Every step below is one after     *)
(* which seized is still FALSE.                                             *)
(***************************************************************************)

(* What m_state of the fiber in a thread's hands is, along the round of     *)
(* run().                                                                   *)
HandForm ==
    \A t \in Threads :
        /\ pc[t] \in {"exec", "park"} => state[ft[t]] = "EXEC"
        /\ pc[t] \in {"leaving", "back", "post"} =>
              state[ft[t]] \in {"HOLD", "READY", "TERM", "EXCEPT"}
        /\ pc[t] = "test" => state[ft[t]] \in {"HOLD", "TERM", "EXCEPT"}
        /\ pc[t] = "hold" => state[ft[t]] = "HOLD"

(* A fiber is in the hands of one thread at most.                           *)
SoleForm == \A t, u \in Threads : ft[t] \in Fibers /\ ft[u] = ft[t] => u = t

(* What m_state says about a fiber, wherever it is.                         *)
StateForm ==
    \A f \in Fibers :
        /\ state[f] = "EXEC" => \E t \in Threads : pc[t] \in {"exec", "park"} /\ ft[t] = f
        /\ f \in finished => \/ state[f] \in {"TERM", "EXCEPT"}
                             \/ state[f] = "INIT" /\ \E t \in Threads : cbFiber[t] = f
        /\ state[f] \in {"TERM", "EXCEPT"} => f \in finished

(* Nobody refers to an object that does not exist yet.                      *)
NoneForm ==
    \A f \in Fibers : state[f] = "NONE" =>
        /\ f \notin finished /\ wakers[f] = 0
        /\ \A i \in DOMAIN queue : queue[i].fiber # f
        /\ \A t \in Threads : ft[t] # f /\ cbFiber[t] # f

(* Somebody has scheduled the fiber or is going to.                         *)
Reached(f) == InQueue(f) \/ wakers[f] > 0

(* cb_fiber belongs to its thread alone, is INIT between two callbacks, and *)
(* is scheduled by a waker only while its callback parks.                   *)
CbForm ==
    /\ \A t \in Threads : pc[t] \in Bound /\ viaCb[t] => cbFiber[t] = ft[t]
    /\ \A t, u \in Threads : cbFiber[t] \in Fibers /\ ft[u] = cbFiber[t] =>
            u = t /\ viaCb[t] /\ pc[t] \in Bound
    /\ \A t, u \in Threads : cbFiber[t] \in Fibers /\ cbFiber[u] = cbFiber[t] => u = t
    /\ \A t \in Threads : cbFiber[t] \in Fibers /\ ft[t] # cbFiber[t] =>
            state[cbFiber[t]] = "INIT" /\ cbFiber[t] \in finished
    /\ \A t \in Threads : cbFiber[t] \in Fibers /\ Reached(cbFiber[t]) =>
            ft[t] = cbFiber[t] /\ Exposed(t)

(* Unless the owner has scheduled a fiber twice, which takes a pool of one  *)
(* thread, a fiber has one waker or one queue entry, and neither while a    *)
(* thread has it, except one that parks.                                    *)
Exclusive ==
    /\ \A i, j \in DOMAIN queue :
            queue[i].fiber \in Fibers /\ queue[j].fiber = queue[i].fiber => i = j
    /\ \A f \in Fibers : Reached(f) =>
            f \notin finished /\ \A t \in Threads : ft[t] = f => Exposed(t)
    /\ \A f \in Fibers : wakers[f] > 0 =>
            wakers[f] = 1 /\ state[f] \in {"EXEC", "HOLD"} /\ ~InQueue(f)
    /\ \A t \in Threads : pc[t] = "dispatch" /\ ft[t] \in Fibers => ft[t] \notin finished
PlaceForm == (~doubled => Exclusive) /\ (doubled => Cardinality(Runners) = 1)

Own == Base /\ HandForm /\ SoleForm /\ StateForm /\ NoneForm /\ CbForm /\ PlaceForm

-----------------------------------------------------------------------------
(* The entries of the queue after a push and after a take.                  *)
LEMMA Pushed ==
    ASSUME TypeOK, NEW f \in Fibers \cup {NoFiber}, NEW th \in Threads \cup {AnyThread},
           Push(f, th)
    PROVE  /\ \A i \in DOMAIN queue' :
                 \/ i \in DOMAIN queue /\ queue'[i] = queue[i]
                 \/ /\ i = Len(queue) + 1 /\ i \notin DOMAIN queue
                    /\ queue'[i].fiber = f /\ queue'[i].thread = th
           /\ \A i \in DOMAIN queue : i \in DOMAIN queue' /\ queue'[i] = queue[i]
           /\ \E i \in DOMAIN queue' : queue'[i].fiber = f /\ queue'[i].thread = th
<1>1. [fiber |-> f, thread |-> th] \in Entries
  BY DEF Entries
<1> DEFINE e == [fiber |-> f, thread |-> th]
<1>2. e.fiber = f /\ e.thread = th
  OBVIOUS
<1> HIDE DEF e
<1>3. /\ queue' = Append(queue, e)
      /\ DOMAIN queue = 1..Len(queue) /\ Len(queue) \in Nat
      /\ DOMAIN queue' = 1..(Len(queue) + 1)
      /\ \A i \in DOMAIN queue : queue'[i] = queue[i]
      /\ queue'[Len(queue) + 1] = e
  BY <1>1, PushFacts DEF Push, TypeOK, e
<1> QED BY <1>2, <1>3

LEMMA PushedIn ==
    ASSUME TypeOK, NEW f \in Fibers \cup {NoFiber}, NEW th \in Threads \cup {AnyThread},
           Push(f, th)
    PROVE  \A g \in Fibers : InQueue(g)' <=> InQueue(g) \/ g = f
<1> TAKE g \in Fibers
<1>1. ASSUME InQueue(g)', g # f PROVE InQueue(g)
  <2>1. PICK i \in DOMAIN queue' : queue'[i].fiber = g
    BY <1>1 DEF InQueue
  <2>2. i \in DOMAIN queue /\ queue'[i] = queue[i]
    BY <1>1, <2>1, Pushed
  <2> QED BY <2>1, <2>2 DEF InQueue
<1>2. ASSUME InQueue(g) PROVE InQueue(g)'
  <2>1. PICK i \in DOMAIN queue : queue[i].fiber = g
    BY <1>2 DEF InQueue
  <2>2. i \in DOMAIN queue' /\ queue'[i] = queue[i]
    BY <2>1, Pushed
  <2> QED BY <2>1, <2>2 DEF InQueue
<1>3. ASSUME g = f PROVE InQueue(g)'
  <2>1. PICK i \in DOMAIN queue' : queue'[i].fiber = f
    BY Pushed
  <2> QED BY <1>3, <2>1 DEF InQueue
<1> QED BY <1>1, <1>2, <1>3

LEMMA Taken ==
    ASSUME TypeOK, NEW t \in Threads, Take(t)
    PROVE  \E k \in DOMAIN queue :
             /\ queue[k] \in Entries /\ Takeable(t, queue[k])
             /\ queue' = Without(queue, k) /\ ft' = [ft EXCEPT ![t] = queue[k].fiber]
             /\ \A j \in DOMAIN queue' :
                   \E m \in DOMAIN queue : m # k /\ queue'[j] = queue[m]
             /\ \A m \in DOMAIN queue : m # k =>
                   \E j \in DOMAIN queue' : queue'[j] = queue[m]
<1>1. PICK k \in DOMAIN queue : /\ FirstTakeable(t, k)
                                /\ ft' = [ft EXCEPT ![t] = queue[k].fiber]
                                /\ queue' = Without(queue, k)
  BY DEF Take
<1>2. /\ queue \in Seq(Entries)
      /\ DOMAIN queue = 1..Len(queue) /\ Len(queue) \in Nat /\ k \in Nat
      /\ DOMAIN queue' = 1..(Len(queue) - 1)
      /\ \A j \in DOMAIN queue' :
            /\ j < k => j \in DOMAIN queue /\ queue'[j] = queue[j]
            /\ j >= k => j + 1 \in DOMAIN queue /\ queue'[j] = queue[j + 1]
  BY <1>1, WithoutFacts DEF TypeOK
<1>3. \A j \in DOMAIN queue' : \E m \in DOMAIN queue : m # k /\ queue'[j] = queue[m]
  <2> TAKE j \in DOMAIN queue'
  <2>1. CASE j < k
    BY <1>2, <2>1
  <2>2. CASE j >= k
    BY <1>2, <2>2
  <2> QED BY <1>2, <2>1, <2>2
<1>4. \A m \in DOMAIN queue : m # k => \E j \in DOMAIN queue' : queue'[j] = queue[m]
  <2> SUFFICES ASSUME NEW m \in DOMAIN queue, m # k
               PROVE  \E j \in DOMAIN queue' : queue'[j] = queue[m]
    OBVIOUS
  <2>1. CASE m < k
    BY <1>2, <2>1
  <2>2. CASE m > k
    <3>1. m - 1 \in DOMAIN queue' /\ m - 1 >= k /\ (m - 1) + 1 = m
      BY <1>2, <2>2
    <3> QED BY <1>2, <3>1
  <2> QED BY <1>2, <2>1, <2>2
<1>5. Takeable(t, queue[k])
  BY <1>1 DEF FirstTakeable
<1>6. queue[k] \in Entries
  BY <1>2
<1> HIDE DEF FirstTakeable, Takeable, Without, Entries
<1> QED BY <1>1, <1>3, <1>4, <1>5, <1>6

(* Two entries that agree after a take agreed before.                       *)
LEMMA TakenOnce ==
    ASSUME TypeOK, NEW k \in DOMAIN queue, queue' = Without(queue, k),
           \A i, j \in DOMAIN queue :
              queue[i].fiber \in Fibers /\ queue[j].fiber = queue[i].fiber => i = j,
           NEW i \in DOMAIN queue', NEW j \in DOMAIN queue',
           queue'[i].fiber \in Fibers, queue'[j].fiber = queue'[i].fiber
    PROVE  i = j
<1> DEFINE a == IF i < k THEN i ELSE i + 1
           b == IF j < k THEN j ELSE j + 1
<1>1. /\ DOMAIN queue = 1..Len(queue) /\ Len(queue) \in Nat /\ k \in Nat
      /\ DOMAIN queue' = 1..(Len(queue) - 1)
      /\ \A n \in DOMAIN queue' :
            /\ n < k => n \in DOMAIN queue /\ queue'[n] = queue[n]
            /\ n >= k => n + 1 \in DOMAIN queue /\ queue'[n] = queue[n + 1]
  BY WithoutFacts DEF TypeOK
<1>2. /\ a \in DOMAIN queue /\ queue'[i] = queue[a]
      /\ b \in DOMAIN queue /\ queue'[j] = queue[b]
  BY <1>1
<1>3. a = b
  <2> HIDE DEF a, b
  <2> QED BY <1>2
<1> QED BY <1>1, <1>3

(* With a single thread, that thread is the one that runs.                  *)
LEMMA Alone ==
    ASSUME TypeOK, ThreadForm, Cardinality(Runners) = 1, NEW t \in Threads, NEW u \in Threads,
           pc[t] # "off", pc[u] # "off"
    PROVE  t = u
<1>1. t \in Runners /\ u \in Runners
  BY DEF ThreadForm
<1>2. IsFiniteSet(Runners)
  BY ThreadFacts, FS_Subset DEF TypeOK, Runners, Threads
<1> QED BY <1>1, <1>2, FS_Singleton

(* Taking a fiber that nobody parks is taking one that nobody has.          *)
LEMMA TakenFree ==
    ASSUME Own, NEW t \in Threads, Take(t), ~Seizes(t)
    PROVE  \E k \in DOMAIN queue :
             /\ queue[k] \in Entries /\ queue[k].fiber \in Fibers \cup {NoFiber}
             /\ queue' = Without(queue, k) /\ ft' = [ft EXCEPT ![t] = queue[k].fiber]
             /\ \A j \in DOMAIN queue' :
                   \E m \in DOMAIN queue : m # k /\ queue'[j] = queue[m]
             /\ \A m \in DOMAIN queue : m # k =>
                   \E j \in DOMAIN queue' : queue'[j] = queue[m]
             /\ queue[k].fiber \in Fibers =>
                   \A u \in Threads : ft[u] # queue[k].fiber /\ cbFiber[u] # queue[k].fiber
<1> USE DEF Own, Base
<1>1. PICK k \in DOMAIN queue :
             /\ queue[k] \in Entries /\ Takeable(t, queue[k])
             /\ queue' = Without(queue, k) /\ ft' = [ft EXCEPT ![t] = queue[k].fiber]
             /\ \A j \in DOMAIN queue' :
                   \E m \in DOMAIN queue : m # k /\ queue'[j] = queue[m]
             /\ \A m \in DOMAIN queue : m # k =>
                   \E j \in DOMAIN queue' : queue'[j] = queue[m]
  BY Taken
<1>2. ft'[t] = queue[k].fiber /\ pc[t] = "scan" /\ ft[t] = NoFiber
  BY <1>1 DEF Take, TypeOK, ThreadForm, Bound
<1>3. ASSUME NEW u \in Threads, queue[k].fiber \in Fibers, ft[u] = queue[k].fiber PROVE FALSE
  <2>1. u # t /\ ft'[t] # NoFiber
    BY <1>2, <1>3, ThreadFacts
  <2>2. CASE doubled
    <3>1. pc[u] # "off" /\ pc[t] # "off"
      BY <1>2, <1>3, ThreadFacts DEF ThreadForm, Bound
    <3> QED BY <2>1, <2>2, <3>1, Alone DEF PlaceForm
  <2>3. CASE ~doubled
    <3>1. Exposed(u)
      BY <1>3, <2>3 DEF PlaceForm, Exclusive, Reached, InQueue
    <3>2. pc[u] # "park"
      <4>1. state[ft[u]] # "EXEC"
        BY <1>1, <1>3, ThreadFacts DEF Takeable
      <4> QED BY <4>1 DEF HandForm
    <3>3. pc[u] \in Parking
      BY <3>1, <3>2 DEF Exposed
    <3> QED BY <1>2, <1>3, <2>1, <3>3 DEF Seizes
  <2> QED BY <2>2, <2>3
<1>4. ASSUME NEW u \in Threads, queue[k].fiber \in Fibers, cbFiber[u] = queue[k].fiber PROVE FALSE
  <2>1. ft[u] = queue[k].fiber
    BY <1>4 DEF CbForm, Reached, InQueue
  <2> QED BY <1>3, <1>4, <2>1
<1>5. queue[k].fiber \in Fibers \cup {NoFiber}
  BY <1>1 DEF Entries
<1> HIDE DEF Takeable, Without, Entries, Own, Base
<1> QED BY <1>1, <1>3, <1>4, <1>5

(* Steps after which nothing is seized, and their frame.                    *)
LEMMA Calm ==
    ASSUME TypeOK, [Next]_vars, ~seized'
    PROVE  \/ /\ Owner \/ (\E t \in Threads : Run(t)) \/ (\E f \in Fibers : Wake(f))
              /\ pool' = pool /\ \A t \in Threads : ~Seizes(t)
           \/ UNCHANGED vars
BY DEF Next, Terminated, Proceeds

-----------------------------------------------------------------------------
LEMMA OwnInit == Init => Own
<1> SUFFICES ASSUME Init PROVE Own
  OBVIOUS
<1>1. Base
  BY BaseInit
<1>2. HandForm /\ SoleForm
  BY ThreadFacts DEF Init, HandForm, SoleForm
<1>3. StateForm
  BY DEF Init, StateForm
<1>4. NoneForm
  BY ThreadFacts DEF Init, NoneForm
<1>5. CbForm
  BY ThreadFacts DEF Init, CbForm, Bound
<1>6. PlaceForm
  BY DEF Init, PlaceForm, Exclusive, Reached, InQueue
<1> QED BY <1>1, <1>2, <1>3, <1>4, <1>5, <1>6 DEF Own

(* A thread writes the m_state only of the fiber in its own hands.          *)
LEMMA HandStep ==
    ASSUME Own, [Next]_vars, ~seized'
    PROVE  HandForm'
<1> USE DEF Own, Base
<1> DEFINE Hand(t) ==
      /\ pc[t] \in {"exec", "park"} => state[ft[t]] = "EXEC"
      /\ pc[t] \in {"leaving", "back", "post"} =>
            state[ft[t]] \in {"HOLD", "READY", "TERM", "EXCEPT"}
      /\ pc[t] = "test" => state[ft[t]] \in {"HOLD", "TERM", "EXCEPT"}
      /\ pc[t] = "hold" => state[ft[t]] = "HOLD"
<1>0. ASSUME NEW t \in Threads, pc'[t] = pc[t], ft'[t] = ft[t],
             pc[t] \in Bound => state'[ft[t]] = state[ft[t]]
      PROVE  Hand(t)'
  BY <1>0 DEF HandForm, Bound
<1>1. CASE Owner
  <2>1. CASE Start
    BY <2>1 DEF Start, fibers, HandForm, ThreadForm
  <2>2. CASE Submit
    <3>1. \A t \in Threads : pc[t] \in Bound => state'[ft[t]] = state[ft[t]]
      <4>1. \/ UNCHANGED state
            \/ \E f \in Fibers : state[f] = "NONE" /\ state' = [state EXCEPT ![f] = "INIT"]
        BY <2>2 DEF Submit, SetState
      <4> QED BY <4>1 DEF NoneForm, ThreadForm, TypeOK
    <3> QED BY <1>0, <2>2, <3>1 DEF Submit, local, HandForm
  <2>3. CASE StopCall
    BY <2>3 DEF StopCall, Goto, fibers, HandForm, ThreadForm, TypeOK
  <2>4. CASE SubmitAgain \/ Stop \/ StopReturn \/ Join
    BY <2>4 DEF SubmitAgain, Stop, StopReturn, Join, local, fibers, HandForm
  <2> QED BY <1>1, <2>1, <2>2, <2>3, <2>4 DEF Owner
<1>2. ASSUME NEW t \in Threads, Run(t) PROVE HandForm'
  <2>0. \A u \in Threads : u # t /\ pc[u] \in Bound => ft[u] \in Fibers /\ ft[u] # ft[t]
    BY DEF SoleForm, ThreadForm
  <2>1. ASSUME \A u \in Threads : u # t =>
                   /\ pc'[u] = pc[u] /\ ft'[u] = ft[u]
                   /\ pc[u] \in Bound => state'[ft[u]] = state[ft[u]],
               Hand(t)'
        PROVE  HandForm'
    BY <1>0, <2>1 DEF HandForm
  <2> USE DEF Goto
  <2>2. CASE Take(t) \/ TakeNothing(t) \/ SkipDead(t) \/ Requeue(t) \/ EnterIdle(t)
             \/ Idle(t) \/ Exit(t)
    BY <2>1, <2>2 DEF Take, TakeNothing, SkipDead, Requeue, EnterIdle, Idle, Exit, Drop,
                      fibers, TypeOK
  <2>3. CASE SwapIn(t)
    BY <2>0, <2>1, <2>3 DEF SwapIn, SetState, TypeOK
  <2>4. CASE RunCallback(t)
    <3>1. PICK f \in Fibers : /\ \/ cbFiber[t] = f /\ CanReset(f)
                                 \/ cbFiber[t] = NoFiber /\ state[f] = "NONE"
                              /\ SetState(f, "EXEC") /\ ft' = [ft EXCEPT ![t] = f]
      BY <2>4 DEF RunCallback
    <3>2. ft[t] = NoFiber /\ f # NoFiber
      BY <2>4, ThreadFacts DEF RunCallback
    <3>3. \A u \in Threads : u # t => ft[u] # f
      BY <3>1 DEF CbForm, NoneForm
    <3> QED BY <2>0, <2>1, <2>4, <3>1, <3>3 DEF RunCallback, SetState, TypeOK
  <2>5. CASE Spawn(t) \/ Arm(t)
    BY <2>0, <2>1, <2>5 DEF Spawn, Arm, local, fibers, HandForm, ThreadForm, Bound, TypeOK
  <2>6. CASE YieldToHold(t) \/ YieldToReady(t) \/ Finish(t) \/ Throw(t)
    BY <2>0, <2>1, <2>6 DEF YieldToHold, YieldToReady, Finish, Throw, End, Leave, SetState,
                            HandForm, ThreadForm, Bound, TypeOK
  <2>7. CASE SwapOut(t) \/ Back(t) \/ NotReady(t) \/ TestHold(t)
    BY <2>1, <2>7 DEF SwapOut, Back, NotReady, TestHold, fibers, HandForm, TypeOK
  <2>8. CASE Ended(t) \/ WriteHold(t)
    BY <2>0, <2>1, <2>8 DEF Ended, WriteHold, SetState, Drop, ThreadForm, Bound, TypeOK
  <2> QED BY <1>2, <2>2, <2>3, <2>4, <2>5, <2>6, <2>7, <2>8 DEF Run
<1>3. ASSUME NEW f \in Fibers, Wake(f) PROVE HandForm'
  BY <1>0, <1>3 DEF Wake, local, HandForm, TypeOK
<1>4. CASE UNCHANGED vars
  BY <1>4 DEF vars, local, fibers, HandForm
<1> QED BY <1>1, <1>2, <1>3, <1>4, Calm

(* Only Take and RunCallback put a fiber into a thread's hands: Take one    *)
(* that nobody had, RunCallback its own cb_fiber or a new one.              *)
LEMMA SoleStep ==
    ASSUME Own, [Next]_vars, ~seized'
    PROVE  SoleForm'
<1> USE DEF Own, Base
<1>1. ASSUME NEW t \in Threads, NEW f \in Fibers \cup {NoFiber},
             ft' = [ft EXCEPT ![t] = f],
             f \in Fibers => \A u \in Threads : u # t => ft[u] # f
      PROVE  SoleForm'
  BY <1>1, ThreadFacts DEF SoleForm, TypeOK
<1>2. CASE ft' = ft
  BY <1>2 DEF SoleForm
<1>3. ASSUME NEW t \in Threads, Take(t), ~Seizes(t) PROVE SoleForm'
  <2>1. PICK k \in DOMAIN queue :
          /\ queue[k].fiber \in Fibers \cup {NoFiber} /\ ft' = [ft EXCEPT ![t] = queue[k].fiber]
          /\ queue[k].fiber \in Fibers => \A u \in Threads : ft[u] # queue[k].fiber
    BY <1>3, TakenFree
  <2> QED BY <1>1, <2>1
<1>4. ASSUME NEW t \in Threads, RunCallback(t) PROVE SoleForm'
  <2>1. PICK f \in Fibers : /\ cbFiber[t] = f \/ state[f] = "NONE"
                            /\ ft' = [ft EXCEPT ![t] = f]
    BY <1>4 DEF RunCallback
  <2>2. \A u \in Threads : u # t => ft[u] # f
    BY <2>1 DEF CbForm, NoneForm
  <2> QED BY <1>1, <2>1, <2>2
<1>5. ASSUME NEW t \in Threads, SkipDead(t) \/ Requeue(t) \/ Ended(t) \/ WriteHold(t)
      PROVE  SoleForm'
  BY <1>1, <1>5, ThreadFacts DEF SkipDead, Requeue, Ended, WriteHold, Drop
<1>6. ASSUME NEW t \in Threads, Run(t), ~Seizes(t) PROVE SoleForm'
  <2>1. CASE TakeNothing(t) \/ SwapIn(t) \/ Spawn(t) \/ Arm(t) \/ YieldToHold(t)
             \/ YieldToReady(t) \/ Finish(t) \/ Throw(t)
    BY <1>2, <2>1 DEF TakeNothing, SwapIn, Spawn, Arm, YieldToHold, YieldToReady, Finish,
                      Throw, End, Leave, local
  <2>2. CASE SwapOut(t) \/ Back(t) \/ NotReady(t) \/ TestHold(t) \/ EnterIdle(t) \/ Idle(t)
             \/ Exit(t)
    BY <1>2, <2>2 DEF SwapOut, Back, NotReady, TestHold, EnterIdle, Idle, Exit
  <2> QED BY <1>3, <1>4, <1>5, <1>6, <2>1, <2>2 DEF Run
<1>7. CASE Owner \/ (\E f \in Fibers : Wake(f)) \/ UNCHANGED vars
  BY <1>2, <1>7 DEF Owner, Start, Submit, SubmitAgain, Stop, StopCall, StopReturn, Join, Wake,
                    vars, local
<1> QED BY <1>6, <1>7, Calm

(* m_state tells the truth: EXEC means that a thread executes the fiber,    *)
(* and TERM and EXCEPT that its function has ended.                         *)
LEMMA StateStep ==
    ASSUME Own, [Next]_vars, ~seized'
    PROVE  StateForm'
<1> USE DEF Own, Base
<1>0. ASSUME state' = state, finished' = finished, cbFiber' = cbFiber, ft' = ft,
             \A t \in Threads : pc[t] \in {"exec", "park"} => pc'[t] \in {"exec", "park"}
      PROVE  StateForm'
  BY <1>0 DEF StateForm
<1>1. CASE Owner
  <2>1. CASE Start
    BY <1>0, <2>1 DEF Start, fibers, ThreadForm
  <2>2. CASE Submit
    <3>1. /\ \/ UNCHANGED state
             \/ \E f \in Fibers : state[f] = "NONE" /\ state' = [state EXCEPT ![f] = "INIT"]
          /\ UNCHANGED <<finished, cbFiber, ft, pc>>
      BY <2>2 DEF Submit, SetState, local
    <3> QED BY <3>1 DEF StateForm, NoneForm, TypeOK
  <2>3. CASE StopCall
    BY <1>0, <2>3, ThreadFacts DEF StopCall, Goto, fibers, ThreadForm, TypeOK
  <2>4. CASE SubmitAgain \/ Stop \/ StopReturn \/ Join
    BY <1>0, <2>4 DEF SubmitAgain, Stop, StopReturn, Join, local, fibers
  <2> QED BY <1>1, <2>1, <2>2, <2>3, <2>4 DEF Owner
<1>2. ASSUME NEW t \in Threads, Run(t) PROVE StateForm'
  <2> USE DEF Goto
  <2>1. CASE TakeNothing(t) \/ Spawn(t) \/ Arm(t) \/ SwapOut(t) \/ Back(t) \/ NotReady(t)
             \/ TestHold(t) \/ EnterIdle(t) \/ Idle(t) \/ Exit(t)
    BY <1>0, <2>1 DEF TakeNothing, Spawn, Arm, SwapOut, Back, NotReady, TestHold, EnterIdle,
                      Idle, Exit, local, fibers, TypeOK
  <2>2. CASE Take(t) \/ SkipDead(t)
    <3>1. /\ UNCHANGED <<state, finished, cbFiber>> /\ pc[t] \notin {"exec", "park"}
          /\ \A u \in Threads : u # t => pc'[u] = pc[u] /\ ft'[u] = ft[u]
      BY <2>2, Taken DEF Take, SkipDead, fibers, TypeOK
    <3> QED BY <3>1 DEF StateForm
  <2>3. CASE SwapIn(t)
    <3>1. ft[t] \in Fibers /\ ft[t] \notin finished
      <4>1. /\ ft[t] \in Fibers /\ pc[t] \notin Bound
            /\ state[ft[t]] \notin {"TERM", "EXCEPT"}
        BY <2>3 DEF SwapIn, TypeOK, Bound
      <4>2. \A u \in Threads : cbFiber[u] # ft[t]
        BY <4>1 DEF CbForm
      <4> QED BY <4>1, <4>2 DEF StateForm
    <3>2. /\ pc'[t] = "exec" /\ \A u \in Threads : u # t => pc'[u] = pc[u]
          /\ \A f \in Fibers : f # ft[t] => state'[f] = state[f]
          /\ state'[ft[t]] = "EXEC"
          /\ UNCHANGED <<ft, cbFiber, finished>> /\ pc[t] = "dispatch"
      BY <2>3, <3>1 DEF SwapIn, SetState, TypeOK
    <3> QED BY <3>1, <3>2 DEF StateForm
  <2>4. CASE RunCallback(t)
    <3>1. PICK f \in Fibers : /\ \/ cbFiber[t] = f /\ CanReset(f)
                                 \/ cbFiber[t] = NoFiber /\ state[f] = "NONE"
                              /\ SetState(f, "EXEC") /\ ft' = [ft EXCEPT ![t] = f]
                              /\ cbFiber' = [cbFiber EXCEPT ![t] = f]
                              /\ finished' = finished \ {f}
      BY <2>4 DEF RunCallback
    <3>2. /\ pc'[t] = "exec" /\ ft'[t] = f /\ pc[t] = "dispatch"
          /\ \A u \in Threads : u # t => pc'[u] = pc[u] /\ ft'[u] = ft[u]
          /\ \A g \in Fibers : g # f => state'[g] = state[g]
          /\ state'[f] = "EXEC" /\ cbFiber'[t] = f
          /\ \A u \in Threads : u # t => cbFiber'[u] = cbFiber[u]
      BY <2>4, <3>1 DEF RunCallback, SetState, TypeOK
    <3>3. \A g \in Fibers : g # f => cbFiber[t] # g
      BY <3>1, ThreadFacts
    <3> QED BY <3>1, <3>2, <3>3 DEF StateForm
  <2>6. CASE YieldToHold(t) \/ YieldToReady(t) \/ Finish(t) \/ Throw(t)
    <3>1. ft[t] \in Fibers /\ state[ft[t]] = "EXEC" /\ ft[t] \notin finished
      BY <2>6 DEF YieldToHold, YieldToReady, Finish, Throw, End, HandForm, ThreadForm, StateForm,
                  Bound
    <3>2. /\ \A u \in Threads : u # t => pc'[u] = pc[u]
          /\ \A g \in Fibers : g # ft[t] => state'[g] = state[g]
          /\ UNCHANGED <<ft, cbFiber>>
          /\ \/ state'[ft[t]] \in {"HOLD", "READY"} /\ finished' = finished
             \/ state'[ft[t]] \in {"TERM", "EXCEPT"} /\ finished' = finished \cup {ft[t]}
      BY <2>6, <3>1 DEF YieldToHold, YieldToReady, Finish, Throw, End, Leave, SetState, TypeOK
    <3> QED BY <3>1, <3>2 DEF StateForm
  <2>7. CASE Requeue(t) \/ WriteHold(t)
    <3>1. /\ ft[t] \in Fibers /\ ft[t] \notin finished /\ state' = state
          /\ finished' = finished /\ pc[t] \notin {"exec", "park"}
          /\ \A u \in Threads : u # t => pc'[u] = pc[u] /\ ft'[u] = ft[u] /\ cbFiber'[u] = cbFiber[u]
      BY <2>7 DEF Requeue, WriteHold, SetState, Drop, DropCbFiber, fibers, HandForm, ThreadForm,
                  StateForm, Bound, TypeOK
    <3>2. \A g \in finished : cbFiber[t] = g => cbFiber'[t] = g
      BY <2>7, <3>1 DEF Requeue, WriteHold, DropCbFiber, CbForm, Bound, TypeOK
    <3> QED BY <3>1, <3>2 DEF StateForm
  <2>8. CASE Ended(t)
    <3>1. /\ ft[t] \in Fibers /\ ft[t] \in finished /\ pc[t] = "test"
          /\ UNCHANGED <<finished, cbFiber>>
          /\ \A u \in Threads : u # t => pc'[u] = pc[u] /\ ft'[u] = ft[u]
          /\ \A g \in Fibers : g # ft[t] => state'[g] = state[g]
          /\ \/ state' = state
             \/ state'[ft[t]] = "INIT" /\ cbFiber[t] = ft[t]
      BY <2>8 DEF Ended, SetState, Drop, HandForm, ThreadForm, StateForm, CbForm, Bound, TypeOK
    <3> QED BY <3>1 DEF StateForm
  <2> QED BY <1>2, <2>1, <2>2, <2>3, <2>4, <2>6, <2>7, <2>8 DEF Run
<1>3. ASSUME NEW f \in Fibers, Wake(f) PROVE StateForm'
  BY <1>3 DEF Wake, local, StateForm, TypeOK
<1>4. CASE UNCHANGED vars
  BY <1>0, <1>4 DEF vars, local, fibers
<1> QED BY <1>1, <1>2, <1>3, <1>4, Calm

LEMMA NoneStep ==
    ASSUME Own, [Next]_vars, ~seized'
    PROVE  NoneForm'
<1> USE DEF Own, Base
(* References and entries only come from fibers that exist.                 *)
<1>0. ASSUME \A f \in Fibers : state'[f] = "NONE" =>
                /\ state[f] = "NONE" /\ wakers'[f] = wakers[f] /\ (f \in finished' => f \in finished)
                /\ \A t \in Threads : /\ ft'[t] = f => ft[t] = f
                                      /\ cbFiber'[t] = f => cbFiber[t] = f
                /\ \A i \in DOMAIN queue' :
                      queue'[i].fiber = f => \E j \in DOMAIN queue : queue[j].fiber = f
      PROVE  NoneForm'
  <2> SUFFICES ASSUME NEW f \in Fibers, state'[f] = "NONE"
               PROVE  /\ f \notin finished' /\ wakers'[f] = 0
                      /\ \A i \in DOMAIN queue' : queue'[i].fiber # f
                      /\ \A t \in Threads : ft'[t] # f /\ cbFiber'[t] # f
    BY DEF NoneForm
  <2>1. /\ f \notin finished /\ wakers[f] = 0
        /\ \A i \in DOMAIN queue : queue[i].fiber # f
        /\ \A t \in Threads : ft[t] # f /\ cbFiber[t] # f
    BY <1>0 DEF NoneForm
  <2>2. \A i \in DOMAIN queue' : queue'[i].fiber # f
    BY <1>0, <2>1
  <2>3. f \notin finished' /\ wakers'[f] = 0
    BY <1>0, <2>1
  <2>4. \A t \in Threads : ft'[t] # f /\ cbFiber'[t] # f
    BY <1>0, <2>1
  <2> QED BY <2>2, <2>3, <2>4
<1>1. CASE Owner
  <2>1. CASE Start \/ Stop \/ StopCall \/ StopReturn \/ Join
    BY <1>0, <2>1 DEF Start, Stop, StopCall, StopReturn, Join, local, fibers
  <2>2. CASE Submit
    <3>1. PICK th \in Threads \cup {AnyThread} :
            \/ \E f \in Fibers : state[f] = "NONE" /\ SetState(f, "INIT") /\ Push(f, th)
            \/ Push(NoFiber, th) /\ UNCHANGED state
      BY <2>2 DEF Submit, Runners, Threads, TypeOK
    <3>2. UNCHANGED <<wakers, finished, ft, cbFiber>>
      BY <2>2 DEF Submit, local
    <3>3. ASSUME NEW f \in Fibers, state[f] = "NONE", SetState(f, "INIT"), Push(f, th)
          PROVE  NoneForm'
      <4>1. \A g \in Fibers : state'[g] = "NONE" => g # f /\ state[g] = "NONE"
        BY <3>3 DEF SetState, TypeOK
      <4>2. \A i \in DOMAIN queue' : \/ i \in DOMAIN queue /\ queue'[i] = queue[i]
                                     \/ queue'[i].fiber = f
        BY <3>3, Pushed
      <4> QED BY <1>0, <3>2, <4>1, <4>2
    <3>4. CASE Push(NoFiber, th) /\ UNCHANGED state
      <4>1. \A i \in DOMAIN queue' : \/ i \in DOMAIN queue /\ queue'[i] = queue[i]
                                     \/ queue'[i].fiber = NoFiber
        BY <3>4, Pushed
      <4> QED BY <1>0, <3>2, <3>4, <4>1, ThreadFacts
    <3> QED BY <3>1, <3>3, <3>4
  <2>3. CASE SubmitAgain
    <3>1. PICK f \in Fibers : state[f] = "INIT" /\ Push(f, AnyThread)
      BY <2>3 DEF SubmitAgain
    <3>2. \A i \in DOMAIN queue' : \/ i \in DOMAIN queue /\ queue'[i] = queue[i]
                                   \/ queue'[i].fiber = f
      BY <3>1, Pushed
    <3>3. UNCHANGED <<state, wakers, finished, ft, cbFiber>>
      BY <2>3 DEF SubmitAgain, local, fibers
    <3> QED BY <1>0, <3>1, <3>2, <3>3
  <2> QED BY <1>1, <2>1, <2>2, <2>3 DEF Owner
<1>2. ASSUME NEW t \in Threads, Run(t) PROVE NoneForm'
  <2>1. CASE TakeNothing(t) \/ SwapOut(t) \/ Back(t) \/ NotReady(t) \/ TestHold(t) \/ EnterIdle(t) \/ Idle(t)
             \/ Exit(t)
    BY <1>0, <2>1 DEF TakeNothing, SwapOut, Back, NotReady, TestHold, EnterIdle, Idle, Exit, fibers
  <2>2. CASE Take(t)
    <3>1. PICK k \in DOMAIN queue :
             /\ ft' = [ft EXCEPT ![t] = queue[k].fiber]
             /\ \A j \in DOMAIN queue' :
                   \E m \in DOMAIN queue : m # k /\ queue'[j] = queue[m]
      BY <2>2, Taken
    <3>2. \A f \in Fibers : state[f] = "NONE" => queue[k].fiber # f
      BY DEF NoneForm
    <3>3. UNCHANGED <<state, wakers, finished, cbFiber>>
      BY <2>2 DEF Take, fibers
    <3> QED BY <1>0, <3>1, <3>2, <3>3 DEF TypeOK
  <2>3. CASE SkipDead(t)
    BY <1>0, <2>3, ThreadFacts DEF SkipDead, fibers, TypeOK
  <2>4. CASE SwapIn(t) \/ Arm(t)
    <3>1. ft[t] \in Fibers /\ state[ft[t]] # "NONE"
      BY <2>4 DEF SwapIn, Arm, ThreadForm, NoneForm, Bound, TypeOK
    <3> QED BY <1>0, <2>4, <3>1 DEF SwapIn, Arm, SetState, local, TypeOK
  <2>5. CASE RunCallback(t)
    <3>1. PICK f \in Fibers : /\ SetState(f, "EXEC") /\ ft' = [ft EXCEPT ![t] = f]
                              /\ cbFiber' = [cbFiber EXCEPT ![t] = f]
                              /\ finished' = finished \ {f}
      BY <2>5 DEF RunCallback
    <3>2. UNCHANGED <<queue, wakers>>
      BY <2>5 DEF RunCallback
    <3> QED BY <1>0, <3>1, <3>2 DEF SetState, TypeOK
  <2>6. CASE Spawn(t)
    <3>1. PICK th \in Threads \cup {AnyThread} : Push(NoFiber, th)
      BY <2>6 DEF Spawn, Runners, Threads, TypeOK
    <3>2. \A i \in DOMAIN queue' : \/ i \in DOMAIN queue /\ queue'[i] = queue[i]
                                   \/ queue'[i].fiber = NoFiber
      BY <3>1, Pushed
    <3>3. UNCHANGED <<state, wakers, finished, ft, cbFiber>>
      BY <2>6 DEF Spawn, local, fibers
    <3> QED BY <1>0, <3>2, <3>3, ThreadFacts
  <2>7. CASE YieldToHold(t) \/ YieldToReady(t) \/ Finish(t) \/ Throw(t)
    <3>1. ft[t] \in Fibers
      BY <2>7 DEF YieldToHold, YieldToReady, Finish, Throw, End, ThreadForm, Bound
    <3>2. /\ finished' \subseteq finished \cup {ft[t]}
          /\ \A f \in Fibers : state'[f] = "NONE" => state[f] = "NONE" /\ f # ft[t]
          /\ UNCHANGED <<queue, ft, cbFiber, wakers>>
      BY <2>7, <3>1 DEF YieldToHold, YieldToReady, Finish, Throw, End, Leave, SetState, TypeOK
    <3> QED BY <1>0, <3>1, <3>2
  <2>8. CASE Requeue(t)
    <3>1. /\ ft[t] \in Fibers \cup {NoFiber}
          /\ \A f \in Fibers : state[f] = "NONE" => ft[t] # f
      BY DEF NoneForm, TypeOK
    <3>2. \A i \in DOMAIN queue' : \/ i \in DOMAIN queue /\ queue'[i] = queue[i]
                                   \/ queue'[i].fiber = ft[t]
      BY <2>8, <3>1, Pushed DEF Requeue
    <3>3. /\ UNCHANGED <<state, wakers, finished>> /\ ft' = [ft EXCEPT ![t] = NoFiber]
          /\ \A u \in Threads : cbFiber'[u] \in {cbFiber[u], NoFiber}
      BY <2>8 DEF Requeue, Drop, DropCbFiber, fibers, TypeOK
    <3> QED BY <1>0, <3>1, <3>2, <3>3, ThreadFacts DEF TypeOK
  <2>9. CASE Ended(t) \/ WriteHold(t)
    <3>1. /\ UNCHANGED <<queue, wakers, finished>> /\ ft' = [ft EXCEPT ![t] = NoFiber]
          /\ \A u \in Threads : cbFiber'[u] \in {cbFiber[u], NoFiber}
          /\ \A f \in Fibers : state'[f] = "NONE" => state[f] = "NONE"
      BY <2>9 DEF Ended, WriteHold, SetState, Drop, DropCbFiber, TypeOK
    <3> QED BY <1>0, <3>1, ThreadFacts DEF TypeOK
  <2> QED BY <1>2, <2>1, <2>2, <2>3, <2>4, <2>5, <2>6, <2>7, <2>8, <2>9 DEF Run
<1>3. ASSUME NEW f \in Fibers, Wake(f) PROVE NoneForm'
  <2>1. \A i \in DOMAIN queue' : \/ i \in DOMAIN queue /\ queue'[i] = queue[i]
                                 \/ queue'[i].fiber = f
    BY <1>3, Pushed DEF Wake
  <2>2. state[f] # "NONE"
    BY <1>3 DEF Wake, NoneForm
  <2> QED BY <1>0, <1>3, <2>1, <2>2 DEF Wake, local, TypeOK
<1>4. CASE UNCHANGED vars
  BY <1>0, <1>4 DEF vars, local, fibers
<1> QED BY <1>1, <1>2, <1>3, <1>4, Calm

(* The other threads keep their places in a step of t that writes only the  *)
(* m_state of its own fiber, or of one that nobody has.                     *)
LEMMA OthersExposed ==
    ASSUME ThreadForm, SoleForm, NEW t \in Threads,
           \A u \in Threads : u # t => pc'[u] = pc[u] /\ ft'[u] = ft[u],
           \A f \in Fibers : f # ft[t] =>
              state'[f] = state[f] \/ \A u \in Threads : u # t => ft[u] # f
    PROVE  \A u \in Threads : u # t => (Exposed(u)' <=> Exposed(u))
<1>1. ASSUME NEW u \in Threads, u # t, pc[u] \in Parking PROVE state'[ft[u]] = state[ft[u]]
  <2>1. ft[u] \in Fibers /\ ft[u] # ft[t]
    BY <1>1 DEF ThreadForm, SoleForm, Parking, Bound
  <2> QED BY <1>1, <2>1
<1> QED BY <1>1 DEF Exposed

(* cb_fiber stays with its thread.                                          *)
LEMMA CbStep ==
    ASSUME Own, [Next]_vars, ~seized'
    PROVE  CbForm'
<1> USE DEF Own, Base
<1> DEFINE Cb1 == \A t \in Threads : pc[t] \in Bound /\ viaCb[t] => cbFiber[t] = ft[t]
           Cb2 == \A t, u \in Threads : cbFiber[t] \in Fibers /\ ft[u] = cbFiber[t] =>
                     u = t /\ viaCb[t] /\ pc[t] \in Bound
           Cb3 == \A t, u \in Threads : cbFiber[t] \in Fibers /\ cbFiber[u] = cbFiber[t] => u = t
           Cb4 == \A t \in Threads : cbFiber[t] \in Fibers /\ ft[t] # cbFiber[t] =>
                     state[cbFiber[t]] = "INIT" /\ cbFiber[t] \in finished
           Cb5 == \A t \in Threads : cbFiber[t] \in Fibers /\ Reached(cbFiber[t]) =>
                     ft[t] = cbFiber[t] /\ Exposed(t)
<1>0. Cb1 /\ Cb2 /\ Cb3 /\ Cb4 /\ Cb5
  BY DEF CbForm
<1>1. ASSUME Cb1', Cb2', Cb3', Cb4', Cb5' PROVE CbForm'
  BY <1>1 DEF CbForm
(* Who is reached after a step that pushes at most one fiber.               *)
<1>2. ASSUME queue' = queue PROVE \A g \in Fibers : InQueue(g)' <=> InQueue(g)
  BY <1>2 DEF InQueue
<1>3. ASSUME NEW f \in Fibers \cup {NoFiber}, NEW th \in Threads \cup {AnyThread}, Push(f, th)
      PROVE  \A g \in Fibers : InQueue(g)' => InQueue(g) \/ g = f
  BY <1>3, PushedIn
(* A thread keeps its cb_fiber, and its place if that fiber is reached.     *)
<1>4. ASSUME \A t \in Threads : cbFiber'[t] \in Fibers =>
                /\ cbFiber'[t] = cbFiber[t]
                /\ Reached(cbFiber[t])' => Reached(cbFiber[t])
                /\ Exposed(t) /\ ft[t] = cbFiber[t] => Exposed(t)' /\ ft'[t] = ft[t]
      PROVE  Cb5'
  BY <1>0, <1>4
(* The other threads keep their places in a step of t.                      *)
<1>5. ASSUME NEW t \in Threads, \A u \in Threads : u # t => pc'[u] = pc[u] /\ ft'[u] = ft[u],
             \A f \in Fibers : f # ft[t] =>
                state'[f] = state[f] \/ \A u \in Threads : u # t => ft[u] # f
      PROVE  \A u \in Threads : u # t /\ Exposed(u) => Exposed(u)'
  BY <1>5, OthersExposed
(* A step that leaves the queue, the fibers and the hands alone.            *)
<1>6. ASSUME UNCHANGED <<queue, wakers, ft, cbFiber, viaCb, finished, state>>,
             \A t \in Threads : pc'[t] \in Bound <=> pc[t] \in Bound,
             \A t \in Threads : Exposed(t) => Exposed(t)'
      PROVE  CbForm'
  <2>1. Cb5'
    BY <1>2, <1>4, <1>6 DEF Reached
  <2> QED BY <1>0, <1>1, <1>6, <2>1
<1>7. CASE Owner
  <2>1. CASE Start \/ Stop \/ StopCall \/ StopReturn \/ Join
    <3>1. \A t \in Threads : Exposed(t) => Exposed(t)'
      BY <2>1, ThreadFacts DEF Start, Stop, StopCall, StopReturn, Join, Goto, local, fibers,
                      ThreadForm, TypeOK, Exposed, Parking
    <3> QED BY <1>6, <2>1, <3>1, ThreadFacts DEF Start, Stop, StopCall, StopReturn, Join, Goto,
                      local, fibers, ThreadForm, TypeOK, Bound
  <2>2. CASE Submit
    <3>1. PICK th \in Threads \cup {AnyThread} :
            \/ \E f \in Fibers : state[f] = "NONE" /\ SetState(f, "INIT") /\ Push(f, th)
            \/ Push(NoFiber, th) /\ UNCHANGED state
      BY <2>2 DEF Submit, Runners, Threads, TypeOK
    <3>2. UNCHANGED <<finished, ft, cbFiber, viaCb, pc, wakers>>
      BY <2>2 DEF Submit, local
    <3>3. \A t \in Threads : cbFiber[t] \in Fibers => state'[cbFiber[t]] = state[cbFiber[t]]
      BY <3>1 DEF SetState, NoneForm, TypeOK
    <3>4. \A t \in Threads : Exposed(t) => Exposed(t)'
      <4>1. \A t \in Threads : ft[t] \in Fibers => state'[ft[t]] = state[ft[t]]
        BY <3>1 DEF SetState, NoneForm, TypeOK
      <4>2. \A t \in Threads : pc[t] \in Parking => ft[t] \in Fibers
        BY DEF ThreadForm, Parking, Bound
      <4> QED BY <3>2, <4>1, <4>2 DEF Exposed
    <3>5. \A t \in Threads : cbFiber[t] \in Fibers => (Reached(cbFiber[t])' => Reached(cbFiber[t]))
      <4>1. CASE Push(NoFiber, th)
        BY <1>3, <3>2, <4>1, ThreadFacts DEF Reached
      <4>2. ASSUME NEW f \in Fibers, state[f] = "NONE", Push(f, th)
            PROVE  \A t \in Threads : cbFiber[t] \in Fibers =>
                        (Reached(cbFiber[t])' => Reached(cbFiber[t]))
        <5>1. \A t \in Threads : cbFiber[t] # f
          BY <4>2 DEF NoneForm
        <5> QED BY <1>3, <3>2, <4>2, <5>1 DEF Reached
      <4> QED BY <3>1, <4>1, <4>2
    <3>6. Cb5'
      BY <1>4, <3>2, <3>4, <3>5
    <3> QED BY <1>0, <1>1, <3>2, <3>3, <3>6
  <2>3. CASE SubmitAgain
    <3>1. PICK f \in Fibers : Push(f, AnyThread) /\ \A t \in Threads : cbFiber[t] # f
      BY <2>3 DEF SubmitAgain
    <3>2. UNCHANGED <<state, finished, ft, cbFiber, viaCb, pc, wakers>>
      BY <2>3 DEF SubmitAgain, local, fibers
    <3>3. Cb5'
      BY <1>3, <1>4, <3>1, <3>2 DEF Reached, Exposed
    <3> QED BY <1>0, <1>1, <3>2, <3>3
  <2> QED BY <1>7, <2>1, <2>2, <2>3 DEF Owner
<1>8. ASSUME NEW t \in Threads, Run(t), ~Seizes(t) PROVE CbForm'
  <2> USE DEF Goto
  (* A thread that is not parking has no cb_fiber that is reached.          *)
  <2>0. ~Exposed(t) /\ cbFiber[t] \in Fibers => ~Reached(cbFiber[t])
    BY <1>0
  (* Steps of t that neither park nor push a cb_fiber.                      *)
  <2>00. ASSUME \A u \in Threads : u # t => cbFiber'[u] = cbFiber[u] /\ ft'[u] = ft[u],
                \A u \in Threads : u # t /\ Exposed(u) => Exposed(u)',
                \A u \in Threads, g \in Fibers : cbFiber'[u] = g /\ Reached(g)' => Reached(g),
                \A g \in Fibers : cbFiber'[t] = g => ~Reached(g)
         PROVE  Cb5'
    <3> SUFFICES ASSUME NEW u \in Threads, cbFiber'[u] \in Fibers, Reached(cbFiber[u])'
                 PROVE  ft'[u] = cbFiber'[u] /\ Exposed(u)'
      OBVIOUS
    <3> DEFINE g == cbFiber'[u]
    <3>1. g \in Fibers /\ cbFiber'[u] = g
      OBVIOUS
    <3>2. Reached(g)
      BY <2>00, <3>1
    <3>3. u # t
      BY <2>00, <3>1, <3>2
    <3>4. cbFiber[u] = g
      BY <2>00, <3>3
    <3> QED BY <1>0, <2>00, <3>1, <3>2, <3>3, <3>4
  <2>1. CASE TakeNothing(t) \/ SwapOut(t) \/ Back(t) \/ NotReady(t) \/ TestHold(t) \/ EnterIdle(t)
             \/ Idle(t) \/ Exit(t)
    <3>1. \A u \in Threads : Exposed(u) => Exposed(u)'
      BY <2>1 DEF TakeNothing, SwapOut, Back, NotReady, TestHold, EnterIdle, Idle, Exit, fibers,
                  Exposed, Parking, TypeOK
    <3> QED BY <1>6, <2>1, <3>1 DEF TakeNothing, SwapOut, Back, NotReady, TestHold, EnterIdle,
                      Idle, Exit, fibers, Bound, TypeOK
  <2>2. CASE Take(t)
    <3>1. PICK k \in DOMAIN queue :
             /\ ft' = [ft EXCEPT ![t] = queue[k].fiber]
             /\ \A j \in DOMAIN queue' :
                   \E m \in DOMAIN queue : m # k /\ queue'[j] = queue[m]
             /\ queue[k].fiber \in Fibers => \A u \in Threads : cbFiber[u] # queue[k].fiber
      BY <1>8, <2>2, TakenFree
    <3>2. /\ UNCHANGED <<state, finished, cbFiber, viaCb, wakers>>
          /\ pc[t] = "scan" /\ pc'[t] = "dispatch" /\ ft[t] = NoFiber
          /\ \A u \in Threads : u # t => pc'[u] = pc[u] /\ ft'[u] = ft[u]
          /\ ft'[t] = queue[k].fiber
      BY <2>2, <3>1 DEF Take, fibers, TypeOK, ThreadForm, Bound
    <3>3. \A u \in Threads : cbFiber[u] \in Fibers => cbFiber[u] # queue[k].fiber
      BY <3>1
    <3>4. \A g \in Fibers : InQueue(g)' => InQueue(g)
      BY <3>1 DEF InQueue
    <3>5. ~Exposed(t) /\ \A u \in Threads : u # t /\ Exposed(u) => Exposed(u)'
      BY <3>2 DEF Exposed, Parking
    <3>6. Cb5'
      BY <2>0, <2>00, <3>2, <3>4, <3>5 DEF Reached
    <3>7. Cb1' /\ Cb2' /\ Cb3' /\ Cb4'
      BY <1>0, <3>2, <3>3, ThreadFacts DEF Bound
    <3> QED BY <1>1, <3>6, <3>7
  <2>3. CASE SkipDead(t)
    <3>1. /\ UNCHANGED <<state, finished, cbFiber, viaCb, queue, wakers>>
          /\ pc[t] = "dispatch" /\ pc'[t] = "none" /\ ft'[t] = NoFiber
          /\ \A u \in Threads : u # t => pc'[u] = pc[u] /\ ft'[u] = ft[u]
      BY <2>3 DEF SkipDead, fibers, TypeOK
    <3>2. ~Exposed(t) /\ \A u \in Threads : u # t /\ Exposed(u) => Exposed(u)'
      BY <3>1 DEF Exposed, Parking
    <3>3. Cb5'
      BY <1>2, <2>0, <2>00, <3>1, <3>2 DEF Reached
    <3> QED BY <1>0, <1>1, <3>1, <3>3, ThreadFacts DEF Bound
  <2>4. CASE SwapIn(t)
    <3>1. /\ UNCHANGED <<ft, finished, cbFiber, queue, wakers>>
          /\ pc[t] = "dispatch" /\ pc'[t] = "exec" /\ viaCb'[t] = FALSE
          /\ \A u \in Threads : u # t => pc'[u] = pc[u] /\ viaCb'[u] = viaCb[u]
          /\ \A f \in Fibers : f # ft[t] => state'[f] = state[f]
          /\ ft[t] \in Fibers
      BY <2>4 DEF SwapIn, SetState, TypeOK
    <3>2. \A u \in Threads : cbFiber[u] # ft[t]
      BY <1>0, <3>1 DEF Bound
    <3>3. ~Exposed(t) /\ \A u \in Threads : u # t /\ Exposed(u) => Exposed(u)'
      BY <1>5, <3>1 DEF Exposed, Parking
    <3>4. Cb5'
      BY <1>2, <2>0, <2>00, <3>1, <3>3 DEF Reached
    <3> QED BY <1>0, <1>1, <3>1, <3>2, <3>4 DEF Bound
  <2>5. CASE RunCallback(t)
    <3>1. PICK f \in Fibers : /\ \/ cbFiber[t] = f
                                 \/ cbFiber[t] = NoFiber /\ state[f] = "NONE"
                              /\ SetState(f, "EXEC") /\ ft' = [ft EXCEPT ![t] = f]
                              /\ cbFiber' = [cbFiber EXCEPT ![t] = f]
                              /\ finished' = finished \ {f}
      BY <2>5 DEF RunCallback
    <3>2. /\ queue' = queue /\ viaCb'[t] = TRUE /\ pc'[t] = "exec" /\ ft'[t] = f /\ cbFiber'[t] = f
          /\ wakers' = wakers /\ pc[t] = "dispatch"
          /\ \A u \in Threads : u # t => /\ pc'[u] = pc[u] /\ ft'[u] = ft[u]
                                         /\ cbFiber'[u] = cbFiber[u] /\ viaCb'[u] = viaCb[u]
          /\ \A g \in Fibers : g # f => state'[g] = state[g]
      BY <2>5, <3>1 DEF RunCallback, SetState, TypeOK
    <3>3. /\ \A u \in Threads : u # t => ft[u] # f /\ cbFiber[u] # f
          /\ ~Reached(f)
      <4>1. ~Exposed(t)
        BY <3>2 DEF Exposed, Parking
      <4>2. cbFiber[t] = f => ~Reached(f)
        BY <2>0, <4>1
      <4>3. state[f] = "NONE" => ~Reached(f)
        BY DEF NoneForm, Reached, InQueue
      <4> QED BY <1>0, <3>1, <4>2, <4>3 DEF NoneForm
    <3>4. \A u \in Threads : u # t /\ Exposed(u) => Exposed(u)'
      BY <1>5, <3>2, <3>3
    <3>5. Cb5'
      BY <1>2, <2>00, <3>2, <3>3, <3>4 DEF Reached
    <3>6. Cb1'
      BY <1>0, <3>2, <3>3
    <3>7. Cb2' /\ Cb3' /\ Cb4'
      BY <1>0, <3>1, <3>2, <3>3 DEF Bound
    <3> QED BY <1>1, <3>5, <3>6, <3>7
  <2>6. CASE Spawn(t)
    <3>1. PICK th \in Threads \cup {AnyThread} : Push(NoFiber, th)
      BY <2>6 DEF Spawn, Runners, Threads, TypeOK
    <3>2. UNCHANGED <<state, finished, ft, cbFiber, viaCb, pc, wakers>>
      BY <2>6 DEF Spawn, local, fibers
    <3>3. Cb5'
      BY <1>3, <1>4, <3>1, <3>2, ThreadFacts DEF Reached, Exposed
    <3> QED BY <1>0, <1>1, <3>2, <3>3
  <2>7. CASE Arm(t)
    <3>1. /\ UNCHANGED <<queue, ft, cbFiber, viaCb, finished, state>> /\ ft[t] \in Fibers
          /\ pc[t] = "exec" /\ pc'[t] = "park"
          /\ \A u \in Threads : u # t => pc'[u] = pc[u]
          /\ \A f \in Fibers : f # ft[t] => wakers'[f] = wakers[f]
      BY <2>7 DEF Arm, ThreadForm, Bound, TypeOK
    <3>2. /\ \A u \in Threads : u # t /\ Exposed(u) => Exposed(u)'
          /\ Exposed(t)'
      BY <3>1 DEF Exposed
    <3>3. ~Exposed(t)
      BY <3>1 DEF Exposed, Parking
    <3>4. \A f \in Fibers : f # ft[t] => (Reached(f)' => Reached(f))
      BY <1>2, <3>1 DEF Reached
    <3>5. Cb5'
      BY <1>0, <3>1, <3>2, <3>3, <3>4
    <3> QED BY <1>0, <1>1, <3>1, <3>5 DEF Bound
  <2>8. CASE YieldToHold(t) \/ YieldToReady(t) \/ Finish(t) \/ Throw(t)
    <3>1. /\ ft[t] \in Fibers /\ UNCHANGED <<queue, ft, cbFiber, viaCb, wakers>>
          /\ finished \subseteq finished'
          /\ \A u \in Threads : pc'[u] \in Bound <=> pc[u] \in Bound
          /\ \A u \in Threads : u # t => pc'[u] = pc[u]
          /\ \A g \in Fibers : g # ft[t] => state'[g] = state[g]
          /\ \/ pc[t] = "exec"
             \/ pc[t] = "park" /\ pc'[t] = "leaving" /\ state'[ft[t]] = "HOLD"
      BY <2>8 DEF YieldToHold, YieldToReady, Finish, Throw, End, Leave, SetState, ThreadForm,
                  Bound, TypeOK
    <3>2. \A u \in Threads : Exposed(u) => Exposed(u)'
      <4>1. \A u \in Threads : u # t /\ Exposed(u) => Exposed(u)'
        BY <1>5, <3>1
      <4>2. Exposed(t) => Exposed(t)'
        BY <3>1 DEF Exposed, Parking
      <4> QED BY <4>1, <4>2
    <3>3. Cb5'
      BY <1>2, <1>4, <3>1, <3>2 DEF Reached
    <3> QED BY <1>0, <1>1, <3>1, <3>3
  <2>9. CASE Requeue(t) \/ WriteHold(t)
    <3>1. /\ ft[t] \in Fibers /\ state' = state /\ pc[t] \in Bound
          /\ UNCHANGED <<viaCb, finished, wakers>> /\ pc'[t] = "scan" /\ ft'[t] = NoFiber
          /\ \A u \in Threads : u # t => /\ pc'[u] = pc[u] /\ ft'[u] = ft[u]
                                         /\ cbFiber'[u] = cbFiber[u]
          /\ cbFiber'[t] = IF viaCb[t] THEN NoFiber ELSE cbFiber[t]
          /\ queue' = queue \/ Push(ft[t], AnyThread)
      BY <2>9 DEF Requeue, WriteHold, SetState, Drop, DropCbFiber, fibers, HandForm, ThreadForm,
                  Bound, TypeOK
    <3>2. \A u \in Threads : cbFiber'[u] # ft[t] /\ (cbFiber'[u] \in Fibers => cbFiber'[u] = cbFiber[u])
      BY <1>0, <3>1, ThreadFacts
    <3>3. \A g \in Fibers : g # ft[t] => (Reached(g)' => Reached(g))
      BY <1>2, <1>3, <3>1 DEF Reached
    <3>4. \A u \in Threads : u # t /\ Exposed(u) => Exposed(u)'
      BY <3>1 DEF Exposed
    <3>5. \A g \in Fibers : cbFiber'[t] = g => ~Reached(g)
      BY <1>0, <3>1, <3>2
    <3>6. Cb5'
      BY <2>00, <3>1, <3>2, <3>3, <3>4, <3>5
    <3>7. Cb1' /\ Cb2' /\ Cb3' /\ Cb4'
      BY <1>0, <3>1, <3>2, ThreadFacts DEF Bound
    <3> QED BY <1>1, <3>6, <3>7
  <2>10. CASE Ended(t)
    <3>1. /\ ft[t] \in Fibers /\ ft[t] \in finished /\ pc[t] = "test"
          /\ state[ft[t]] \in {"TERM", "EXCEPT"}
          /\ UNCHANGED <<queue, finished, cbFiber, viaCb, wakers>>
          /\ pc'[t] = "scan" /\ ft'[t] = NoFiber
          /\ \A u \in Threads : u # t => pc'[u] = pc[u] /\ ft'[u] = ft[u]
          /\ \A g \in Fibers : g # ft[t] => state'[g] = state[g]
          /\ viaCb[t] => state'[ft[t]] = "INIT" /\ cbFiber[t] = ft[t]
      BY <2>10 DEF Ended, SetState, Drop, ThreadForm, StateForm, CbForm, Bound, TypeOK
    <3>2. ~Exposed(t) /\ \A u \in Threads : u # t /\ Exposed(u) => Exposed(u)'
      BY <1>5, <3>1 DEF Exposed
    <3>3. Cb5'
      BY <1>2, <2>0, <2>00, <3>1, <3>2 DEF Reached
    <3> QED BY <1>0, <1>1, <3>1, <3>3, ThreadFacts DEF Bound
  <2> QED BY <1>8, <2>1, <2>2, <2>3, <2>4, <2>5, <2>6, <2>7, <2>8, <2>9, <2>10 DEF Run
<1>9. ASSUME NEW f \in Fibers, Wake(f) PROVE CbForm'
  <2>1. /\ UNCHANGED <<state, finished, ft, cbFiber, viaCb, pc>> /\ Push(f, AnyThread)
        /\ wakers[f] > 0 /\ \A g \in Fibers : g # f => wakers'[g] = wakers[g]
    BY <1>9 DEF Wake, local, TypeOK
  <2>2. \A g \in Fibers : Reached(g)' => Reached(g)
    BY <1>3, <2>1 DEF Reached
  <2>3. Cb5'
    BY <1>4, <2>1, <2>2 DEF Exposed
  <2> QED BY <1>0, <1>1, <2>1, <2>3
<1>10. CASE UNCHANGED vars
  BY <1>6, <1>10 DEF vars, local, fibers, Exposed
<1> QED BY <1>7, <1>8, <1>9, <1>10, Calm


-----------------------------------------------------------------------------
(* Once a fiber was scheduled twice it stays said.                          *)
LEMMA DoubledStays == [Next]_vars => (doubled => doubled')
<1> SUFFICES ASSUME [Next]_vars, doubled PROVE doubled'
  OBVIOUS
<1>1. CASE Owner
  BY <1>1 DEF Owner, Start, Submit, SubmitAgain, Stop, StopCall, StopReturn, Join, owner
<1>2. CASE \E t \in Threads : Run(t)
  BY <1>2 DEF Run, Take, TakeNothing, SwapIn, SkipDead, RunCallback, Spawn, Arm, YieldToHold,
          YieldToReady, Finish, Throw, End, Leave, SwapOut, Back, Requeue, NotReady, Ended,
          TestHold, WriteHold, EnterIdle, Idle, Exit, owner
<1>3. CASE \E f \in Fibers : Wake(f)
  BY <1>3 DEF Wake, owner
<1>4. CASE UNCHANGED vars
  BY <1>4 DEF vars, owner
<1> QED BY <1>1, <1>2, <1>3, <1>4 DEF Next, Terminated

(* A fiber in a thread's hands is scheduled by nobody unless it parks, so   *)
(* swapping it in, ending it or queueing it again disturbs no waker.        *)
LEMMA PlaceStep ==
    ASSUME Own, [Next]_vars, ~seized'
    PROVE  PlaceForm'
<1> USE DEF Own, Base
<1> DEFINE X1 == \A i, j \in DOMAIN queue :
                    queue[i].fiber \in Fibers /\ queue[j].fiber = queue[i].fiber => i = j
           X2(f) == Reached(f) =>
                       f \notin finished /\ \A t \in Threads : ft[t] = f => Exposed(t)
           X3(f) == wakers[f] > 0 =>
                       wakers[f] = 1 /\ state[f] \in {"EXEC", "HOLD"} /\ ~InQueue(f)
           X4 == \A t \in Threads : pc[t] = "dispatch" /\ ft[t] \in Fibers => ft[t] \notin finished
<1>0. ASSUME X1', \A f \in Fibers : X2(f)' /\ X3(f)', X4' PROVE Exclusive'
  BY <1>0 DEF Exclusive
<1>1. ASSUME ~doubled PROVE X1 /\ X4 /\ \A f \in Fibers : X2(f) /\ X3(f)
  BY <1>1 DEF PlaceForm, Exclusive
(* What a step leaves of one fiber.                                         *)
<1>2. ASSUME NEW g \in Fibers, X2(g), Reached(g)' => Reached(g),
             g \in finished' => g \in finished,
             \A u \in Threads : ft'[u] = g => ft[u] = g /\ (Exposed(u) => Exposed(u)')
      PROVE  X2(g)'
  BY <1>2
<1>3. ASSUME NEW g \in Fibers, X3(g), wakers'[g] = wakers[g],
             state[g] \in {"EXEC", "HOLD"} => state'[g] \in {"EXEC", "HOLD"},
             InQueue(g)' => InQueue(g)
      PROVE  X3(g)'
  BY <1>3
<1>4. ASSUME NEW g \in Fibers, ~Reached(g), queue' = queue, wakers' = wakers
      PROVE  X2(g)' /\ X3(g)'
  BY <1>4 DEF Reached, InQueue
<1>5. ASSUME queue' = queue PROVE \A g \in Fibers : InQueue(g)' <=> InQueue(g)
  BY <1>5 DEF InQueue
(* The entries stay apart when a fiber that is not in the queue is pushed.  *)
<1>6. ASSUME NEW f \in Fibers \cup {NoFiber}, NEW th \in Threads \cup {AnyThread}, Push(f, th),
             X1, f \in Fibers => ~InQueue(f)
      PROVE  X1'
  <2> SUFFICES ASSUME NEW i \in DOMAIN queue', NEW j \in DOMAIN queue',
                      queue'[i].fiber \in Fibers, queue'[j].fiber = queue'[i].fiber
               PROVE  i = j
    OBVIOUS
  <2>1. ASSUME NEW m \in DOMAIN queue' PROVE
          \/ m \in DOMAIN queue /\ queue'[m] = queue[m]
          \/ m = Len(queue) + 1 /\ queue'[m].fiber = f
    BY <1>6, Pushed
  <2>2. CASE i \in DOMAIN queue /\ queue'[i] = queue[i] /\ j \in DOMAIN queue /\ queue'[j] = queue[j]
    BY <1>6, <2>2
  <2>3. CASE queue'[i].fiber = f
    <3>1. \A m \in DOMAIN queue : queue[m].fiber # f
      BY <1>6, <2>3 DEF InQueue
    <3> QED BY <2>1, <2>3, <3>1
  <2>4. CASE queue'[j].fiber = f
    BY <2>3, <2>4
  <2> QED BY <2>1, <2>2, <2>3, <2>4
(* A step after which the owner has scheduled no fiber twice.               *)
<1> DEFINE Keeps(t) == \A u \in Threads : u # t => pc'[u] = pc[u] /\ ft'[u] = ft[u]
<1>7. ASSUME ~doubled, Owner, ~SubmitAgain PROVE Exclusive'
  <2>1. CASE Start \/ Stop \/ StopCall \/ StopReturn \/ Join
    <3>1. /\ UNCHANGED <<queue, wakers, finished, ft, state>>
          /\ \A t \in Threads : Exposed(t) => Exposed(t)'
      BY <2>1, ThreadFacts DEF Start, Stop, StopCall, StopReturn, Join, Goto, local, fibers,
                      ThreadForm, TypeOK, Exposed, Parking
    <3>2. \A t \in Threads : pc'[t] = "dispatch" => pc[t] = "dispatch"
      BY <2>1, ThreadFacts DEF Start, Stop, StopCall, StopReturn, Join, Goto, local, TypeOK
    <3>3. \A g \in Fibers : X2(g)' /\ X3(g)'
      BY <1>1, <1>2, <1>3, <1>5, <1>7, <3>1 DEF Reached
    <3> QED BY <1>0, <1>1, <1>7, <3>1, <3>2, <3>3
  <2>2. CASE Submit
    <3>1. PICK th \in Threads \cup {AnyThread} :
            \/ \E f \in Fibers : state[f] = "NONE" /\ SetState(f, "INIT") /\ Push(f, th)
            \/ Push(NoFiber, th) /\ UNCHANGED state
      BY <2>2 DEF Submit, Runners, Threads, TypeOK
    <3>2. UNCHANGED <<wakers, finished, ft, pc>>
      BY <2>2 DEF Submit, local
    <3>3. ASSUME NEW f \in Fibers, state[f] = "NONE", SetState(f, "INIT"), Push(f, th)
          PROVE  Exclusive'
      <4>1. /\ \A t \in Threads : ft[t] # f
            /\ ~InQueue(f) /\ wakers[f] = 0 /\ f \notin finished
        BY <3>3 DEF NoneForm, InQueue
      <4>2. \A g \in Fibers : g # f => state'[g] = state[g] /\ (InQueue(g)' <=> InQueue(g))
        BY <3>3, PushedIn DEF SetState, TypeOK
      <4>3. \A t \in Threads : Exposed(t) => Exposed(t)'
        <5>1. \A t \in Threads : pc[t] \in Parking => ft[t] \in Fibers
          BY DEF ThreadForm, Parking, Bound
        <5> QED BY <3>2, <4>1, <4>2, <5>1 DEF Exposed
      <4>4. X1'
        BY <1>1, <1>6, <1>7, <3>3, <4>1
      <4>5. ASSUME NEW g \in Fibers PROVE X2(g)' /\ X3(g)'
        <5>1. CASE g = f
          BY <3>2, <4>1, <5>1
        <5>2. CASE g # f
          BY <1>1, <1>2, <1>3, <1>7, <3>2, <4>2, <4>3, <5>2 DEF Reached
        <5> QED BY <5>1, <5>2
      <4> QED BY <1>0, <1>1, <1>7, <3>2, <4>4, <4>5
    <3>4. CASE Push(NoFiber, th) /\ UNCHANGED state
      <4>1. \A g \in Fibers : InQueue(g)' <=> InQueue(g)
        BY <3>4, PushedIn, ThreadFacts
      <4>2. X1'
        BY <1>1, <1>6, <1>7, <3>4, ThreadFacts
      <4>3. \A g \in Fibers : X2(g)' /\ X3(g)'
        BY <1>1, <1>2, <1>3, <1>7, <3>2, <3>4, <4>1 DEF Reached, Exposed
      <4> QED BY <1>0, <1>1, <1>7, <3>2, <4>2, <4>3
    <3> QED BY <3>1, <3>3, <3>4
  <2> QED BY <1>7, <2>1, <2>2 DEF Owner
<1>8. ASSUME ~doubled, NEW t \in Threads, Run(t), ~Seizes(t) PROVE Exclusive'
  <2> USE DEF Goto
  <2>0. X1 /\ X4 /\ \A f \in Fibers : X2(f) /\ X3(f)
    BY <1>1, <1>8
  <2>a. ~Exposed(t) => \A f \in Fibers : ft[t] = f => ~Reached(f)
    BY <2>0
  (* t changes nothing but the fiber f, which nobody reaches.               *)
  <2>b. ASSUME NEW f \in Fibers, ~Reached(f), queue' = queue, wakers' = wakers, Keeps(t),
               \A g \in Fibers : g # f => state'[g] = state[g],
               \A u \in Threads : u # t => ft[u] # f,
               finished' \subseteq finished \cup {f}, ft'[t] \in {f, NoFiber},
               pc'[t] # "dispatch"
        PROVE  Exclusive'
    <3>1. \A u \in Threads : u # t /\ Exposed(u) => Exposed(u)'
      <4>1. \A u \in Threads : pc[u] \in Parking => ft[u] \in Fibers
        BY DEF ThreadForm, Parking, Bound
      <4> QED BY <2>b, <4>1 DEF Exposed
    <3>2. ASSUME NEW g \in Fibers PROVE X2(g)' /\ X3(g)'
      <4>1. CASE g = f
        BY <1>4, <2>b, <4>1
      <4>2. CASE g # f
        <5>1. \A u \in Threads : ft'[u] = g => u # t /\ ft[u] = g
          BY <2>b, <4>2, ThreadFacts
        <5>2. Reached(g)' => Reached(g)
          BY <1>5, <2>b DEF Reached
        <5>3. X2(g)'
          BY <1>2, <2>0, <2>b, <3>1, <4>2, <5>1, <5>2
        <5>4. X3(g)'
          BY <1>3, <1>5, <2>0, <2>b, <4>2
        <5> QED BY <5>3, <5>4
      <4> QED BY <4>1, <4>2
    <3>3. X4'
      BY <2>0, <2>b
    <3>4. X1'
      BY <2>0, <2>b
    <3> QED BY <1>0, <3>2, <3>3, <3>4
  (* t changes no fiber at all and gives its own away at most.              *)
  <2>c. ASSUME UNCHANGED <<queue, wakers, state, finished>>, Keeps(t),
               ft'[t] \in {ft[t], NoFiber}, pc'[t] # "dispatch",
               ft'[t] \in Fibers /\ Exposed(t) => Exposed(t)'
        PROVE  Exclusive'
    <3>1. \A u \in Threads : u # t /\ Exposed(u) => Exposed(u)'
      BY <2>c DEF Exposed
    <3>2. ASSUME NEW g \in Fibers PROVE X2(g)' /\ X3(g)'
      <4>1. \A u \in Threads : ft'[u] = g => ft[u] = g /\ (Exposed(u) => Exposed(u)')
        BY <2>c, <3>1, ThreadFacts
      <4>2. Reached(g)' => Reached(g)
        BY <1>5, <2>c DEF Reached
      <4>3. X2(g)'
        BY <1>2, <2>0, <2>c, <4>1, <4>2
      <4>4. X3(g)'
        BY <1>3, <1>5, <2>0, <2>c
      <4> QED BY <4>3, <4>4
    <3>3. X1' /\ X4'
      BY <2>0, <2>c
    <3> QED BY <1>0, <3>2, <3>3
  <2>1. CASE TakeNothing(t) \/ SwapOut(t) \/ Back(t) \/ NotReady(t) \/ TestHold(t) \/ EnterIdle(t)
             \/ Idle(t) \/ Exit(t) \/ SkipDead(t) \/ WriteHold(t)
    <3>1. /\ UNCHANGED <<queue, wakers, state, finished>> /\ Keeps(t) /\ pc'[t] # "dispatch"
          /\ ft'[t] \in {ft[t], NoFiber}
      BY <2>1 DEF TakeNothing, SwapOut, Back, NotReady, TestHold, EnterIdle, Idle, Exit,
                  SkipDead, WriteHold, Drop, SetState, HandForm, ThreadForm, Bound, fibers, TypeOK
    <3>2. ft'[t] \in Fibers /\ Exposed(t) => Exposed(t)'
      BY <2>1, <3>1, ThreadFacts DEF TakeNothing, SwapOut, Back, NotReady, TestHold, EnterIdle,
                  Idle, Exit, SkipDead, WriteHold, Drop, Exposed, Parking, TypeOK
    <3> QED BY <2>c, <3>1, <3>2
  <2>2. CASE Take(t)
    <3>1. PICK k \in DOMAIN queue :
             /\ queue[k].fiber \in Fibers \cup {NoFiber}
             /\ queue' = Without(queue, k) /\ ft' = [ft EXCEPT ![t] = queue[k].fiber]
             /\ \A j \in DOMAIN queue' :
                   \E m \in DOMAIN queue : m # k /\ queue'[j] = queue[m]
             /\ queue[k].fiber \in Fibers => \A u \in Threads : ft[u] # queue[k].fiber
      BY <1>8, <2>2, TakenFree
    <3>f. PICK f \in Fibers \cup {NoFiber} : f = queue[k].fiber
      BY <3>1
    <3>2. /\ UNCHANGED <<state, finished, wakers>> /\ Keeps(t) /\ ft'[t] = f
      BY <2>2, <3>1, <3>f DEF Take, fibers, TypeOK
    <3>3. \A g \in Fibers : InQueue(g)' => InQueue(g)
      BY <3>1 DEF InQueue
    <3>4. f \in Fibers => ~Reached(f)' /\ f \notin finished
      <4> SUFFICES ASSUME f \in Fibers PROVE ~Reached(f)' /\ f \notin finished
        OBVIOUS
      <4>1. InQueue(f)
        BY <3>f DEF InQueue
      <4>2. wakers[f] = 0 /\ f \notin finished
        BY <2>0, <4>1 DEF Reached, TypeOK
      <4>3. \A j \in DOMAIN queue' : queue'[j].fiber # f
        BY <2>0, <3>1, <3>f
      <4> QED BY <3>2, <4>2, <4>3 DEF Reached, InQueue
    <3>5. X1'
      <4> SUFFICES ASSUME NEW i \in DOMAIN queue', NEW j \in DOMAIN queue',
                          queue'[i].fiber \in Fibers, queue'[j].fiber = queue'[i].fiber
                   PROVE  i = j
        OBVIOUS
      <4> QED BY <2>0, <3>1, TakenOnce
    <3>6. \A u \in Threads : u # t /\ Exposed(u) => Exposed(u)'
      BY <3>2 DEF Exposed
    <3>7. ASSUME NEW g \in Fibers PROVE X2(g)' /\ X3(g)'
      <4>1. CASE g = f
        BY <3>2, <3>4, <4>1 DEF Reached
      <4>2. CASE g # f
        <5>1. X2(g)'
          BY <1>2, <2>0, <3>2, <3>3, <3>6, <4>2 DEF Reached
        <5>2. X3(g)'
          BY <1>3, <2>0, <3>2, <3>3
        <5> QED BY <5>1, <5>2
      <4> QED BY <4>1, <4>2
    <3>8. X4'
      BY <2>0, <3>2, <3>4
    <3> QED BY <1>0, <3>5, <3>7, <3>8
  <2>3. CASE SwapIn(t) \/ YieldToReady(t) \/ Finish(t) \/ Throw(t) \/ Ended(t)
    <3>1. ft[t] \in Fibers /\ ~Exposed(t)
      BY <2>3 DEF SwapIn, YieldToReady, Finish, Throw, End, Ended, ThreadForm, Bound, TypeOK,
                  Exposed, Parking
    <3>2. /\ queue' = queue /\ wakers' = wakers /\ Keeps(t) /\ pc'[t] # "dispatch"
          /\ \A g \in Fibers : g # ft[t] => state'[g] = state[g]
          /\ finished' \subseteq finished \cup {ft[t]} /\ ft'[t] \in {ft[t], NoFiber}
      BY <2>3, <3>1 DEF SwapIn, YieldToReady, Finish, Throw, End, Ended, Leave, SetState, Drop,
                        TypeOK
    <3>3. \A u \in Threads : u # t => ft[u] # ft[t]
      BY <3>1 DEF SoleForm
    <3> QED BY <2>a, <2>b, <3>1, <3>2, <3>3
  <2>4. CASE RunCallback(t)
    <3>1. PICK f \in Fibers : /\ \/ cbFiber[t] = f
                                 \/ cbFiber[t] = NoFiber /\ state[f] = "NONE"
                              /\ SetState(f, "EXEC") /\ ft' = [ft EXCEPT ![t] = f]
                              /\ finished' = finished \ {f}
      BY <2>4 DEF RunCallback
    <3>2. /\ queue' = queue /\ pc'[t] = "exec" /\ ft'[t] = f /\ wakers' = wakers
          /\ pc[t] = "dispatch" /\ Keeps(t)
          /\ \A g \in Fibers : g # f => state'[g] = state[g]
      BY <2>4, <3>1 DEF RunCallback, SetState, TypeOK
    <3>3. \A u \in Threads : u # t => ft[u] # f
      BY <3>1 DEF CbForm, NoneForm
    <3>4. ~Reached(f)
      <4>1. cbFiber[t] = f => ~Reached(f)
        BY <3>2 DEF CbForm, Exposed, Parking
      <4>2. state[f] = "NONE" => ~Reached(f)
        BY DEF NoneForm, Reached, InQueue
      <4> QED BY <3>1, <4>1, <4>2
    <3> QED BY <2>b, <3>1, <3>2, <3>3, <3>4
  <2>5. CASE Spawn(t)
    <3>1. PICK th \in Threads \cup {AnyThread} : Push(NoFiber, th)
      BY <2>5 DEF Spawn, Runners, Threads, TypeOK
    <3>2. UNCHANGED <<state, finished, ft, pc, wakers>>
      BY <2>5 DEF Spawn, local, fibers
    <3>3. \A g \in Fibers : InQueue(g)' <=> InQueue(g)
      BY <3>1, PushedIn, ThreadFacts
    <3>4. X1'
      BY <1>6, <2>0, <3>1, ThreadFacts
    <3>5. \A g \in Fibers : X2(g)' /\ X3(g)'
      BY <1>2, <1>3, <2>0, <3>2, <3>3 DEF Reached, Exposed
    <3> QED BY <1>0, <2>0, <3>2, <3>4, <3>5
  <2>6. CASE Arm(t)
    <3>1. /\ UNCHANGED <<queue, ft, finished, state>> /\ ft[t] \in Fibers
          /\ pc[t] = "exec" /\ pc'[t] = "park" /\ Keeps(t) /\ state[ft[t]] = "EXEC"
          /\ \A f \in Fibers : f # ft[t] => wakers'[f] = wakers[f]
          /\ wakers'[ft[t]] = wakers[ft[t]] + 1
      BY <2>6 DEF Arm, ThreadForm, HandForm, Bound, TypeOK
    <3>2. Exposed(t)' /\ ~Exposed(t)
      BY <3>1 DEF Exposed, Parking
    <3>3. /\ \A u \in Threads : u # t /\ Exposed(u) => Exposed(u)'
      BY <3>1 DEF Exposed
    <3>4. ASSUME NEW g \in Fibers PROVE X2(g)' /\ X3(g)'
      <4>1. CASE g = ft[t]
        <5>1. ~Reached(g)
          BY <2>a, <3>2, <4>1
        <5>2. wakers[g] = 0 /\ ~InQueue(g)
          BY <5>1 DEF Reached, TypeOK
        <5>3. g \notin finished
          BY <3>1, <4>1 DEF StateForm
        <5>4. \A u \in Threads : ft'[u] = g => u = t
          BY <3>1, <4>1 DEF SoleForm
        <5>5. wakers'[g] = 1 /\ ~InQueue(g)' /\ state'[g] = "EXEC"
          BY <1>5, <3>1, <4>1, <5>2
        <5> QED BY <3>1, <3>2, <5>3, <5>4, <5>5
      <4>2. CASE g # ft[t]
        <5>1. Reached(g)' => Reached(g)
          BY <1>5, <3>1, <4>2 DEF Reached
        <5>2. X2(g)'
          BY <1>2, <2>0, <3>1, <3>3, <4>2, <5>1
        <5>3. X3(g)'
          BY <1>3, <1>5, <2>0, <3>1, <4>2
        <5> QED BY <5>2, <5>3
      <4> QED BY <4>1, <4>2
    <3>5. X1' /\ X4'
      BY <2>0, <3>1
    <3> QED BY <1>0, <3>4, <3>5
  <2>7. CASE YieldToHold(t)
    <3>1. /\ UNCHANGED <<queue, wakers, finished, ft>> /\ Keeps(t) /\ pc'[t] = "leaving"
          /\ state'[ft[t]] = "HOLD" /\ ft[t] \in Fibers
          /\ \A g \in Fibers : g # ft[t] => state'[g] = state[g]
      BY <2>7 DEF YieldToHold, Leave, SetState, ThreadForm, Bound, TypeOK
    <3>2. \A u \in Threads : Exposed(u) => Exposed(u)'
      <4>1. \A u \in Threads : u # t /\ Exposed(u) => Exposed(u)'
        BY <3>1, OthersExposed
      <4>2. Exposed(t)'
        BY <3>1 DEF Exposed, Parking
      <4> QED BY <4>1, <4>2
    <3>3. \A g \in Fibers : X2(g)' /\ X3(g)'
      BY <1>2, <1>3, <1>5, <2>0, <3>1, <3>2 DEF Reached
    <3> QED BY <1>0, <2>0, <3>1, <3>3
  <2>8. CASE Requeue(t)
    <3>1. /\ ft[t] \in Fibers /\ Push(ft[t], AnyThread) /\ UNCHANGED <<state, wakers, finished>>
          /\ Keeps(t) /\ pc'[t] = "scan" /\ ft'[t] = NoFiber
          /\ pc[t] = "post" /\ state[ft[t]] = "READY"
      BY <2>8 DEF Requeue, Drop, fibers, ThreadForm, Bound, TypeOK
    <3>2. ~Exposed(t)
      BY <3>1 DEF Exposed
    <3>3. ~InQueue(ft[t]) /\ wakers[ft[t]] = 0 /\ ft[t] \notin finished
      BY <2>a, <3>1, <3>2 DEF Reached, StateForm, TypeOK
    <3>4. \A g \in Fibers : InQueue(g)' <=> InQueue(g) \/ g = ft[t]
      BY <3>1, PushedIn
    <3>5. X1'
      BY <1>6, <2>0, <3>1, <3>3
    <3>6. \A u \in Threads : u # t /\ Exposed(u) => Exposed(u)'
      BY <3>1 DEF Exposed
    <3>7. ASSUME NEW g \in Fibers PROVE X2(g)' /\ X3(g)'
      <4>1. CASE g = ft[t]
        <5>1. \A u \in Threads : ft'[u] # g
          BY <3>1, <4>1, ThreadFacts DEF SoleForm
        <5> QED BY <3>1, <3>3, <4>1, <5>1
      <4>2. CASE g # ft[t]
        <5>1. X2(g)'
          BY <1>2, <2>0, <3>1, <3>4, <3>6, <4>2, ThreadFacts DEF Reached
        <5>2. X3(g)'
          BY <1>3, <2>0, <3>1, <3>4, <4>2
        <5> QED BY <5>1, <5>2
      <4> QED BY <4>1, <4>2
    <3>8. X4'
      BY <2>0, <3>1
    <3> QED BY <1>0, <3>5, <3>7, <3>8
  <2> QED BY <1>8, <2>1, <2>2, <2>3, <2>4, <2>5, <2>6, <2>7, <2>8 DEF Run
<1>9. ASSUME ~doubled, NEW f \in Fibers, Wake(f) PROVE Exclusive'
  <2>1. /\ UNCHANGED <<state, finished, ft, pc>> /\ Push(f, AnyThread)
        /\ wakers[f] > 0 /\ wakers'[f] = wakers[f] - 1
        /\ \A g \in Fibers : g # f => wakers'[g] = wakers[g]
    BY <1>9 DEF Wake, local, TypeOK
  <2>2. wakers'[f] = 0 /\ ~InQueue(f)
    BY <1>1, <1>9, <2>1
  <2>3. \A g \in Fibers : InQueue(g)' <=> InQueue(g) \/ g = f
    BY <2>1, PushedIn
  <2>4. \A g \in Fibers : Reached(g)' => Reached(g)
    BY <2>1, <2>3 DEF Reached
  <2>5. X1'
    BY <1>1, <1>6, <1>9, <2>1, <2>2
  <2>6. ASSUME NEW g \in Fibers PROVE X2(g)' /\ X3(g)'
    <3>1. X2(g)'
      BY <1>1, <1>2, <1>9, <2>1, <2>4 DEF Exposed
    <3>2. X3(g)'
      BY <1>1, <1>3, <1>9, <2>1, <2>2, <2>3
    <3> QED BY <3>1, <3>2
  <2> QED BY <1>0, <1>1, <1>9, <2>1, <2>5, <2>6
<1>10. ASSUME UNCHANGED vars PROVE PlaceForm'
  BY <1>10 DEF vars, owner, local, fibers, PlaceForm, Exclusive, Reached, InQueue, Exposed, Runners
<1>11. ASSUME Owner \/ (\E t \in Threads : Run(t)) \/ (\E f \in Fibers : Wake(f)), pool' = pool,
              \A t \in Threads : ~Seizes(t)
       PROVE  PlaceForm'
  <2>1. doubled' => doubled \/ Cardinality(Runners) = 1
    <3>1. CASE Owner
      BY <3>1 DEF Owner, Start, Submit, SubmitAgain, Stop, StopCall, StopReturn, Join, owner
    <3>2. CASE \E t \in Threads : Run(t)
      BY <3>2 DEF Run, Take, TakeNothing, SwapIn, SkipDead, RunCallback, Spawn, Arm, YieldToHold,
              YieldToReady, Finish, Throw, End, Leave, SwapOut, Back, Requeue, NotReady, Ended,
              TestHold, WriteHold, EnterIdle, Idle, Exit, owner
    <3>3. CASE \E f \in Fibers : Wake(f)
      BY <3>3 DEF Wake, owner
    <3> QED BY <1>11, <3>1, <3>2, <3>3
  <2>2. doubled' => Cardinality(Runners') = 1
    BY <1>11, <2>1 DEF PlaceForm, Runners
  <2>3. doubled => doubled'
    BY DoubledStays
  <2>4. SubmitAgain => doubled'
    BY DEF SubmitAgain
  <2>5. ~doubled' => Exclusive'
    BY <1>7, <1>8, <1>9, <1>11, <2>3, <2>4
  <2> QED BY <2>2, <2>5 DEF PlaceForm
<1> QED BY <1>10, <1>11, Calm

-----------------------------------------------------------------------------
LEMMA OwnStep ==
    ASSUME Own, [Next]_vars, ~seized'
    PROVE  Own'
<1>1. Base'
  BY TypeStep, ThreadStep, ActiveStep DEF Own, Base
<1> QED BY <1>1, HandStep, SoleStep, StateStep, NoneStep, CbStep, PlaceStep DEF Own

(* Once a fiber was seized it stays said.                                   *)
LEMMA SeizedStays == TypeOK /\ [Next]_vars => (seized => seized')
BY DEF Next, Proceeds, Terminated, vars

LEMMA OwnInvariance == Spec => [](seized \/ Own)
<1>1. TypeOK /\ (seized \/ Own) /\ [Next]_vars => (seized \/ Own)'
  BY OwnStep, SeizedStays
<1> QED BY <1>1, OwnInit, TypeCorrect, PTL DEF Spec

(* Until a fiber is seized, for any number of threads, fibers and tasks and *)
(* whenever the wakers fire: no two threads have one fiber, and one that a  *)
(* thread has can be taken from the queue only while it parks.              *)
THEOREM FiberHasOneOwner == Spec => []OneOwner
<1>1. seized \/ Own => OneOwner
  <2> SUFFICES ASSUME Own, NEW f \in Fibers
               PROVE  /\ \A t, u \in Threads : ft[t] = f /\ ft[u] = f => t = u
                      /\ ~doubled =>
                          /\ \A i, j \in DOMAIN queue :
                                queue[i].fiber = f /\ queue[j].fiber = f => i = j
                          /\ InQueue(f) =>
                              /\ wakers[f] = 0
                              /\ \A t \in Threads : f \in {ft[t], cbFiber[t]} =>
                                    ft[t] = f /\ Exposed(t)
    BY DEF OneOwner
  <2>1. \A t, u \in Threads : ft[t] = f /\ ft[u] = f => t = u
    BY DEF Own, SoleForm
  <2>2. ASSUME ~doubled PROVE
          /\ \A i, j \in DOMAIN queue : queue[i].fiber = f /\ queue[j].fiber = f => i = j
          /\ \A t \in Threads : InQueue(f) /\ ft[t] = f => Exposed(t)
          /\ wakers[f] > 0 => ~InQueue(f)
    BY <2>2 DEF Own, PlaceForm, Exclusive, Reached
  <2>3. \A t \in Threads : InQueue(f) /\ cbFiber[t] = f => ft[t] = f
    BY DEF Own, CbForm, Reached
  <2>4. wakers[f] \in Nat
    BY DEF Own, Base, TypeOK
  <2> QED BY <2>1, <2>2, <2>3, <2>4
<1> QED BY <1>1, OwnInvariance, PTL

(* The assertions of fiber.cpp hold until a fiber is seized, whatever tasks *)
(* throw and however they are scheduled: swapIn never meets a fiber that is *)
(* being executed, reset only one that has ended, and ~Fiber never a state  *)
(* that says otherwise.                                                     *)
THEOREM FiberAssertsHold == Spec => []FiberAsserts
<1>1. Own => AssertSwapIn
  <2> SUFFICES ASSUME Own, NEW t \in Threads, pc[t] = "dispatch", ft[t] # NoFiber,
                      state[ft[t]] = "EXEC"
               PROVE  FALSE
    BY DEF AssertSwapIn
  <2>1. ft[t] \in Fibers
    BY DEF Own, Base, TypeOK
  <2>2. PICK u \in Threads : pc[u] \in {"exec", "park"} /\ ft[u] = ft[t]
    BY <2>1 DEF Own, StateForm
  <2>3. u = t
    BY <2>1, <2>2 DEF Own, SoleForm
  <2> QED BY <2>2, <2>3
<1>2. Own => AssertDestructor
  BY DEF Own, Base, TypeOK, StateForm, AssertDestructor
<1>3. Own => AssertReset
  <2> SUFFICES ASSUME Own, NEW t \in Threads, ft[t] = NoFiber, cbFiber[t] # NoFiber
               PROVE  CanReset(cbFiber[t])
    BY DEF AssertReset
  <2>1. cbFiber[t] \in Fibers /\ ft[t] # cbFiber[t]
    BY DEF Own, Base, TypeOK
  <2> QED BY <2>1 DEF Own, CbForm, CanReset
<1>4. seized \/ Own => FiberAsserts
  BY <1>1, <1>2, <1>3 DEF FiberAsserts
<1> QED BY <1>4, OwnInvariance, PTL

-----------------------------------------------------------------------------
(* What stop() leaves behind.  A fiber that has not ended is in the queue,  *)
(* in a thread's hands, or held by a waker; one that parks is not in the    *)
(* hands alone.                                                             *)
Live == {f \in Fibers : state[f] # "NONE" /\ f \notin finished}
LiveForm ==
    /\ \A f \in Live : Reached(f) \/ \E t \in Threads : ft[t] = f
    /\ \A t \in Threads, f \in Fibers : Exposed(t) /\ ft[t] = f => Reached(f)

LEMMA LiveStep ==
    ASSUME Own, LiveForm, [Next]_vars, ~seized'
    PROVE  LiveForm'
<1> USE DEF Own, Base
<1> DEFINE Found(f) == Reached(f) \/ \E t \in Threads : ft[t] = f
(* It is enough to look at the fibers that come alive or leave a place, and *)
(* at the threads that begin to park.                                       *)
<1>0. ASSUME \A f \in Live' : (f \in Live /\ (Found(f) => Found(f)')) \/ Found(f)',
             \A t \in Threads, f \in Fibers : Exposed(t)' /\ ft'[t] = f =>
                \/ Exposed(t) /\ ft[t] = f /\ (Reached(f) => Reached(f)')
                \/ Reached(f)'
      PROVE  LiveForm'
  BY <1>0 DEF LiveForm
<1>1. ASSUME ft' = ft, \A f \in Fibers : Reached(f) => Reached(f)',
             \A f \in Live' : f \in Live \/ Reached(f)',
             \A t \in Threads : Exposed(t)' => Exposed(t)
      PROVE  LiveForm'
  BY <1>0, <1>1 DEF Live
<1>2. ASSUME NEW f \in Fibers \cup {NoFiber}, NEW th \in Threads \cup {AnyThread}, Push(f, th),
             wakers' = wakers
      PROVE  \A g \in Fibers : Reached(g) \/ g = f => Reached(g)'
  BY <1>2, PushedIn DEF Reached
<1>3. CASE Owner
  <2>1. CASE Submit
    <3>1. PICK th \in Threads \cup {AnyThread} :
            \/ \E f \in Fibers : state[f] = "NONE" /\ SetState(f, "INIT") /\ Push(f, th)
            \/ Push(NoFiber, th) /\ UNCHANGED state
      BY <2>1 DEF Submit, Runners, Threads, TypeOK
    <3>2. UNCHANGED <<wakers, ft, pc, finished>>
      BY <2>1 DEF Submit, local
    <3>3. ASSUME NEW f \in Fibers, state[f] = "NONE", SetState(f, "INIT"), Push(f, th)
          PROVE  LiveForm'
      <4>1. \A g \in Fibers : Reached(g) \/ g = f => Reached(g)'
        BY <1>2, <3>2, <3>3
      <4>2. \A g \in Live' : g \in Live \/ g = f
        BY <3>2, <3>3 DEF Live, SetState, TypeOK
      <4>3. \A t \in Threads : Exposed(t)' => Exposed(t)
        <5>1. \A t \in Threads : ft[t] # f /\ (pc[t] \in Parking => ft[t] \in Fibers)
          BY <3>3 DEF NoneForm, ThreadForm, Parking, Bound
        <5>2. \A g \in Fibers : g # f => state'[g] = state[g]
          BY <3>3 DEF SetState, TypeOK
        <5> QED BY <3>2, <5>1, <5>2 DEF Exposed
      <4>4. \A g \in Live' : g \in Fibers
        BY DEF Live
      <4> QED BY <1>1, <3>2, <4>1, <4>2, <4>3, <4>4
    <3>4. CASE Push(NoFiber, th) /\ UNCHANGED state
      <4>1. \A g \in Fibers : Reached(g) => Reached(g)'
        BY <1>2, <3>2, <3>4
      <4> QED BY <1>1, <3>2, <3>4, <4>1 DEF Live, Exposed
    <3> QED BY <3>1, <3>3, <3>4
  <2>2. CASE SubmitAgain
    <3>1. PICK f \in Fibers : Push(f, AnyThread)
      BY <2>2 DEF SubmitAgain
    <3>2. UNCHANGED <<wakers, ft, pc, finished, state>>
      BY <2>2 DEF SubmitAgain, local, fibers
    <3>3. \A g \in Fibers : Reached(g) => Reached(g)'
      BY <1>2, <3>1, <3>2
    <3> QED BY <1>1, <3>2, <3>3 DEF Live, Exposed
  <2>3. CASE Start \/ Stop \/ StopCall \/ StopReturn \/ Join
    <3>1. UNCHANGED <<queue, wakers, ft, finished, state>>
      BY <2>3 DEF Start, Stop, StopCall, StopReturn, Join, local, fibers
    <3>2. \A t \in Threads : Exposed(t)' => Exposed(t)
      BY <2>3, ThreadFacts DEF Start, Stop, StopCall, StopReturn, Join, Goto, local, fibers,
                  TypeOK, Exposed, Parking
    <3> QED BY <1>1, <3>1, <3>2 DEF Live, Reached, InQueue
  <2> QED BY <1>3, <2>1, <2>2, <2>3 DEF Owner
<1>4. ASSUME NEW t \in Threads, Run(t), ~Seizes(t) PROVE LiveForm'
  <2> USE DEF Goto
  <2>0. queue' = queue /\ wakers' = wakers => \A g \in Fibers : Reached(g)' <=> Reached(g)
    BY DEF Reached, InQueue
  <2>1. CASE TakeNothing(t) \/ SwapOut(t) \/ Back(t) \/ NotReady(t) \/ TestHold(t) \/ EnterIdle(t)
             \/ Idle(t) \/ Exit(t)
    <3>1. UNCHANGED <<queue, wakers, ft, finished, state>>
      BY <2>1 DEF TakeNothing, SwapOut, Back, NotReady, TestHold, EnterIdle, Idle, Exit, fibers
    <3>2. \A u \in Threads : Exposed(u)' => Exposed(u)
      BY <2>1 DEF TakeNothing, SwapOut, Back, NotReady, TestHold, EnterIdle, Idle, Exit, fibers,
                  TypeOK, Exposed, Parking
    <3> QED BY <1>1, <2>0, <3>1, <3>2 DEF Live
  <2>2. CASE Take(t)
    <3>1. PICK k \in DOMAIN queue :
             /\ queue[k].fiber \in Fibers \cup {NoFiber} /\ ft' = [ft EXCEPT ![t] = queue[k].fiber]
             /\ \A m \in DOMAIN queue : m # k => \E j \in DOMAIN queue' : queue'[j] = queue[m]
             /\ queue[k].fiber \in Fibers => \A u \in Threads : ft[u] # queue[k].fiber
      BY <1>4, <2>2, TakenFree
    <3>f. PICK f \in Fibers \cup {NoFiber} : f = queue[k].fiber
      BY <3>1
    <3>2. /\ UNCHANGED <<wakers, state, finished>> /\ ft[t] = NoFiber /\ ft'[t] = f
          /\ pc'[t] = "dispatch"
          /\ \A u \in Threads : u # t => ft'[u] = ft[u] /\ pc'[u] = pc[u]
      BY <2>2, <3>1, <3>f DEF Take, fibers, TypeOK, ThreadForm, Bound
    <3>3. \A g \in Fibers : InQueue(g) => InQueue(g)' \/ g = f
      BY <3>1, <3>f DEF InQueue
    <3>4. \A g \in Fibers : Found(g) => Found(g)'
      BY <3>2, <3>3, ThreadFacts DEF Reached
    <3>5. \A u \in Threads, g \in Fibers : Exposed(u)' /\ ft'[u] = g =>
             Exposed(u) /\ ft[u] = g /\ g # f
      BY <3>1, <3>f, <3>2 DEF Exposed, Parking
    <3>6. \A u \in Threads, g \in Fibers : Exposed(u)' /\ ft'[u] = g =>
             Exposed(u) /\ ft[u] = g /\ (Reached(g) => Reached(g)')
      BY <3>2, <3>3, <3>5 DEF Reached
    <3> QED BY <1>0, <3>2, <3>4, <3>6 DEF Live
  (* t gives its fiber away when it has ended, or parks and stays reached.  *)
  <2>3. CASE SkipDead(t) \/ Ended(t)
    <3>1. /\ UNCHANGED <<queue, wakers, finished>> /\ ft[t] \in Fibers /\ ft[t] \in finished
          /\ \A u \in Threads : u # t => ft'[u] = ft[u] /\ pc'[u] = pc[u]
          /\ \A f \in Fibers : f # ft[t] => state'[f] = state[f]
          /\ pc'[t] \in {"none", "scan"}
      BY <2>3 DEF SkipDead, Ended, Drop, SetState, fibers, StateForm, ThreadForm, Bound, TypeOK
    <3>2. \A u \in Threads, g \in Fibers : Exposed(u)' /\ ft'[u] = g => Exposed(u) /\ ft[u] = g
      <4>1. \A u \in Threads : u # t => (Exposed(u)' <=> Exposed(u))
        BY <3>1, OthersExposed
      <4>2. ~Exposed(t)'
        BY <3>1 DEF Exposed, Parking
      <4> QED BY <3>1, <4>1, <4>2
    <3> QED BY <1>0, <2>0, <3>1, <3>2 DEF Live
  <2>4. CASE SwapIn(t) \/ Arm(t)
    <3>1. /\ UNCHANGED <<queue, ft, finished>> /\ ft[t] \in Fibers
          /\ \A u \in Threads : u # t => pc'[u] = pc[u]
          /\ \A f \in Fibers : f # ft[t] => state'[f] = state[f] /\ wakers'[f] = wakers[f]
          /\ \/ pc'[t] = "exec" /\ wakers' = wakers
             \/ pc'[t] = "park" /\ wakers'[ft[t]] > 0
      BY <2>4 DEF SwapIn, Arm, SetState, local, ThreadForm, Bound, TypeOK
    <3>2. \A u \in Threads : u # t => (Exposed(u)' <=> Exposed(u))
      BY <3>1, OthersExposed
    <3>3. pc'[t] = "exec" => ~Exposed(t)'
      BY DEF Exposed, Parking
    <3>4. \A f \in Fibers : f # ft[t] => (Reached(f) => Reached(f)')
      BY <3>1 DEF Reached, InQueue
    <3>5. pc'[t] = "park" => \A f \in Fibers : f = ft[t] => Reached(f)'
      BY <3>1 DEF Reached
    <3>6. \A f \in Live' : (f \in Live /\ (Found(f) => Found(f)')) \/ Found(f)'
      BY <3>1, <3>4 DEF Live
    <3>7. ASSUME NEW u \in Threads, NEW f \in Fibers, Exposed(u)', ft'[u] = f
          PROVE  (Exposed(u) /\ ft[u] = f /\ (Reached(f) => Reached(f)')) \/ Reached(f)'
      <4>1. CASE u = t
        BY <3>1, <3>3, <3>5, <3>7, <4>1
      <4>2. CASE u # t
        <5>1. f # ft[t] \/ Reached(f)'
          BY <3>1, <3>7, <4>2 DEF SoleForm
        <5> QED BY <3>1, <3>2, <3>4, <3>7, <4>2, <5>1
      <4> QED BY <4>1, <4>2
    <3> QED BY <1>0, <3>6, <3>7
  <2>5. CASE RunCallback(t)
    <3>1. PICK f \in Fibers : /\ cbFiber[t] = f \/ state[f] = "NONE"
                              /\ SetState(f, "EXEC") /\ ft' = [ft EXCEPT ![t] = f]
                              /\ finished' = finished \ {f}
      BY <2>5 DEF RunCallback
    <3>2. /\ UNCHANGED <<queue, wakers>> /\ ft[t] = NoFiber /\ ft'[t] = f /\ pc'[t] = "exec"
          /\ \A u \in Threads : u # t => ft'[u] = ft[u] /\ pc'[u] = pc[u]
          /\ \A g \in Fibers : g # f => state'[g] = state[g]
      BY <2>5, <3>1 DEF RunCallback, SetState, TypeOK
    <3>3. \A u \in Threads : u # t => ft[u] # f
      BY <3>1 DEF CbForm, NoneForm
    <3>4. \A u \in Threads : u # t => (Exposed(u)' <=> Exposed(u))
      BY <3>2, <3>3, OthersExposed
    <3>5. ~Exposed(t)'
      BY <3>2 DEF Exposed, Parking
    <3> QED BY <1>0, <2>0, <3>1, <3>2, <3>4, <3>5, ThreadFacts DEF Live
  <2>6. CASE Spawn(t)
    <3>1. PICK th \in Threads \cup {AnyThread} : Push(NoFiber, th)
      BY <2>6 DEF Spawn, Runners, Threads, TypeOK
    <3>2. UNCHANGED <<wakers, ft, pc, finished, state>>
      BY <2>6 DEF Spawn, local, fibers
    <3>3. \A g \in Fibers : Reached(g) => Reached(g)'
      BY <1>2, <3>1, <3>2
    <3> QED BY <1>1, <3>2, <3>3 DEF Live, Exposed
  <2>7. CASE YieldToHold(t) \/ YieldToReady(t) \/ Finish(t) \/ Throw(t)
    <3>1. /\ UNCHANGED <<queue, ft, wakers>> /\ ft[t] \in Fibers /\ finished \subseteq finished'
          /\ \A u \in Threads : u # t => pc'[u] = pc[u]
          /\ \A f \in Fibers : f # ft[t] => state'[f] = state[f]
          /\ state[ft[t]] # "NONE"
          /\ \/ pc[t] = "park"
             \/ pc'[t] = "leaving" /\ state'[ft[t]] # "HOLD"
      BY <2>7 DEF YieldToHold, YieldToReady, Finish, Throw, End, Leave, SetState, ThreadForm,
                  HandForm, Bound, TypeOK
    <3>2. \A u \in Threads : u # t => (Exposed(u)' <=> Exposed(u))
      BY <3>1, OthersExposed
    <3>3. Exposed(t)' => Exposed(t)
      BY <3>1 DEF Exposed
    <3>4. \A f \in Live' : f \in Live
      BY <3>1 DEF Live
    <3> QED BY <1>1, <2>0, <3>1, <3>2, <3>3, <3>4
  <2>8. CASE Requeue(t) \/ WriteHold(t)
    <3>1. /\ UNCHANGED <<wakers, state, finished>> /\ ft[t] \in Fibers /\ pc'[t] = "scan"
          /\ \A u \in Threads : u # t => ft'[u] = ft[u] /\ pc'[u] = pc[u]
          /\ \/ Push(ft[t], AnyThread)
             \/ queue' = queue /\ Exposed(t)
      BY <2>8 DEF Requeue, WriteHold, SetState, Drop, HandForm, ThreadForm, Bound, fibers, TypeOK,
                  Exposed, Parking
    <3>2. \A g \in Fibers : Reached(g) \/ g = ft[t] => Reached(g)'
      BY <1>2, <2>0, <3>1 DEF LiveForm
    <3>3. \A u \in Threads : u # t => (Exposed(u)' <=> Exposed(u))
      BY <3>1 DEF Exposed
    <3>4. ~Exposed(t)'
      BY <3>1 DEF Exposed, Parking
    <3>5. \A f \in Fibers : Found(f) => Found(f)'
      BY <3>1, <3>2
    <3> QED BY <1>0, <3>1, <3>2, <3>3, <3>4, <3>5 DEF Live
  <2> QED BY <1>4, <2>1, <2>2, <2>3, <2>4, <2>5, <2>6, <2>7, <2>8 DEF Run
<1>5. ASSUME NEW f \in Fibers, Wake(f) PROVE LiveForm'
  <2>1. /\ UNCHANGED <<ft, pc, state, finished>> /\ \A g \in Fibers : g # f => wakers'[g] = wakers[g]
        /\ Push(f, AnyThread)
    BY <1>5 DEF Wake, local, TypeOK
  <2>2. \A g \in Fibers : Reached(g) => Reached(g)'
    BY <2>1, PushedIn DEF Reached
  <2> QED BY <1>1, <2>1, <2>2 DEF Live, Exposed
<1>6. CASE UNCHANGED vars
  BY <1>1, <1>6 DEF vars, local, fibers, Live, Reached, InQueue, Exposed
<1> QED BY <1>3, <1>4, <1>5, <1>6, Calm

-----------------------------------------------------------------------------
(* A thread that will scan the queue again before it leaves run().          *)
Returns(t) ==
    \/ pc[t] \in Bound \cup {"scan", "dispatch"}
    \/ pc[t] \in {"none", "idle"} /\ ~idleTerm[t]
    \/ pc[t] = "off" /\ t \in Runners /\ (mpc = "init" \/ (t = Root /\ mpc \in {"user", "stop"}))

(* An entry of the queue is a fiber that a waker put there, a callback that *)
(* another task pinned, or some thread that may take it will look: stopping *)
(* was false when that thread last went idle, or the thread itself pushed   *)
(* the entry.                                                               *)
Awaited(e) == e.fiber # NoFiber /\ state[e.fiber] \in {"EXEC", "HOLD"}
Pinned(e) == PinnedSpawn /\ e.fiber = NoFiber /\ e.thread # AnyThread
Served(e) == \E t \in Threads : e.thread \in {t, AnyThread} /\ Returns(t)
Drained(e) ==
    /\ e.thread \in Runners \cup {AnyThread}
    /\ Awaited(e) \/ Pinned(e) \/ Served(e)
DrainForm == \A i \in DOMAIN queue : Drained(queue[i])

LEMMA AllReturn ==
    ASSUME Base, mpc \in {"init", "user"}, NEW t \in Runners
    PROVE  t \in Threads /\ Returns(t)
<1>1. t \in Threads /\ (t \in pool \/ t = Root)
  BY DEF Base, TypeOK, Runners, Threads
<1>2. ~idleTerm[t] /\ pc[t] \in Pcs /\ pc[t] # "exit"
  BY <1>1 DEF Base, TypeOK, ThreadForm
<1>3. CASE pc[t] = "off"
  <2>1. mpc = "init" \/ t = Root
    BY <1>1, <1>3 DEF Base, ThreadForm
  <2> QED BY <1>1, <1>3, <2>1 DEF Returns
<1>4. CASE pc[t] # "off"
  BY <1>1, <1>2, <1>4 DEF Returns, Bound, Pcs
<1> QED BY <1>3, <1>4

LEMMA DrainStep ==
    ASSUME Own, DrainForm, [Next]_vars, ~seized', ~doubled'
    PROVE  DrainForm'
<1> USE DEF Own, Base
<1>0. TypeOK' /\ Exclusive
  BY TypeStep, ActiveStep, DoubledStays DEF PlaceForm
<1>1. ASSUME \A e \in Entries : (\E i \in DOMAIN queue' : queue'[i] = e) => Drained(e)'
      PROVE  DrainForm'
  <2>1. \A i \in DOMAIN queue' : queue'[i] \in Entries
    BY <1>0 DEF TypeOK
  <2>2. ASSUME NEW i \in DOMAIN queue'
        PROVE  /\ queue'[i].thread \in Runners' \cup {AnyThread}
               /\ \/ queue'[i].fiber # NoFiber /\ state'[queue'[i].fiber] \in {"EXEC", "HOLD"}
                  \/ PinnedSpawn /\ queue'[i].fiber = NoFiber /\ queue'[i].thread # AnyThread
                  \/ \E t \in Threads : queue'[i].thread \in {t, AnyThread} /\ Returns(t)'
    <3>1. PICK e \in Entries : e = queue'[i]
      BY <2>1
    <3>2. Drained(e)'
      BY <1>1, <3>1
    <3> QED BY <3>1, <3>2 DEF Drained, Awaited, Pinned, Served
  <2> QED BY <2>2 DEF DrainForm, Drained, Awaited, Pinned, Served
<1>2. ASSUME NEW e \in Entries, \E j \in DOMAIN queue : queue[j] = e PROVE Drained(e)
  BY <1>2 DEF DrainForm
(* A queued fiber that is executed or held stays so.                        *)
<1> DEFINE Kept == \A f \in Fibers : InQueue(f) /\ state[f] \in {"EXEC", "HOLD"} =>
                      state'[f] \in {"EXEC", "HOLD"}
<1>3. ASSUME Kept, NEW e \in Entries, \E j \in DOMAIN queue : queue[j] = e
      PROVE  (Awaited(e) => Awaited(e)') /\ (Pinned(e) => Pinned(e)')
  <2>1. e.fiber \in Fibers \cup {NoFiber} /\ (e.fiber \in Fibers => InQueue(e.fiber))
    BY <1>3 DEF InQueue, Entries
  <2> QED BY <1>3, <2>1 DEF Awaited, Pinned
(* Every thread that would look still will, and nobody was taken off.       *)
<1>4. ASSUME pool' = pool, \A t \in Threads : Returns(t) => Returns(t)', Kept,
             NEW e \in Entries, \E j \in DOMAIN queue : queue[j] = e
      PROVE  Drained(e)'
  <2>1. Served(e) => Served(e)'
    BY <1>4 DEF Served
  <2>2. Runners' = Runners
    BY <1>4 DEF Runners
  <2> QED BY <1>2, <1>3, <1>4, <2>1, <2>2 DEF Drained
<1>5. ASSUME pool' = pool, \A t \in Threads : Returns(t) => Returns(t)', Kept,
             \A i \in DOMAIN queue' : \E j \in DOMAIN queue : queue'[i] = queue[j]
      PROVE  DrainForm'
  BY <1>1, <1>4, <1>5
(* A new entry for a thread that will look, or one that stop() may leave.   *)
<1>6. ASSUME pool' = pool, \A t \in Threads : Returns(t) => Returns(t)', Kept,
             NEW f \in Fibers \cup {NoFiber}, NEW th \in Runners \cup {AnyThread}, Push(f, th),
             \/ \E t \in Threads : th \in {t, AnyThread} /\ Returns(t)'
             \/ f # NoFiber /\ state'[f] \in {"EXEC", "HOLD"}
             \/ PinnedSpawn /\ f = NoFiber /\ th # AnyThread
      PROVE  DrainForm'
  <2>1. th \in Threads \cup {AnyThread} /\ Runners' = Runners
    BY <1>6 DEF Runners, Threads, TypeOK
  <2>2. \A i \in DOMAIN queue' : \/ \E j \in DOMAIN queue : queue'[i] = queue[j]
                                 \/ queue'[i].fiber = f /\ queue'[i].thread = th
    BY <1>6, <2>1, Pushed
  <2>3. \A e \in Entries : e.fiber = f /\ e.thread = th => Drained(e)'
    BY <1>6, <2>1 DEF Drained, Served, Awaited, Pinned
  <2> QED BY <1>1, <1>4, <1>6, <2>2, <2>3
<1>7. ASSUME queue' = <<>> PROVE DrainForm'
  BY <1>7 DEF DrainForm
<1>8. ASSUME Owner, pool' = pool PROVE DrainForm'
  <2>1. CASE Start
    <3>1. \A t \in Threads : Returns(t) => Returns(t)'
      BY <2>1, <1>8 DEF Start, Returns, Bound, Runners, ThreadForm, TypeOK
    <3> QED BY <1>5, <1>8, <2>1, <3>1 DEF Start, fibers
  <2>2. CASE Submit
    <3>1. PICK th \in Runners \cup {AnyThread}, f \in Fibers \cup {NoFiber} : Push(f, th)
      BY <2>2 DEF Submit
    <3>2. UNCHANGED <<pc, idleTerm, mpc>> /\ mpc \in {"init", "user"}
      BY <2>2 DEF Submit, local, owner
    <3>3. \A t \in Threads : Returns(t)' <=> Returns(t)
      BY <1>8, <3>2 DEF Returns, Runners
    <3>4. PICK t \in Runners : th \in {t, AnyThread}
      BY DEF ThreadForm
    <3>5. t \in Threads /\ Returns(t)
      BY <3>2, AllReturn
    <3>6. Kept
      <4>1. \/ UNCHANGED state
            \/ \E g \in Fibers : state[g] = "NONE" /\ state' = [state EXCEPT ![g] = "INIT"]
        BY <2>2 DEF Submit, SetState
      <4> QED BY <4>1 DEF TypeOK
    <3> QED BY <1>6, <1>8, <3>1, <3>3, <3>4, <3>5, <3>6
  <2>3. CASE Stop \/ StopReturn \/ Join
    <3>1. \A t \in Threads : Returns(t) => Returns(t)'
      BY <1>8, <2>3 DEF Stop, StopReturn, Join, local, Returns, Runners
    <3> QED BY <1>5, <1>8, <2>3, <3>1 DEF Stop, StopReturn, Join, fibers
  <2>4. CASE StopCall
    <3>1. CASE Stopping
      BY <1>7, <2>4, <3>1 DEF StopCall, Stopping
    <3>2. CASE ~Stopping
      <4>1. \A t \in Threads : Returns(t) => Returns(t)'
        BY <1>8, <2>4, <3>2, ThreadFacts, SchedulerAssumption DEF StopCall, Goto, Returns, Runners,
             ThreadForm, Threads, TypeOK
      <4> QED BY <1>5, <1>8, <2>4, <4>1 DEF StopCall, fibers
    <3> QED BY <3>1, <3>2
  <2>5. ~SubmitAgain
    BY DEF SubmitAgain
  <2> QED BY <1>8, <2>1, <2>2, <2>3, <2>4, <2>5 DEF Owner
<1>9. ASSUME NEW t \in Threads, Run(t), ~Seizes(t), pool' = pool PROVE DrainForm'
  <2>0. ASSUME \A u \in Threads : u # t => pc'[u] = pc[u] /\ idleTerm'[u] = idleTerm[u],
               mpc' = mpc, Returns(t) => Returns(t)'
        PROVE  \A u \in Threads : Returns(u) => Returns(u)'
    BY <1>9, <2>0 DEF Returns, Runners
  (* What t does to a fiber that it has and that does not park.             *)
  <2>a. ASSUME NEW f \in Fibers, ~InQueue(f), \A g \in Fibers : g # f => state'[g] = state[g]
        PROVE  Kept
    BY <2>a
  <2>b. ~Exposed(t) => \A f \in Fibers : ft[t] = f => ~InQueue(f)
    BY <1>0 DEF Exclusive, Reached
  <2> USE DEF Goto
  <2>1. CASE Idle(t)
    <3>1. CASE Stopping
      BY <1>7, <2>1, <3>1 DEF Idle, Stopping
    <3>2. CASE ~Stopping
      <4>1. Returns(t)'
        BY <2>1, <3>2 DEF Idle, Returns, TypeOK
      <4>2. \A u \in Threads : Returns(u) => Returns(u)'
        BY <2>0, <2>1, <4>1 DEF Idle, owner, TypeOK
      <4> QED BY <1>5, <1>9, <2>1, <4>2 DEF Idle, fibers
    <3> QED BY <3>1, <3>2
  <2>2. CASE Exit(t)
    <3>1. ~Returns(t)
      BY <2>2 DEF Exit, Returns, Bound
    <3>2. \A u \in Threads : Returns(u) => Returns(u)'
      BY <2>0, <2>2, <3>1 DEF Exit, owner, TypeOK
    <3> QED BY <1>5, <1>9, <2>2, <3>2 DEF Exit, fibers
  <2>3. CASE EnterIdle(t) \/ SwapOut(t) \/ Back(t) \/ NotReady(t) \/ TestHold(t) \/ Arm(t)
    <3>1. Returns(t)'
      BY <2>3 DEF EnterIdle, SwapOut, Back, NotReady, TestHold, Arm, Returns, Bound, TypeOK
    <3>2. \A u \in Threads : Returns(u) => Returns(u)'
      BY <2>0, <2>3, <3>1 DEF EnterIdle, SwapOut, Back, NotReady, TestHold, Arm, owner, TypeOK
    <3> QED BY <1>5, <1>9, <2>3, <3>2 DEF EnterIdle, SwapOut, Back, NotReady, TestHold, Arm, fibers
  <2>4. CASE TakeNothing(t) \/ SkipDead(t)
    <3>1. /\ pc'[t] = "none" /\ mpc' = mpc /\ state' = state /\ idleTerm' = idleTerm /\ queue' = queue
          /\ \A u \in Threads : u # t => pc'[u] = pc[u]
      BY <2>4 DEF TakeNothing, SkipDead, owner, fibers, TypeOK
    <3>2. CASE ~idleTerm[t]
      <4>1. Returns(t)'
        BY <3>1, <3>2 DEF Returns
      <4> QED BY <1>5, <1>9, <2>0, <3>1, <4>1
    (* A thread about to leave has met only fibers that are being executed. *)
    <3>3. CASE idleTerm[t]
      <4>1. ~SkipDead(t)
        BY <1>0 DEF SkipDead, Exclusive, StateForm, TypeOK
      <4>2. TakeNothing(t)
        BY <2>4, <4>1
      <4>3. ASSUME NEW e \in Entries, \E j \in DOMAIN queue : queue[j] = e, e.thread \in {t, AnyThread}
            PROVE  Awaited(e)
        BY <4>2, <4>3, ThreadFacts DEF TakeNothing, Takeable, Entries, Awaited
      <4>4. \A u \in Threads : u # t /\ Returns(u) => Returns(u)'
        BY <1>9, <3>1 DEF Returns, Runners
      <4>5. ASSUME NEW e \in Entries, \E j \in DOMAIN queue : queue[j] = e PROVE Drained(e)'
        <5>1. Drained(e)
          BY <1>2, <4>5
        <5>2. (Awaited(e) => Awaited(e)') /\ (Pinned(e) => Pinned(e)')
          BY <1>3, <3>1, <4>5
        <5>3. Served(e) => Served(e)' \/ Awaited(e)
          BY <4>3, <4>4, <4>5 DEF Served
        <5>4. Runners' = Runners
          BY <1>9 DEF Runners
        <5> QED BY <5>1, <5>2, <5>3, <5>4 DEF Drained
      <4> QED BY <1>1, <3>1, <4>5
    <3> QED BY <3>2, <3>3
  <2>5. CASE Take(t)
    <3>1. Returns(t)'
      BY <2>5 DEF Take, Returns, TypeOK
    <3>2. \A i \in DOMAIN queue' : \E j \in DOMAIN queue : queue'[i] = queue[j]
      BY <2>5, Taken
    <3>3. \A u \in Threads : Returns(u) => Returns(u)'
      BY <2>0, <2>5, <3>1 DEF Take, owner, TypeOK
    <3>4. state' = state
      BY <2>5 DEF Take, fibers
    <3> QED BY <1>5, <1>9, <3>2, <3>3, <3>4
  <2>6. CASE SwapIn(t) \/ YieldToReady(t) \/ Finish(t) \/ Throw(t) \/ Ended(t)
    <3>1. /\ Returns(t)' /\ UNCHANGED <<queue, idleTerm, mpc>> /\ ft[t] \in Fibers /\ ~Exposed(t)
          /\ \A u \in Threads : u # t => pc'[u] = pc[u]
          /\ \A g \in Fibers : g # ft[t] => state'[g] = state[g]
      BY <2>6 DEF SwapIn, YieldToReady, Finish, Throw, End, Ended, Leave, SetState, Returns, Bound,
                  ThreadForm, owner, TypeOK, Exposed, Parking
    <3>2. Kept
      BY <2>a, <2>b, <3>1
    <3> QED BY <1>5, <1>9, <2>0, <3>1, <3>2
  <2>7. CASE RunCallback(t)
    <3>1. PICK f \in Fibers : /\ cbFiber[t] = f \/ state[f] = "NONE"
                              /\ SetState(f, "EXEC")
      BY <2>7 DEF RunCallback
    <3>2. /\ Returns(t)' /\ UNCHANGED <<queue, idleTerm, mpc>> /\ ~Exposed(t)
          /\ \A u \in Threads : u # t => pc'[u] = pc[u]
      BY <2>7 DEF RunCallback, Returns, Bound, owner, TypeOK, Exposed, Parking
    <3>3. ~InQueue(f)
      BY <3>1, <3>2 DEF CbForm, NoneForm, Reached, InQueue
    <3>4. Kept
      BY <2>a, <3>1, <3>3 DEF SetState, TypeOK
    <3> QED BY <1>5, <1>9, <2>0, <3>2, <3>4
  <2>8. CASE Spawn(t)
    <3>1. PICK th \in Runners \cup {AnyThread} : /\ Push(NoFiber, th)
                                                 /\ th \in {t, AnyThread} \/ PinnedSpawn
      BY <2>8 DEF Spawn, ThreadForm
    <3>2. Returns(t)' /\ UNCHANGED <<state, pc, idleTerm, mpc>>
      BY <2>8 DEF Spawn, owner, local, fibers, Returns, Bound
    <3>3. \A u \in Threads : Returns(u) => Returns(u)'
      BY <2>0, <3>2
    <3> QED BY <1>6, <1>9, <3>1, <3>2, <3>3
  <2>9. CASE YieldToHold(t) \/ WriteHold(t)
    <3>1. /\ Returns(t)' /\ UNCHANGED <<queue, idleTerm, mpc>>
          /\ \A u \in Threads : u # t => pc'[u] = pc[u]
          /\ ft[t] \in Fibers /\ state'[ft[t]] = "HOLD"
          /\ \A g \in Fibers : g # ft[t] => state'[g] = state[g]
      BY <2>9 DEF YieldToHold, WriteHold, Leave, SetState, Returns, Bound, ThreadForm, owner, TypeOK
    <3>2. Kept
      BY <3>1
    <3> QED BY <1>5, <1>9, <2>0, <3>1, <3>2
  <2>10. CASE Requeue(t)
    <3>1. /\ Returns(t)' /\ UNCHANGED <<state, idleTerm, mpc>> /\ Push(ft[t], AnyThread)
          /\ \A u \in Threads : u # t => pc'[u] = pc[u]
          /\ ft[t] \in Fibers \cup {NoFiber}
      BY <2>10 DEF Requeue, Returns, owner, fibers, TypeOK
    <3> QED BY <1>6, <1>9, <2>0, <3>1
  <2> QED BY <1>9, <2>1, <2>2, <2>3, <2>4, <2>5, <2>6, <2>7, <2>8, <2>9, <2>10 DEF Run
<1>10. ASSUME NEW f \in Fibers, Wake(f), pool' = pool PROVE DrainForm'
  <2>1. /\ UNCHANGED <<pc, idleTerm, mpc, state>> /\ wakers[f] > 0 /\ Push(f, AnyThread)
    BY <1>10 DEF Wake, owner, local
  <2>2. f # NoFiber /\ state'[f] \in {"EXEC", "HOLD"}
    BY <1>0, <2>1, ThreadFacts DEF Exclusive
  <2>3. \A t \in Threads : Returns(t) => Returns(t)'
    BY <1>10, <2>1 DEF Returns, Runners
  <2> QED BY <1>6, <1>10, <2>1, <2>2, <2>3
<1>11. CASE UNCHANGED vars
  BY <1>5, <1>11 DEF vars, owner, local, fibers, Returns, Runners
<1> QED BY <1>8, <1>9, <1>10, <1>11, Calm

-----------------------------------------------------------------------------
(* Every task that was scheduled has ended, or is a callback in the queue,  *)
(* a callback that a thread has just taken, or a fiber that has not ended.  *)
CbEntries(q) == {i \in DOMAIN q : q[i].fiber = NoFiber}
Fresh == {t \in Threads : pc[t] = "dispatch" /\ ft[t] = NoFiber}
CountForm ==
    submitted = completed + Cardinality(CbEntries(queue)) + Cardinality(Fresh) + Cardinality(Live)

LEMMA CbFinite ==
    ASSUME NEW q \in Seq(Entries)
    PROVE  IsFiniteSet(CbEntries(q)) /\ Cardinality(CbEntries(q)) \in Nat
<1>1. DOMAIN q = 1..Len(q) /\ Len(q) \in Nat
  OBVIOUS
<1>2. IsFiniteSet(1..Len(q))
  BY <1>1, FS_Interval
<1> QED BY <1>1, <1>2, FS_Subset, FS_CardinalityType DEF CbEntries

LEMMA CbPush ==
    ASSUME NEW q \in Seq(Entries), NEW f, NEW th, [fiber |-> f, thread |-> th] \in Entries
    PROVE  Cardinality(CbEntries(Append(q, [fiber |-> f, thread |-> th])))
              = Cardinality(CbEntries(q)) + (IF f = NoFiber THEN 1 ELSE 0)
<1> DEFINE e == [fiber |-> f, thread |-> th]
           r == Append(q, e)
<1>1. e \in Entries /\ e.fiber = f
  OBVIOUS
<1> HIDE DEF e
<1>2. /\ DOMAIN q = 1..Len(q) /\ Len(q) \in Nat
      /\ DOMAIN r = 1..(Len(q) + 1)
      /\ \A i \in DOMAIN q : r[i] = q[i]
      /\ r[Len(q) + 1] = e
  BY <1>1, PushFacts
<1> HIDE DEF r
<1>3. CASE f = NoFiber
  <2>1. CbEntries(r) = CbEntries(q) \cup {Len(q) + 1} /\ Len(q) + 1 \notin CbEntries(q)
    BY <1>1, <1>2, <1>3 DEF CbEntries
  <2>2. Cardinality(CbEntries(r)) = Cardinality(CbEntries(q)) + 1
    BY <2>1, CbFinite, FS_AddElement
  <2> QED BY <1>3, <2>2 DEF r, e
<1>4. CASE f # NoFiber
  <2>1. CbEntries(r) = CbEntries(q)
    BY <1>1, <1>2, <1>4 DEF CbEntries
  <2> QED BY <1>4, <2>1, CbFinite DEF r, e
<1> QED BY <1>3, <1>4

LEMMA CbTake ==
    ASSUME NEW q \in Seq(Entries), NEW k \in DOMAIN q
    PROVE  Cardinality(CbEntries(Without(q, k)))
              = Cardinality(CbEntries(q)) - (IF q[k].fiber = NoFiber THEN 1 ELSE 0)
<1> DEFINE r == Without(q, k)
           S == CbEntries(r)
           T == CbEntries(q) \ {k}
           to == [j \in S |-> IF j < k THEN j ELSE j + 1]
<1>1. /\ r \in Seq(Entries) /\ k \in Nat
      /\ DOMAIN q = 1..Len(q) /\ Len(q) \in Nat
      /\ DOMAIN r = 1..(Len(q) - 1)
      /\ \A j \in DOMAIN r : /\ j < k => j \in DOMAIN q /\ r[j] = q[j]
                             /\ j >= k => j + 1 \in DOMAIN q /\ r[j] = q[j + 1]
  BY WithoutFacts
<1> HIDE DEF r
<1>2. \A j \in S : j \in Nat /\ to[j] \in T
  BY <1>1 DEF CbEntries
<1>3. to \in [S -> T]
  BY <1>2
<1>4. \A i, j \in S : to[i] = to[j] => i = j
  BY <1>2
<1>5. \A m \in T : \E j \in S : to[j] = m
  <2> SUFFICES ASSUME NEW m \in T PROVE \E j \in S : to[j] = m
    OBVIOUS
  <2>1. m \in DOMAIN q /\ m # k /\ q[m].fiber = NoFiber /\ m \in Nat
    BY <1>1 DEF CbEntries
  <2>2. CASE m < k
    <3>1. m \in DOMAIN r /\ r[m] = q[m]
      BY <1>1, <2>1, <2>2
    <3>2. m \in S /\ to[m] = m
      BY <2>1, <2>2, <3>1 DEF CbEntries
    <3> QED BY <3>2
  <2>3. CASE m > k
    <3>1. m - 1 \in DOMAIN r /\ r[m - 1] = q[m] /\ m - 1 >= k /\ m - 1 \in Nat
      <4>1. m - 1 \in DOMAIN r /\ m - 1 >= k /\ (m - 1) + 1 = m /\ m - 1 \in Nat
        BY <1>1, <2>1, <2>3
      <4>2. r[m - 1] = q[(m - 1) + 1]
        BY <1>1, <4>1
      <4> QED BY <4>1, <4>2
    <3>2. m - 1 \in S /\ to[m - 1] = m
      BY <1>1, <2>1, <2>3, <3>1 DEF CbEntries
    <3> QED BY <3>2
  <2> QED BY <1>1, <2>1, <2>2, <2>3
<1>6. to \in Bijection(S, T)
  BY <1>3, <1>4, <1>5 DEF Bijection, Injection, Surjection, IsInjective
<1>7. IsFiniteSet(S) /\ IsFiniteSet(CbEntries(q)) /\ Cardinality(CbEntries(q)) \in Nat
  BY <1>1, CbFinite
<1>8. Cardinality(T) = Cardinality(S)
  <2> HIDE DEF S, T, to
  <2> QED BY <1>6, <1>7, FS_Bijection DEF ExistsBijection
<1>9. CASE q[k].fiber = NoFiber
  <2>1. k \in CbEntries(q)
    BY <1>9 DEF CbEntries
  <2>2. Cardinality(T) = Cardinality(CbEntries(q)) - 1
    BY <1>7, <2>1, FS_RemoveElement
  <2> HIDE DEF S, T
  <2>3. Cardinality(S) = Cardinality(CbEntries(q)) - 1
    BY <1>8, <2>2
  <2> QED BY <1>9, <2>3 DEF S, r
<1>10. CASE q[k].fiber # NoFiber
  <2>1. T = CbEntries(q)
    BY <1>10 DEF CbEntries
  <2>2. Cardinality(S) = Cardinality(CbEntries(q))
    <3> HIDE DEF S, T
    <3> QED BY <1>8, <2>1
  <2> QED BY <1>7, <1>10, <2>2 DEF r
<1> QED BY <1>9, <1>10

LEMMA CountStep ==
    ASSUME Own, CountForm, [Next]_vars, ~seized'
    PROVE  CountForm'
<1> USE DEF Own, Base
<1> DEFINE A == Cardinality(CbEntries(queue))
           B == Cardinality(Fresh)
           C == Cardinality(Live)
<1>0. /\ IsFiniteSet(Fresh) /\ IsFiniteSet(Live)
      /\ A \in Nat /\ B \in Nat /\ C \in Nat /\ submitted \in Nat /\ completed \in Nat
      /\ submitted = completed + A + B + C
  <2>1. IsFiniteSet(Fresh) /\ IsFiniteSet(Live)
    BY ThreadFacts, SchedulerAssumption, FS_Subset DEF Fresh, Live
  <2>2. queue \in Seq(Entries) /\ submitted \in Nat /\ completed \in Nat
    BY DEF TypeOK
  <2> QED BY <2>1, <2>2, CbFinite, FS_CardinalityType DEF CountForm
<1>1. ASSUME submitted' = completed' + A' + B' + C' PROVE CountForm'
  BY <1>1 DEF CountForm
<1> HIDE DEF A, B, C
<1>2. queue' = queue => A' = A
  BY DEF A
<1>3. UNCHANGED <<state, finished>> => C' = C
  BY DEF C, Live
<1>4. UNCHANGED <<pc, ft>> => B' = B
  BY DEF B, Fresh
<1>5. ASSUME NEW f \in Fibers \cup {NoFiber}, NEW th \in Threads \cup {AnyThread}, Push(f, th)
      PROVE  A' = A + (IF f = NoFiber THEN 1 ELSE 0)
  <2>1. [fiber |-> f, thread |-> th] \in Entries
    BY DEF Entries
  <2> QED BY <1>5, <2>1, CbPush DEF A, Push, TypeOK
(* The thread t did not have a callback in hand, and does not now.          *)
<1>6. ASSUME NEW t \in Threads, \A u \in Threads : u # t => pc'[u] = pc[u] /\ ft'[u] = ft[u],
             (pc[t] = "dispatch" /\ ft[t] = NoFiber) <=> (pc'[t] = "dispatch" /\ ft'[t] = NoFiber)
      PROVE  B' = B
  <2>1. Fresh' = Fresh
    BY <1>6 DEF Fresh
  <2> QED BY <2>1 DEF B
<1>7. ASSUME \A f \in Fibers : (state'[f] # "NONE" /\ f \notin finished')
                                  <=> (state[f] # "NONE" /\ f \notin finished)
      PROVE  C' = C
  <2>1. Live' = Live
    BY <1>7 DEF Live
  <2> QED BY <2>1 DEF C
<1>8. ASSUME NEW f \in Fibers, f \notin Live, f \in Live', \A g \in Fibers : g # f =>
                (state'[g] # "NONE" /\ g \notin finished')
                   <=> (state[g] # "NONE" /\ g \notin finished)
      PROVE  C' = C + 1
  <2>1. Live' = Live \cup {f}
    BY <1>8 DEF Live
  <2> QED BY <1>0, <1>8, <2>1, FS_AddElement DEF C
<1>9. CASE Owner
  <2>1. CASE Submit
    <3>1. PICK th \in Threads \cup {AnyThread} :
            \/ \E f \in Fibers : state[f] = "NONE" /\ SetState(f, "INIT") /\ Push(f, th)
            \/ Push(NoFiber, th) /\ UNCHANGED state
      BY <2>1 DEF Submit, Runners, Threads, TypeOK
    <3>2. UNCHANGED <<finished, pc, ft, completed>> /\ submitted' = submitted + 1
      BY <2>1 DEF Submit, local
    <3>3. ASSUME NEW f \in Fibers, state[f] = "NONE", SetState(f, "INIT"), Push(f, th)
          PROVE  CountForm'
      <4>1. A' = A
        BY <1>0, <1>5, <3>3, ThreadFacts
      <4>2. f \notin finished
        BY <3>3 DEF NoneForm
      <4>3. C' = C + 1
        BY <1>8, <3>2, <3>3, <4>2 DEF SetState, Live, TypeOK
      <4> QED BY <1>0, <1>1, <1>4, <3>2, <4>1, <4>3
    <3>4. CASE Push(NoFiber, th) /\ UNCHANGED state
      <4>1. A' = A + 1
        BY <1>5, <3>4
      <4> QED BY <1>0, <1>1, <1>3, <1>4, <3>2, <3>4, <4>1
    <3> QED BY <3>1, <3>3, <3>4
  <2>2. CASE SubmitAgain
    <3>1. PICK f \in Fibers : Push(f, AnyThread)
      BY <2>2 DEF SubmitAgain
    <3>2. A' = A
      BY <1>0, <1>5, <3>1, ThreadFacts
    <3> QED BY <1>0, <1>1, <1>3, <1>4, <2>2, <3>2 DEF SubmitAgain, local, fibers
  <2>3. CASE Start \/ Stop \/ StopCall \/ StopReturn \/ Join
    <3>1. UNCHANGED <<queue, ft, state, finished, completed, submitted>>
      BY <2>3 DEF Start, Stop, StopCall, StopReturn, Join, local, fibers
    <3>2. \A t \in Threads : pc'[t] = "dispatch" <=> pc[t] = "dispatch"
      BY <2>3 DEF Start, Stop, StopCall, StopReturn, Join, Goto, local, ThreadForm, TypeOK
    <3>3. B' = B
      BY <3>1, <3>2 DEF B, Fresh
    <3> QED BY <1>0, <1>1, <1>2, <1>3, <3>1, <3>3
  <2> QED BY <1>9, <2>1, <2>2, <2>3 DEF Owner
<1>10. ASSUME NEW t \in Threads, Run(t) PROVE CountForm'
  <2> USE DEF Goto
  <2>1. CASE TakeNothing(t) \/ SwapOut(t) \/ Back(t) \/ NotReady(t) \/ TestHold(t) \/ EnterIdle(t)
             \/ Idle(t) \/ Exit(t) \/ SkipDead(t)
    <3>1. /\ UNCHANGED <<queue, state, finished, completed, submitted>>
          /\ \A u \in Threads : u # t => pc'[u] = pc[u] /\ ft'[u] = ft[u]
          /\ pc'[t] # "dispatch" /\ (pc[t] = "dispatch" => ft[t] # NoFiber)
      BY <2>1 DEF TakeNothing, SwapOut, Back, NotReady, TestHold, EnterIdle, Idle, Exit, SkipDead,
                  fibers, TypeOK
    <3>2. B' = B
      BY <1>6, <3>1
    <3> QED BY <1>0, <1>1, <1>2, <1>3, <3>1, <3>2
  <2>2. CASE Take(t)
    <3>1. PICK k \in DOMAIN queue : /\ queue' = Without(queue, k)
                                    /\ ft' = [ft EXCEPT ![t] = queue[k].fiber]
      BY <2>2, Taken
    <3>2. A' = A - (IF queue[k].fiber = NoFiber THEN 1 ELSE 0)
      BY <3>1, CbTake DEF A, TypeOK
    <3>3. /\ UNCHANGED <<state, finished, completed, submitted>>
          /\ pc[t] = "scan" /\ pc'[t] = "dispatch" /\ ft'[t] = queue[k].fiber
          /\ \A u \in Threads : u # t => pc'[u] = pc[u] /\ ft'[u] = ft[u]
      BY <2>2, <3>1 DEF Take, fibers, TypeOK
    <3>4. CASE queue[k].fiber = NoFiber
      <4>1. Fresh' = Fresh \cup {t} /\ t \notin Fresh
        BY <3>3, <3>4 DEF Fresh
      <4>2. B' = B + 1
        BY <1>0, <4>1, FS_AddElement DEF B
      <4> QED BY <1>0, <1>1, <1>3, <3>2, <3>3, <3>4, <4>2
    <3>5. CASE queue[k].fiber # NoFiber
      <4>1. B' = B
        BY <1>6, <3>3, <3>5
      <4> QED BY <1>0, <1>1, <1>3, <3>2, <3>3, <3>5, <4>1
    <3> QED BY <3>4, <3>5
  <2>3. CASE SwapIn(t)
    <3>1. /\ UNCHANGED <<queue, finished, completed, submitted>>
          /\ \A u \in Threads : u # t => pc'[u] = pc[u] /\ ft'[u] = ft[u]
          /\ pc'[t] # "dispatch" /\ ft[t] # NoFiber
          /\ \A f \in Fibers : state'[f] # "NONE" <=> state[f] # "NONE"
      BY <2>3 DEF SwapIn, SetState, NoneForm, TypeOK
    <3>2. B' = B /\ C' = C
      BY <1>6, <1>7, <3>1
    <3> QED BY <1>0, <1>1, <1>2, <3>1, <3>2
  <2>4. CASE RunCallback(t)
    <3>1. PICK f \in Fibers : /\ \/ cbFiber[t] = f
                                 \/ cbFiber[t] = NoFiber /\ state[f] = "NONE"
                              /\ SetState(f, "EXEC") /\ ft' = [ft EXCEPT ![t] = f]
                              /\ finished' = finished \ {f}
      BY <2>4 DEF RunCallback
    <3>2. /\ UNCHANGED <<queue, completed, submitted>>
          /\ pc[t] = "dispatch" /\ ft[t] = NoFiber /\ pc'[t] = "exec"
          /\ \A u \in Threads : u # t => pc'[u] = pc[u] /\ ft'[u] = ft[u]
          /\ \A g \in Fibers : g # f => state'[g] = state[g]
          /\ state'[f] = "EXEC"
      BY <2>4, <3>1 DEF RunCallback, SetState, TypeOK
    <3>3. f \notin Live
      BY <3>1, <3>2, ThreadFacts DEF Live, CbForm
    <3>4. C' = C + 1
      BY <1>8, <3>1, <3>2, <3>3 DEF Live
    <3>5. Fresh' = Fresh \ {t} /\ t \in Fresh
      BY <3>2 DEF Fresh
    <3>6. B' = B - 1
      BY <1>0, <3>5, FS_RemoveElement DEF B
    <3> QED BY <1>0, <1>1, <1>2, <3>2, <3>4, <3>6
  <2>5. CASE Spawn(t)
    <3>1. PICK th \in Threads \cup {AnyThread} : Push(NoFiber, th)
      BY <2>5 DEF Spawn, Runners, Threads, TypeOK
    <3>2. A' = A + 1
      BY <1>5, <3>1
    <3> QED BY <1>0, <1>1, <1>3, <1>4, <2>5, <3>2 DEF Spawn, local, fibers
  <2>6. CASE Arm(t)
    <3>1. /\ UNCHANGED <<queue, state, finished, completed, submitted>>
          /\ \A u \in Threads : u # t => pc'[u] = pc[u] /\ ft'[u] = ft[u]
          /\ pc[t] = "exec" /\ pc'[t] = "park"
      BY <2>6 DEF Arm, TypeOK
    <3>2. B' = B
      BY <1>6, <3>1
    <3> QED BY <1>0, <1>1, <1>2, <1>3, <3>1, <3>2
  <2>7. CASE YieldToHold(t) \/ YieldToReady(t)
    <3>1. /\ UNCHANGED <<queue, finished, completed, submitted>>
          /\ \A u \in Threads : u # t => pc'[u] = pc[u] /\ ft'[u] = ft[u]
          /\ pc[t] # "dispatch" /\ pc'[t] = "leaving"
      BY <2>7 DEF YieldToHold, YieldToReady, Leave, TypeOK
    <3>2. \A f \in Fibers : state'[f] # "NONE" <=> state[f] # "NONE"
      BY <2>7 DEF YieldToHold, YieldToReady, Leave, SetState, NoneForm, TypeOK
    <3>3. B' = B /\ C' = C
      BY <1>6, <1>7, <3>1, <3>2
    <3> QED BY <1>0, <1>1, <1>2, <3>1, <3>3
  <2>8. CASE Finish(t) \/ Throw(t)
    <3>1. /\ UNCHANGED <<queue, submitted>> /\ completed' = completed + 1
          /\ \A u \in Threads : u # t => pc'[u] = pc[u] /\ ft'[u] = ft[u]
          /\ pc[t] = "exec" /\ pc'[t] = "leaving" /\ finished' = finished \cup {ft[t]}
          /\ \A f \in Fibers : f # ft[t] => state'[f] = state[f]
      BY <2>8 DEF Finish, Throw, End, Leave, SetState, TypeOK
    <3>2. ft[t] \in Live
      BY <3>1 DEF Live, HandForm, StateForm, ThreadForm, Bound
    <3>3. Live' = Live \ {ft[t]}
      BY <3>1, <3>2 DEF Live
    <3>4. C' = C - 1
      BY <1>0, <3>2, <3>3, FS_RemoveElement DEF C
    <3>5. B' = B
      BY <1>6, <3>1
    <3> QED BY <1>0, <1>1, <1>2, <3>1, <3>4, <3>5
  <2>9. CASE Requeue(t)
    <3>1. /\ UNCHANGED <<state, finished, completed, submitted>>
          /\ \A u \in Threads : u # t => pc'[u] = pc[u] /\ ft'[u] = ft[u]
          /\ pc[t] = "post" /\ pc'[t] = "scan" /\ Push(ft[t], AnyThread) /\ ft[t] \in Fibers
      BY <2>9 DEF Requeue, Drop, fibers, ThreadForm, Bound, TypeOK
    <3>2. A' = A
      BY <1>0, <1>5, <3>1, ThreadFacts
    <3>3. B' = B
      BY <1>6, <3>1
    <3> QED BY <1>0, <1>1, <1>3, <3>1, <3>2, <3>3
  <2>10. CASE Ended(t) \/ WriteHold(t)
    <3>1. /\ UNCHANGED <<queue, finished, completed, submitted>>
          /\ \A u \in Threads : u # t => pc'[u] = pc[u] /\ ft'[u] = ft[u]
          /\ pc[t] # "dispatch" /\ pc'[t] = "scan"
      BY <2>10 DEF Ended, WriteHold, Drop, TypeOK
    <3>2. \A f \in Fibers : state'[f] # "NONE" <=> state[f] # "NONE"
      BY <2>10 DEF Ended, WriteHold, SetState, NoneForm, TypeOK
    <3>3. B' = B /\ C' = C
      BY <1>6, <1>7, <3>1, <3>2
    <3> QED BY <1>0, <1>1, <1>2, <3>1, <3>3
  <2> QED BY <1>10, <2>1, <2>2, <2>3, <2>4, <2>5, <2>6, <2>7, <2>8, <2>9, <2>10 DEF Run
<1>11. ASSUME NEW f \in Fibers, Wake(f) PROVE CountForm'
  <2>1. A' = A
    BY <1>0, <1>5, <1>11, ThreadFacts DEF Wake
  <2> QED BY <1>0, <1>1, <1>3, <1>4, <1>11, <2>1 DEF Wake, local
<1>12. CASE UNCHANGED vars
  BY <1>0, <1>1, <1>2, <1>3, <1>4, <1>12 DEF vars, local, fibers
<1> QED BY <1>9, <1>10, <1>11, <1>12, Calm

(* When stop() returns and no fiber was seized or scheduled twice, every    *)
(* task has ended but the fibers that wait for a waker, none of which has   *)
(* lost it, and the callbacks that a task pinned to some thread.            *)
THEOREM WorkIsDoneAtStop == Spec => []WorkDoneAtStop
<1> DEFINE Inv == Own /\ LiveForm /\ (doubled \/ DrainForm) /\ CountForm
<1>1. Init => Inv
  <2> SUFFICES ASSUME Init PROVE Inv
    OBVIOUS
  <2>1. CbEntries(queue) = {} /\ Fresh = {} /\ Live = {}
    BY DEF Init, CbEntries, Fresh, Live
  <2>2. CountForm
    <3>1. submitted = 0 /\ completed = 0
      BY DEF Init
    <3>2. Cardinality({}) = 0
      BY FS_EmptySet
    <3> QED BY <2>1, <3>1, <3>2 DEF CountForm
  <2>3. LiveForm
    BY <2>1 DEF LiveForm, Init, Exposed, Parking
  <2>4. DrainForm
    BY DEF DrainForm, Init
  <2> QED BY <2>2, <2>3, <2>4, OwnInit
<1>2. Inv /\ [Next]_vars => seized' \/ Inv'
  BY OwnStep, LiveStep, DrainStep, CountStep, DoubledStays
<1>3. Inv => WorkDoneAtStop
  <2> SUFFICES ASSUME Own, LiveForm, DrainForm, CountForm, mpc = "stopped", ~doubled
               PROVE  /\ completed + Cardinality(Waiting) + Cardinality(Left) = submitted
                      /\ \A f \in Waiting : wakers[f] > 0 \/ InQueue(f)
                      /\ \A i \in Left : PinnedSpawn /\ queue[i].thread # AnyThread
    BY DEF WorkDoneAtStop
  <2> USE DEF Own, Base
  <2>1. \A t \in Threads : pc[t] \in {"off", "exit"} /\ ~Returns(t) /\ ft[t] = NoFiber
    <3> SUFFICES ASSUME NEW t \in Threads
                 PROVE  pc[t] \in {"off", "exit"} /\ ~Returns(t) /\ ft[t] = NoFiber
      OBVIOUS
    <3>1. pc[t] \in {"off", "exit"}
      <4>1. pc[t] # "off" => t \in pool \/ t = Root
        BY DEF ThreadForm, Runners
      <4> QED BY <4>1 DEF ThreadForm
    <3>2. ft[t] = NoFiber
      BY <3>1 DEF ThreadForm, Bound
    <3> QED BY <3>1, <3>2 DEF Returns, Bound
  <2>2. \A i \in DOMAIN queue : Awaited(queue[i]) \/ Pinned(queue[i])
    BY <2>1 DEF DrainForm, Drained, Served
  <2>3. Fresh = {} /\ Left = CbEntries(queue)
    BY <2>1 DEF CbEntries, Fresh, Left
  <2>4. ASSUME NEW f \in Live PROVE state[f] = "HOLD" /\ Reached(f)
    <3>1. f \in Fibers /\ \A t \in Threads : ft[t] # f
      BY <2>1, ThreadFacts DEF Live
    <3>2. Reached(f)
      BY <3>1 DEF LiveForm
    <3>3. state[f] # "EXEC"
      BY <3>1 DEF StateForm
    <3>4. wakers[f] > 0 => state[f] \in {"EXEC", "HOLD"}
      BY <3>1 DEF PlaceForm, Exclusive
    <3>5. InQueue(f) => state[f] \in {"EXEC", "HOLD"}
      BY <2>2, <3>1, ThreadFacts DEF InQueue, Awaited, Pinned
    <3> QED BY <3>2, <3>3, <3>4, <3>5 DEF Reached
  <2>5. Live = Waiting
    <3>1. \A f \in Waiting : f \in Live
      BY DEF StateForm, Live, Waiting
    <3>2. \A f \in Live : f \in Waiting
      BY <2>4 DEF Live, Waiting
    <3> QED BY <3>1, <3>2
  <2>6. Cardinality(Live) \in Nat /\ Cardinality(CbEntries(queue)) \in Nat
    BY CbFinite, SchedulerAssumption, FS_Subset, FS_CardinalityType DEF Live, TypeOK
  <2>7. completed + Cardinality(Waiting) + Cardinality(Left) = submitted
    BY <2>3, <2>5, <2>6, FS_EmptySet DEF CountForm, TypeOK
  <2>8. \A i \in Left : PinnedSpawn /\ queue[i].thread # AnyThread
    BY <2>2 DEF Left, Awaited, Pinned
  <2> QED BY <2>4, <2>5, <2>7, <2>8 DEF Reached
<1>4. seized => WorkDoneAtStop
  BY DEF WorkDoneAtStop
<1>5. (seized \/ Inv) /\ TypeOK /\ [Next]_vars => (seized \/ Inv)'
  BY <1>2, SeizedStays
<1> HIDE DEF Inv
<1> QED BY <1>1, <1>3, <1>4, <1>5, TypeCorrect, PTL DEF Spec
=============================================================================
