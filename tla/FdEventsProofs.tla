--------------------------- MODULE FdEventsProofs ---------------------------
(***************************************************************************)
(* Proofs about FdEvents, for any pool of threads, any finite set of file   *)
(* descriptors and waiters, any bound on the generations of a context, and  *)
(* with or without hang-ups.  The inductive invariant FdInv is, besides the *)
(* types, one part for each question:                                       *)
(*   Registered  a context that has events is the one the kernel knows for  *)
(*               its fd, with exactly these events: so at most one context  *)
(*               of an fd has any, whatever resizes did to the table;       *)
(*   SlotForm    the bits of a context are its filled slots;                *)
(*   WaiterOnce  as the run checks it;                                      *)
(*   CountForm   the counter is the number of filled slots;                 *)
(*   TableForm   as long as no resize has shrunk the table, the contexts    *)
(*               with events, and those an addEvent is about to use, are    *)
(*               inside it.                                                 *)
(***************************************************************************)
EXTENDS FdEvents, FiniteSetTheorems, TLAPS

(* The types apart from the counter, which is a difference: that it never   *)
(* runs below zero follows from CountForm.                                  *)
Typed ==
    /\ size \in Nat
    /\ gen \in [Fds -> 0..MaxGen]
    /\ events \in [Contexts -> SUBSET Bits]
    /\ slot \in [Contexts -> [Bits -> Waiters \cup {Nobody}]]
    /\ ready \subseteq Waiters
    /\ level \in [Fds -> SUBSET Conditions]
    /\ interest \in [Fds -> SUBSET Bits]
    /\ ptr \in [Fds -> Contexts]
    /\ edge \subseteq Fds
    /\ pc \in [Threads -> {"run", "resize", "add", "wait", "handle"}]
    /\ got \in [Threads -> SUBSET [ctx : Contexts, revents : SUBSET Conditions]]
    /\ aborted \in BOOLEAN
    /\ arg \in [Threads -> {NoArg} \cup (Contexts \X Bits)]
    /\ \A t \in Threads : pc[t] \in {"resize", "add"} => arg[t] \in Contexts \X Bits

Registered ==
    \A c \in Contexts : events[c] # {} => interest[c[1]] = events[c] /\ ptr[c[1]] = c

SlotForm == \A c \in Contexts : events[c] = {k \in Bits : slot[c][k] # Nobody}

Filled == {p \in Contexts \X Bits : slot[p[1]][p[2]] # Nobody}
CountForm == pending = Cardinality(Filled)

Unshrunk == \A fd \in Fds : gen[fd] = 0
TableForm ==
    /\ size > 1
    /\ \A t \in Threads : pc[t] = "resize" => arg[t][1][1] > 1
    /\ Unshrunk => /\ \A c \in Contexts : events[c] # {} => InTable(c[1])
                   /\ \A t \in Threads : pc[t] = "add" => InTable(arg[t][1][1])

FdInv == Typed /\ Registered /\ SlotForm /\ WaiterOnce /\ CountForm /\ TableForm

-----------------------------------------------------------------------------
(* What a step does to the registrations: nothing, one more, or some less.  *)
Quiet ==
    /\ UNCHANGED <<events, slot, pending, interest, ptr>>
    /\ ready' \subseteq ready

Added(c, k, w) ==
    /\ k \notin events[c] /\ slot[c][k] = Nobody /\ CtlAccepted(c[1], c)
    /\ w \notin ready /\ ~Parked(w)
    /\ interest' = [interest EXCEPT ![c[1]] = events[c] \cup {k}]
    /\ ptr' = [ptr EXCEPT ![c[1]] = c]
    /\ events' = [events EXCEPT ![c] = @ \cup {k}]
    /\ slot' = [slot EXCEPT ![c][k] = w]
    /\ pending' = pending + 1
    /\ ready' = ready

Removed(c, ks) ==
    /\ ks \subseteq events[c] /\ ks # {}
    /\ interest' = [interest EXCEPT ![c[1]] = events[c] \ ks]
    /\ ptr' = [ptr EXCEPT ![c[1]] = c]
    /\ events' = [events EXCEPT ![c] = @ \ ks]
    /\ slot' = [slot EXCEPT ![c] = [k \in Bits |-> IF k \in ks THEN Nobody ELSE slot[c][k]]]
    /\ pending' = pending - Cardinality(ks)
    /\ ready' = ready \/ ready' = ready \cup {slot[c][k] : k \in ks}

(* The waiters of a context are waiters, and the context an fd leads to is  *)
(* one of the table's.                                                      *)
LEMMA CurrentType ==
    ASSUME Typed, NEW fd \in Fds
    PROVE  Current(fd) \in Contexts /\ Current(fd)[1] = fd
BY DEF Typed, Current, Contexts

(* The operations that end registrations, and the handling of an edge, take *)
(* events out of one context or touch none.                                 *)
LEMMA RemovalKind ==
    ASSUME Typed, NEW t \in Threads, DelEvent(t) \/ CancelEvent(t) \/ CancelAll(t) \/ Handle(t)
    PROVE  Quiet \/ \E c \in Contexts, ks \in SUBSET Bits : Removed(c, ks)
<1>1. ASSUME NEW c \in Contexts, NEW ks \in SUBSET events[c], ks # {}, Unregister(c, ks),
             ready' = ready \/ ready' = ready \cup {slot[c][k] : k \in ks}
      PROVE  \E d \in Contexts, ls \in SUBSET Bits : Removed(d, ls)
  <2>1. ks \in SUBSET Bits
    BY <1>1 DEF Typed
  <2>2. slot' = [slot EXCEPT ![c] = [k \in Bits |-> IF k \in ks THEN Nobody ELSE slot[c][k]]]
    BY <1>1 DEF Unregister, Typed
  <2>3. Removed(c, ks)
    BY <1>1, <2>2 DEF Removed, Unregister, EpollCtl
  <2> QED
    BY <2>1, <2>3
<1>2. ASSUME DelEvent(t) \/ CancelEvent(t)
      PROVE  \E c \in Contexts, ks \in SUBSET Bits : Removed(c, ks)
  <2>1. PICK fd \in Fds, k \in Bits :
            /\ k \in events[Current(fd)] /\ Unregister(Current(fd), {k})
            /\ ready' = ready \/ ready' = ready \cup {slot[Current(fd)][l] : l \in {k}}
    BY <1>2 DEF DelEvent, CancelEvent, Trigger
  <2>2. {k} \in SUBSET events[Current(fd)] /\ {k} # {}
    BY <2>1
  <2> QED
    BY <1>1, <2>1, <2>2, CurrentType
<1>3. ASSUME CancelAll(t)
      PROVE  \E c \in Contexts, ks \in SUBSET Bits : Removed(c, ks)
  <2>1. PICK fd \in Fds : events[Current(fd)] # {} /\ Trigger(Current(fd), events[Current(fd)])
    BY <1>3 DEF CancelAll
  <2> QED
    BY <1>1, <2>1, CurrentType DEF Trigger
<1>4. ASSUME Handle(t)
      PROVE  Quiet \/ \E c \in Contexts, ks \in SUBSET Bits : Removed(c, ks)
  <2>1. PICK e \in got[t] :
            \/ UNCHANGED <<events, slot, ready, pending, kernel>>
            \/ /\ events[e.ctx] \cap RealEvents(e.revents) # {}
               /\ RealEvents(e.revents) \subseteq events[e.ctx]
               /\ Trigger(e.ctx, RealEvents(e.revents))
    BY <1>4 DEF Handle
  <2>2. e.ctx \in Contexts
    BY DEF Typed
  <2>3. CASE UNCHANGED <<events, slot, ready, pending, kernel>>
    BY <2>3 DEF Quiet, kernel
  <2>4. CASE /\ events[e.ctx] \cap RealEvents(e.revents) # {}
             /\ RealEvents(e.revents) \subseteq events[e.ctx]
             /\ Trigger(e.ctx, RealEvents(e.revents))
    <3>1. RealEvents(e.revents) \in SUBSET events[e.ctx] /\ RealEvents(e.revents) # {}
      BY <2>4
    <3>2. /\ Unregister(e.ctx, RealEvents(e.revents))
          /\ ready' = ready \cup {slot[e.ctx][k] : k \in RealEvents(e.revents)}
      BY <2>4 DEF Trigger
    <3> QED
      BY <1>1, <2>2, <3>1, <3>2
  <2> QED
    BY <2>1, <2>3, <2>4
<1> QED
  BY <1>2, <1>3, <1>4

(* Every step is of one of the three kinds.                                 *)
LEMMA Kinds ==
    ASSUME Typed, Next
    PROVE  \/ Quiet
           \/ \E c \in Contexts, k \in Bits, w \in Waiters : Added(c, k, w)
           \/ \E c \in Contexts, ks \in SUBSET Bits : Removed(c, ks)
<1> USE FdEventsAssumption
<1>1. ASSUME NEW t \in Threads, AddEvent(t)
      PROVE  \E c \in Contexts, k \in Bits, w \in Waiters : Added(c, k, w)
  <2>1. arg[t] \in Contexts \X Bits
    BY <1>1 DEF Typed, AddEvent
  <2>2. PICK w \in Waiters \ ready : ~Parked(w) /\ slot' = [slot EXCEPT ![arg[t][1]][arg[t][2]] = w]
    BY <1>1 DEF AddEvent
  <2>3. Added(arg[t][1], arg[t][2], w)
    BY <1>1, <2>1, <2>2 DEF AddEvent, Added, EpollCtl
  <2> QED
    BY <2>1, <2>2, <2>3
<1>2. ASSUME NEW t \in Threads, DelEvent(t) \/ CancelEvent(t) \/ CancelAll(t) \/ Handle(t)
      PROVE  Quiet \/ \E c \in Contexts, ks \in SUBSET Bits : Removed(c, ks)
  BY <1>2, RemovalKind
<1>3. ASSUME NEW t \in Threads,
             \/ AddLookup(t) \/ Resume(t) \/ AddResize(t) \/ AddEventFails(t) \/ EnterIdle(t)
             \/ EpollWait(t) \/ HandleAborts(t) \/ LeaveIdle(t)
      PROVE  Quiet
  BY <1>3 DEF Quiet, AddLookup, Resume, AddResize, AddEventFails, EnterIdle, EpollWait,
              HandleAborts, LeaveIdle, kernel
<1>4. ASSUME NEW fd \in Fds, NEW k \in Conditions, Arise(fd, k) \/ Consume(fd, k)
      PROVE  Quiet
  BY <1>4 DEF Quiet, Arise, Consume
<1>5. CASE UNCHANGED vars
  BY <1>5 DEF vars, Quiet, kernel
<1> QED
  BY <1>1, <1>2, <1>3, <1>4, <1>5 DEF Next, Task, Proceed

-----------------------------------------------------------------------------
(* A registration is kept by the kernel for one context of an fd only.      *)
LEMMA RegisteredStep ==
    ASSUME Typed, Registered, Next
    PROVE  Registered'
<1>1. CASE Quiet
  BY <1>1 DEF Quiet, Registered
<1>2. ASSUME NEW c \in Contexts, NEW k \in Bits, NEW w \in Waiters, Added(c, k, w)
      PROVE  Registered'
  <2>1. \A d \in Contexts : d # c /\ d[1] = c[1] => events[d] = {}
    BY <1>2 DEF Added, CtlAccepted, Registered
  <2> QED
    BY <1>2, <2>1 DEF Added, Registered, Typed, Contexts
<1>3. ASSUME NEW c \in Contexts, NEW ks \in SUBSET Bits, Removed(c, ks)
      PROVE  Registered'
  <2>1. \A d \in Contexts : d # c /\ d[1] = c[1] => events[d] = {}
    BY <1>3 DEF Removed, Registered
  <2> QED
    BY <1>3, <2>1 DEF Removed, Registered, Typed, Contexts
<1> QED
  BY <1>1, <1>2, <1>3, Kinds

(* Bits and slots change together.                                          *)
LEMMA SlotStep ==
    ASSUME Typed, SlotForm, Next
    PROVE  SlotForm'
<1> USE FdEventsAssumption
<1>1. CASE Quiet
  BY <1>1 DEF Quiet, SlotForm
<1>2. ASSUME NEW c \in Contexts, NEW k \in Bits, NEW w \in Waiters, Added(c, k, w)
      PROVE  SlotForm'
  <2>1. \A d \in Contexts, l \in Bits :
            slot'[d][l] = IF d = c /\ l = k THEN w ELSE slot[d][l]
    BY <1>2 DEF Added, Typed
  <2>2. \A d \in Contexts : events'[d] = IF d = c THEN events[d] \cup {k} ELSE events[d]
    BY <1>2 DEF Added, Typed
  <2>3. \A d \in Contexts, l \in Bits : l \in events[d] <=> slot[d][l] # Nobody
    BY DEF SlotForm
  <2>4. \A d \in Contexts, l \in Bits : l \in events'[d] <=> slot'[d][l] # Nobody
    <3>1. TAKE d \in Contexts, l \in Bits
    <3>2. w # Nobody
      OBVIOUS
    <3>3. CASE d = c /\ l = k
      BY <2>1, <2>2, <3>2, <3>3
    <3>4. CASE d = c /\ l # k
      <4>1. slot'[d][l] = slot[d][l]
        BY <2>1, <3>4
      <4>2. events'[d] = events[d] \cup {k}
        BY <2>2, <3>4
      <4>3. l \in events'[d] <=> l \in events[d]
        BY <3>4, <4>2
      <4> QED
        BY <2>3, <4>1, <4>3
    <3>5. CASE d # c
      BY <2>1, <2>2, <2>3, <3>5
    <3> QED
      BY <3>3, <3>4, <3>5
  <2>5. \A d \in Contexts : events'[d] \subseteq Bits
    BY <2>2 DEF Typed
  <2> QED
    BY <2>4, <2>5 DEF SlotForm
<1>3. ASSUME NEW c \in Contexts, NEW ks \in SUBSET Bits, Removed(c, ks)
      PROVE  SlotForm'
  <2>1. \A d \in Contexts, l \in Bits :
            slot'[d][l] = IF d = c /\ l \in ks THEN Nobody ELSE slot[d][l]
    BY <1>3 DEF Removed, Typed
  <2>2. \A d \in Contexts : events'[d] = IF d = c THEN events[d] \ ks ELSE events[d]
    BY <1>3 DEF Removed, Typed
  <2>3. \A d \in Contexts, l \in Bits : l \in events[d] <=> slot[d][l] # Nobody
    BY DEF SlotForm
  <2>4. \A d \in Contexts, l \in Bits : l \in events'[d] <=> slot'[d][l] # Nobody
    BY <2>1, <2>2, <2>3
  <2>5. \A d \in Contexts : events'[d] \subseteq Bits
    BY <2>2 DEF Typed
  <2> QED
    BY <2>4, <2>5 DEF SlotForm
<1> QED
  BY <1>1, <1>2, <1>3, Kinds

(* A waiter that is taken out of its slot is in no other.                   *)
LEMMA WaiterStep ==
    ASSUME Typed, SlotForm, WaiterOnce, Next
    PROVE  WaiterOnce'
<1> USE FdEventsAssumption
<1>1. CASE Quiet
  BY <1>1 DEF Quiet, WaiterOnce, Parked
<1>2. ASSUME NEW c \in Contexts, NEW k \in Bits, NEW w \in Waiters, Added(c, k, w)
      PROVE  WaiterOnce'
  <2>1. \A d \in Contexts, l \in Bits :
            slot'[d][l] = IF d = c /\ l = k THEN w ELSE slot[d][l]
    BY <1>2 DEF Added, Typed
  <2> QED
    BY <1>2, <2>1 DEF Added, WaiterOnce, Parked
<1>3. ASSUME NEW c \in Contexts, NEW ks \in SUBSET Bits, Removed(c, ks)
      PROVE  WaiterOnce'
  <2>1. \A d \in Contexts, l \in Bits :
            slot'[d][l] = IF d = c /\ l \in ks THEN Nobody ELSE slot[d][l]
    BY <1>3 DEF Removed, Typed
  <2>2. ready' \subseteq ready \cup {slot[c][k] : k \in ks}
    BY <1>3 DEF Removed
  <2> QED
    BY <2>1, <2>2 DEF WaiterOnce, Parked
<1> QED
  BY <1>1, <1>2, <1>3, Kinds

(* There are finitely many slots.                                           *)
LEMMA FilledFinite == IsFiniteSet(Filled) /\ IsFiniteSet(Bits)
<1>1. IsFiniteSet(0..MaxGen)
  BY FS_Interval, FdEventsAssumption
<1>2. IsFiniteSet(Contexts)
  BY <1>1, FS_Product, FdEventsAssumption DEF Contexts
<1>3. IsFiniteSet(Bits)
  <2>1. IsFiniteSet({}) /\ Bits = ({} \cup {"READ"}) \cup {"WRITE"}
    BY FS_EmptySet DEF Bits
  <2> QED
    BY <2>1, FS_AddElement
<1>4. IsFiniteSet(Contexts \X Bits)
  BY <1>2, <1>3, FS_Product
<1> QED
  BY <1>3, <1>4, FS_Subset DEF Filled

(* The counter follows the slots: the slots that a step empties are as many *)
(* as the events it takes out.                                              *)
LEMMA CountStep ==
    ASSUME Typed, SlotForm, CountForm, Next
    PROVE  CountForm'
<1> USE FdEventsAssumption
<1>1. CASE Quiet
  BY <1>1 DEF Quiet, CountForm, Filled
<1>2. ASSUME NEW c \in Contexts, NEW k \in Bits, NEW w \in Waiters, Added(c, k, w)
      PROVE  CountForm'
  <2>1. \A d \in Contexts, l \in Bits :
            slot'[d][l] = IF d = c /\ l = k THEN w ELSE slot[d][l]
    BY <1>2 DEF Added, Typed
  <2>2. Filled' = Filled \cup {<<c, k>>} /\ <<c, k>> \notin Filled
    BY <1>2, <2>1 DEF Filled, Added
  <2>3. Cardinality(Filled') = Cardinality(Filled) + 1
    BY <2>2, FilledFinite, FS_AddElement
  <2> QED
    BY <1>2, <2>3 DEF Added, CountForm
<1>3. ASSUME NEW c \in Contexts, NEW ks \in SUBSET Bits, Removed(c, ks)
      PROVE  CountForm'
  <2> DEFINE Out == {<<c, k>> : k \in ks}
  <2>1. \A d \in Contexts, l \in Bits :
            slot'[d][l] = IF d = c /\ l \in ks THEN Nobody ELSE slot[d][l]
    BY <1>3 DEF Removed, Typed
  <2>2. Out \subseteq Filled
    BY <1>3 DEF Filled, Removed, SlotForm
  <2>3. Filled' = Filled \ Out
    BY <2>1 DEF Filled
  <2>4. IsFiniteSet(ks)
    BY FilledFinite, FS_Subset
  <2>5. Cardinality(Out) = Cardinality(ks)
    <3> DEFINE f == [k \in ks |-> <<c, k>>]
    <3>1. f \in Bijection(ks, Out)
      BY DEF Bijection, Injection, Surjection, IsInjective
    <3>2. ExistsBijection(ks, Out)
      BY <3>1 DEF ExistsBijection
    <3> HIDE DEF Out, f
    <3> QED
      BY <2>4, <3>2, FS_Bijection
  <2>6. Cardinality(Filled') = Cardinality(Filled) - Cardinality(Filled \cap Out)
    BY <2>3, FilledFinite, FS_Difference
  <2>7. Filled \cap Out = Out
    BY <2>2
  <2> QED
    BY <1>3, <2>5, <2>6, <2>7 DEF Removed, CountForm
<1> QED
  BY <1>1, <1>2, <1>3, Kinds

(* Until a resize shrinks the table every context in use is inside it.      *)
LEMMA TableStep ==
    ASSUME Typed, Registered, TableForm, Next
    PROVE  TableForm'
<1> USE FdEventsAssumption
<1>0. ASSUME size' = size, gen' = gen, \A c \in Contexts : events'[c] # {} => events[c] # {},
             \A t \in Threads : \/ pc'[t] \notin {"resize", "add"}
                                \/ pc'[t] = pc[t] /\ arg'[t] = arg[t]
      PROVE  TableForm'
  BY <1>0 DEF TableForm, Unshrunk, InTable
<1>1. ASSUME NEW t \in Threads, AddLookup(t)
      PROVE  TableForm'
  <2>1. PICK fd \in Fds, k \in Bits :
            /\ arg' = [arg EXCEPT ![t] = <<Current(fd), k>>]
            /\ Goto(t, IF InTable(fd) THEN "add" ELSE "resize")
    BY <1>1 DEF AddLookup
  <2>2. Current(fd)[1] = fd /\ fd \in Nat /\ size \in Nat
    BY CurrentType DEF Typed
  <2>3. /\ arg'[t][1][1] = fd /\ pc'[t] = IF InTable(fd) THEN "add" ELSE "resize"
        /\ \A u \in Threads \ {t} : arg'[u] = arg[u] /\ pc'[u] = pc[u]
        /\ UNCHANGED <<size, gen, events>>
    BY <1>1, <2>1, <2>2 DEF AddLookup, Goto, Typed
  <2> QED
    BY <2>2, <2>3 DEF TableForm, Unshrunk, InTable
<1>2. ASSUME NEW t \in Threads, AddResize(t)
      PROVE  TableForm'
  <2> DEFINE fd == arg[t][1][1]
             cut == {g \in Fds : NewSize(fd) <= g /\ g < size}
  <2>1. arg[t] \in Contexts \X Bits /\ fd \in Fds /\ fd \in Nat /\ fd > 1 /\ size \in Nat
    BY <1>2 DEF AddResize, Typed, Contexts, TableForm
  <2>2. NewSize(fd) \in Nat /\ NewSize(fd) > fd
    BY <2>1 DEF NewSize
  <2>3. size' = NewSize(fd) /\ events' = events
        /\ gen' = [g \in Fds |-> IF g \in cut THEN gen[g] + 1 ELSE gen[g]]
    BY <1>2 DEF AddResize
  <2>4. /\ arg'[t][1][1] = fd /\ pc'[t] = "add"
        /\ \A u \in Threads \ {t} : arg'[u] = arg[u] /\ pc'[u] = pc[u]
    BY <1>2, <2>1 DEF AddResize, Goto, Typed
  <2>5. ASSUME Unshrunk'
        PROVE  Unshrunk /\ cut = {}
    <3>1. \A g \in Fds : gen'[g] = 0 /\ gen[g] \in Nat
      BY <2>5 DEF Unshrunk, Typed
    <3>2. \A g \in Fds : g \notin cut /\ gen[g] = 0
      BY <2>3, <3>1
    <3> QED
      BY <3>2 DEF Unshrunk
  <2>6. ASSUME Unshrunk', NEW g \in Fds, size > g
        PROVE  size' > g
    <3>1. g \notin cut /\ g \in Nat
      BY <2>5, <2>6
    <3> QED
      BY <2>2, <2>3, <2>6, <3>1
  <2>7. \A c \in Contexts : c[1] \in Fds
    BY DEF Contexts
  <2>8. \A u \in Threads : pc[u] = "add" => arg[u][1] \in Contexts
    BY DEF Typed
  <2>9. size' > 1 /\ size' > fd
    BY <2>1, <2>2, <2>3
  <2>10. ASSUME Unshrunk', NEW c \in Contexts, events'[c] # {}
         PROVE  InTable(c[1])'
    BY <2>3, <2>5, <2>6, <2>7, <2>10 DEF TableForm, InTable
  <2>11. ASSUME Unshrunk', NEW u \in Threads, pc'[u] = "add"
         PROVE  size' > arg'[u][1][1]
    <3>1. CASE u = t
      BY <2>4, <2>9, <3>1
    <3>2. CASE u # t
      BY <2>4, <2>5, <2>6, <2>7, <2>8, <2>11, <3>2 DEF TableForm, InTable
    <3> QED
      BY <3>1, <3>2
  <2>12. \A u \in Threads : pc'[u] = "resize" => arg'[u][1][1] > 1
    BY <2>4 DEF TableForm
  <2> QED
    BY <2>9, <2>10, <2>11, <2>12 DEF TableForm, InTable
<1>3. ASSUME NEW t \in Threads, AddEvent(t)
      PROVE  TableForm'
  <2> DEFINE c == arg[t][1]
  <2>1. arg[t] \in Contexts \X Bits
    BY <1>3 DEF AddEvent, Typed
  <2>2. /\ pc[t] = "add" /\ pc'[t] = "run" /\ size' = size /\ gen' = gen
        /\ \A u \in Threads \ {t} : arg'[u] = arg[u] /\ pc'[u] = pc[u]
        /\ \A d \in Contexts : d # c => events'[d] = events[d]
    BY <1>3, <2>1 DEF AddEvent, Goto, Typed
  <2> QED
    BY <2>1, <2>2 DEF TableForm, Unshrunk, InTable
<1>4. ASSUME NEW t \in Threads,
             \/ DelEvent(t) \/ CancelEvent(t) \/ CancelAll(t) \/ Handle(t)
      PROVE  TableForm'
  <2>1. size' = size /\ gen' = gen /\ pc' = pc /\ arg' = arg
    BY <1>4 DEF DelEvent, CancelEvent, CancelAll, Handle
  <2>2. Quiet \/ \E c \in Contexts, ks \in SUBSET Bits : Removed(c, ks)
    BY RemovalKind, <1>4
  <2>3. \A c \in Contexts : events'[c] # {} => events[c] # {}
    BY <2>2 DEF Quiet, Removed, Typed
  <2> QED
    BY <1>0, <2>1, <2>3
<1>5. ASSUME NEW t \in Threads,
             \/ Resume(t) \/ AddEventFails(t) \/ EnterIdle(t)
             \/ EpollWait(t) \/ HandleAborts(t) \/ LeaveIdle(t)
      PROVE  TableForm'
  <2>1. size' = size /\ gen' = gen /\ events' = events
    BY <1>5 DEF Resume, AddEventFails, EnterIdle, EpollWait, HandleAborts, LeaveIdle
  <2>2. \A u \in Threads : \/ pc'[u] \notin {"resize", "add"}
                           \/ pc'[u] = pc[u] /\ arg'[u] = arg[u]
    BY <1>5 DEF Resume, AddEventFails, EnterIdle, EpollWait, HandleAborts, LeaveIdle, Goto, Typed
  <2> QED
    BY <1>0, <2>1, <2>2
<1>6. ASSUME NEW fd \in Fds, NEW k \in Conditions, Arise(fd, k) \/ Consume(fd, k)
      PROVE  TableForm'
  BY <1>0, <1>6 DEF Arise, Consume
<1>7. CASE UNCHANGED vars
  BY <1>0, <1>7 DEF vars
<1> QED
  BY <1>1, <1>2, <1>3, <1>4, <1>5, <1>6, <1>7 DEF Next, Task, Proceed

-----------------------------------------------------------------------------
(* Every action keeps the types.                                            *)
LEMMA TypedStep ==
    ASSUME Typed, SlotForm, Next
    PROVE  Typed'
<1> USE FdEventsAssumption
<1>0. ASSUME NEW fd \in Fds, NEW c \in Contexts, NEW i \in SUBSET Bits, EpollCtl(fd, i, c)
      PROVE  /\ interest' \in [Fds -> SUBSET Bits] /\ ptr' \in [Fds -> Contexts]
             /\ edge' \subseteq Fds /\ level' \in [Fds -> SUBSET Conditions]
  BY <1>0 DEF EpollCtl, Typed
<1>1. ASSUME NEW t \in Threads, AddLookup(t)
      PROVE  Typed'
  <2>1. PICK fd \in Fds, k \in Bits :
            /\ arg' = [arg EXCEPT ![t] = <<Current(fd), k>>]
            /\ Goto(t, IF InTable(fd) THEN "add" ELSE "resize")
    BY <1>1 DEF AddLookup
  <2>2. <<Current(fd), k>> \in Contexts \X Bits
    BY CurrentType
  <2>3. /\ arg' \in [Threads -> {NoArg} \cup (Contexts \X Bits)]
        /\ pc' \in [Threads -> {"run", "resize", "add", "wait", "handle"}]
        /\ arg'[t] \in Contexts \X Bits
        /\ \A u \in Threads \ {t} : arg'[u] = arg[u] /\ pc'[u] = pc[u]
    BY <2>1, <2>2 DEF Goto, Typed
  <2> QED
    BY <1>1, <2>3 DEF AddLookup, kernel, Typed
<1>2. ASSUME NEW t \in Threads, AddResize(t)
      PROVE  Typed'
  <2> DEFINE fd == arg[t][1][1]
             cut == {g \in Fds : NewSize(fd) <= g /\ g < size}
  <2>1. arg[t] \in Contexts \X Bits /\ fd \in Fds /\ fd \in Nat
    BY <1>2 DEF AddResize, Typed, Contexts
  <2>2. size' \in Nat
    BY <1>2, <2>1 DEF AddResize, NewSize
  <2>3. gen' \in [Fds -> 0..MaxGen]
    <3>1. \A g \in Fds : (IF g \in cut THEN gen[g] + 1 ELSE gen[g]) \in 0..MaxGen
      BY <1>2 DEF AddResize, Typed
    <3> QED
      BY <1>2, <3>1 DEF AddResize
  <2>4. <<<<fd, gen[fd]>>, arg[t][2]>> \in Contexts \X Bits
    BY <2>1 DEF Typed, Contexts
  <2>5. /\ arg' \in [Threads -> {NoArg} \cup (Contexts \X Bits)]
        /\ pc' \in [Threads -> {"run", "resize", "add", "wait", "handle"}]
        /\ arg'[t] \in Contexts \X Bits
        /\ \A u \in Threads \ {t} : arg'[u] = arg[u] /\ pc'[u] = pc[u]
    BY <1>2, <2>4 DEF AddResize, Goto, Typed
  <2> QED
    BY <1>2, <2>2, <2>3, <2>5 DEF AddResize, kernel, Typed
<1>3. ASSUME NEW t \in Threads, AddEvent(t)
      PROVE  Typed'
  <2> DEFINE c == arg[t][1]
             k == arg[t][2]
  <2>1. c \in Contexts /\ k \in Bits /\ c[1] \in Fds
    BY <1>3 DEF AddEvent, Typed, Contexts
  <2>2. events' \in [Contexts -> SUBSET Bits]
    BY <1>3, <2>1 DEF AddEvent, Typed
  <2>3. PICK w \in Waiters : slot' = [slot EXCEPT ![c][k] = w]
    BY <1>3 DEF AddEvent
  <2>4. slot' \in [Contexts -> [Bits -> Waiters \cup {Nobody}]]
    BY <2>1, <2>3 DEF Typed
  <2>5. events[c] \cup {k} \in SUBSET Bits
    BY <2>1 DEF Typed
  <2>6. /\ interest' \in [Fds -> SUBSET Bits] /\ ptr' \in [Fds -> Contexts]
        /\ edge' \subseteq Fds /\ level' \in [Fds -> SUBSET Conditions]
    BY <1>0, <1>3, <2>1, <2>5 DEF AddEvent
  <2>7. /\ arg' \in [Threads -> {NoArg} \cup (Contexts \X Bits)]
        /\ pc' \in [Threads -> {"run", "resize", "add", "wait", "handle"}]
        /\ pc'[t] = "run"
        /\ \A u \in Threads \ {t} : arg'[u] = arg[u] /\ pc'[u] = pc[u]
    BY <1>3 DEF AddEvent, Goto, Typed
  <2> QED
    BY <1>3, <2>2, <2>4, <2>6, <2>7 DEF AddEvent, Typed
<1>4. ASSUME NEW c \in Contexts, NEW ks \in SUBSET Bits, Unregister(c, ks)
      PROVE  /\ events' \in [Contexts -> SUBSET Bits]
             /\ slot' \in [Contexts -> [Bits -> Waiters \cup {Nobody}]]
             /\ interest' \in [Fds -> SUBSET Bits] /\ ptr' \in [Fds -> Contexts]
             /\ edge' \subseteq Fds /\ level' \in [Fds -> SUBSET Conditions]
  <2>1. c[1] \in Fds /\ events[c] \ ks \in SUBSET Bits
    BY DEF Contexts, Typed
  <2>2. EpollCtl(c[1], events[c] \ ks, c)
    BY <1>4 DEF Unregister
  <2>3. [k \in Bits |-> IF k \in ks THEN Nobody ELSE slot[c][k]] \in [Bits -> Waiters \cup {Nobody}]
    BY DEF Typed
  <2>4. /\ events' = [events EXCEPT ![c] = events[c] \ ks]
        /\ slot' = [slot EXCEPT ![c] = [k \in Bits |-> IF k \in ks THEN Nobody ELSE slot[c][k]]]
    BY <1>4 DEF Unregister, Typed
  <2>5. /\ events' \in [Contexts -> SUBSET Bits]
        /\ slot' \in [Contexts -> [Bits -> Waiters \cup {Nobody}]]
    BY <2>1, <2>3, <2>4 DEF Typed
  <2>6. /\ interest' \in [Fds -> SUBSET Bits] /\ ptr' \in [Fds -> Contexts]
        /\ edge' \subseteq Fds /\ level' \in [Fds -> SUBSET Conditions]
    BY <1>0, <2>1, <2>2
  <2> QED
    BY <2>5, <2>6
<1>5. ASSUME NEW c \in Contexts, NEW ks \in SUBSET events[c], Trigger(c, ks)
      PROVE  ready' \subseteq Waiters
  <2>1. \A k \in ks : slot[c][k] \in Waiters
    BY DEF SlotForm, Typed
  <2> QED
    BY <1>5, <2>1 DEF Trigger, Typed
<1>6. ASSUME NEW t \in Threads, DelEvent(t)
      PROVE  Typed'
  <2>1. PICK fd \in Fds, k \in Bits : Unregister(Current(fd), {k})
    BY <1>6 DEF DelEvent
  <2>2. {k} \in SUBSET Bits /\ Current(fd) \in Contexts
    BY CurrentType
  <2> QED
    BY <1>4, <1>6, <2>1, <2>2 DEF DelEvent, Typed
<1>7. ASSUME NEW t \in Threads, CancelEvent(t)
      PROVE  Typed'
  <2>1. PICK fd \in Fds, k \in Bits : k \in events[Current(fd)] /\ Trigger(Current(fd), {k})
    BY <1>7 DEF CancelEvent
  <2>2. {k} \in SUBSET Bits /\ {k} \in SUBSET events[Current(fd)] /\ Current(fd) \in Contexts
    BY <2>1, CurrentType
  <2>3. ready' \subseteq Waiters
    BY <1>5, <2>1, <2>2
  <2> QED
    BY <1>4, <1>7, <2>1, <2>2, <2>3 DEF CancelEvent, Trigger, Typed
<1>8. ASSUME NEW t \in Threads, CancelAll(t)
      PROVE  Typed'
  <2>1. PICK fd \in Fds : Trigger(Current(fd), events[Current(fd)])
    BY <1>8 DEF CancelAll
  <2>2. Current(fd) \in Contexts /\ events[Current(fd)] \in SUBSET Bits
    BY CurrentType DEF Typed
  <2>3. ready' \subseteq Waiters
    BY <1>5, <2>1, <2>2
  <2> QED
    BY <1>4, <1>8, <2>1, <2>2, <2>3 DEF CancelAll, Trigger, Typed
<1>9. ASSUME NEW t \in Threads, Handle(t)
      PROVE  Typed'
  <2>1. PICK e \in got[t] :
            /\ got' = [got EXCEPT ![t] = @ \ {e}]
            /\ \/ UNCHANGED <<events, slot, ready, pending, kernel>>
               \/ /\ RealEvents(e.revents) \subseteq events[e.ctx]
                  /\ Trigger(e.ctx, RealEvents(e.revents))
    BY <1>9 DEF Handle
  <2>2. got' \in [Threads -> SUBSET [ctx : Contexts, revents : SUBSET Conditions]]
    BY <2>1 DEF Typed
  <2>3. UNCHANGED <<size, gen, pc, arg, aborted>>
    BY <1>9 DEF Handle
  <2>4. CASE UNCHANGED <<events, slot, ready, pending, kernel>>
    BY <2>2, <2>3, <2>4 DEF kernel, Typed
  <2>5. CASE /\ RealEvents(e.revents) \subseteq events[e.ctx]
             /\ Trigger(e.ctx, RealEvents(e.revents))
    <3>1. e.ctx \in Contexts
      BY DEF Typed
    <3>2. RealEvents(e.revents) \in SUBSET events[e.ctx] /\ RealEvents(e.revents) \in SUBSET Bits
      BY <2>5, <3>1 DEF Typed
    <3>3. ready' \subseteq Waiters
      BY <1>5, <2>5, <3>1, <3>2
    <3>4. Unregister(e.ctx, RealEvents(e.revents))
      BY <2>5 DEF Trigger
    <3> QED
      BY <1>4, <2>2, <2>3, <3>1, <3>2, <3>3, <3>4 DEF Typed
  <2> QED
    BY <2>1, <2>4, <2>5
<1>10. ASSUME NEW t \in Threads, EpollWait(t)
       PROVE  Typed'
  <2> DEFINE fresh == {[ctx |-> ptr[fd], revents |-> Reported(fd, interest[fd])] :
                        fd \in {f \in edge : Reported(f, interest[f]) # {}}}
  <2>1. \A fd \in edge : /\ ptr[fd] \in Contexts
                         /\ Reported(fd, interest[fd]) \in SUBSET Conditions
    BY DEF Typed, Reported
  <2>2. fresh \in SUBSET [ctx : Contexts, revents : SUBSET Conditions]
    BY <2>1
  <2>3. got' = [got EXCEPT ![t] = fresh]
    BY <1>10 DEF EpollWait
  <2> HIDE DEF fresh
  <2>4. got' \in [Threads -> SUBSET [ctx : Contexts, revents : SUBSET Conditions]]
    BY <2>2, <2>3 DEF Typed
  <2> QED
    BY <1>10, <2>4 DEF EpollWait, Goto, Typed
<1>11. ASSUME NEW t \in Threads,
              Resume(t) \/ AddEventFails(t) \/ EnterIdle(t) \/ HandleAborts(t) \/ LeaveIdle(t)
       PROVE  Typed'
  <2>1. CASE Resume(t)
    BY <2>1 DEF Resume, kernel, Typed
  <2>2. CASE HandleAborts(t)
    BY <2>2 DEF HandleAborts, kernel, Typed
  <2>3. CASE AddEventFails(t) \/ EnterIdle(t) \/ LeaveIdle(t)
    <3>1. /\ arg' \in [Threads -> {NoArg} \cup (Contexts \X Bits)]
          /\ pc' \in [Threads -> {"run", "resize", "add", "wait", "handle"}]
          /\ pc'[t] \in {"run", "wait"}
          /\ \A u \in Threads \ {t} : arg'[u] = arg[u] /\ pc'[u] = pc[u]
      BY <2>3 DEF AddEventFails, EnterIdle, LeaveIdle, Goto, Typed
    <3> QED
      BY <2>3, <3>1 DEF AddEventFails, EnterIdle, LeaveIdle, kernel, Typed
  <2> QED
    BY <1>11, <2>1, <2>2, <2>3
<1>12. ASSUME NEW fd \in Fds, NEW k \in Conditions, Arise(fd, k) \/ Consume(fd, k)
       PROVE  Typed'
  <2>1. level' \in [Fds -> SUBSET Conditions] /\ edge' \subseteq Fds
    <3>1. level[fd] \cup {k} \in SUBSET Conditions /\ level[fd] \ {k} \in SUBSET Conditions
      BY DEF Typed
    <3>2. \/ level' = [level EXCEPT ![fd] = level[fd] \cup {k}]
          \/ level' = [level EXCEPT ![fd] = level[fd] \ {k}]
      BY <1>12 DEF Arise, Consume, Typed
    <3>3. level' \in [Fds -> SUBSET Conditions]
      BY <3>1, <3>2 DEF Typed
    <3>4. edge' = edge \cup {fd} \/ edge' = edge
      BY <1>12 DEF Arise, Consume
    <3> QED
      BY <3>3, <3>4 DEF Typed
  <2>2. UNCHANGED <<size, gen, events, slot, ready, interest, ptr, pc, got, arg, aborted>>
    BY <1>12 DEF Arise, Consume
  <2> QED
    BY <2>1, <2>2 DEF Typed
<1>13. CASE UNCHANGED vars
  BY <1>13 DEF vars, kernel, Typed
<1> QED
  BY <1>1, <1>2, <1>3, <1>6, <1>7, <1>8, <1>9, <1>10, <1>11, <1>12, <1>13
     DEF Next, Task, Proceed

-----------------------------------------------------------------------------
(* The invariant holds at the start: nothing is registered.                 *)
LEMMA FdInit ==
    ASSUME Init
    PROVE  FdInv
<1> USE FdEventsAssumption
<1>1. Typed
  <2>1. \A fd \in Fds : <<fd, 0>> \in Contexts
    BY DEF Contexts
  <2>2. /\ gen \in [Fds -> 0..MaxGen] /\ ptr \in [Fds -> Contexts] /\ size \in Nat
        /\ arg \in [Threads -> {NoArg} \cup (Contexts \X Bits)]
    BY <2>1 DEF Init
  <2>3. /\ \A t \in Threads : pc[t] = "run"
        /\ pc \in [Threads -> {"run", "resize", "add", "wait", "handle"}]
    BY DEF Init
  <2> QED
    BY <2>2, <2>3 DEF Init, Typed
<1>2. Registered /\ SlotForm /\ WaiterOnce
  BY DEF Init, Registered, SlotForm, WaiterOnce, Parked
<1>3. CountForm
  <2>1. Filled = {}
    BY DEF Init, Filled
  <2> QED
    BY <2>1, FS_EmptySet DEF Init, CountForm
<1>4. TableForm
  BY DEF Init, TableForm
<1> QED
  BY <1>1, <1>2, <1>3, <1>4 DEF FdInv

(* Every step keeps it.                                                     *)
LEMMA FdStep ==
    ASSUME FdInv, [Next]_vars
    PROVE  FdInv'
<1>1. CASE Next
  BY <1>1, TypedStep, RegisteredStep, SlotStep, WaiterStep, CountStep, TableStep DEF FdInv
<1>2. CASE UNCHANGED vars
  <2>1. Typed'
    BY <1>2 DEF FdInv, vars, kernel, Typed
  <2>2. Registered' /\ SlotForm' /\ WaiterOnce'
    BY <1>2 DEF FdInv, vars, kernel, Registered, SlotForm, WaiterOnce, Parked
  <2>3. CountForm' /\ TableForm'
    BY <1>2 DEF FdInv, vars, kernel, CountForm, Filled, TableForm, Unshrunk, InTable
  <2> QED
    BY <2>1, <2>2, <2>3 DEF FdInv
<1> QED
  BY <1>1, <1>2

(* So it holds always.                                                      *)
LEMMA FdInvariance == Spec => []FdInv
BY FdInit, FdStep, PTL DEF Spec

(* The state keeps its types in every behaviour; in particular              *)
(* m_pendingEventCount, a size_t that delEvent, cancelEvent, cancelAll and  *)
(* triggerEvent decrement, never drops below zero.                          *)
THEOREM TypeCorrect == Spec => []TypeOK
<1>1. ASSUME FdInv
      PROVE  TypeOK
  <2>1. pending \in Nat
    BY <1>1, FilledFinite, FS_CardinalityType DEF FdInv, CountForm
  <2> QED
    BY <1>1, <2>1 DEF FdInv, Typed, TypeOK
<1> QED
  BY <1>1, FdInvariance, PTL

(* In every interleaving of addEvent, the cancelling operations and the     *)
(* handling of edges, m_pendingEventCount is the number of waiters in the   *)
(* contexts, those that a resize has cut off included, and a slot is filled *)
(* exactly while its bit is set.                                            *)
THEOREM PendingIsExact == Spec => []PendingExact
<1>1. ASSUME FdInv
      PROVE  PendingExact
  BY <1>1 DEF FdInv, CountForm, Filled, SlotForm, PendingExact
<1> QED
  BY <1>1, FdInvariance, PTL

(* A waiter is registered once, or on its way to the scheduler, never both: *)
(* triggerEvent on one thread and cancelEvent on another cannot schedule it *)
(* twice.                                                                   *)
THEOREM WaiterIsOnce == Spec => []WaiterOnce
<1>1. FdInv => WaiterOnce
  BY DEF FdInv
<1> QED
  BY <1>1, FdInvariance, PTL

(* What a context has registered is what the kernel watches on its behalf,  *)
(* also when contextResize has replaced it in the table; and the table      *)
(* still leads to it unless two concurrent resizes have shrunk it.          *)
THEOREM RegisteredIsReachable == Spec => []Reachable
<1>1. ASSUME FdInv
      PROVE  Reachable
  BY <1>1 DEF FdInv, Registered, TableForm, Unshrunk, Reachable
<1> QED
  BY <1>1, FdInvariance, PTL
=============================================================================
