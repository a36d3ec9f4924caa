------------------------------ MODULE FdEvents ------------------------------
(***************************************************************************)
(* The event half of IOManager (iomanager.h, iomanager.cpp): the table of   *)
(* FdContexts, addEvent, delEvent, cancelEvent, cancelAll, and the part of  *)
(* idle() that takes edges from epoll_wait and triggers the registered      *)
(* events.  Each pool thread either runs a task, which may call these       *)
(* operations, or is in idle().  What is done under an fd_ctx->mutex is one *)
(* step.  That triggerEvent schedules the waiter before m_pendingEventCount *)
(* drops can only be seen by stopping(), which reads the counter without a  *)
(* lock: module IOManager has both and takes them apart.  The kernel's epoll instance is external: edge triggered, it       *)
(* reports an fd when a condition arises or when the registration is added  *)
(* or modified while the condition holds.                                   *)
(***************************************************************************)
EXTENDS Naturals, FiniteSets

CONSTANTS
    Threads,    \* the threads of the pool
    Fds,        \* file descriptors: numbers, the table is indexed by them
    Watched,    \* the events tasks register: pairs of an fd and READ or WRITE
    Waiters,    \* the fibers and callbacks that wait for events
    Nobody,     \* an empty EventContext
    Hups,       \* fds whose peer may hang up (EPOLLHUP, EPOLLERR)
    InitSize,   \* the size of m_fdContexts after the constructor
    MaxGen      \* bound: how often a context of an fd is replaced

ASSUME FdEventsAssumption ==
    /\ Fds \subseteq Nat /\ IsFiniteSet(Fds) /\ MaxGen \in Nat
    /\ InitSize \in Nat /\ InitSize > 1    \* 32 in the constructor
    /\ Nobody \notin Waiters
    /\ Watched \subseteq Fds \X {"READ", "WRITE"} /\ Hups \subseteq Fds

Contexts == Fds \X (0..MaxGen)    \* FdContext objects: fd and generation

VARIABLES
    size,       \* m_fdContexts.size()
    gen,        \* the generation m_fdContexts[fd] points to
    events,     \* FdContext::events
    slot,       \* FdContext::read and write: the waiter they hold
    ready,      \* the waiters handed to the scheduler, not yet resumed
    pending,    \* m_pendingEventCount
    level,      \* kernel: the conditions that hold on an fd
    interest,   \* kernel: the registered events; {} when not registered
    ptr,        \* kernel: event.data.ptr of the registration
    edge,       \* kernel: the fds on the ready list
    pc, got,    \* where each thread is; the epoll_events it has to handle
    arg,        \* the fd and event of the addEvent it is in
    aborted     \* the assertion of triggerEvent has failed

kernel == <<level, interest, ptr, edge>>
vars == <<size, gen, events, slot, ready, pending, kernel, pc, got, arg, aborted>>

Conditions == {"READ", "WRITE", "HUP"}
NoArg == <<>>
Bits == {"READ", "WRITE"}
Parked(w) == \E c \in Contexts, k \in Bits : slot[c][k] = w

TypeOK ==
    /\ size \in Nat /\ pending \in Nat
    /\ gen \in [Fds -> 0..MaxGen]
    /\ events \in [Contexts -> SUBSET Bits]
    /\ slot \in [Contexts -> [Bits -> Waiters \cup {Nobody}]]
    /\ ready \subseteq Waiters
    /\ level \in [Fds -> SUBSET Conditions]
    /\ interest \in [Fds -> SUBSET Bits]
    /\ ptr \in [Fds -> Contexts]
    /\ edge \subseteq Fds
    /\ pc \in [Threads -> {"run", "resize", "add", "wait", "handle"}]
    /\ got \in [Threads -> SUBSET [ctx : Contexts, revents : SUBSET Conditions]]
    /\ aborted \in BOOLEAN
    /\ \A t \in Threads : arg[t] = NoArg \/ arg[t] \in Contexts \X Bits

Init ==
    /\ size = InitSize /\ pending = 0
    /\ gen = [fd \in Fds |-> 0]
    /\ events = [c \in Contexts |-> {}]
    /\ slot = [c \in Contexts |-> [k \in Bits |-> Nobody]]
    /\ ready = {}
    /\ level = [fd \in Fds |-> {}]
    /\ interest = [fd \in Fds |-> {}]
    /\ ptr = [fd \in Fds |-> <<fd, 0>>]
    /\ edge = {}
    /\ pc = [t \in Threads |-> "run"]
    /\ got = [t \in Threads |-> {}]
    /\ arg = [t \in Threads |-> NoArg]
    /\ aborted = FALSE

Current(fd) == <<fd, gen[fd]>>
InTable(fd) == size > fd
Goto(t, label) == pc' = [pc EXCEPT ![t] = label]

-----------------------------------------------------------------------------
(* The kernel.                                                              *)

Reported(fd, i) == level[fd] \cap (i \cup {"HUP"})

(* Mutant: EPOLL_CTL_DEL whatever is asked for.                             *)
MutEpollCtl(fd, i, c) ==
    /\ interest' = [interest EXCEPT ![fd] = {}]
    /\ edge' = edge \ {fd}
    /\ UNCHANGED <<level, ptr>>

(* epoll_ctl: register i for fd; a condition that already holds is an edge. *)
EpollCtl(fd, i, c) ==
    /\ interest' = [interest EXCEPT ![fd] = i]
    /\ ptr' = [ptr EXCEPT ![fd] = c]
    /\ edge' = IF i # {} /\ Reported(fd, i) # {} THEN edge \cup {fd} ELSE edge \ {fd}
    /\ UNCHANGED level

(* A condition arises; those that nobody can watch are not tracked.         *)
Arise(fd, k) ==
    /\ k \notin level[fd]
    /\ IF k = "HUP" THEN fd \in Hups ELSE <<fd, k>> \in Watched
    /\ level' = [level EXCEPT ![fd] = @ \cup {k}]
    /\ edge' = IF interest[fd] # {} /\ k \in interest[fd] \cup {"HUP"}
               THEN edge \cup {fd} ELSE edge
    /\ UNCHANGED <<size, gen, events, slot, ready, pending, interest, ptr, pc, got, arg, aborted>>

(* A task has read the data or filled the buffer.                           *)
Consume(fd, k) ==
    /\ k \in level[fd] \ {"HUP"}
    /\ level' = [level EXCEPT ![fd] = @ \ {k}]
    /\ UNCHANGED <<size, gen, events, slot, ready, pending, interest, ptr, edge, pc, got, arg, aborted>>

-----------------------------------------------------------------------------
(* addEvent.  The table is looked up under the read lock; a table that is   *)
(* too short is resized after that lock was released.  Two tasks never wait *)
(* for the same event of an fd: addEvent would abort.                       *)
AddLookup(t) ==
    /\ pc[t] = "run"
    /\ \E fd \in Fds, k \in Bits :
        /\ <<fd, k>> \in Watched
        /\ \A g \in 0..MaxGen : k \notin events[<<fd, g>>]
        /\ \A u \in Threads : arg[u] # NoArg => <<fd, k>> # <<arg[u][1][1], arg[u][2]>>
        /\ arg' = [arg EXCEPT ![t] = <<Current(fd), k>>]
        /\ Goto(t, IF InTable(fd) THEN "add" ELSE "resize")
    /\ UNCHANGED <<size, gen, events, slot, ready, pending, kernel, got, aborted>>

MutNewSize(fd) == fd    \* mutant: no room for fd itself
NewSize(fd) == (3 * fd) \div 2

(* contextResize(fd * 1.5) does not look at the size again.  When it        *)
(* shrinks the table the contexts behind its end are gone for good, and the *)
(* next one that grows it puts fresh ones there.                            *)
AddResize(t) ==
    LET fd == arg[t][1][1]
        new == NewSize(fd)
        cut == {g \in Fds : new <= g /\ g < size}
    IN
    /\ pc[t] = "resize"
    /\ \A g \in cut : gen[g] < MaxGen
    /\ size' = new
    /\ gen' = [g \in Fds |-> IF g \in cut THEN gen[g] + 1 ELSE gen[g]]
    /\ arg' = [arg EXCEPT ![t] = <<<<fd, gen[fd]>>, arg[t][2]>>]
    /\ Goto(t, "add")
    /\ UNCHANGED <<events, slot, ready, pending, kernel, got, aborted>>

(* EPOLL_CTL_ADD when the context has no event yet, EPOLL_CTL_MOD otherwise;*)
(* the kernel refuses an ADD of what it has and a MOD of what it has not.   *)
CtlAccepted(fd, c) == (events[c] = {}) = (interest[fd] = {})

AddEvent(t) ==
    LET c == arg[t][1]
        k == arg[t][2]
    IN
    /\ pc[t] = "add" /\ k \notin events[c] /\ slot[c][k] = Nobody
    /\ CtlAccepted(c[1], c)
    /\ EpollCtl(c[1], events[c] \cup {k}, c)
    /\ pending' = pending + 1
    /\ events' = [events EXCEPT ![c] = @ \cup {k}]
    /\ \E w \in Waiters \ ready : ~Parked(w) /\ slot' = [slot EXCEPT ![c][k] = w]
    /\ arg' = [arg EXCEPT ![t] = NoArg]
    /\ Goto(t, "run")
    /\ UNCHANGED <<size, gen, ready, got, aborted>>

(* epoll_ctl fails (as above, or because the file cannot be polled):        *)
(* addEvent returns -1 and has changed nothing.                             *)
AddEventFails(t) ==
    /\ pc[t] = "add"
    /\ arg' = [arg EXCEPT ![t] = NoArg]
    /\ Goto(t, "run")
    /\ UNCHANGED <<size, gen, events, slot, ready, pending, kernel, got, aborted>>

-----------------------------------------------------------------------------
(* The operations that end a registration.                                  *)

(* Mutants: the EventContext is not reset, or the count drops twice.        *)
MutKeepsSlot(c, ks) ==
    /\ EpollCtl(c[1], events[c] \ ks, c)
    /\ events' = [events EXCEPT ![c] = @ \ ks]
    /\ pending' = pending - Cardinality(ks)
    /\ UNCHANGED slot
MutCountsTwice(c, ks) ==
    /\ EpollCtl(c[1], events[c] \ ks, c)
    /\ events' = [events EXCEPT ![c] = @ \ ks]
    /\ slot' = [slot EXCEPT ![c] = [k \in Bits |-> IF k \in ks THEN Nobody ELSE @[k]]]
    /\ pending' = pending - 2 * Cardinality(ks)

(* EPOLL_CTL_MOD and EPOLL_CTL_DEL fail for an fd that the kernel does not  *)
(* have; the operation then logs the error and leaves everything as it was. *)
CtlRefused(fd) == interest[fd] = {}

(* Take the events ks out of c: epoll_ctl(MOD or DEL), clear the bits and   *)
(* the slots, and decrement the counter once for each.                      *)
Unregister(c, ks) ==
    /\ EpollCtl(c[1], events[c] \ ks, c)
    /\ events' = [events EXCEPT ![c] = @ \ ks]
    /\ slot' = [slot EXCEPT ![c] = [k \in Bits |-> IF k \in ks THEN Nobody ELSE @[k]]]
    /\ pending' = pending - Cardinality(ks)

(* triggerEvent for each of ks: the waiters go to the scheduler.            *)
Trigger(c, ks) ==
    /\ Unregister(c, ks)
    /\ ready' = ready \cup {slot[c][k] : k \in ks}

(* delEvent forgets the waiter.                                             *)
DelEvent(t) ==
    /\ pc[t] = "run"
    /\ \E fd \in Fds, k \in Bits :
        /\ <<fd, k>> \in Watched /\ InTable(fd)
        /\ k \in events[Current(fd)] /\ ~CtlRefused(fd)
        /\ Unregister(Current(fd), {k})
    /\ UNCHANGED <<size, gen, ready, pc, got, arg, aborted>>

CancelEvent(t) ==
    /\ pc[t] = "run"
    /\ \E fd \in Fds, k \in Bits :
        /\ <<fd, k>> \in Watched /\ InTable(fd)
        /\ k \in events[Current(fd)] /\ ~CtlRefused(fd)
        /\ Trigger(Current(fd), {k})
    /\ UNCHANGED <<size, gen, pc, got, arg, aborted>>

CancelAll(t) ==
    /\ pc[t] = "run"
    /\ \E fd \in Fds :
        /\ InTable(fd) /\ events[Current(fd)] # {} /\ ~CtlRefused(fd)
        /\ Trigger(Current(fd), events[Current(fd)])
    /\ UNCHANGED <<size, gen, pc, got, arg, aborted>>

-----------------------------------------------------------------------------
(* idle().                                                                  *)

EnterIdle(t) ==
    /\ pc[t] = "run"
    /\ Goto(t, "wait")
    /\ UNCHANGED <<size, gen, events, slot, ready, pending, kernel, got, arg, aborted>>

(* epoll_wait returns what is on the ready list; without edges it returns   *)
(* for a timeout or for a byte in the tickle pipe.                          *)
EpollWait(t) ==
    /\ pc[t] = "wait"
    /\ got' = [got EXCEPT ![t] = {[ctx |-> ptr[fd], revents |-> Reported(fd, interest[fd])] :
                  fd \in {f \in edge : Reported(f, interest[f]) # {}}}]
    /\ edge' = {}
    /\ Goto(t, "handle")
    /\ UNCHANGED <<size, gen, events, slot, ready, pending, level, interest, ptr, arg, aborted>>

(* An error or hang-up wakes readers and writers.                           *)
RealEvents(revents) ==
    IF "HUP" \in revents THEN Bits ELSE revents

(* The body of the loop over the events, for one event.  An event nobody    *)
(* waits for is skipped, and so is one for which epoll_ctl fails: the edge  *)
(* is then gone and the events stay in the context.  triggerEvent asserts   *)
(* that each of the events is registered.                                   *)
Handle(t) ==
    /\ pc[t] = "handle"
    /\ \E e \in got[t] :
        LET c == e.ctx
            real == RealEvents(e.revents)
        IN
        /\ got' = [got EXCEPT ![t] = @ \ {e}]
        /\ \/ /\ events[c] \cap real = {} \/ CtlRefused(c[1])
              /\ UNCHANGED <<events, slot, ready, pending, kernel>>
           \/ /\ events[c] \cap real # {} /\ ~CtlRefused(c[1])
              /\ real \subseteq events[c]
              /\ Trigger(c, real)
    /\ UNCHANGED <<size, gen, pc, arg, aborted>>

(* The assertion of triggerEvent fails and the process is gone.             *)
HandleAborts(t) ==
    /\ pc[t] = "handle"
    /\ \E e \in got[t] :
        LET real == RealEvents(e.revents) IN
        /\ events[e.ctx] \cap real # {} /\ ~CtlRefused(e.ctx[1])
        /\ ~(real \subseteq events[e.ctx])
    /\ aborted' = TRUE
    /\ UNCHANGED <<size, gen, events, slot, ready, pending, kernel, pc, got, arg>>

LeaveIdle(t) ==
    /\ pc[t] = "handle" /\ got[t] = {}
    /\ Goto(t, "run")
    /\ UNCHANGED <<size, gen, events, slot, ready, pending, kernel, got, arg, aborted>>

(* The scheduler runs a waiter that was handed to it.                       *)
Resume(t) ==
    /\ pc[t] = "run"
    /\ \E w \in ready : ready' = ready \ {w}
    /\ UNCHANGED <<size, gen, events, slot, pending, kernel, pc, got, arg, aborted>>

-----------------------------------------------------------------------------
Task(t) == AddLookup(t) \/ DelEvent(t) \/ CancelEvent(t) \/ CancelAll(t) \/ Resume(t)
Proceed(t) ==
    \/ AddResize(t) \/ AddEvent(t) \/ AddEventFails(t) \/ EnterIdle(t)
    \/ EpollWait(t) \/ Handle(t) \/ HandleAborts(t) \/ LeaveIdle(t)

Next ==
    \/ /\ ~aborted
       /\ \/ \E t \in Threads : Task(t) \/ Proceed(t)
          \/ \E fd \in Fds, k \in Conditions : Arise(fd, k) \/ Consume(fd, k)
    \/ aborted /\ UNCHANGED vars

Spec == Init /\ [][Next]_vars

(* Threads run, tasks come to an end, and epoll_wait returns what is ready. *)
FairSpec ==
    /\ Spec
    /\ \A t \in Threads : /\ WF_vars(~aborted /\ Proceed(t))
                          /\ SF_vars(~aborted /\ EnterIdle(t))

-----------------------------------------------------------------------------
(* Properties.                                                              *)

(* The assertion of triggerEvent: every event idle() triggers for the fd it *)
(* handles is registered when it gets there.                                *)
AssertTrigger ==
    \A t \in Threads : \A e \in got[t] :
        LET real == RealEvents(e.revents) IN
        pc[t] = "handle" /\ events[e.ctx] \cap real # {} => real \subseteq events[e.ctx]

(* m_pendingEventCount, which keeps the loop from stopping, is the number   *)
(* of waiters in the contexts, and a waiter sits in a slot exactly while    *)
(* its bit is set (the assertion of addEvent).                              *)
PendingExact ==
    /\ pending = Cardinality({p \in Contexts \X Bits : slot[p[1]][p[2]] # Nobody})
    /\ \A c \in Contexts : events[c] = {k \in Bits : slot[c][k] # Nobody}

(* A waiter is in one place: registered once, or handed to the scheduler,   *)
(* never both, so it is resumed once for each registration.                 *)
WaiterOnce ==
    \A w \in Waiters :
        /\ Parked(w) => w \notin ready
        /\ \A c, d \in Contexts : \A k, l \in Bits :
            slot[c][k] = w /\ slot[d][l] = w => c = d /\ k = l

(* What is registered is what the kernel watches, on behalf of the context  *)
(* that holds the fibers; and, unless two concurrent resizes have shrunk    *)
(* the table, the table still leads to that context, so that the event can  *)
(* be cancelled.                                                            *)
Reachable ==
    \A c \in Contexts : events[c] # {} =>
        /\ interest[c[1]] = events[c] /\ ptr[c[1]] = c
        /\ (\A fd \in Fds : gen[fd] = 0) => InTable(c[1])

(* No edge is lost: an event whose condition holds does not stay registered *)
(* for ever.                                                                *)
EventDelivered ==
    \A p \in Watched :
        []<>(aborted \/ ~(p[2] \in events[Current(p[1])] /\ p[2] \in level[p[1]]))
=============================================================================
