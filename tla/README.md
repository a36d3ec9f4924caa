# A TLA+ model of Azure

Azure is a C++ server framework: N threads run M fibers from one queue, blocking
system calls are hooked so that they park the fiber instead of the thread, and
sockets, TCP and HTTP servers and clients are written on top in a blocking style.
Two things make it hard. Below that style a fiber moves between threads, its
wake-up comes from a timer, from epoll or from another thread, and most of the
fields that decide what happens next are read outside a lock. Above it every
protocol is fed by reads of any size: parsers, buffers and pools carry state from
one read to the next. This directory models both and model-checks them with TLC.
The safety of everything below HTTP (timers, scheduler, events, hooks, servers and
buffers), and of the dispatch of requests to servlets, is also proved with TLAPS, for
any number of threads, fibers, descriptors, calls and bytes.

Paths below are relative to the repository: `src/scheduler.cpp`,
`include/scheduler.h` and so on.

## 1. The system

| Component | State | Operations | Why it is hard |
|---|---|---|---|
| Scheduler | `m_fibers`, `m_activeThreadCount`, `m_idleThreadCount`, `m_stopping`, `m_autostop`, root fiber | `schedule`, `start`, `stop`, `run`, `idle`, `tickle`, `stopping` | The queue is locked, the state of a fiber is not; threads leave one by one while others still hold work |
| Fiber | `m_state`, context, callback | constructor, `reset`, `swapIn`, `swapOut`, `YieldToReady`, `YieldToHold`, `MainFunc`, `call`, `back` | `m_state` is read and written by the thread that ran it and by the one that runs it next |
| TimerManager, Timer | `m_timers` (ordered by `m_next`), `m_tickled`, `m_previousTime` | `addTimer`, `addConditionTimer`, `cancel`, `refresh`, `reset`, `getNextTimer`, `listExpiredCb` | Callers race with collecting threads; the clock may go back; a wake-up may be suppressed |
| IOManager, fd events | `m_fdContexts`, bits and waiters per fd, `m_pendingEventCount`, epoll | `addEvent`, `delEvent`, `cancelEvent`, `cancelAll`, the event loop of `idle` | Edge triggered; what epoll reported may be out of date when the fd's lock is taken |
| IOManager, sleeping and stopping | the tickle pipe, the counters | `tickle`, `idle`, `stopping`, `onTimerInsertedAtFront` | Everybody may sleep; `stopping()` reads three things at three times |
| Hook | `timer_info` per call | `do_io`, `connect_with_timeout`, `sleep`, `accept`, `close`, `setsockopt`, ... | A timer races with the event, with the next wait, and with the next owner of the descriptor number |
| FdManager | a table of `FdCtx` by number | `get`, `del` | The number is free for others before or after its context is gone |
| Socket, TcpServer | `m_sockfd`; listening sockets, `m_isStop` | `bind`, `start`, `startAccept`, `accept`, `stop`, `close` | One of several addresses fails; loops sleep on what `stop()` closes; descriptors run out |
| Application, Daemon | child process, pid file | `main`, `run_fiber`, `start_daemon` | Crash and restart, other instances |
| ByteArray | chain of blocks, `m_cur`, position, size, capacity | `write*`, `read*`, `setPosition`, `clear`, files | Values span blocks; each operation moves `m_cur` in its own way |
| Stream, SocketStream | | `readFixSize`, `writeFixSize`, `read`, `write` | Short transfers and failures in the middle |
| HTTP messages, parsers, session | two generated machines with marks, the parsed message | `execute`, callbacks, `recvRequest`, `sendResponse`, `dump` | A read ends anywhere; leftovers belong to a body or to nobody |
| HTTP server, servlets | table of names, list of patterns | `handleClient`, `addServlet`, `addGlobServlet`, `getMatchedServlet`, ... | The tables change while requests are served |
| HTTP client, pool | `m_conns`, `m_total`, age and use of each connection | `DoRequest`, `getConnection`, `ReleasePtr`, `doRequest`, `recvResponse` | Late answers, connections the server has closed, chunks split over reads |
| URI | parts of a URL, the generated machine | `Create`, `getPath`, `getPort`, `dump` | Marks are shared by user, host, port and path |
| Config, Log, Env | locked maps | `Lookup`, `setValue`, listeners | listeners run outside the lock |
| Thread, Mutex, Address, Util | wrappers | | system calls |

Calls go downwards: an HTTP session reads through SocketStream and Socket; the
hooked call arms a timer in TimerManager, registers an event in IOManager and
yields through Fiber; IOManager is a Scheduler (it overrides `idle`, `tickle`,
`stopping`) and a TimerManager (it overrides `onTimerInsertedAtFront`). Wake-ups
come back upwards through `Scheduler::schedule`. TcpServer schedules accept loops
on one IOManager and handlers on another, or on the same.

What makes each part correct:

- **Scheduler, Fiber**: no fiber is executed by two threads; its assertions on
  `m_state` hold; `stop()` returns and all work is done when it does.
- **TimerManager**: the set is an exact index of the timers with a callback; a
  one-shot timer fires once or is cancelled, never both; no timer fires early;
  every timer fires.
- **IOManager**: a waiter is resumed once for each registration, no edge is lost,
  the pending count is exact, queued work is run, `stop()` leaves nothing behind.
- **Hook**: a timeout ends the wait it belongs to and no other; a call reports
  what happened to it.
- **FdManager, TcpServer, Application**: a number that is reused carries nothing
  over; bind is all or nothing; `stop()` ends the accept loops; a crashed daemon
  serves again.
- **ByteArray, Stream**: the chain is one sequence of bytes; what was written is
  read back; a fixed-size transfer moves just that.
- **HTTP and URI**: what a message or URL means does not depend on how reads cut
  it; requests are answered in order, by the right servlet; a caller gets its own
  answer; the pool's count is right.

## 2. The modules

| Module | Models | Composes |
|---|---|---|
| `TimerManager` | `timer.cpp` and the part of `IOManager::idle` that waits for timers | |
| `Scheduler` | `scheduler.cpp`, `fiber.cpp` | |
| `FdEvents` | `addEvent` ... `cancelAll`, `triggerEvent`, the event loop | |
| `IOManager` | `run`, `idle`, `tickle`, `stopping` of the whole | the control of the three above |
| `Hook` | `do_io`, `connect_with_timeout` and their timer callbacks | timers and events seen by a fiber |
| `FdManager` | `fdmanager.cpp`, the kernel's table of descriptors | |
| `TcpServer` | `tcp_server.cpp`, Socket's `accept`, `init`, `close`, the hooks they call | extends `FdManager` |
| `Application` | `application.cpp`, `daemon.cpp`, or a user of TcpServer | extends `TcpServer` |
| `Codec` | fixed, zigzag and varint encodings, byte order (operators) | |
| `ByteArray` | `bytearray.cpp` | extends `Codec` |
| `Stream` | `stream.cpp`, `socket_stream.cpp` on a ByteArray | extends `ByteArray` |
| `FlatBuffer` | the abstract specification of both: one sequence and a position | implemented by `Stream` |
| `IpLiteral` | the rows that the machines for IP literals share | |
| `RequestParser` | `http11_parser.rl.cc`, the callbacks of `http_parser.cpp`, `HttpRequest::dump` | `IpLiteral` |
| `ResponseParser` | `httpclient_parser.rl.cc`, its callbacks, `HttpResponse::dump` | |
| `Uri` | `uri.rl.cc` | `IpLiteral` |
| `HttpServer` | `http_session.cpp`, `http_server.cpp`, `servlet.cpp` | `RequestParser` |
| `ConnectionPool` | what `HttpConnectionPool` keeps, and what a caller holds of it | `Uri` |
| `HttpClient` | `http_connection.cpp`: the callers | extends `ConnectionPool`; `RequestParser`, `ResponseParser` |
| `TimerManagerProofs`, `SchedulerProofs`, `FdEventsProofs`, `IOManagerProofs`, `HookProofs` | theorems about the module of that name | |
| `NodeProofs` | theorems about `FdManager`, `TcpServer`, `Application` | extends `Application` |
| `HttpProofs` | theorems about `ServletDispatch` and `HttpConnectionPool` | extends `HttpServer` and `ConnectionPool`, instantiates `HttpClient` |
| `BufferProofs` | theorems about `Codec`, `ByteArray` and `Stream`, and that they implement `FlatBuffer` | extends `Stream` |
| `MC...` | instances for TLC | |

Operators named `Mut...` are faulty variants of the definition that follows them.
No specification uses them; each shows that a property would notice that fault.

**Grain of atomicity.** A section under a mutex is one step. What the code does
before the lock or after the unlock is a step of its own whenever another thread
can observe the difference. Logging, stacks and registers are left out.

**TimerManager.** `timers` holds entries `[next, timer]`: the key an entry was
inserted under is kept apart from the timer's current `m_next`, so that a
corruption of the ordered set would be visible. Ties between equal times are
broken by pointers in the code and by choice here (`ExpiredSets`). An idle thread
goes `next` (getNextTimer) -> `wait` (epoll_wait) -> `check` (the first, read-locked
test of listExpiredCb, after it has read the clock) -> `lock` -> `schedule` ->
`busy`. `notify` counts callers between the unlock and
`onTimerInsertedAtFront`. The clock is external; `Prompt` says that no thread is
suspended for an hour between reading the clock and locking. Times are relative
to a start that is more than an hour after the epoch, so the unsigned
`m_previousTime - 60 * 60 * 1000` does not wrap.

**Scheduler.** `pc[t]` follows `run()`: `scan` -> `dispatch` -> `exec` -> (`park`, a
wait was armed and `YieldToHold` is next) -> `leaving` -> `back` (the count has not
dropped yet) -> `post` (is it READY?) -> `test` (has it ended?) -> possibly `hold`
(`m_state = HOLD` is next); or `none` -> `idle`. What a fiber's body does is the
environment: `Spawn`, `Arm` + `YieldToHold` (a hooked sleep or wait), `YieldToReady`,
`Finish`, `Throw`. A waker is a count for each fiber and fires whenever it likes,
wherever the fiber is. With `Root` the caller's thread joins the pool inside `stop()`
(use_caller). Four constants say what the environment may do: `FiberThrows`,
`CbThrows`, `PinnedSpawn`, `Resubmit`; the run has them all. Two histories bound what
is claimed. `seized` becomes true when a thread takes a fiber that another one is
still parking: from then on two threads may be on one stack, and `AssertSwapIn` shows
what follows. `doubled` says that the owner scheduled a fiber twice. An assertion
that fails ends the behaviour (`Aborted`).

**FdEvents.** A context is a pair of fd and generation, because `contextResize`
may drop a context that is still registered with the kernel. epoll is external:
`level` (conditions), `interest` and `ptr` (the registration), `edge` (the ready
list); adding or modifying a registration whose condition holds is an edge. MOD and
DEL are refused for an fd that the kernel does not have (`CtlRefused`): then nothing
changes. A file that is closed without the hook, which would drop the registration
behind the context's back, is left out.

**IOManager.** The inside of timers, contexts and fibers is reduced to how many
there are, and all of the control is kept: the tickle after the unlock, only when
the queue was empty; `tickle()` that writes only when some thread counts as idle;
the three reads of `stopping()`; the waiter scheduled before the pending count
drops; the active count that drops before a READY fiber is queued. The restart of
epoll_wait after EINTR is left out.

**Hook.** One fiber makes calls on one descriptor number. Each timer belongs to
the call that armed it; its callback is `CallbackTests` (lock of the weak pointer
and test of `cancelled`), `CallbackSets`, `CallbackCancels`. The lock that
`OnTimer` takes on the same weak pointer a moment earlier is merged with the
callback's own. A `connect` that follows another call is made on a new socket
with the same number. `disturbed` remembers the calls whose wait was ended by the
`cancelEvent` of an earlier call's timer.

**FdManager, TcpServer, Application.** Three tables have the descriptor number for
index: `file` (the kernel's), `ctx` (`m_data`) and `watch` (the fiber that
IOManager has registered). The kernel gives the lowest free number, of `MaxFd`.
Fibers are placed on two threads, `accept` and `work`, or all on one; a thread
takes its fibers in the order of its queue and a fiber keeps the thread until it
yields. A fiber that closes a connection does so in the steps of hook.cpp: the
context goes (`DelCtx`), then the number (`CloseFd`). `loops[k].fd` is the number
that an `accept()` in progress was called with; a loop that is woken calls again
with it even if the socket was closed meanwhile. `Application` has two kinds of
process: the daemon (one thread, never stopped, crashes and is forked again) and a
program like `tests/test_tcp_server.cpp` (two threads, `stop()`, bind again). The
pid file is left out because it has no effect while the server runs: `main` writes
it through a buffer that is flushed when `main` returns, and `IsRunningPidfile`
ignores an empty file; so a rival process may take addresses at any time.

**ByteArray, Stream.** A byte is a number below `Radix`, an integer has `Width` of
them. `nodes` is the chain, `cur` is `m_cur` (an index, or `Null`), `log` remembers
what was written where. `Walk` is the loop over blocks that `write` and `read`
share, a recursive function of where it stands (`Spots`). A length of -1 is kept in a `size_t` by `readFixSize` and
`writeFixSize`, so `left` is modulo `SizeMod` and a failed call adds one byte to
what is still to come. `FlatBuffer` has just a sequence and a position, with
`INSTANCE FlatBuffer WITH data <- Contents, pos <- position`.

**Parsers.** Each generated machine is a table of rows: a state, the bytes it
takes, the next state and the actions on the way. A state is a tuple: the copy of
the sub-machine (Ragel generated some of them several times, "abs" and "rel" of the
authority in `Uri`, "req" and "json" in `RequestParser`), its name in the grammar
and two counters, so that states that differ only in a count (the digits of a group,
the groups of an IPv6 address) are one row with a parameter. A byte that has no row
leads to the error state, as the generated `default` branches do. Bytes are the
classes that the machines tell apart, with a member of each. `Feed` takes one byte,
`Execute` a read: `Reset` puts the marks back as the code does at each call.

**HttpServer.** One connection: the client sends `Texts`, reads return any part of
what has arrived (`MaxReads` of them), `recvRequest` fills its buffer and calls
`execute`, the body is read by `readFixSize`, the servlet is looked up, the answer
is sent. `cuts` remembers where reads began and `from` where the elements of a
text begin, so that the properties can say *unless a read cut this element*. The
flag `uri_relaxed`, which the code never initialises, is chosen at the start.

**HttpClient.** Callers take a connection from the pool (`Pop`, `DropInvalid`,
`Connect`) or make one for a URL, send, read the head, then the chunks or the
body, and release. Each answer carries the tag of the call it answers, so that one
that reaches another caller is seen. `dirty` marks a connection on which a read
began inside content-length, transfer-encoding or a chunk's size: the parser may then
have missed where the body ends.

## 3. The runs

| Run | Expected | Instance | Checks |
|---|---|---|---|
| `MCTimer` | pass | 2 timers, 2 threads, clock to 3, hour = 2 | `TypeOK` `ActiveIffQueued` `OneShotOnce` `FrontWatched` `NeverEarly` |
| `MCTimerLive` | pass | 1 timer, 1 thread, the clock set back once | `TimerFires` |
| `MCSchedPool` | pass | a worker, the caller's thread or both, 2 tasks, a yield, 2 waits, throwing and pinned callbacks, fibers scheduled twice | `ActiveExact` `OneOwner` `FiberAsserts` `WorkDoneAtStop` `StopReturns` |
| `MCSchedSwapIn` | violation | 2 workers, a fiber with 2 yields and 2 waits | `AssertSwapIn` |
| `MCFd` | pass | 2 threads, fds 4 and 6, READ and WRITE, a table that grows | `PendingExact` `WaiterOnce` `Reachable` `EventDelivered` |
| `MCFdHup` | violation | 1 thread, 1 fd that hangs up | `AssertTrigger` |
| `MCIOLive` | pass | 2 threads, 2 tasks, a timer, an event, a yield | `CountsExact` `DrainedAtStop` `WorkRuns` `StopReturns` |
| `MCHook` | pass | I/O, connect, I/O on one number, 2 timers, everything may be late, early or fail | `NoStrayWake` `OwnTimeout` `ConnectSound` `WaitEnds` |
| `MCNode` | pass | 2 addresses, 3 descriptors, 2 clients, a stop, a crash, a rival | `FdExact` `ServeExact` `Progress` |
| `MCBuffer` | pass | blocks of 2 bytes, 3 blocks, 2 writes, a transfer of 3 bytes with an error | `CurExact` `ReadBack` `FileExact` `FixSizeExact` `IsFlat` |
| `MCServer` | pass | 8 texts, 2 requests, 2 short reads, a timeout, 2 changes of the tables | `HeadExact` `VerdictExact` `InOrder` `DispatchExact` `SessionEnds` |
| `MCClient` | pass | 2 callers, 3 calls, 278 URLs, 2 kinds of answer, 2 short reads, a timeout, a close | `UriExact` `RequestArrives` `PoolExact` `OwnAnswer` |

**Bounds.** Two threads are enough for the races between a pair of accesses, and
all code paths are symmetric in the threads. Two timers give an order and an
insertion before and behind the other one. The clock runs to 3 with an "hour" of
2, so both sides of the rollover test are met; timeouts reach beyond
`MaxTimeout`, so the clamp works. Two fds, one inside and one outside the table,
meet the growth. Two tasks let one thread hold work while the other leaves. Three
descriptors are one fewer than two listeners and two connections need, so they run
out and are reused; two addresses let one fail behind and before the other. Blocks
of two bytes make every value of two bytes span a block for some position, and
three of them give a first, an inner and a last one. In `MCServer` every text is
cut at every byte, at two places, and the buffer is smaller than the longest text.
In `MCClient` an answer is cut at every byte and once more at the end of every element,
so that a read can also leave a whole body behind. Three calls on two requests per connection let a connection be
reused and retired. The bounds that are named in the modules (`Max...`, `FireCap`)
only stop the environment from starting anew; nothing inside the code is cut short
by them, except that `Tick` stops at `MaxTime` and that a Hook call that needs one
more timer than `MaxTimers` stops there (`Over`). Symmetry is used only where no
liveness property is checked.

**Fairness.** Weak fairness for every thread of the pool: the kernel schedules
threads, and no thread waits for another one except on the mutexes, whose
sections are single steps. epoll_wait returns after its timeout. Callers finish
what they started (`OnTimerInsertedAtFront`, the tail of `stop()`), but nobody
is obliged to start a timer, a task or a `stop()`. In `FdEvents`, `EnterIdle` is
strongly fair: tasks end, so a thread comes back to idle again and again. In
`IOManager` events that are waited for arise, without which `stop()` waits for
them for good, by design. In `Hook`, an event that keeps arising is triggered
(strong fairness), and the peer need not do anything. In `HttpServer` the session's
fiber goes on (`Serve`: a read returns, with bytes, an end or a timeout, which
setRecvTimeout gives every accepted socket). In `Application` both threads go on, a
wait whose event keeps coming back is woken (strong fairness, since the thread is
idle only now and then) and the parent of the daemon returns from `waitpid` and
`sleep`; clients, users and rivals need not do anything.

**Deadlock** is checked for the scheduler, timers, events, IOManager and Hook:
`Terminated`, `Stopped` and `Over` are the ends that they may reach. It is not for
`MCBuffer`, `MCServer`, `MCClient` and `MCNode`, which may stop wherever their
caller or peer does nothing more; what must happen there is stated as liveness.

## 4. What the runs show

- The index of timers, the single firing, the wake-up of sleepers and the
  absence of early firing survive every interleaving of two threads.
- Until a thread takes a fiber that another one is still parking, the scheduler is
  sound with waits, yields, throwing fibers and use_caller, whenever the wakers come:
  taking such a fiber is the only way for two threads to have one. `stop()` returns
  with everything done, except callbacks that were pinned to a thread that had left;
  one that is left keeps `stop()` from returning if a thread still looks at the queue.
- Event registration is exact and loses no edge for two threads; an abort by
  `triggerEvent` (below) ends a behaviour and is not counted against it.
- The counters of IOManager are exact; a lost tickle costs at most `MAX_TIMEOUT`;
  `stop()` returns and no task that was queued is left.
- No hooked call fails for the timer of another call, and no wake-up is left for a
  later call. The late callback of an earlier call's timer can wake a later call on
  the same number: do_io then tries again, but connect reports success while the
  connection is still being set up. This is an exception of `ConnectSound`, next to a
  call whose `addEvent` failed; `WaitEnds` excepts a call that is already marked
  cancelled (see below).
- A descriptor number that is used again never brings a context, a timeout or a
  registration with it, with one thread that accepts; `bind` leaves nothing behind
  when it fails, `stop()` ends the loops, and a crashed daemon comes back.
- The chain of blocks implements a flat buffer, whatever the sequence of calls.
- A request or an answer that no read cuts inside an element is parsed to what its
  sender meant; where a cut does harm, the damage stays in the element that was
  cut, and the end of the head and the verdict on it do not change. Requests are
  served in order and a caller of the pool gets its own answer. A connection goes
  back to the pool only if nothing is on its way, except one on which a read began
  inside content-length, transfer-encoding or a chunk's size: `recvResponse` then takes
  the answer for one with a shorter body or none, and `ReleasePtr` puts the connection
  back with the rest of the body still to come (`src/http/http_connection.cpp:329-338`),
  which the next caller reads as the beginning of its answer. The run reaches this.
- A URL is taken apart as its grammar says, with the two exceptions that `UriExact`
  names (see URI below).

Where the code disagrees with its own assertions:

- `MCSchedSwapIn`: `run()` reads `m_state` behind `swapIn` without a lock
  (`src/scheduler.cpp:194`). If a waker has scheduled the fiber and another thread
  has run it to a YieldToReady by then, both threads queue it, two threads swap
  it in, and the assertion of `Fiber::swapIn` fails. The same window lets
  `m_state = HOLD` be written over TERM.
- `MCFdHup`: EPOLLHUP and EPOLLERR set both bits, and `real_events` is not masked
  with what is registered; `triggerEvent` asserts and the process aborts. The same
  assertion fails in a race of two threads when READ and WRITE are both in use: an
  event is cancelled between epoll_wait and the fd's lock.

What modelling showed besides, without a run of its own (the properties above name
these cases as exceptions, or the constants of the runs exclude them):

- Scheduler: a callback that throws leaves its fiber in EXCEPT, `run()` resets it
  (`src/scheduler.cpp:217`) and `reset` asserts TERM or INIT (`src/fiber.cpp:100`): the
  process aborts each time (`AssertResetEnded`). A callback pinned to a thread that has
  left is never taken, and neither is one pinned to the caller's thread when `stop()`
  found nothing for it to do. A fiber that is scheduled twice leaves an entry of a dead
  fiber behind; a thread whose idle fiber has ended exits when it meets it
  (`src/scheduler.cpp:230`), whatever else is in the queue.
- FdEvents: two concurrent `contextResize` calls can shrink the table, and a
  registered event can no longer be cancelled.
- IOManager: `stopping()` (`src/iomanager.cpp:267`) reads timers, pending events and
  the queue one after the other. A task that yields, is resumed and then waits for
  an event between these reads is overlooked; its waiter stays registered when
  `stop()` returns. `DrainedAtStop` is the part of the promise that holds.
- Hook: a callback that runs before `addEvent` leaves a wait without a timeout, and
  once it has set `cancelled` no later timer of that call ends a wait.
  `connect_with_timeout` returns 0 for a socket that is not connected when
  `addEvent` fails, which is only logged. `Socket::connect` with a timeout always
  closes the socket and returns false (`src/socket.cpp:180-187`).
- TcpServer: `bind` never clears the caller's `fails`, so the retry loop of
  `tests/test_tcp_server.cpp` cannot succeed after one failure. A `stop()` that is
  followed at once by `bind` and `start`, or that overlaps them, leaves loops that
  call accept on -1 without a pause, or on the number of a new listener. With no
  descriptor left the accept loop spins, and with one thread starves the handlers
  that could free one. With several accept threads a fiber that `cancelAll` wakes
  can register again before the number is closed (`src/hook.cpp:359`).
- Application: the pid file is empty while the server runs, and a bind that fails
  ends in `_exit(0)`, which the parent takes for an orderly end.
- ByteArray: reading an empty string at the end of the chain dereferences a null
  `m_cur`; `writeToFile` from a position inside a block writes wrong bytes;
  `writeStringVint` writes a fixed 64 bit length, `readStringVint` expects a varint.
- Stream: on a locally closed socket the loops of `readFixSize` and `writeFixSize`
  run on, because -1 in a `size_t` is never `<= 0`.
- HTTP server: an element that a read cuts is truncated or dropped in silence, and
  a Content-Length that is dropped takes the body with it; a cut in the method,
  version or query may end the session; the test of a full buffer
  (`src/http/http_session.cpp:39`) never fires; what a read brings beyond the body
  is dropped; a body that times out is handed over with its offset shifted; the
  configured maximum of a body is not consulted.
- HTTP client: a chunk's head that is split over two reads is misparsed, and a
  Content-Length that is split is dropped, with the body left on the wire; trailers,
  or a body without a length, stay on the connection that goes back to the pool;
  `connection: close` and `m_maxSize` are ignored; after a timeout in the body the
  rest is shifted.
- URI: `http://h:`, which the grammar allows (`port = digit*`, `include/uri.rl:68`), throws;
  in `u:1@h` the user is `1` (`include/uri.rl:70` moves the mark at a digit after the colon); IPv6 repetitions are exact, so
  `[fe80::1]` is refused.

## 5. What is proved

Each theorem is about the specification the runs check, for every value of the
constants that satisfies the module's ASSUME; a further hypothesis, where there is
one, is named in the theorem. The inductive invariants
of the concurrent components were first checked with TLC on instances like those of
the runs.

| Theorem | Statement | Hypothesis |
|---|---|---|
| `TimerManagerProofs!TypeCorrect` | `[]TypeOK` | |
| `TimerManagerProofs!IndexExact` | `[]ActiveIffQueued` | |
| `TimerManagerProofs!CollectedOnce` | `[]OneShotOnce` | |
| `TimerManagerProofs!NotCollectedEarly` | `NeverEarly`, an action property | |
| `TimerManagerProofs!NoWakeupLost` | `[]FrontWatched` | a thread, `ShortPeriods` |
| `SchedulerProofs!TypeCorrect` | `[]TypeOK` | |
| `SchedulerProofs!ActiveIsExact` | `[]ActiveExact` | |
| `SchedulerProofs!FiberHasOneOwner` | `[]OneOwner` | |
| `SchedulerProofs!FiberAssertsHold` | `[]FiberAsserts` | |
| `SchedulerProofs!WorkIsDoneAtStop` | `[]WorkDoneAtStop` | |
| `FdEventsProofs!TypeCorrect` | `[]TypeOK` | |
| `FdEventsProofs!PendingIsExact` | `[]PendingExact` | |
| `FdEventsProofs!WaiterIsOnce` | `[]WaiterOnce` | |
| `FdEventsProofs!RegisteredIsReachable` | `[]Reachable` | |
| `IOManagerProofs!TypeCorrect` | `[]TypeOK` | |
| `IOManagerProofs!CountsAreExact` | `[]CountsExact` | |
| `IOManagerProofs!StopDrains` | `[]DrainedAtStop` | |
| `HookProofs!TypeCorrect` | `[]TypeOK` | |
| `HookProofs!WakeUsedUp` | `[]NoStrayWake` | |
| `HookProofs!TimeoutIsOwn` | `[]OwnTimeout` | |
| `HookProofs!ConnectIsSound` | `[]ConnectSound` | |
| `NodeProofs!NumbersAreExact` | `[]FdExact` | |
| `NodeProofs!BindIsAllOrNothing` | `[]ServeExact` | |
| `HttpProofs!DispatchIsExact` | `[]DispatchExact` | |
| `HttpProofs!PoolKeepsBooks` | `[]PoolExact` | `MaxRequest > 0` |
| `BufferProofs!TypeCorrect` | `[]TypeOK` | |
| `BufferProofs!CurIsExact` | `[]CurExact` | |
| `BufferProofs!WrittenIsReadBack` | `[]ReadBack` | `HostOrder = "little"` |
| `BufferProofs!FileIsExact` | `[]FileExact` | |
| `BufferProofs!FixSizeIsExact` | `[]FixSizeExact` | `NoWrap` |
| `BufferProofs!BlocksAreFlat` | `IsFlat`, the refinement of `FlatBuffer` | |

**The assumptions of the modules.** Bounds are natural numbers; the sets of threads
and descriptors are finite, because the counters count them. `IOManager` has a
thread, which the constructor asserts. In `FdEvents` the table begins with more than
one entry (the code begins with 32): it is resized to 1.5 times the descriptor, which
for descriptor 1 would not make room for it. In `TcpServer` the addresses are a sequence,
duplicates and the empty one included. In `Codec` a byte has an even
number of more than two values and `Groups` groups hold the largest integer, as 5 and
10 groups of 7 bits hold 32 and 64 bits. In `ByteArray` the values a caller writes are
those of the C++ types: bytes, unsigned and signed integers of `Width` bytes, and
strings whose length such an integer can tell.

**The hypotheses of the theorems.**

- `ShortPeriods`: no period is 2^31 ms or longer; `idle` converts the timeout to an
  int, which a longer one would make negative.
- `NoWrap`: a length and the failed calls together stay below 2^64.
- `HostOrder = "little"`: the writers swap if `m_endian` is not the machine's order
  (`src/bytearray.cpp:72`), the readers if it is big endian (`src/bytearray.cpp:219`).
  On a little-endian machine that is the same; on a big-endian one what is written is
  read with its bytes reversed, and the statement would be false.
- `MaxRequest > 0`: `m_maxRequest` is looked at when a connection comes back, so the
  first request is always served.

**The arguments.**

*TimerManager.* `TypeOK` is not inductive alone: `reset` computes `m_next - m_ms`, so
`TypeInv` adds `NextFromMs` (`ms <= next` for every timer). `QueueForm` states the
index in three parts that each action preserves: every entry is that of a live timer
with a callback under its current `m_next` (`EntriesActive`), every such timer has
its entry (`ActiveQueued`), and a timer that is constructed but not inserted has its
callback (`MadeHasCb`). What is collected therefore had its callback, and loses it
under the same lock (`CollectedOnce`). `ClockInv` says that, while the clock was not
set back, neither `m_previousTime` nor any `now_ms` is ahead of the clock and none is
an hour behind it, so a stale `now_ms` does not look like a rollover
(`NotCollectedEarly`). For `NoWakeupLost`, `FrontForm` follows the one flag
`m_tickled`, which suppresses a notification: while it is set, some thread is out of
epoll_wait or about to be woken; otherwise such a thread exists or one of the
sleepers has a timeout that ends before the front is due. `StartForm` keeps
`refresh()` from moving a timer to an earlier time.

*Scheduler.* `ThreadForm` fixes which threads run and where a thread has a fiber in
its hands; the active count is then the number of threads at certain places,
whatever the wakers do. The rest holds until a fiber is `seized`: `Own` says, for each
place of `run()`, what `m_state` and the wakers of the fiber in hand are (`HandForm`),
that a fiber is in the hands of one thread (`SoleForm`), that it is in the queue once,
and then in no hand but one that is parking it (`PlaceForm`), what `m_state` says of a
fiber wherever it is (`StateForm`, `NoneForm`), and that a thread's callback fiber is
its own (`CbForm`). The waker of a fiber is armed before it parks, so a `Wake` in any
place of that round makes an entry of a fiber that `HandForm` calls parking; the only
step that could then give it to a second thread is the `Take` that sets `seized`.
`WorkIsDoneAtStop` adds that a fiber that has not ended is in the queue, in a thread's
hands or with a waker (`LiveForm`), and, unless a fiber was `doubled`, that each entry
of the queue has a thread left that may take it and will look, or is a callback pinned
to a thread that has left (`DrainForm`): `stopping()` was false when that thread last
went idle, or it pushed the entry itself. `CountForm` balances what was submitted
against what is completed, queued and in hand.

*FdEvents.* `FdInv`: a context that has events is the one the kernel knows for its fd,
with these events (`Registered`), so at most one context of an fd has any, whatever
resizes did; bits are filled slots (`SlotForm`); the counter is the number of filled
slots (`CountForm`); while no resize has shrunk the table, the contexts with events,
and those that an `addEvent` in progress is about to use, are in it (`TableForm`).

*IOManager.* `IOInv`: where a thread may hold callbacks or events (`HoldForm`), the
counts, that no more events are pending than were registered (`BoundForm`), that no
thread leaves before `stop()` (`StopForm`), and that a queue that is not empty has a
thread that will look at it again (`DrainForm`), although `stopping()` reads its three
values at three times.

*Hook.* `WakeForm`: an event is registered or the fiber is queued only while it is
held, never both, so a wake-up is used up by its own wait. `TimerForm`: identifiers
of timers are used once, and `tinfo->cancelled` is written only by a callback that has
tested that tinfo. `ConnectForm`: a connect that was woken was woken by its event, by
its own timer, which has marked it cancelled, or it is in `disturbed`.

*Node.* `NodeInv` is an account of who owns a number. `SocketForm`: the sockets of
`m_socks` are those that are open, each under a number of its own. `ClientForm`: a
client has its number, with a context and a timeout, from `accept()` until its
handler has closed it. `FileForm`: what is open is owned, what is closed has no
context. `LoopForm`: one loop at most for a socket, and a loop that is woken calls
accept with the number of its socket or with one that nobody listens on.
`WatchForm`: who waits is registered, who is registered waits. `MainForm`: no loop of an
earlier life is left while bind works. `ServeForm`: the addresses of `m_socks` are all
or none, except while bind has come to the next one, and then the caller has the
accept thread, so no `CloseAll` comes between. That the kernel has a lowest free
number to give is a lemma (`Least`).

*Servlets.* `DispatchExact` compares the tables with the history of the calls, of
which those are alive that no later call on the same name has replaced or undone.
`DispatchInv` says that names and live `addServlet` calls correspond (`NameForm`), and
that `m_globs` has one entry for each live `addGlobServlet` call, in the order of these
calls (`Listed`): an entry that is registered again moves to the end, as its call does.
The first entry that matches is then that of the first live call that matches. What
`fnmatch` matches is a constant of the model and may be anything.

*Connection pool.* `PoolInv` follows who has a connection. Where a caller stands in
`doRequest` fixes what it holds (`CallsFit`: only between `getConnection`'s lock and the
deletes has it doomed ones, before that and after `ReleasePtr` it has none); no
connection is with two callers, or with one and in the list (`Apart`, no repetitions in
either list), and it is live as long as someone has it (`Owned`). So a connection that
one caller deletes or closes is never one that another has, or that waits in the list
(`UpFits`), and the deletes take from `m_total` as many as they delete, although
`m_total -= invalid_conns.size()` counts places in a list. All of `recvResponse`, whatever
the parser makes of the answer, is one case: it leaves the books alone (`Reads`).

*Buffer.* The walks through the blocks and the codecs are recursive functions. What they
compute is proved not by an induction principle but by taking a least counterexample,
which well-foundedness of the naturals provides; the same gives the lemma `Recursion`,
that a function defined by its value on a smaller argument exists, from which each
recursive definition gets its equation. The walk has a closed form (`Pieces`). With it `BaInv`
(blocks of equal length, `CurExact`, sizes) is inductive: each of the operations moves
`m_cur` in its own way, and each to the block of the position. `BlocksAreFlat` maps the
chain to the concatenation of its blocks up to `m_size`; each step of `Stream` is a
step of `FlatBuffer` or leaves `data` and `pos` alone. `CountInv` gives
`FixSizeIsExact`: moved and left together are the length and one for each failure.
For `WrittenIsReadBack`, `RoundTrip` says that what `Encode` gives is read by `Decode` as
the same value and `Need` says its length, for each of the kinds: the digits of an
integer make up the integer again (`ValueOfIs`), swapped or not; a varint ends with the
first group that has no flag and has no more groups than the readers accept
(`VarintRoundTrip`); zigzag is undone for the smallest integer too (`ZigzagRoundTrip`).
`Stored` then says that the bytes of every value of `log` are in the chain where they
were put, which a write keeps because it takes from `log` what it overwrites.
`FileIsExact`: from the start of a block each step of the loop of `writeToFile` but the
last takes a whole block (`AlignedStep`).

**Only model-checked**, and why:

- `TimerFires`, `StopReturns`, `EventDelivered`, `WorkRuns`, `WaitEnds`, `SessionEnds` and
  `Progress` are liveness under fairness, which the prover does not treat.
- `UriExact`, `RequestArrives`, `HeadExact`, `VerdictExact`, `InOrder` and `OwnAnswer` say
  what machines with some hundred rows make of a text. For every text that is an
  induction over data through each of the rows; unlike for the codecs there is no
  closed form to compare with, and the prover cannot do it. That an idle connection
  owes no answer (the first part of `OwnAnswer`) depends on where the parser finds the
  end of an answer, for the same reason.
- That `MCSchedSwapIn` and `MCFdHup` find their assertions violated is for TLC.

## 6. What is not modelled, and the plan

`PROJECT.json` lists every component. Not modelled, and why:

- Log, Env, Util: formatting, a locked map, wrappers of system calls.
- Config: conversions between YAML and C++ types; values are set before the server
  starts. That listeners run before the new value is written and outside the lock
  (`include/config.h:452-466`) is the one order to know of.
- Thread, Mutex, Semaphore: pthread objects, which the modules take as atomic
  sections.
- Address: conversions around getaddrinfo and getifaddrs. Of `endian_.h`, `byteswap`
  is in `Codec`.
- Hook: `fcntl`, `ioctl` (which clears O_NONBLOCK even if the hook needs it) and the
  loading of the original functions.
- The tables of HTTP method and status names, cookie and parameter accessors,
  `writeStringVint` and the floating point writers.

What remains to be done:

1. An abstract pool of tasks (submitted, running, done) that `Scheduler` and
   `IOManager` implement, from the invariants `Own` and `IOInv`.
2. That a caller with an undisturbed connection consumes exactly one answer, from an
   assumption on what the response parser makes of each of the answers: it would give
   the first part of `OwnAnswer` for any number of callers.
