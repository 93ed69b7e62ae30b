# A TLA+ verification of PioRun

PioRun is a C++ library with two coroutine runtimes and an HTTP server built on
them. The *stackful* runtime (`src/piorun/fiber`) schedules fibers over several
threads and offers fiber versions of mutex, shared mutex, condition variable,
semaphore and channel, timers, and hooks that turn blocking system calls into
fiber switches. The *stackless* runtime (`src/piorun/coroutine`) is a single
event loop for C++20 coroutines. This directory holds TLA+ models of the code,
the TLC configurations that check them, and proofs checked by TLAPS. The models
are written from the code; where a comment or a document says something else, a
run shows the difference (section *Disagreements*).

File names below are relative to the repository's root; `fiber.cc` is
`src/piorun/fiber/fiber.cc` and `fiber.h` is `include/fiber/fiber.h`.

## Inventory

| Component | State | Operations | Interacts with | What makes it correct |
|---|---|---|---|---|
| Scheduler loop `threadRoutine`, `MultiThreadFiberScheduler`, `FiberEnvironment`, `Fiber` | `commTasks`, `wannaQuitThreadCount` under a spin lock; per thread: stolen tasks, active list, yield queue, signal queue (own spin lock), pool, count of unfinished fibers, call stack | `Schedule`, one loop iteration, `Resume`, `Yield`, `Reset`, pool get and recycle, exit | everything that runs on fibers | no fiber lost or resumed twice; fibers never migrate; exit exactly when all is done |
| `mutex`, `condition_variable` | flag, queues of fibers | lock, try_lock, unlock, wait, notify_one, notify_all | scheduler: park, signal queue | one owner, no lost wake-up, lock() returns |
| `shared_mutex` | state word, two queues | (try_)lock, (try_)lock_shared, unlock, unlock_shared | scheduler | state exact, writers first, nobody stuck |
| `semaphore`, `channel` | count, queue; deque of items | wait, signal; write, read | scheduler; channel = mutex + two semaphores | units conserved, bounded FIFO |
| Time wheel `StTimeout`, timed waits | start time and slot, slot lists, active list | AddTimeout, TakeAllTimeout, sleep_for, sleep_until | loop, clock | never early, never passed over, nobody forgotten |
| `co_poll_inner`, system call hooks | epoll registrations, contexts by descriptor | poll, connect, read, write, accept, close, fcntl | kernel, wheel | a waiter is resumed by its own descriptor or timer |
| Stackless scheduler, emitters, awaitables, tasks | ready queue, waiters by descriptor, timers, conditions | Schedule, Event, Run, emit, departure | kernel, coroutines | every awaited event is delivered once |
| Async sockets (`async/*`, `socket.cc`) | descriptors | accept, connect, read, write | epoll emitter | all bytes or an error |
| `BlockDeque`, `Log` (HTTP) | bounded deque, close flag, file | push, pop, Close, write | producers, writer thread | no line lost, writer ends |
| `SqlConnPool`, `SqlConnRAII` | queue, OS semaphore | GetConn, FreeConn | request parser | a connection has one user |
| HTTP connection, parser, buffer, response | cursors, parser state | read, parse, write | sockets, pool | parse result independent of how bytes arrive |
| `ConfigVar`, `Config` | value, listeners, YAML tree | set_value, AddListener, LoadFromConfDir | readers in other threads | listeners see every change once, in order |
| `Thread`, locks | id, OS semaphore | start, join | pthread | constructor returns after the thread has started |
| Context switch, core logger, resources, tests | | | | not modelled: assembly, formatting, assets |

The hard part is the stackful runtime: fibers on one thread are cooperative, but
the queues that wake them are pushed by fibers of other threads; a blocking
operation registers the fiber, releases a spin lock and only then yields, so a
wake-up can overtake the yield; and the threads decide together, by counting
votes, when the process is over. `PROJECT.json` lists the hazards one by one
with the line where each bites.

## Modules

| Module | Models | How it corresponds to the code |
|---|---|---|
| `FiberContract` | what the loop and the fibers promise each other | abstract: idle / running / parked, the number of resumes owed, the thread a fiber lives on |
| `FiberScheduler` | `threadRoutine` and all it touches | one variable per field or local; `pc` is the block of the loop a thread is in; one action per step between two accesses to shared state |
| `FiberSync` | `mutex`, `shared_mutex`, `condition_variable`, `semaphore` | each critical section is a function of the object that says whether the caller parks and whom it wakes; parking and each push on a signal queue are steps of their own |
| `FiberMonitor` | mutex and condition variable in use | producers and consumers; labels are the calls of `condition_variable::wait` |
| `FiberRWLock` | `shared_mutex` in use | readers and writers that lock, try, hold across `yield()`, unlock |
| `BoundedBuffer` | what a channel promises | abstract FIFO |
| `FiberChannel` | `channel` | the five calls of `write` and of `read` |
| `TimeWheel` | `StTimeout`, the collecting part of the loop, the timed waits | slot arithmetic as in the code, 64-bit times and 32-bit counts by modulus |
| `FiberPoll` | `co_poll_inner`, `FdContextManager` and the hooks of `syshook.cc` | a hook is a chain of steps between its polls; `reg` is what each thread's epoll instance points to, `active` the list the loop resumes |
| `CoScheduler` | stackless loop, `Event`, `Condition`, the three emitters | the ready queue, the waiters of each emitter and their deadlines; a chain of awaiting tasks is one task |
| `CoServer` | async sockets and the echo servers on `CoScheduler` | accept loop, both forms of read and write, connect; edge-triggered epoll with its one-shot registration |
| `ConfigVars` | `Config`, `ConfigVar<T>` | each lock is a set of readers and a writer; labels are the points between two lock operations, so that user code in a listener runs where it does |
| `HttpLog` | `Log`, `BlockDeque` | the `LOG_BASE` macro step by step; the writer thread and its waits; the destructor; `isOpen` is whether `fp_` may be used, `began` what the files before the open one hold |
| `HttpBackend` | `SqlConnPool`, `SqlConnRAII`, `UserVerify` on `HttpLog` | the queue and the semaphore apart, as in the code, and the guard that dies at the end of its statement |
| `HttpBuffer` | `Buffer` of the stackful HTTP server | cells and two cursors, operators that return the next buffer |
| `HttpClient` | the socket and the one client both servers meet | external: a script of requests, cut anywhere by TCP, a small send window |
| `HttpConnection` | `HttpConn`, `HttpRequest::parse`, `HttpResponse`, the fiber of `test_fiber_http_server` | `phase` is where the keep-alive loop is; one parsed line, one `writev1` is a step |
| `HttpParse` | `pio::HttpConn` of `http_conn.cc` and its handler | `stage` is where the handler is; the scan of `read_buf_` with its indices; a read over the end of the array ends the model of the handler |
| `HttpServers` | the two servers in front of the same client | one composition, one set of promises to the client |
| `MC*` | instances for TLC | |
| `FiberScheduler_proofs`, `TimeWheel_proofs`, `FiberPoll_proofs`, `CoServer_proofs`, `ConfigVars_proofs`, `HttpBackend_proofs`, `HttpServers_proofs` | theorems | each about the module of its name |
| `FiberObjects_proofs` | theorems | about `FiberMonitor`, `FiberRWLock` and `FiberChannel`, which it extends together; its first part has the lemmas on `FiberSync` that the three share |

How they compose. `FiberScheduler` implements `FiberContract`
(`ImplementsContract`); the synchronisation modules are written against
`FiberContract` and each checks that it respects it (`RespectsContract`), so what
the objects rely on is what the loop provides, and the fairness of `ResumeStep` in
them is `FiberScheduler!OwedIsResumed`, checked on the loop. `FiberChannel`
implements `BoundedBuffer`. `HttpBackend` extends `HttpLog` because every step of
the pool logs; `CoServer` extends `CoScheduler`; `HttpServers` puts
`HttpConnection` and `HttpParse` in front of one `HttpClient`.

Invariants are conjunctions of named parts. A run checks the conjunction
(`MonitorInv` is `TypeOK /\ OneOwner /\ NoLostWakeup`), a reader looks at the parts, and
each module has one type invariant among them.

Operators named `X_Mistake` next to an operator `X` are plausible bugs of the
code that `X` models. No specification uses them; with one of them in the place of
`X` a property fails, which shows that the property depends on that line.

### Abstractions

* Spin-locked sections are one step, except the global scheduler lock, which is
  held over several and can be seen taken by `TryLock`. Sections under the deque's
  own mutex are one step; `Log::mtx_` and the locks of `Config` are held over several.
* A user function is any sequence of the operations fibers have. Each task is
  scheduled at most once, so the number of tasks bounds the run.
* `commTasks` is swapped with the thread's empty deque; `isaccept` never holds in
  a run of the loop (the hook table is filled by static initialisers, so
  `accept` never sees it empty), and is left out.
* The order in which a pool hands out fibers is left open.
* The range-for over the yield queue is undefined behaviour when a fiber yields
  again in it. With `YieldAgain = FALSE` no fiber does that; with `TRUE` the model
  takes the mildest outcome of the build, a loop that does not see new elements.
* The lists of the time wheel are reduced to the slot an item is linked in. In
  `FiberPoll` time is reduced further: a timed poll may run out at any moment.
* A hook reads memory that nobody wrote (`revents` after a poll that ran out): both
  outcomes are steps. The same holds for `iov_[1]` and `write_buf_` of the servers,
  whose first value is left open, and for the unsynchronised increment of the
  listener id.
* A call of undefined effect ends what can be said of its caller. `flush()` uses `fp_`
  without the lock; on a file that another worker has closed both outcomes are steps:
  nothing happens (`Flush`), or the process dies (`FlushClosed`). After an `AsyncRead`
  that ran over the end of `read_buf_` the members behind it are overwritten; the handler
  takes no step any more (`Overrun`).
* `FiberPoll` has no hang-up of the peer; `CoServer` and `HttpServers` have.
* `std::shared_mutex` prefers readers, as glibc's does by default; condition
  variables of the log's writer have no spurious wake-ups (its loop would go back
  to waiting).
* A request is a sequence of tokens, the halves of a header and the two bytes of a
  line end among them, because the parsers stop there; a response is a number of
  parts with its number.

History variables record that something happened which the code does not cope
with and which a property then makes an exception for: `disturbed`, `misused` (two fibers
on one descriptor, a number used after it was closed), `crossed`, `idRace`,
`sameSecond`, `overlapped`, `lateClose`, `dropped`, `short`, `shared`, `idled`,
`junk`. Each exception is a behaviour of the code named at the property and below
under *Disagreements*; the property holds for everybody else.

## Runs

| Run | Instance | Shows |
|---|---|---|
| `FiberScheduler` | 2 threads, 2 tasks, 2 fibers, pools grow by 1 | exactly one reference to a parked fiber and no migration; votes exact and never stale; exit only when all is done; refinement of `FiberContract`; queued resumes happen, tasks start, the process ends |
| `FiberScheduler_yield` | as above, `YieldAgain` | violation: a fiber is dropped |
| `FiberMonitor` | 1 producer, 2 consumers, 2 threads, 2 tokens | one owner, no lost wake-up, contract respected, `lock()` returns, waiters are served |
| `FiberRWLock` | 2 writers, 2 readers, 2 threads | state exact, no one waits for nothing, writers first, writers get in, readers do when writers pause |
| `FiberChannel` | 2 writers, 1 reader, 2 threads, capacity 2 | bounded FIFO, semaphores exact, operations return |
| `TimeWheel` | 3 slots, 3 items, clock to 6, jumps to 4, set back by 1 | slots agree with times, never early, never missed, nobody forgotten unless the clock is behind the wheel |
| `TimeWheel_overflow` | 8-valued int | violation: negative count |
| `FiberPoll` | 3 fibers on 2 threads, 2 descriptor numbers, a connected and a listening one; write of 2 bytes into room for 1 | no registration outlives its fiber, active list exact, waiters armed, hooks find their data, `write` and `connect` honest, contexts follow the file, waiters resumed |
| `CoServer` | server with 2 connections, one handler of each form; a client and 3 watchers in two start orders | no event outlives its wait, each waiter is watched by the emitters it needs, `Run` returns only when all is done, echo complete and in order, deadlines end waits, everyone is accepted |
| `ConfigVars` | 2 threads, 2 names, 2 types, 2 values, 2 calls each, a file edited in 2 seconds | a handle names its listener, listeners follow the value, an edit is loaded, one object per name, no deadlock |
| `HttpBackend` | 2 workers with 3 requests, 1 connection that may have failed, deque of 2, files of 2 lines, 2 days | permits match the queue, every connection accounted for, no line lost, out of order or put in a closed file; a file gets its two lines and those queued when it was opened; requests and shutdown end |
| `HttpServers` | a client with a form and a plain request, or one kept-alive request; one cut, window 2, buffer of 4 cells, `read_buf_` of 20 | buffer keeps the input, responses whole whatever the socket takes, the right answer to each request, closed and unmapped once, requests answered, connections end |

Why the bounds are enough. Two threads show every interleaving of a waker and a
waiter. Two fibers on one thread show cooperation and pool reuse (two tasks, pools
that grow by one). The placements of fibers on two threads are listed up to
exchanging threads and equal fibers. Three slots with delays up to five and a
clock that jumps by up to four give items of the same slot in different turns of
the wheel, and a loop that is late by more than one turn. In `FiberPoll` two
numbers and three fibers give two fibers of a thread on one descriptor, one of
another thread that closes and reopens it, a partial write and three polls of
`connect`. In `CoServer` room for one unit against two to be written makes each
handler wait for output once, and two waiters with different and one without
deadline meet in the same emitter. `ConfigVars` needs two variables of one type for
the listener ids, and two edits in one second and in two. A deque of two fills up with
the lines of three requests, and files of two lines rotate before the last of them, with
lines queued for the next file. In
`HttpServers` a buffer of four cells must be moved and grown by requests of six to
fourteen tokens, and a window of two takes the four parts of a response in every
way; `read_buf_` of 20 cells holds any one of the requests, and a client that sends
form and plain request (14 and 6 tokens) without waiting overruns it. The bounded
quantities are: tasks (each submitted once), tokens (`MaxTokens`), the clock (`MaxTime`, `MaxJump`, `StepBack`, `Days`), hooks per fiber
(`Script`), units per peer (`Units`), calls per thread (`MaxCalls`, `MayCall`),
requests (`MaxRequests`, `Scripts`, `MaxCuts`).

Symmetry (of the two sleepers) is used in the run `TimeWheel`, which has no
liveness property.

`CHECK_DEADLOCK FALSE` stands where the system comes to rest: all calls made
(`ConfigVars`), no more peers (`CoServer`), the process over (`HttpBackend`), the
connection closed (`HttpServers`), every script at its end (`FiberPoll`).

### Fairness

* `WF(LoopStep)`, `WF(Complete)`: the operating system runs every thread, and an
  operation in progress is straight-line code.
* `TryLockSucceeds`: a thread that tries a lock every millisecond for ever, held
  for a few instructions at a time, gets it some time. The code only tries, so
  without this assumption a thread may never steal.
* `SF(Leave)`, `SF(MainReturns)` and, in the synchronisation modules, `SF` of the step to rest: user code is cooperative and comes
  to an operation that leaves its thread; the documentation demands it.
* In the synchronisation modules, `SF` of proceeding and of unlocking: a fiber that holds a lock gives it back.
* In the synchronisation modules `SF(ResumeStep)`: checked for the loop as
  `OwedIsResumed` on the instance of `FiberScheduler`.
* `FiberPoll`: `WF(Collect)` and `WF(Proceed)` per thread: the loop goes round, and a
  fiber inside a hook goes on. Nobody has to call a hook.
* `CoServer`: `WF(Program)`, the one thread of the event loop. Nothing is assumed of
  peers or of the clock.
* `ConfigVars`, `HttpBackend`: `WF` of every thread's step. A thread at a lock gets it
  because the others call a bounded number of operations, not because the lock
  is fair.
* `HttpServers`: `WF` of the server and of a client that reads what has arrived.

With two writers that keep coming, readers starve: `shared_mutex` documents
itself as writer-first (`docs/stackful_coroutine.md:72`), so `ReaderSucceeds` says
that a reader gets in unless a writer is waiting again and again.

## Disagreements

| Run | Code | Says otherwise |
|---|---|---|
| `FiberScheduler_yield` | `fiber.cc:926` clears the yield queue after the loop over it, and with it the fibers that yielded again | `docs/stackful_coroutine.md:25`: the scheduler will wake it up |
| `TimeWheel_overflow` | `fiber.cc:241` keeps 32 bits | comment at `fiber.cc:248`: not negative |

No run of their own, because a property of a passing run states the exception,
because no line of the repository says otherwise, or because the wording alone
disagrees:

* `fiber.cc:1011` ignores the refusal of `AddTimeout` and parks: a sleep that
  meets a clock behind the wheel lasts for ever, though
  `docs/stackful_coroutine.md:100` lets it continue after the time
  (`StrandedOnlyBySetBack`).
* `docs/stackful_coroutine.md:54` describes a staging of new tasks in `raisedTasks`
  that is commented out (`fiber.cc:941-950`); `Schedule` appends to `commTasks`.
* The check of configuration names leaves out the digit 9 (`config.h:504`,
  `config.cc:30`). Names are model values here.
* Two fibers of one thread that poll one descriptor: the second registration
  fails and is ignored, the first one's removal takes the second's away
  (`fiber.cc:1094`, `1127`; `disturbed`).
* The buffer form of read awaits before it tries, so input that was reported while
  nobody waited is not read (`async_read.cc:37`; `InputIsRead`), and the buffer form of write
  forgets what the kernel did not take (`async_write.cc:43`; `short`). A hang-up
  is delivered as a success (`epoll.cc:59`).
* Two setters of one variable may tell its listeners in one order and assign in the
  other (`config.h:401`; `crossed`); two variables of one type may hand out the same
  listener id (`config.h:425`; `idRace`); a second edit in the same second is not
  loaded (`config.cc:85`; `sameSecond`).
* A connection of the pool is freed by the guard at the end of its own
  statement and again at the end of the function (`httprequest.cpp:190`), so it is
  in the queue twice (`ConnectionsAreAccounted` counts both).
* A line that is still queued when the file is full goes into the next one
  (`log.cpp:183`), which gets more than `MAX_LINES` lines then, with a single worker too:
  two lines are queued, the third changes the file, and all three are put in the new one
  (`RotatesOnTime` allows for the queued ones, `Carried`). Two threads inside
  `write` at once may also both change the file or both step over the limit (`overlapped`).
* `Log::flush` calls `fflush(fp_)` without the lock (`log.cpp:176`); another worker may be
  between `fclose` and `fopen` (`FlushClosed`).
* `AsyncRead` is given the address of `read_buf_` and not its length; it reads until
  `EAGAIN`, as many bytes at a time as a pointer has (`async_read.cc:45`). A request of 1024
  bytes, or several sent ahead, run over its end (`Overrun`; the exception in `AnswersFit`).
* A response without a file leaves `iov_[1]` as it was: the connection is
  closed though it was to be kept, or its fiber spins (`httpconn.cc:68`, `108`;
  `StaleVector`).
* A file that begins with the bytes of -1 is taken for a failed mapping and
  leaks; an empty one ends the process (`httpresponse.cpp:130`).
* A line without an end stays in the buffer after it was parsed: the body of a
  form is read again as the beginning of the next request
  (`httprequest.cpp:61`; `AnswersFit`, `idled`).
* A malformed request has no path, which names the resource directory, and is
  answered with 404 instead of 400 (`httpresponse.cpp:71`); statuses are left out.
* The stackless server answers what it cannot parse yet with what is in
  `write_buf_`, which nobody has cleared (`junk`).

## Proved

### The scheduler

`FiberScheduler_proofs` proves, for any finite number of threads, tasks and
fibers, any pool growth, and with or without `YieldAgain`:

| Theorem | Property | Says |
|---|---|---|
| `Invariance` | `IInv` | the inductive invariant holds in every reachable state |
| `TypeCorrect` | `TypeOK` | types, and the counters stay in their ranges |
| `HonestVotes` | `VotesAreHonest` | the vote counter is exact and no vote is stale |
| `NobodyLeavesEarly` | `ExitMeansDone` | a thread leaves only when everything everywhere is done |
| `NothingIsDropped` | `RefInv` | no unfinished fiber is ever without a reference |
| `ReferredToOnce` | `ExactlyOneReference` | who waits is in one queue, who runs or is finished in none; no fiber migrates |
| `LoopImplementsContract` | `ImplementsContract` | every step of the loop is a step of `FiberContract` or a stutter |

The last three have `~YieldAgain` as a hypothesis: the code drops a fiber that yields
again inside the loop over the yield queue, and the run `FiberScheduler_yield`
shows it.

They rest on the ASSUMEs of `FiberScheduler` (finitely many threads and fibers,
`NoThread`, `NoFiber`, `NoTask` are none of them), which TLC evaluates on every run of
the module, and on nothing else.

The argument. `ExitMeansDone` is not inductive: the thread that casts the last vote
looks at its own state only, so the votes of the others must still be true. A
vote is `currentFiberCount = 0` at some earlier moment; it stays true if the
counter is the number of unfinished fibers of the thread (`Counts`) and if no
unfinished fiber appears on a thread that has voted (`Votes`, because only a thief
starts tasks and a thief takes its vote back under the same lock). The counter is
exact if a fiber finishes once, on its own thread: the loop must resume only fibers
that are in the middle of their function (`RefsAreLive`), so a fiber that finishes
must not be referred to from any queue any more, which follows from its having had
one reference at most (`RefsAreUnique`, `QueuesAreDistinct`). That in turn needs the
halves of a wait and of a wake-up (`atYield`, `hand`) to follow each other
(`Control`), and pools to hold only finished fibers (`PoolsAreIdle`). With all
votes true and `commTasks` empty, a task that was submitted and is not done would be
on an unfinished fiber (`Tracked`), and there is none (`Exits`).

`refs[k][t]` is the set of fibers in queue `k` of thread `t`. Each action changes one or
two of these sets, and the lemmas say how: `HandOver` covers every step that moves
fibers from one queue to another. `WhoMatters` singles out the five actions that touch
tasks, votes or the life of fibers, so the other nineteen are dealt with once.

`IInv` says that a fiber has at most one reference. That it has one (`NobodyForgotten`)
is proved apart, because it needs two more facts: an unfinished fiber that does not run is
referred to, and a queue that the loop clears after its range-for has been used up
(`QueuesAreUsedUp`); the second is where `~YieldAgain` is needed. The refinement maps
the state of a fiber to idle, running or parked, and the resumes it is owed to the
number of queues that it is in and that will resume it (`QueuedAt`); each of the loop's actions is then
shown to be `Start`, `Park`, `YieldNow`, `Wake`, `Resume`, `End` or a stutter.

### The synchronisation objects

`FiberObjects_proofs` begins with the part common to the mutex, the condition variable,
the shared mutex and the semaphores. A waiter is, from the entry in a wait queue until it
runs on, in exactly one place: the queue, the list that somebody popped it into
and has not pushed yet (`toWake`), or a signal queue (`SyncOK`). From this every step of an
object is a step of `FiberContract`. The modules give it their labels and queues. For
any number of fibers, threads, tokens and any capacity:

| Theorem | Property | Says |
|---|---|---|
| `MonitorIsSafe` | `MonitorInv` | one owner from the moment of the hand-over; nobody queued on a free mutex; no lost wake-up |
| `SharedMutexIsSafe` | `SharedMutexInv` | the state word says who holds the lock; whoever waits has a blocker whose release serves him |
| `WritersGoFirst` | `WritersFirst` | no reader gets in while a writer waits (the safety part of `GrantPolicy`) |
| `ChannelIsSafe` | `ChannelInv` | places and items are conserved by the semaphores |
| `ReadersFindAnItem` | | `front()` and `pop()` always find an item |
| `ChannelIsABuffer` | `ImplementsBuffer` | the channel implements `BoundedBuffer` |
| `MonitorRespectsContract`, `SharedMutexRespectsContract`, `ChannelRespectsContract` | `RespectsContract` | parked after registered, resumed once per wake-up |

What makes the invariants inductive. For the monitor: the fiber popped from the mutex
owns it before it runs (`Ownership` counts it), and as long as somebody waits for the
condition there are at least as many fibers under way to the token as there are tokens
(`EnoughUnderWay`); the lost wake-up of the usual mistake is a step that takes one
away. For the shared mutex: the lock is in one of two states, `Exclusive` or `Shared`,
each of which counts the fibers that were handed the lock and have not run yet. For
the channel: for each semaphore, the count plus the fibers that hold or owe a unit is
the capacity (`UnitsAreConserved`); places and items together give that a reader finds an
item. They assume that the fibers are finitely many (`SyncFibersAssumption`).

### The time wheel

`TimeWheel_proofs`, for any number of slots, items and delays and any width of the integers:

| Theorem | Property | Says |
|---|---|---|
| `SlotsStandForTimes` | `WheelInv` | each item sits in the slot of its time, within the turn |
| `TimersAreOnTime` | `OnTime` | never early, and a round misses nobody |
| `NobodyIsForgotten` | `StrandedOnlyBySetBack` | only a clock set back behind the wheel strands a fiber |

All three have the hypothesis `[]LoopIsPrompt`: the loop is never half the range of an
`int` late, which is 24.8 days. A bound on the clock instead would be unjustified: the
clock is a 64-bit time since 1970, and the count is of milliseconds since the last round.
The run `TimeWheel_overflow` shows what a later loop does. `NobodyIsForgotten` also asks
for delays that are not negative and do not wrap the 64-bit sum, because a wrapped
time is behind the wheel and is refused like a clock set back. The argument is
arithmetic: `(idx + (n % S)) % S` stands for the same slot whatever full turns lie between
(`ModShift`), and two times less than a turn apart have different slots (`ModUnique`).

### The log and the pool

`HttpBackend_proofs`, for any finite number of workers, any number of connections and
requests, any capacity of the deque, length of a file and number of days:

| Theorem | Property | Says |
|---|---|---|
| `BackendIsConsistent` | `IInv` | the inductive invariant holds in every reachable state |
| `PoolIsConsistent` | `PoolInv` | a permit per queued connection, so pop never meets an empty queue; each connection is where it was freed to |
| `NoLineIsLost` | `LinesAreKept` | every accepted line is in the file, the writer's hand or the deque, once, in order but for those that found the deque full |
| `FilesAreBounded` | `FilesAreRight` | a file gets at most `MaxLines` lines and those that were queued when it was opened, unless two threads were inside `write` at once; the queued ones are never more than the deque holds and one (`RotatesOnTime`); no line is put in a file that is closed to be changed, or that `~Log` has closed (`LinesGoToOpenFile`) |

`LinesAreConserved` is not inductive: while a line is about to be pushed, its number must
not be in the row yet, which the sets of the property do not say (`Lines`). `RotatesOnTime` counts
the lines put in the open file. They are compared with the lines accepted since it was opened
(`sinceOpen`), which `write` controls; the difference is made up by the lines that were
accepted earlier and put in no earlier file, `Carried`. It does not change while
the file is open, whichever thread puts which line, and at `fopen` it is the deque and the
writer's hand (`FileIsRight`, `OpenFileCarries`). That `sinceOpen` stays within `MaxLines` needs
that a worker that was told not to change the file finds room for its line: the lines of
the open file and the counter `lineCount_`, which goes on over a change of file and starts
anew on a new day, have the same remainder (`InStep`), and a worker that was told
to change the file has kept the remainder at 0 (`Rotation`). `PermitsMatchQueue`
holds only while `main()` runs, since `ClosePool` empties the queue and leaves the
permits; so the proof needs that no worker is busy then (`MainIsLast`). That the database's
functions never get a null pointer is `SqlIsRight`: past the assertion a worker has a
connection. `LinesGoToOpenFile` needs that the file is closed only by somebody who holds
the lock until the next one is open, and by the destructor after the writer has ended and
no worker is left (`FileIsRight`, `MainIsLast`).

### A connection of the HTTP servers

`HttpServers_proofs` proves, for every set of scripts, window, buffer size, length of
head and file, and every subset of the four kinds of file:

| Theorem | Property | Says |
|---|---|---|
| `Invariance` | `IInv` | the inductive invariant holds in every reachable state |
| `Releases` | `ResourcesAreReleased` | the number of the socket is closed once and the user counted out once (`ClosedOnce`); no mapping is lost but those `AddContent_` gives up, and none is held at the end (`FilesAreUnmapped`) |
| `OrderIsKept` | `BufferHoldsInput`, `ResponsesAreWhole` | the stackful server loses, doubles or misplaces nothing in either direction |
| `BytesStay` | `BytesAreKept` | the same with the types: until a read overruns `read_buf_`, the cursors of the other server stay inside it |
| `RequestsAreAnswered` | `AnswersFit` | a client that sends its requests whole and waits gets one answer to each, in order, for the method and the connection header it sent; of a request after a form the stackful server may take the method wrong; the stackless one overruns `read_buf_` only with a request as long as the array |

They rest on the ASSUMEs of the modules (sizes are positive, scripts consist of the three
kinds of requests). `ClosedOnce` is not inductive: `Close` decides by
`isClose_`, so it must be known that `isClose_` is false whenever the fiber reaches its own
`Close` and true in the destructor, and that the number is this connection's own until
the first of the two and never after (`CloseFollowsPhase`). `FilesAreUnmapped` needs
that the counts of mappings agree before `MakeResponse`, which unmaps the last
response's file first (`MappingsAreHeld`). Twelve of the fifteen steps only move an
open connection to another phase (`StaysOpen`); the accept, the response and `Close` have
lemmas or steps of their own.

The bytes that come in: what the buffer holds and what is in the socket are together the
end of what was sent (`InputIsKept`). `BufferHoldsInput` speaks of the buffer alone and is
not inductive, because the next read appends what the socket holds. The bytes that go
out: what the client received, what is in the socket, what is readable in the write
buffer and the rest of the mapped file are together the responses begun so far
(`Delivered`). That needs the first vector to describe what is readable in the buffer and
the second to end where the file ends (`VectorsDescribe`), which `write()` keeps up by
three statements on two counters, and that between two responses nothing is
unsent (`WrittenOut`), because `MakeResponse` overwrites both vectors. The lemmas below
are about `Buffer` (what `Retrieve`, `MakeSpace`, `Append` and `ReadFd` do to the readable
part, `AppendAdds`, `ReadAdds`), about a vector that is moved within the head
or into the file (`HeadMoves`, `FileMoves`), and about `FlattenSeq`, which is defined by
recursion: the library's induction theorems cannot be used, but a set of numbers that is
closed under successor can (`SetInduction`, from the well-foundedness of `<`), and
with it `FlattenAppend`.

None of them bounds the length of a request, since `AsyncRead` does not: what the socket holds
either leaves a cell of `read_buf_` free or overruns it (`Overrun`). In the first case the last
cell stays NUL, so `strlen` and the parser's cursors end before it (`ArrayEnds`), and
`BytesStay` holds for every script. `AnswersFit` says when the second case happens to a client
that waits for its answers: only if one of its requests is as long as the array
(`OverrunsFit`). The handler's first read does not wait for input, and may happen after
the client has left; that nothing but the next request waits in the socket
then is a part of the invariant of its own.

`AnswersFit` compares the answers with the script and says nothing of where a parser is. Its
inductive invariant `RequestsFit` does: unless one of the exceptions has occurred, the
client has sent as many requests as were answered or one more, and each phase of a
connection knows what its buffer holds of that one, written as lines with their ends
(`Ended`, `AtHeader`): all of it, what follows the first line, what follows each header,
the body (`ConnectionFits`, `HandlerFits`). That the client waits is `Answered` against
`Whole`, two counts over sequences, so the proof counts the responses that end in what was
received (`LastsAdd`, `LastsOfBody`, `AnsweredFits`) and the ends of requests in the stream
(`NextText`, `WholeIs`). Two things had to be found for it:

* The stackful server keeps the body of a form, which ends no line, and the next request
  stands behind it (`Left`). Only its first line suffers, whose method is read with the
  body in front; its headers do not, so the connection header of an answer is right
  even then.
* The stackless server never clears `read_buf_`, and `strlen` ends at the first NUL. A
  request of 6 or 10 tokens after a longer one is cut where it ends only because the
  cell behind it (`Marks`) is NUL: every request parsed over those cells put NULs over its
  line ends there, or was too short to reach them (`Tidy`). This depends on the three
  texts of the model; a request whose header text lies where an earlier, shorter one
  ended would be read on into what that one left.

### The pollers and the hooks

`FiberPoll_proofs`, for any finite number of fibers, any threads and descriptor numbers,
every placement of fibers on threads, every script, length of a write and size of a send
buffer:

| Theorem | Property | Says |
|---|---|---|
| `PollersAreKnown` | `PollersAreExact` | epoll keeps no poll item of a fiber that has left `co_poll_inner`; each fiber is in the active list once at most; an undisturbed waiter is armed |
| `HooksTellTheTruth` | `HooksAreHonest` | who waited for input finds it; `write` counts what it sent; `connect` says connected of a socket that is |
| `ContextsFollowFiles` | `ContextBelongsToFile` | flags and time limits are those of the present user of the number |

`NoDanglingRegistration` and `ActiveIsExact` need each other: a fiber that leaves its poll
deletes its registrations, and it leaves once because it was in the active list once
(`LoopInv`). The hooks were harder, because what a hook finds depends on
everybody else. `BlockingCallHasData` follows from a chain: the fiber was resumed by an
event or by a timer (`Resumed`); if it was an event, it still holds and
the socket is still the one the hook began with (`FilesAreKept`); nobody could take the
data or the registration without marking both as disturbed (`RivalsAreDisturbed`); and a
descriptor has one fiber that opens or closes it (`OneOpens`). The contexts need one fact
more: between `close` and the next `socket` a context remembers no time limit
(`ContextsAreClean`), which is what `close` is there for. The proof assumes that fibers are
finitely many and that descriptors are positive numbers (`PollAssumption`); 0 is the
descriptor of no call in the model.

### The stackless server

`CoServer_proofs`, for any sets of descriptors, connections and watchers, any deadlines,
forms of handlers, start orders, number of units and room:

| Theorem | Property | Says |
|---|---|---|
| `EmittersKnowTheWaiters` | `EventsAreWatched` | no emitter keeps an event whose task has gone on; each waiter is with every emitter it needs; `Run` returns when nobody waits |
| `TheEchoIsTheInput` | `EchoIsWhole` | the echo is the input, in order, once and whole |
| `TimersComeFirst` | `NoTimerIsPassedOver` | the loop leaves the timers only when none is due |

The scheduler's half of the invariant (`SchedulerInv`) says that a task is either ready,
which is exactly being in the queue behind the one that was handed control
(`QueueIsReady`), or running, or waiting for an event (`Controlled`). A resumption must clear
every emitter, since the others would resume a task that waits for something
else by then. `awaiting_` has one entry per descriptor, and `emplace` keeps the first
waiter; so a second one is watched by nobody, and the exception `shared` must
name everyone who met on the descriptor and not only the newcomer, because the first may go
and leave several behind. The attempt to prove the invariant showed
that the model named too few of them: with three watchers of one descriptor a task that was in no
emitter was not in `shared`; `RivalsShare` is the clause that failed, and `Rivals` the
repair. TLC reaches that state with three watchers.

The data's half (`DataInv`) states that what a handler echoed, holds and has not read are
in this order a rising sequence of what the peer sent (`UnitsRise`), and that it is all of it
unless the handler stopped short. A span handler never does: it writes only after a
wake-up, with the rest of its buffer (`Handlers`). The sequences are treated by index:
`FirstMovesOver` (a part moves to its neighbour), `RisingWithout` (a part is left out) and
`RisingGrows` (the next unit comes last).

### The configuration

`ConfigVars_proofs`, for any threads, names, types, values, contents and number of calls:

| Theorem | Property | Says |
|---|---|---|
| `ConfigIsKept` | `ConfigInv` | locks are held as the labels say; a handle names its owner's listener; who was told keeps a true copy |
| `RecordedFileIsLoaded` | `FileIsLoaded` | a file whose time was recorded has been read as it is |
| `ObjectsStay` | `CreatedOnce` | a name keeps its object |

`HandleNamesListener` needs that no id is given twice, and ids are counted per type but
the lock is per variable: as long as no two variables of a type were inside `AddListener` at
once, the id being added is above every id that is kept in a map, in a handle or in the
hands of somebody who is about to remove it (`NewIsAbove`), and every id is at most the
counter (`Counted`). `MirrorFollows` is about variables at rest; while one is
being set, the listeners still to be called have heard the old value or nothing and the
others the new one (`HeardAt`), which the shared lock makes true by keeping listeners from
being added. `CreatedOnce` is that the registry's lock is held from the search
to the creation (`LocksAreExact`, `Carries`). `FileIsLoaded` needs only that a time read with
`stat` is not in the future (`TimesPass`).

## Only model-checked

* Liveness (all properties with `~>` or fairness, the liveness part of `GrantPolicy`)
  and ENABLED: out of the proof system's reach.

## Not modelled, and why

* The context switch (assembly, stack layout): below the level of a model; it is
  the assignment of the running fiber.
* `Thread`, the lock wrappers and the logger of `core`: each wraps one pthread object or
  one call of stdio; the locks appear in the models of those who use them.
* `semaphore::try_wait` and `BlockDeque`'s timed pop, which nothing calls; the
  synchronous mode of `Log` and a second call of `init`.
* The hooks of the environment and of `gethostbyname`, and the unhooked path of the other
  ones: no program of the repository uses them.
* Frames of stackless coroutines and exceptions (`Main`, `Synchronous`): a frame that is
  leaked or destroyed twice has no later step in which the model could go wrong.
* The fields of a form, status lines, MIME types, paths: string conversions that no
  property is about.
* YAML conversions and the flattening of a tree: a text is the value it denotes.
* What a handler does after it has overrun `read_buf_`.
* Errors of `accept4` other than `EAGAIN`: the accept loop of `AsyncAccept` is modelled for a
  process that does not run out of descriptors.
* The pointers of the wheel's lists.
