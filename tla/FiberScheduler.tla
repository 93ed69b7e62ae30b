--------------------------- MODULE FiberScheduler ---------------------------
(***************************************************************************)
(* The stackful scheduler of src/src/piorun/fiber/fiber.cc: the loop that  *)
(* every scheduler thread runs (threadRoutine), the task queue all threads *)
(* steal from (MultiThreadFiberScheduler), the fiber pool and the queues   *)
(* of FiberEnvironment, Fiber::Resume and Fiber::Yield, and the protocol   *)
(* by which the threads agree that the process is finished.                *)
(*                                                                         *)
(* A step is what one thread does between two accesses to shared state.    *)
(* Shared: commTasks and wannaQuitThreadCount (under the scheduler's spin  *)
(* lock), the signal queue of each thread (under its own spin lock), and   *)
(* waiters, the wait queue of a synchronisation object.  Everything else   *)
(* is local to a thread, and a thread runs one fiber at a time until the   *)
(* fiber yields.                                                           *)
(*                                                                         *)
(* What the user functions do is left open: at any moment a running fiber  *)
(* may schedule a task, yield, sleep, wait on the synchronisation object,  *)
(* wake somebody who waits there, or return.                               *)
(***************************************************************************)
EXTENDS Integers, Sequences, FiniteSets

CONSTANTS Threads,      \* the threadNum threads of the scheduler
          Main,         \* thread 0, which runs main() before its loop
          Tasks,        \* functions handed to go / Schedule, each once
          Fibers,       \* Fiber objects the pools may ever allocate
          PoolSize,     \* fibers allocated when a pool is empty (64)
          YieldAgain,   \* may a fiber resumed from a yield() yield() at once?
          NoThread, NoFiber, NoTask

ASSUME ThreadsAssumption == /\ IsFiniteSet(Threads)
                            /\ Main \in Threads
                            /\ NoThread \notin Threads
ASSUME FibersAssumption == /\ IsFiniteSet(Fibers)
                           /\ NoFiber \notin Fibers
                           /\ PoolSize \in Nat \ {0}
ASSUME TasksAssumption == NoTask \notin Tasks
ASSUME YieldAgainAssumption == YieldAgain \in BOOLEAN

VARIABLES
  \* MultiThreadFiberScheduler, shared by all threads
  mutex,                 \* holder of the scheduler's spin lock, or NoThread
  commTasks,             \* tasks no thread has taken yet
  wannaQuitThreadCount,
  \* locals of threadRoutine
  pc,                    \* where the thread is in its loop
  wannaQuit,
  stealedTasks,          \* tasks taken and not started yet
  due,                   \* the active list: fibers whose event or timer is due
  work,                  \* fibers still to be resumed by the current for loop
  \* FiberEnvironment, one per thread
  currentFiberCount,
  userYieldFiberQ,
  syncSignalFiberQ,
  fiberPool,
  events,                \* fibers with an item in the time wheel or in epoll
  running,               \* top of the call stack, NoFiber for the main fiber
  \* the fiber operation a thread is in the middle of
  atYield,               \* pushed itself on a wait queue, has not yielded yet
  hand,                  \* popped from a wait queue, not in a signal queue yet
  \* Fiber
  env, cStart, cEnd, pfn,
  \* the rest of the program
  waiters,               \* wait queue of a mutex, condition, semaphore ...
  taskState              \* history of each task: new, submitted, done

shared  == <<mutex, commTasks, wannaQuitThreadCount>>
locals  == <<pc, wannaQuit, stealedTasks, due, work>>
queues  == <<userYieldFiberQ, syncSignalFiberQ, events, waiters>>
control == <<running, atYield, hand>>
objects == <<env, cStart, cEnd, pfn, fiberPool, currentFiberCount>>
vars == <<shared, locals, queues, control, objects, taskState>>

ThreadNum == Cardinality(Threads)

LoopPc == {"try", "locked", "arrive", "active", "stolen", "yielded", "signaled"}

Elems(s) == {s[i] : i \in DOMAIN s}
Positions(s, x) == {i \in DOMAIN s : s[i] = x}

(* The fibers that are in the middle of their function. *)
Live == {f \in Fibers : cStart[f] /\ ~cEnd[f]}
LiveOn(t) == {f \in Live : env[f] = t}

Init ==
  /\ mutex = NoThread
  /\ commTasks = <<>>
  /\ wannaQuitThreadCount = 0
  /\ pc = [t \in Threads |-> IF t = Main THEN "main" ELSE "try"]
  /\ wannaQuit = [t \in Threads |-> FALSE]
  /\ stealedTasks = [t \in Threads |-> <<>>]
  /\ due = [t \in Threads |-> {}]
  /\ work = [t \in Threads |-> <<>>]
  /\ currentFiberCount = [t \in Threads |-> 0]
  /\ userYieldFiberQ = [t \in Threads |-> <<>>]
  /\ syncSignalFiberQ = [t \in Threads |-> <<>>]
  /\ fiberPool = [t \in Threads |-> {}]
  /\ events = [t \in Threads |-> {}]
  /\ running = [t \in Threads |-> NoFiber]
  /\ atYield = [t \in Threads |-> FALSE]
  /\ hand = [t \in Threads |-> NoFiber]
  /\ env = [f \in Fibers |-> NoThread]
  /\ cStart = [f \in Fibers |-> FALSE]
  /\ cEnd = [f \in Fibers |-> FALSE]
  /\ pfn = [f \in Fibers |-> NoTask]
  /\ waiters = <<>>
  /\ taskState = [k \in Tasks |-> "new"]

-----------------------------------------------------------------------------
(* Fiber::Resume on a fiber that is in the middle of its function: push it  *)
(* on the call stack and switch to it.                                      *)
SwitchTo(t, f) == running' = [running EXCEPT ![t] = f]

(* Fiber::Yield: pop the call stack and switch to the loop of the thread.   *)
SwitchToLoop(t) == running' = [running EXCEPT ![t] = NoFiber]

LoopRuns(t) == running[t] = NoFiber

-----------------------------------------------------------------------------
(* Small pieces of threadRoutine and of the wake-up path, each preceded by   *)
(* a mistake (Name_Mistake) that a property below must notice.              *)

(* The vote counter after thread t votes to quit, and after it takes tasks. *)
CountVote(t) ==
  IF wannaQuit[t] THEN wannaQuitThreadCount ELSE wannaQuitThreadCount + 1

UncountVote_Never(t) == wannaQuitThreadCount
UncountVote(t) ==
  IF wannaQuit[t] THEN wannaQuitThreadCount - 1 ELSE wannaQuitThreadCount

AllVoted_OffByOne(n) == n > ThreadNum
AllVoted(n) == n = ThreadNum

(* Thread t has nothing to run and nothing to wait for. *)
NothingToDo_IgnoresFibers(t) == stealedTasks[t] = <<>>
NothingToDo(t) == stealedTasks[t] = <<>> /\ currentFiberCount[t] = 0

(* What a thread gets when it swaps its empty deque with commTasks. *)
Loot == commTasks

(* The signal queue handed to the loop, and what stays in the queue. *)
Signaled_Drops(t) == <<>>
Signaled(t) == syncSignalFiberQ[t]

Unsignaled_Keeps(t) == syncSignalFiberQ[t]
Unsignaled(t) == <<>>

(* The thread whose signal queue receives a woken fiber: fb->env_. *)
HomeOf_Caller(t, f) == t
HomeOf(t, f) == env[f]

-----------------------------------------------------------------------------
(* threadRoutine.  EpollWait and the try-lock block: the thread takes all   *)
(* common tasks, or declares that it wants to quit, or leaves.  isaccept is *)
(* false in every run of the loop (the hook table is filled during static   *)
(* initialisation), so the test on it never stops a steal.                  *)
TryLock(t) ==
  /\ pc[t] = "try"
  /\ mutex = NoThread
  /\ mutex' = t
  /\ pc' = [pc EXCEPT ![t] = "locked"]
  /\ UNCHANGED <<commTasks, wannaQuitThreadCount, wannaQuit, stealedTasks, due,
                 work, queues, control, objects, taskState>>

TryLockFails(t) ==
  /\ pc[t] = "try"
  /\ mutex # NoThread
  /\ pc' = [pc EXCEPT ![t] = "arrive"]
  /\ UNCHANGED <<shared, wannaQuit, stealedTasks, due, work, queues, control,
                 objects, taskState>>

Steal(t) ==
  /\ pc[t] = "locked"
  /\ commTasks # <<>>
  /\ stealedTasks' = [stealedTasks EXCEPT ![t] = Loot]
  /\ commTasks' = stealedTasks[t]
  /\ wannaQuit' = [wannaQuit EXCEPT ![t] = FALSE]
  /\ wannaQuitThreadCount' = UncountVote(t)
  /\ mutex' = NoThread
  /\ pc' = [pc EXCEPT ![t] = "arrive"]
  /\ UNCHANGED <<due, work, queues, control, objects, taskState>>

(* Nothing to take, but fibers of this thread are not finished. *)
KeepGoing(t) ==
  /\ pc[t] = "locked"
  /\ commTasks = <<>>
  /\ ~NothingToDo(t)
  /\ mutex' = NoThread
  /\ pc' = [pc EXCEPT ![t] = "arrive"]
  /\ UNCHANGED <<commTasks, wannaQuitThreadCount, wannaQuit, stealedTasks, due,
                 work, queues, control, objects, taskState>>

(* Nothing to do: vote to quit, and leave when every thread has voted. *)
VoteToQuit(t) ==
  /\ pc[t] = "locked"
  /\ commTasks = <<>>
  /\ NothingToDo(t)
  /\ wannaQuit' = [wannaQuit EXCEPT ![t] = TRUE]
  /\ wannaQuitThreadCount' = CountVote(t)
  /\ mutex' = NoThread
  /\ pc' = [pc EXCEPT ![t] = IF AllVoted(CountVote(t))
                             THEN "exit" ELSE "arrive"]
  /\ UNCHANGED <<commTasks, stealedTasks, due, work, queues, control, objects,
                 taskState>>

(* Collect the arrived events and the expired timers.  Which of the items   *)
(* that are registered have arrived is decided by the kernel and the clock. *)
TakeArrivals(t) ==
  /\ pc[t] = "arrive"
  /\ \E D \in SUBSET events[t] :
       /\ due' = [due EXCEPT ![t] = D]
       /\ events' = [events EXCEPT ![t] = @ \ D]
  /\ pc' = [pc EXCEPT ![t] = "active"]
  /\ UNCHANGED <<shared, wannaQuit, stealedTasks, work, userYieldFiberQ,
                 syncSignalFiberQ, waiters, control, objects, taskState>>

(* The loop over the active list: OnPollProcess resumes the fiber. *)
ResumeDue(t) ==
  /\ pc[t] = "active" /\ LoopRuns(t)
  /\ \E f \in due[t] :
       /\ due' = [due EXCEPT ![t] = @ \ {f}]
       /\ SwitchTo(t, f)
  /\ UNCHANGED <<shared, pc, wannaQuit, stealedTasks, work, queues, atYield,
                 hand, objects, taskState>>

EndActive(t) ==
  /\ pc[t] = "active" /\ LoopRuns(t)
  /\ due[t] = {}
  /\ pc' = [pc EXCEPT ![t] = "stolen"]
  /\ UNCHANGED <<shared, wannaQuit, stealedTasks, due, work, queues, control,
                 objects, taskState>>

(* The loop over the stolen tasks: GetFiberFromPool, Reset, Resume, and the *)
(* first instruction of GoRoutine.  The order in which a pool hands out its *)
(* fibers is left open; an empty pool first grows by PoolSize fibers.       *)
PoolFor(t) ==
  IF fiberPool[t] # {}
  THEN {fiberPool[t]}
  ELSE {F \in SUBSET {f \in Fibers : env[f] = NoThread} :
          Cardinality(F) = PoolSize}

StartTask(t) ==
  /\ pc[t] = "stolen" /\ LoopRuns(t)
  /\ stealedTasks[t] # <<>>
  /\ stealedTasks' = [stealedTasks EXCEPT ![t] = Tail(@)]
  /\ \E P \in PoolFor(t) : \E f \in P :
       /\ fiberPool' = [fiberPool EXCEPT ![t] = P \ {f}]
       /\ env' = [g \in Fibers |-> IF g \in P THEN t ELSE env[g]]
       /\ pfn' = [pfn EXCEPT ![f] = Head(stealedTasks[t])]
       /\ cStart' = [cStart EXCEPT ![f] = TRUE]
       /\ cEnd' = [cEnd EXCEPT ![f] = FALSE]
       /\ currentFiberCount' = [currentFiberCount EXCEPT ![t] = @ + 1]
       /\ SwitchTo(t, f)
  /\ UNCHANGED <<shared, pc, wannaQuit, due, work, queues, atYield, hand,
                 taskState>>

(* The range-for over userYieldFiberQ_ fixes its end before the first fiber *)
(* runs: work is the part it will visit, and userYieldFiberQ from here on   *)
(* the part that yield() appends behind it.                                 *)
EndStolen(t) ==
  /\ pc[t] = "stolen" /\ LoopRuns(t)
  /\ stealedTasks[t] = <<>>
  /\ work' = [work EXCEPT ![t] = userYieldFiberQ[t]]
  /\ userYieldFiberQ' = [userYieldFiberQ EXCEPT ![t] = <<>>]
  /\ pc' = [pc EXCEPT ![t] = "yielded"]
  /\ UNCHANGED <<shared, wannaQuit, stealedTasks, due, syncSignalFiberQ, events,
                 waiters, control, objects, taskState>>

ResumeWork(t) ==
  /\ pc[t] \in {"yielded", "signaled"} /\ LoopRuns(t)
  /\ work[t] # <<>>
  /\ work' = [work EXCEPT ![t] = Tail(@)]
  /\ SwitchTo(t, Head(work[t]))
  /\ UNCHANGED <<shared, pc, wannaQuit, stealedTasks, due, queues, atYield,
                 hand, objects, taskState>>

(* userYieldFiberQ_.clear(), then the swap of the signal queue. *)
EndYielded(t) ==
  /\ pc[t] = "yielded" /\ LoopRuns(t)
  /\ work[t] = <<>>
  /\ userYieldFiberQ' = [userYieldFiberQ EXCEPT ![t] = <<>>]
  /\ work' = [work EXCEPT ![t] = Signaled(t)]
  /\ syncSignalFiberQ' = [syncSignalFiberQ EXCEPT ![t] = Unsignaled(t)]
  /\ pc' = [pc EXCEPT ![t] = "signaled"]
  /\ UNCHANGED <<shared, wannaQuit, stealedTasks, due, events, waiters, control,
                 objects, taskState>>

EndSignaled(t) ==
  /\ pc[t] = "signaled" /\ LoopRuns(t)
  /\ work[t] = <<>>
  /\ pc' = [pc EXCEPT ![t] = "try"]
  /\ UNCHANGED <<shared, wannaQuit, stealedTasks, due, work, queues, control,
                 objects, taskState>>

-----------------------------------------------------------------------------
(* What the user's code does, on a fiber or in main(). *)
UserCode(t) ==
  /\ pc[t] = "main" \/ ~LoopRuns(t)
  /\ mutex # t
  /\ hand[t] = NoFiber
  /\ ~atYield[t]

FiberCode(t) == UserCode(t) /\ ~LoopRuns(t)

(* go / Schedule: take the spin lock, append, release. *)
ScheduleLock(t) ==
  /\ UserCode(t)
  /\ \E k \in Tasks : taskState[k] = "new"
  /\ mutex = NoThread
  /\ mutex' = t
  /\ UNCHANGED <<commTasks, wannaQuitThreadCount, locals, queues, control,
                 objects, taskState>>

SchedulePush(t) ==
  /\ mutex = t /\ pc[t] # "locked"
  /\ \E k \in Tasks :
       /\ taskState[k] = "new"
       /\ taskState' = [taskState EXCEPT ![k] = "submitted"]
       /\ commTasks' = Append(commTasks, k)
  /\ mutex' = NoThread
  /\ UNCHANGED <<wannaQuitThreadCount, locals, queues, control, objects>>

(* this_fiber::yield *)
YieldFiber(t) ==
  /\ FiberCode(t)
  /\ YieldAgain \/ pc[t] # "yielded"
  /\ userYieldFiberQ' = [userYieldFiberQ EXCEPT ![t] = Append(@, running[t])]
  /\ SwitchToLoop(t)
  /\ UNCHANGED <<shared, locals, syncSignalFiberQ, events, waiters, atYield,
                 hand, objects, taskState>>

(* sleep_for, sleep_until, co_poll_inner: register with this thread's wheel *)
(* or epoll instance and yield.                                             *)
AwaitEvent(t) ==
  /\ FiberCode(t)
  /\ events' = [events EXCEPT ![t] = @ \cup {running[t]}]
  /\ SwitchToLoop(t)
  /\ UNCHANGED <<shared, locals, userYieldFiberQ, syncSignalFiberQ, waiters,
                 atYield, hand, objects, taskState>>

(* The blocking operations of mutex, shared_mutex, semaphore and condition  *)
(* variable: push the fiber on the wait queue, release the spin lock of the *)
(* object, and only then yield.                                             *)
EnterWaitQueue(t) ==
  /\ FiberCode(t)
  /\ waiters' = Append(waiters, running[t])
  /\ atYield' = [atYield EXCEPT ![t] = TRUE]
  /\ UNCHANGED <<shared, locals, userYieldFiberQ, syncSignalFiberQ, events,
                 running, hand, objects, taskState>>

YieldInWait(t) ==
  /\ atYield[t]
  /\ atYield' = [atYield EXCEPT ![t] = FALSE]
  /\ SwitchToLoop(t)
  /\ UNCHANGED <<shared, locals, queues, hand, objects, taskState>>

(* unlock, signal, notify: pop a waiter under the spin lock of the object,  *)
(* then push it on the signal queue of the thread the fiber lives on.       *)
PopWaiter(t) ==
  /\ UserCode(t)
  /\ waiters # <<>>
  /\ hand' = [hand EXCEPT ![t] = Head(waiters)]
  /\ waiters' = Tail(waiters)
  /\ UNCHANGED <<shared, locals, userYieldFiberQ, syncSignalFiberQ, events,
                 running, atYield, objects, taskState>>

PushSignal(t) ==
  /\ hand[t] # NoFiber
  /\ syncSignalFiberQ' =
       [syncSignalFiberQ EXCEPT ![HomeOf(t, hand[t])] = Append(@, hand[t])]
  /\ hand' = [hand EXCEPT ![t] = NoFiber]
  /\ UNCHANGED <<shared, locals, userYieldFiberQ, events, waiters, running,
                 atYield, objects, taskState>>

(* The end of GoRoutine: the fiber goes back to the pool before it yields.  *)
Finish(t) ==
  /\ FiberCode(t)
  /\ LET f == running[t] IN
       /\ cEnd' = [cEnd EXCEPT ![f] = TRUE]
       /\ fiberPool' = [fiberPool EXCEPT ![env[f]] = @ \cup {f}]
       /\ currentFiberCount' = [currentFiberCount EXCEPT ![env[f]] = @ - 1]
       /\ taskState' = [taskState EXCEPT ![pfn[f]] = "done"]
  /\ SwitchToLoop(t)
  /\ UNCHANGED <<shared, locals, queues, atYield, hand, env, cStart, pfn>>

(* main() returns; the destructor of the main thread's FiberEnvironment     *)
(* enters threadRoutine(0, ...).                                            *)
MainReturns ==
  /\ pc[Main] = "main"
  /\ UserCode(Main)
  /\ pc' = [pc EXCEPT ![Main] = "try"]
  /\ UNCHANGED <<shared, wannaQuit, stealedTasks, due, work, queues, control,
                 objects, taskState>>

(* Every thread has left its loop: the process is over. *)
Terminated ==
  /\ \A t \in Threads : pc[t] = "exit"
  /\ UNCHANGED vars

-----------------------------------------------------------------------------
LoopStep(t) ==
  \/ TryLock(t) \/ TryLockFails(t) \/ Steal(t) \/ KeepGoing(t) \/ VoteToQuit(t)
  \/ TakeArrivals(t) \/ ResumeDue(t) \/ EndActive(t)
  \/ StartTask(t) \/ EndStolen(t)
  \/ ResumeWork(t) \/ EndYielded(t) \/ EndSignaled(t)

(* The fiber gives its thread back. *)
Leave(t) ==
  \/ YieldFiber(t) \/ AwaitEvent(t) \/ EnterWaitQueue(t) \/ Finish(t)

(* The second half of an operation already begun. *)
Complete(t) == SchedulePush(t) \/ YieldInWait(t) \/ PushSignal(t)

UserStep(t) == ScheduleLock(t) \/ PopWaiter(t) \/ Leave(t) \/ Complete(t)

Next ==
  \/ \E t \in Threads : LoopStep(t) \/ UserStep(t)
  \/ MainReturns
  \/ Terminated

Spec == Init /\ [][Next]_vars

(* The operating system runs every thread: weak fairness of the loop and of *)
(* an operation that has begun.  A thread that tries the lock every          *)
(* millisecond for ever is not beaten every time to a lock that is held for  *)
(* a few instructions.  Fibers are cooperative: no user function, main()     *)
(* included, keeps its thread for ever (strong fairness, because an operation*)
(* in progress disables leaving for a moment).                               *)
TryLockSucceeds(t) == []<>(pc[t] = "try") => []<><<TryLock(t)>>_vars

Fairness ==
  /\ \A t \in Threads : /\ WF_vars(LoopStep(t))
                        /\ TryLockSucceeds(t)
                        /\ WF_vars(Complete(t))
                        /\ SF_vars(Leave(t))
  /\ SF_vars(MainReturns)

FairSpec == Spec /\ Fairness

-----------------------------------------------------------------------------
(* Properties *)

(* Every variable keeps its type. *)
TypeOK ==
  /\ mutex \in Threads \cup {NoThread}
  /\ commTasks \in Seq(Tasks)
  /\ wannaQuitThreadCount \in 0 .. ThreadNum
  /\ pc \in [Threads -> LoopPc \cup {"main", "exit"}]
  /\ wannaQuit \in [Threads -> BOOLEAN]
  /\ stealedTasks \in [Threads -> Seq(Tasks)]
  /\ due \in [Threads -> SUBSET Fibers]
  /\ work \in [Threads -> Seq(Fibers)]
  /\ currentFiberCount \in [Threads -> Nat]
  /\ userYieldFiberQ \in [Threads -> Seq(Fibers)]
  /\ syncSignalFiberQ \in [Threads -> Seq(Fibers)]
  /\ fiberPool \in [Threads -> SUBSET Fibers]
  /\ events \in [Threads -> SUBSET Fibers]
  /\ running \in [Threads -> Fibers \cup {NoFiber}]
  /\ atYield \in [Threads -> BOOLEAN]
  /\ hand \in [Threads -> Fibers \cup {NoFiber}]
  /\ env \in [Fibers -> Threads \cup {NoThread}]
  /\ cStart \in [Fibers -> BOOLEAN]
  /\ cEnd \in [Fibers -> BOOLEAN]
  /\ pfn \in [Fibers -> Tasks \cup {NoTask}]
  /\ waiters \in Seq(Fibers)
  /\ taskState \in [Tasks -> {"new", "submitted", "done"}]

(* The places that hold a reference to fiber f: first those from which the  *)
(* loop of its thread will resume it without any further event.             *)
QueuedAt(f) ==
  UNION {  {<<"yield", t, i>> : i \in Positions(userYieldFiberQ[t], f)}
      \cup {<<"signal", t, i>> : i \in Positions(syncSignalFiberQ[t], f)}
      \cup {<<"work", t, i>> : i \in Positions(work[t], f)}
      \cup {<<"due", t>> : x \in due[t] \cap {f}}
      \cup {<<"hand", t>> : x \in {hand[t]} \cap {f}} : t \in Threads}

Places(f) ==
  QueuedAt(f) \cup {<<"event", t>> : t \in {u \in Threads : f \in events[u]}}
              \cup {<<"wait", i>> : i \in Positions(waiters, f)}

(* Whoever waits for a resume is referenced from exactly one queue, so it is *)
(* neither resumed twice nor forgotten; a running fiber is referenced only   *)
(* while it is between the wait queue and its Yield, and a fiber in a pool   *)
(* is not referenced at all.  A queue local to a thread holds only fibers of *)
(* this thread: no fiber ever migrates.                                      *)
ExactlyOneReference ==
  \A f \in Fibers :
    /\ Cardinality(Places(f)) =
         IF f \notin Live THEN 0
         ELSE IF running[env[f]] # f THEN 1
         ELSE IF atYield[env[f]] THEN 1 ELSE 0
    /\ \A t \in Threads :
         /\ f \in Elems(userYieldFiberQ[t]) \cup Elems(syncSignalFiberQ[t])
                 \cup Elems(work[t]) \cup events[t] \cup due[t] \cup {running[t]}
            => env[f] = t
         /\ f \in fiberPool[t] => env[f] = t /\ f \notin Live

(* The vote counter is exact, and a vote is never stale: a thread that wants *)
(* to quit has neither stolen tasks nor unfinished fibers, although it voted *)
(* rounds ago and tasks may have been scheduled since.                       *)
VotesAreHonest ==
  /\ wannaQuitThreadCount = Cardinality({t \in Threads : wannaQuit[t]})
  /\ \A t \in Threads : currentFiberCount[t] = Cardinality(LiveOn(t))
  /\ \A t \in Threads : wannaQuit[t] => /\ stealedTasks[t] = <<>>
                                        /\ LiveOn(t) = {}

(* When a thread leaves its loop, nothing is left to do anywhere: main() has *)
(* returned, every task handed to Schedule has run to its end, no fiber is   *)
(* unfinished on any thread.                                                 *)
ExitMeansDone ==
  (\E t \in Threads : pc[t] = "exit") =>
    /\ pc[Main] # "main"
    /\ commTasks = <<>>
    /\ Live = {}
    /\ \A k \in Tasks : taskState[k] # "submitted"

(* The loop implements the contract the synchronisation objects rely on.   *)
(* A waiter counts as woken when it is popped from the wait queue.          *)
Status(f) == IF f \notin Live THEN "idle"
             ELSE IF running[env[f]] = f THEN "running" ELSE "parked"

Contract == INSTANCE FiberContract
              WITH status <- [f \in Fibers |-> Status(f)],
                   owed <- [f \in Fibers |-> Cardinality(QueuedAt(f))],
                   host <- env
ImplementsContract == Contract!ContractSpec

(* A fiber to which a resume is owed runs again. *)
OwedIsResumed ==
  \A f \in Fibers : QueuedAt(f) # {} ~> \E t \in Threads : running[t] = f

(* A task handed to Schedule runs, whichever thread steals it. *)
SubmittedIsStarted ==
  \A k \in Tasks :
    taskState[k] = "submitted" ~> \/ \E f \in Live : pfn[f] = k
                                 \/ taskState[k] = "done"

(* Once main() has returned and no unfinished task is left, every thread     *)
(* leaves its loop: the votes are not lost and nobody waits for ever.        *)
ProcessExits ==
  (/\ pc[Main] # "main"
   /\ \A k \in Tasks : taskState[k] # "submitted")
     ~> \A t \in Threads : pc[t] = "exit"

(* Every task runs, and the process comes to its end. *)
WorkEnds == SubmittedIsStarted /\ ProcessExits
=============================================================================
