----------------------------- MODULE FiberSync -----------------------------
(***************************************************************************)
(* The synchronisation objects of src/include/fiber/fiber.h: mutex,        *)
(* shared_mutex, condition_variable and semaphore.                         *)
(*                                                                         *)
(* An operation of the code has two parts.  The first runs under the spin  *)
(* lock of the object and nothing can interleave with it: it is a function *)
(* of the object, giving the object afterwards, whether the caller must    *)
(* park, and which waiters the caller must wake.  The second happens after *)
(* the spin lock was released: Fiber::Yield, or one push on a signal queue *)
(* per woken fiber.  Fibers of other threads run between any two of these. *)
(*                                                                         *)
(* The modules that extend this one give the fibers a program: it performs *)
(* operations with Perform, and continues at a label of its own.           *)
(***************************************************************************)
EXTENDS FiberContract, Integers, Sequences, FiniteSets

CONSTANT Placements     \* which fibers share a thread: values of host to look at

ASSUME PlacementsAssumption == Placements \subseteq [Fibers -> Threads]
ASSUME SyncFibersAssumption == IsFiniteSet(Fibers)

VARIABLES pc,           \* the label a fiber is at, or one of the three below
          next,         \* the label it continues at after its operation
          toWake        \* waiters it popped and has not pushed yet

syncVars == <<status, owed, host, pc, next, toWake>>

InsideOp == {"yield",   \* is in a wait queue and is about to call Yield
             "parked",  \* called Yield
             "push"}    \* is about to push the head of toWake

Elems(s) == {s[i] : i \in DOMAIN s}
NoRepeats(s) == \A i, j \in DOMAIN s : s[i] = s[j] => i = j

-----------------------------------------------------------------------------
(* What happens to the caller: it goes on, parks, or wakes some waiters.    *)
GoOn(o)       == [obj |-> o, park |-> FALSE, wake |-> <<>>]
MustPark(o)   == [obj |-> o, park |-> TRUE,  wake |-> <<>>]
WakeUp(o, ws) == [obj |-> o, park |-> FALSE, wake |-> ws]

(* fiber::mutex *)
Mutex == [locked : BOOLEAN, waiters : Seq(Fibers)]
NewMutex == [locked |-> FALSE, waiters |-> <<>>]

MutexLock(m, f) ==
  IF ~m.locked
  THEN GoOn([m EXCEPT !.locked = TRUE])
  ELSE MustPark([m EXCEPT !.waiters = Append(@, f)])

(* With a waiter the mutex stays locked: it is handed over. *)
MutexUnlock_WakesLast(m) ==
  IF m.waiters # <<>>
  THEN WakeUp([m EXCEPT !.waiters = SubSeq(@, 1, Len(@) - 1)], <<m.waiters[Len(m.waiters)]>>)
  ELSE GoOn([m EXCEPT !.locked = FALSE])
MutexUnlock(m) ==
  IF m.waiters # <<>>
  THEN WakeUp([m EXCEPT !.waiters = Tail(@)], <<Head(m.waiters)>>)
  ELSE GoOn([m EXCEPT !.locked = FALSE])

(* fiber::condition_variable is its queue of waiters. *)
NotifyOne_Peeks(q) ==
  IF q # <<>> THEN WakeUp(q, <<Head(q)>>) ELSE GoOn(q)
NotifyOne(q) ==
  IF q # <<>> THEN WakeUp(Tail(q), <<Head(q)>>) ELSE GoOn(q)

NotifyAll_WakesOne(q) ==
  IF q # <<>> THEN WakeUp(<<>>, <<Head(q)>>) ELSE GoOn(q)
NotifyAll(q) == WakeUp(<<>>, q)

(* fiber::semaphore *)
Semaphore == [count : Nat, waiters : Seq(Fibers)]
NewSemaphore(n) == [count |-> n, waiters |-> <<>>]

SemWait(s, f) ==
  IF s.count > 0
  THEN GoOn([s EXCEPT !.count = @ - 1])
  ELSE MustPark([s EXCEPT !.waiters = Append(@, f)])

(* With a waiter the count stays at 0: the unit is handed over. *)
SemSignal_CountsTwice(s) ==
  IF s.waiters # <<>>
  THEN WakeUp([count |-> s.count + 1, waiters |-> Tail(s.waiters)], <<Head(s.waiters)>>)
  ELSE GoOn([s EXCEPT !.count = @ + 1])
SemSignal_Peeks(s) ==
  IF s.waiters # <<>>
  THEN WakeUp(s, <<Head(s.waiters)>>)
  ELSE GoOn([s EXCEPT !.count = @ + 1])
SemSignal_WakesLast(s) ==
  IF s.waiters # <<>>
  THEN WakeUp([s EXCEPT !.waiters = SubSeq(@, 1, Len(@) - 1)], <<s.waiters[Len(s.waiters)]>>)
  ELSE GoOn([s EXCEPT !.count = @ + 1])
SemSignal(s) ==
  IF s.waiters # <<>>
  THEN WakeUp([s EXCEPT !.waiters = Tail(@)], <<Head(s.waiters)>>)
  ELSE GoOn([s EXCEPT !.count = @ + 1])

(* fiber::shared_mutex: state is -1 for a writer, else the number of readers*)
SharedMutex == [state : Int, rwaiters : Seq(Fibers), wwaiters : Seq(Fibers)]
NewSharedMutex == [state |-> 0, rwaiters |-> <<>>, wwaiters |-> <<>>]

ExclusiveLock(rw, f) ==
  IF rw.state = 0
  THEN GoOn([rw EXCEPT !.state = -1])
  ELSE MustPark([rw EXCEPT !.wwaiters = Append(@, f)])

(* A waiting writer inherits the lock, else all waiting readers do. *)
ExclusiveUnlock_KeepsReaders(rw) ==
  IF rw.wwaiters # <<>>
  THEN WakeUp([rw EXCEPT !.wwaiters = Tail(@)], <<Head(rw.wwaiters)>>)
  ELSE IF rw.rwaiters # <<>>
  THEN WakeUp([rw EXCEPT !.state = Len(rw.rwaiters)], rw.rwaiters)
  ELSE GoOn([rw EXCEPT !.state = 0])
ExclusiveUnlock(rw) ==
  IF rw.wwaiters # <<>>
  THEN WakeUp([rw EXCEPT !.wwaiters = Tail(@)], <<Head(rw.wwaiters)>>)
  ELSE IF rw.rwaiters # <<>>
  THEN WakeUp([rw EXCEPT !.state = Len(rw.rwaiters), !.rwaiters = <<>>], rw.rwaiters)
  ELSE GoOn([rw EXCEPT !.state = 0])

(* Readers queue behind waiting writers. *)
MayShare_Barges(rw) == rw.state >= 0
MayShare(rw) == rw.state >= 0 /\ rw.wwaiters = <<>>

SharedLock(rw, f) ==
  IF MayShare(rw)
  THEN GoOn([rw EXCEPT !.state = @ + 1])
  ELSE MustPark([rw EXCEPT !.rwaiters = Append(@, f)])

(* The last reader hands the lock to the first waiting writer. *)
SharedUnlock_ForgetsWriter(rw) == GoOn([rw EXCEPT !.state = @ - 1])
SharedUnlock(rw) ==
  IF rw.state = 1 /\ rw.wwaiters # <<>>
  THEN WakeUp([rw EXCEPT !.wwaiters = Tail(@), !.state = -1], <<Head(rw.wwaiters)>>)
  ELSE GoOn([rw EXCEPT !.state = @ - 1])

-----------------------------------------------------------------------------
(* The fibers exist, are started and parked, and the loops will resume them:*)
(* the state after each of them called yield() first.                       *)
SyncInit(start) ==
  /\ host \in Placements
  /\ status = [f \in Fibers |-> "parked"]
  /\ owed = [f \in Fibers |-> 1]
  /\ pc = [f \in Fibers |-> "parked"]
  /\ next = [f \in Fibers |-> start]
  /\ toWake = [f \in Fibers |-> <<>>]

At(f, label) == status[f] = "running" /\ pc[f] = label

Goto(f, label) ==
  /\ pc' = [pc EXCEPT ![f] = label]
  /\ UNCHANGED <<status, owed, host, next, toWake>>

(* The caller continues at label after an operation with result r. *)
Perform(f, r, label) ==
  /\ pc' = [pc EXCEPT ![f] = IF r.park THEN "yield"
                             ELSE IF r.wake # <<>> THEN "push" ELSE label]
  /\ next' = [next EXCEPT ![f] = label]
  /\ toWake' = [toWake EXCEPT ![f] = r.wake]
  /\ UNCHANGED <<status, owed, host>>

(* Fiber::Yield at the end of a blocking operation. *)
YieldStep(f) ==
  /\ At(f, "yield")
  /\ status' = [status EXCEPT ![f] = "parked"]
  /\ pc' = [pc EXCEPT ![f] = "parked"]
  /\ UNCHANGED <<owed, host, next, toWake>>

(* fb->env_->syncSignalFiberQ_.push_back(fb), under the queue's spin lock.  *)
PushStep(f) ==
  /\ At(f, "push")
  /\ owed' = [owed EXCEPT ![Head(toWake[f])] = @ + 1]
  /\ toWake' = [toWake EXCEPT ![f] = Tail(@)]
  /\ pc' = [pc EXCEPT ![f] = IF Len(toWake[f]) = 1 THEN next[f] ELSE "push"]
  /\ UNCHANGED <<status, host, next>>

(* The loop of the thread resumes the fiber. *)
ResumeStep(f) ==
  /\ owed[f] > 0
  /\ LoopRuns(host[f])
  /\ owed' = [owed EXCEPT ![f] = @ - 1]
  /\ status' = [status EXCEPT ![f] = "running"]
  /\ pc' = [pc EXCEPT ![f] = next[f]]
  /\ UNCHANGED <<host, next, toWake>>

(* this_fiber::yield in the middle of the fiber's program. *)
Pause(f) ==
  /\ status' = [status EXCEPT ![f] = "parked"]
  /\ owed' = [owed EXCEPT ![f] = @ + 1]
  /\ pc' = [pc EXCEPT ![f] = "parked"]
  /\ next' = [next EXCEPT ![f] = pc[f]]
  /\ UNCHANGED <<host, toWake>>

SyncStep(f) == YieldStep(f) \/ PushStep(f) \/ ResumeStep(f)

-----------------------------------------------------------------------------
SyncTypeOK(labels) ==
  /\ host \in [Fibers -> Threads]
  /\ status \in [Fibers -> {"running", "parked"}]
  /\ owed \in [Fibers -> Nat]
  /\ pc \in [Fibers -> labels \cup InsideOp]
  /\ next \in [Fibers -> labels]
  /\ toWake \in [Fibers -> Seq(Fibers)]

(* The objects keep their side of the contract: they never queue a second   *)
(* resume for a fiber, and every resume finds a fiber that has parked.      *)
RespectsContract == [][ContractNext]_contractVars
=============================================================================
