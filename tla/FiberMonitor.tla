---------------------------- MODULE FiberMonitor ----------------------------
(***************************************************************************)
(* fiber::mutex with fiber::condition_variable, used the way the tests of  *)
(* src/src/tests/stackful_coroutine use them: a producer changes the state *)
(* under the mutex and notifies, before or after it unlocks; a consumer    *)
(* waits in the predicate form of condition_variable::wait.                *)
(* A fiber may also only try the lock, and may yield() while it holds it.  *)
(***************************************************************************)
EXTENDS FiberSync

CONSTANTS Producers,    \* the fibers that put; the others get
          MaxTokens     \* bound on what the producers have put and not taken

Consumers == Fibers \ Producers

ASSUME MonitorAssumption == /\ Producers \subseteq Fibers
                            /\ MaxTokens \in Nat \ {0}

VARIABLES mtx,          \* the mutex
          cond,         \* the waiters of the condition variable
          tokens        \* the state the mutex protects

monitorObjs == <<mtx, cond, tokens>>
monitorVars == <<syncVars, monitorObjs>>

MonitorLabels == {"out", "lockGet", "lockPut", "get", "put", "unlock",
                  "waitUnlock", "waitYield", "notify", "notifyHeld", "unlockNotify"}

MonitorInit ==
  /\ SyncInit("out")
  /\ mtx = NewMutex
  /\ cond = <<>>
  /\ tokens = 0

-----------------------------------------------------------------------------
(* One critical section of an operation on the mutex or on the condition.   *)
OnMutex(f, r, label) ==
  /\ mtx' = r.obj
  /\ Perform(f, r, label)
  /\ UNCHANGED <<cond, tokens>>

OnCond(f, r, label) ==
  /\ cond' = r.obj
  /\ Perform(f, r, label)
  /\ UNCHANGED <<mtx, tokens>>

MonitorBegin(f) ==
  /\ At(f, "out")
  /\ Goto(f, IF f \in Producers THEN "lockPut" ELSE "lockGet")
  /\ UNCHANGED monitorObjs

(* It may also leave its thread to others for a while. *)
MonitorRest(f) ==
  /\ At(f, "out")
  /\ Pause(f)
  /\ UNCHANGED monitorObjs

(* mutex::lock *)
MonitorLock(f) ==
  \/ At(f, "lockGet") /\ OnMutex(f, MutexLock(mtx, f), "get")
  \/ At(f, "lockPut") /\ OnMutex(f, MutexLock(mtx, f), "put")

(* mutex::try_lock *)
TryLockGet(f) ==
  /\ At(f, "out") /\ f \in Consumers
  /\ IF mtx.locked
     THEN Goto(f, "out") /\ UNCHANGED mtx
     ELSE Goto(f, "get") /\ mtx' = [mtx EXCEPT !.locked = TRUE]
  /\ UNCHANGED <<cond, tokens>>

(* The producer: leaves a token unless there are enough, then notifies and  *)
(* unlocks in either order.                                                 *)
Put(f) ==
  /\ At(f, "put")
  /\ IF tokens < MaxTokens
     THEN /\ tokens' = tokens + 1
          /\ \E l \in {"notifyHeld", "unlockNotify"} : Goto(f, l)
     ELSE Goto(f, "unlock") /\ UNCHANGED tokens
  /\ UNCHANGED <<mtx, cond>>

(* The consumer: while (!pred()) wait(lock). *)
Get(f) ==
  /\ At(f, "get")
  /\ tokens > 0
  /\ tokens' = tokens - 1
  /\ Goto(f, "unlock")
  /\ UNCHANGED <<mtx, cond>>

(* condition_variable::wait: enter the queue, unlock the mutex, yield, lock.*)
WaitEnqueue(f) ==
  /\ At(f, "get")
  /\ tokens = 0
  /\ cond' = Append(cond, f)
  /\ Goto(f, "waitUnlock")
  /\ UNCHANGED <<mtx, tokens>>

WaitYield(f) ==
  /\ At(f, "waitYield")
  /\ status' = [status EXCEPT ![f] = "parked"]
  /\ pc' = [pc EXCEPT ![f] = "parked"]
  /\ next' = [next EXCEPT ![f] = "lockGet"]
  /\ UNCHANGED <<owed, host, toWake, monitorObjs>>

(* mutex::unlock, in each of the places it is called from. *)
MonitorUnlock(f) ==
  \E c \in {<<"unlock", "out">>, <<"waitUnlock", "waitYield">>,
            <<"unlockNotify", "notify">>} :
    At(f, c[1]) /\ OnMutex(f, MutexUnlock(mtx), c[2])

(* notify_one and notify_all, with or without the mutex. *)
Notify(f) ==
  \E c \in {<<"notify", "out">>, <<"notifyHeld", "unlock">>} :
    /\ At(f, c[1])
    /\ \/ OnCond(f, NotifyOne(cond), c[2])
       \/ OnCond(f, NotifyAll(cond), c[2])

(* The holder yields the thread and keeps the mutex. *)
PauseHolding(f) ==
  /\ At(f, "get") \/ At(f, "put")
  /\ Pause(f)
  /\ UNCHANGED monitorObjs

(* What a fiber does once it wants the mutex, up to giving it back. *)
Proceed(f) ==
  \/ MonitorLock(f) \/ Put(f) \/ Get(f) \/ WaitEnqueue(f) \/ WaitYield(f)
  \/ MonitorUnlock(f) \/ Notify(f)

MonitorNext ==
  \E f \in Fibers :
    \/ SyncStep(f) /\ UNCHANGED monitorObjs
    \/ MonitorBegin(f) \/ MonitorRest(f) \/ TryLockGet(f) \/ Proceed(f) \/ PauseHolding(f)

MonitorSpec == MonitorInit /\ [][MonitorNext]_monitorVars

(* FiberScheduler!OwedIsResumed: the loops perform the resumes they owe.  A *)
(* fiber completes the operations it began; while it holds the mutex it may *)
(* pause, but not only pause; outside it leaves its thread now and then. *)
MonitorFairSpec ==
  /\ MonitorSpec
  /\ \A f \in Fibers : /\ SF_monitorVars(ResumeStep(f) /\ UNCHANGED monitorObjs)
                       /\ WF_monitorVars((YieldStep(f) \/ PushStep(f)) /\ UNCHANGED monitorObjs)
                       /\ SF_monitorVars(Proceed(f))
                       /\ SF_monitorVars(MonitorRest(f))

-----------------------------------------------------------------------------
MonitorTypeOK ==
  /\ SyncTypeOK(MonitorLabels)
  /\ mtx \in Mutex
  /\ cond \in Seq(Fibers)
  /\ NoRepeats(mtx.waiters) /\ NoRepeats(cond)
  /\ tokens \in 0 .. MaxTokens

(* Fibers that were popped by an unlock and do not run yet, and fibers past *)
(* lock() that have not completed unlock().                                 *)
Held == {"get", "put", "unlock", "waitUnlock", "notifyHeld", "unlockNotify"}
WaitsForMutex(f) == f \in Elems(mtx.waiters)
Owns(f) ==
  \/ pc[f] \in Held
  \/ pc[f] \in InsideOp /\ next[f] \in Held /\ ~WaitsForMutex(f)

(* The mutex has one owner when it is locked and none when it is not, the   *)
(* owner being, from the moment of the pop, the waiter it was handed to.    *)
(* Nobody waits for a free mutex.                                           *)
OneOwner ==
  /\ Cardinality({f \in Fibers : Owns(f)}) = IF mtx.locked THEN 1 ELSE 0
  /\ mtx.waiters # <<>> => mtx.locked

(* A fiber is inside condition_variable::wait and does not contend for the  *)
(* mutex yet; it is notified when a resume is queued for it or about to be. *)
InWait(f) ==
  \/ pc[f] \in {"waitUnlock", "waitYield"}
  \/ pc[f] \in InsideOp /\ next[f] = "waitYield"
  \/ pc[f] = "parked" /\ next[f] = "lockGet"
Notified(f) ==
  InWait(f) /\ (owed[f] > 0 \/ \E g \in Fibers : f \in Elems(toWake[g]))

(* No fiber waits in vain: a waiter that left the queue of the condition is *)
(* notified, and as long as there are tokens and waiters, somebody is under *)
(* way who will look at the tokens or notify.                               *)
UnderWay(f) ==
  \/ pc[f] \in {"lockGet", "get", "notify", "notifyHeld", "unlockNotify"}
  \/ pc[f] \in InsideOp /\ next[f] \in {"get", "notify"}
  \/ Notified(f)
NoLostWakeup ==
  /\ \A f \in Fibers : InWait(f) => f \in Elems(cond) \/ Notified(f)
  /\ (tokens > 0 /\ cond # <<>>) => \E f \in Fibers : UnderWay(f)

(* What mutex and condition_variable keep at every step: types, one owner,  *)
(* and no wake-up lost between a release, a notification and a Yield.       *)
MonitorInv == MonitorTypeOK /\ OneOwner /\ NoLostWakeup

(* Whoever calls lock() gets the mutex, although others may try_lock it and *)
(* holders may yield: the queue is served in order.                         *)
LockSucceeds ==
  \A f \in Fibers : pc[f] \in {"lockGet", "lockPut"} ~> pc[f] \in {"get", "put"}

(* No consumer stays in wait for ever while tokens are left. *)
WaiterIsServed ==
  \A f \in Consumers :
    (tokens > 0 /\ InWait(f)) ~> (tokens = 0 \/ pc[f] = "get")

(* Nobody starves, neither at lock() nor in wait(). *)
EveryoneIsServed == LockSucceeds /\ WaiterIsServed
=============================================================================
