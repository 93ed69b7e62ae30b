---------------------------- MODULE FiberRWLock ----------------------------
(***************************************************************************)
(* fiber::shared_mutex: readers and writers on several threads, which also *)
(* try the lock and yield() while they hold it.                            *)
(***************************************************************************)
EXTENDS FiberSync

CONSTANT Writers        \* the fibers that call lock(); the others lock_shared()
ASSUME WritersAssumption == Writers \subseteq Fibers

VARIABLE rw             \* the shared_mutex

rwVars == <<syncVars, rw>>

RWLabels == {"out", "wrLock", "rdLock", "writing", "reading"}

RWInit == SyncInit("out") /\ rw = NewSharedMutex

-----------------------------------------------------------------------------
On(f, r, label) == rw' = r.obj /\ Perform(f, r, label)

RWBegin(f) ==
  /\ At(f, "out")
  /\ Goto(f, IF f \in Writers THEN "wrLock" ELSE "rdLock")
  /\ UNCHANGED rw

(* lock and lock_shared *)
RWLock(f) ==
  \/ At(f, "wrLock") /\ On(f, ExclusiveLock(rw, f), "writing")
  \/ At(f, "rdLock") /\ On(f, SharedLock(rw, f), "reading")

(* try_lock and try_lock_shared, when they succeed; else nothing changes.   *)
TryLock(f) ==
  /\ At(f, "out")
  /\ \/ /\ f \in Writers /\ rw.state = 0
        /\ On(f, ExclusiveLock(rw, f), "writing")
     \/ /\ f \notin Writers /\ MayShare(rw)
        /\ On(f, SharedLock(rw, f), "reading")

(* unlock and unlock_shared *)
RWUnlock(f) ==
  \/ At(f, "writing") /\ On(f, ExclusiveUnlock(rw), "out")
  \/ At(f, "reading") /\ On(f, SharedUnlock(rw), "out")

(* yield() with or without the lock. *)
RWRest(f) ==
  /\ At(f, "out") \/ At(f, "writing") \/ At(f, "reading")
  /\ Pause(f)
  /\ UNCHANGED rw

RWNext ==
  \E f \in Fibers :
    \/ SyncStep(f) /\ UNCHANGED rw
    \/ RWBegin(f) \/ RWLock(f) \/ TryLock(f) \/ RWUnlock(f) \/ RWRest(f)

RWSpec == RWInit /\ [][RWNext]_rwVars

(* The loops perform the resumes they owe (FiberScheduler!OwedIsResumed).   *)
(* A fiber completes the operations it began, does not keep the lock for    *)
(* ever, and leaves its thread to others now and then.                      *)
RWFairSpec ==
  /\ RWSpec
  /\ \A f \in Fibers : /\ SF_rwVars(ResumeStep(f) /\ UNCHANGED rw)
                       /\ WF_rwVars((YieldStep(f) \/ PushStep(f)) /\ UNCHANGED rw)
                       /\ SF_rwVars(RWLock(f) \/ RWUnlock(f))
                       /\ SF_rwVars(RWRest(f))

-----------------------------------------------------------------------------
RWTypeOK ==
  /\ SyncTypeOK(RWLabels)
  /\ rw \in SharedMutex
  /\ rw.state \in -1 .. Cardinality(Fibers)
  /\ NoRepeats(rw.rwaiters) /\ NoRepeats(rw.wwaiters)

(* The fibers that hold the lock, from the moment it was handed to them.    *)
Holders(label, queue) ==
  {f \in Fibers : \/ pc[f] = label
                  \/ /\ pc[f] \in InsideOp /\ next[f] = label
                     /\ f \notin Elems(queue)}
WriteHolders == Holders("writing", rw.wwaiters)
ReadHolders == Holders("reading", rw.rwaiters)

(* state says exactly who holds the lock: one writer and nobody else, or    *)
(* that many readers.                                                       *)
StateIsExact ==
  rw.state = IF WriteHolders # {}
             THEN IF Cardinality(WriteHolders) = 1 /\ ReadHolders = {} THEN -1 ELSE -2
             ELSE Cardinality(ReadHolders)

(* Nobody waits for a lock that no release will hand over: a waiting writer *)
(* waits for a holder, a waiting reader for a writer that holds or waits.   *)
WaitersHaveABlocker ==
  /\ rw.wwaiters # <<>> => rw.state # 0
  /\ rw.rwaiters # <<>> => rw.state = -1 \/ rw.wwaiters # <<>>

(* What shared_mutex keeps at every step: types, a state word that says who *)
(* holds the lock, and for each waiter somebody whose release serves it.    *)
SharedMutexInv == RWTypeOK /\ StateIsExact /\ WaitersHaveABlocker

(* Writers first: while a writer waits, no reader gets in. *)
WritersFirst == [][rw.wwaiters # <<>> => ReadHolders' \subseteq ReadHolders]_rwVars

(* A writer that called lock() gets the lock, whatever the readers do. *)
WriterSucceeds ==
  \A f \in Writers : pc[f] = "wrLock" ~> pc[f] = "writing"

(* A reader gets in, unless writers keep queuing behind one another: then   *)
(* each unlock hands the lock to the next writer.                           *)
ReaderSucceeds ==
  \/ []<>(rw.wwaiters # <<>>)
  \/ \A f \in Fibers \ Writers : pc[f] = "rdLock" ~> pc[f] = "reading"

(* Writers go first, and yet everybody gets in. *)
GrantPolicy == WritersFirst /\ WriterSucceeds /\ ReaderSucceeds
=============================================================================
