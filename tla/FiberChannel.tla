---------------------------- MODULE FiberChannel ----------------------------
(***************************************************************************)
(* fiber::channel: a deque protected by a fiber::mutex, with a semaphore   *)
(* that counts its items (full) and one that counts its free places        *)
(* (space).  write and read are sequences of five operations on these      *)
(* objects, and fibers of all threads interleave between any two of them.  *)
(***************************************************************************)
EXTENDS FiberSync

CONSTANTS ChannelWriters,  \* the fibers that write; the others read
          Capacity         \* the argument of the constructor

Readers == Fibers \ ChannelWriters

ASSUME ChannelAssumption == /\ ChannelWriters \subseteq Fibers
                            /\ Capacity \in Nat \ {0}

VARIABLES channelMtx, full, space, items

channelObjs == <<channelMtx, full, space, items>>
channelVars == <<syncVars, channelObjs>>

ChannelLabels == {"out", "write", "writeLock", "append", "writeUnlock", "signalFull",
                  "read", "readLock", "take", "readUnlock", "signalSpace"}

ChannelInit ==
  /\ SyncInit("out")
  /\ channelMtx = NewMutex
  /\ full = NewSemaphore(0)
  /\ space = NewSemaphore(Capacity)
  /\ items = <<>>

-----------------------------------------------------------------------------
OnMtx(f, r, label) ==
  channelMtx' = r.obj /\ Perform(f, r, label) /\ UNCHANGED <<full, space, items>>
OnFull(f, r, label) ==
  full' = r.obj /\ Perform(f, r, label) /\ UNCHANGED <<channelMtx, space, items>>
OnSpace(f, r, label) ==
  space' = r.obj /\ Perform(f, r, label) /\ UNCHANGED <<channelMtx, full, items>>

ChannelBegin(f) ==
  /\ At(f, "out")
  /\ Goto(f, IF f \in ChannelWriters THEN "write" ELSE "read")
  /\ UNCHANGED channelObjs

(* yield() between two operations on the channel *)
ChannelRest(f) ==
  /\ At(f, "out")
  /\ Pause(f)
  /\ UNCHANGED channelObjs

(* items.push_back(x) *)
AddItem_Front(x) == <<x>> \o items
AddItem(x) == Append(items, x)

(* channel::write; a writer writes itself. *)
WriteStep(f) ==
  \/ At(f, "write") /\ OnSpace(f, SemWait(space, f), "writeLock")
  \/ At(f, "writeLock") /\ OnMtx(f, MutexLock(channelMtx, f), "append")
  \/ /\ At(f, "append")
     /\ items' = AddItem(f)
     /\ Goto(f, "writeUnlock")
     /\ UNCHANGED <<channelMtx, full, space>>
  \/ At(f, "writeUnlock") /\ OnMtx(f, MutexUnlock(channelMtx), "signalFull")
  \/ At(f, "signalFull") /\ OnFull(f, SemSignal(full), "out")

(* channel::read.  front() and pop_front() of an empty deque are undefined; *)
(* UnitsAreConserved implies that a reader that is to take finds an item.   *)
ReadStep(f) ==
  \/ At(f, "read") /\ OnFull(f, SemWait(full, f), "readLock")
  \/ At(f, "readLock") /\ OnMtx(f, MutexLock(channelMtx, f), "take")
  \/ /\ At(f, "take") /\ items # <<>>
     /\ items' = Tail(items)
     /\ Goto(f, "readUnlock")
     /\ UNCHANGED <<channelMtx, full, space>>
  \/ At(f, "readUnlock") /\ OnMtx(f, MutexUnlock(channelMtx), "signalSpace")
  \/ At(f, "signalSpace") /\ OnSpace(f, SemSignal(space), "out")

ChannelNext ==
  \E f \in Fibers :
    \/ SyncStep(f) /\ UNCHANGED channelObjs
    \/ ChannelBegin(f) \/ ChannelRest(f) \/ WriteStep(f) \/ ReadStep(f)

ChannelSpec == ChannelInit /\ [][ChannelNext]_channelVars

(* The loops perform the resumes they owe (FiberScheduler!OwedIsResumed), a *)
(* fiber completes the operation it began, and the writers and the readers  *)
(* keep coming and leave their threads to others now and then.              *)
ChannelFairSpec ==
  /\ ChannelSpec
  /\ \A f \in Fibers : /\ SF_channelVars(ResumeStep(f) /\ UNCHANGED channelObjs)
                       /\ WF_channelVars((YieldStep(f) \/ PushStep(f)) /\ UNCHANGED channelObjs)
                       /\ WF_channelVars(WriteStep(f) \/ ReadStep(f))
                       /\ SF_channelVars(ChannelBegin(f)) /\ SF_channelVars(ChannelRest(f))

-----------------------------------------------------------------------------
ChannelTypeOK ==
  /\ SyncTypeOK(ChannelLabels)
  /\ channelMtx \in Mutex
  /\ full \in Semaphore /\ space \in Semaphore
  /\ items \in Seq(ChannelWriters)

(* The fibers that are at one of the labels, or that will continue there    *)
(* and do not wait in queue q.                                              *)
AtOneOf(labels, q) ==
  {f \in Fibers : \/ pc[f] \in labels
                  \/ /\ pc[f] \in InsideOp /\ next[f] \in labels
                     /\ f \notin Elems(q)}

(* Every place of the buffer is free, taken by an item, or on its way in    *)
(* the hands of one writer or reader; likewise every item, so that a reader *)
(* past full.wait() finds one.  A lost or a duplicated unit of a semaphore  *)
(* would show here.                                                         *)
UnitsAreConserved ==
  /\ space.count + Len(items)
       + Cardinality(AtOneOf({"writeLock", "append"}, space.waiters))
       + Cardinality(AtOneOf({"readUnlock", "signalSpace"}, <<>>)) = Capacity
  /\ full.count
       + Cardinality(AtOneOf({"readLock", "take"}, full.waiters))
       + Cardinality(AtOneOf({"writeUnlock", "signalFull"}, <<>>)) = Len(items)

(* What the channel keeps at every step: types, and its units. *)
ChannelInv == ChannelTypeOK /\ UnitsAreConserved

(* The channel is a bounded first-in first-out buffer. *)
Buffer == INSTANCE BoundedBuffer WITH buffer <- items, Items <- ChannelWriters
ImplementsBuffer == Buffer!BufferSpec

(* As long as both sides keep coming, every write and every read returns.   *)
OperationsReturn ==
  \A f \in Fibers : pc[f] \in {"write", "read"} ~> pc[f] = "out"
=============================================================================
