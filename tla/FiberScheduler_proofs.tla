----------------------- MODULE FiberScheduler_proofs -----------------------
(***************************************************************************)
(* Proofs about FiberScheduler, for any number of threads, tasks and       *)
(* fibers and any growth of the pools.  Types, votes and the exit are      *)
(* proved whatever fibers do; that every fiber is referred to once, and    *)
(* the contract, provided that none yields again at once (~YieldAgain):    *)
(* otherwise the code drops it, as the run FiberScheduler_yield shows.     *)
(***************************************************************************)
EXTENDS FiberScheduler, FiniteSetTheorems, TLAPS

-----------------------------------------------------------------------------
(* Sequences and the elements they hold *)

Distinct(s) == \A i, j \in DOMAIN s : s[i] = s[j] => i = j

(* Appending adds one element and keeps the elements distinct if it is new. *)
LEMMA AppendElems ==
  ASSUME NEW S, NEW s \in Seq(S), NEW x \in S
  PROVE  /\ Append(s, x) \in Seq(S)
         /\ Elems(Append(s, x)) = Elems(s) \cup {x}
         /\ Distinct(s) /\ x \notin Elems(s) => Distinct(Append(s, x))
<1> DEFINE a == Append(s, x)
<1>1. /\ a \in Seq(S)
      /\ DOMAIN a = 1 .. Len(s) + 1
      /\ \A i \in 1 .. Len(s) : a[i] = s[i]
      /\ a[Len(s) + 1] = x
      /\ DOMAIN s = 1 .. Len(s)
      /\ Len(s) \in Nat
  OBVIOUS
<1>2. Elems(a) = Elems(s) \cup {x}
  BY <1>1 DEF Elems
<1>3. ASSUME Distinct(s), x \notin Elems(s)
      PROVE  Distinct(a)
  BY <1>1, <1>3 DEF Elems, Distinct
<1>. QED  BY <1>1, <1>2, <1>3

(* The tail holds what the sequence holds, but for the head if the elements *)
(* are distinct.                                                            *)
LEMMA TailElems ==
  ASSUME NEW S, NEW s \in Seq(S), s # <<>>
  PROVE  /\ Head(s) \in S /\ Tail(s) \in Seq(S)
         /\ Elems(s) = Elems(Tail(s)) \cup {Head(s)}
         /\ Distinct(s) => /\ Distinct(Tail(s))
                           /\ Head(s) \notin Elems(Tail(s))
<1> DEFINE r == Tail(s)
<1>1. /\ Head(s) \in S /\ r \in Seq(S)
      /\ DOMAIN s = 1 .. Len(s)
      /\ Len(s) \in Nat \ {0}
      /\ DOMAIN r = 1 .. Len(s) - 1
      /\ \A i \in 1 .. Len(s) - 1 : r[i] = s[i + 1]
      /\ Head(s) = s[1]
  OBVIOUS
<1>2. Elems(s) = Elems(r) \cup {Head(s)}
  <2>1. ASSUME NEW x \in Elems(s) PROVE x \in Elems(r) \cup {Head(s)}
    <3>1. PICK i \in 1 .. Len(s) : x = s[i]
      BY <1>1 DEF Elems
    <3>2. CASE i = 1
      BY <1>1, <3>1, <3>2
    <3>3. CASE i # 1
      <4>1. i - 1 \in 1 .. Len(s) - 1 /\ r[i - 1] = s[i]
        BY <1>1, <3>3
      <4>. QED  BY <1>1, <3>1, <4>1 DEF Elems
    <3>. QED  BY <3>2, <3>3
  <2>2. Elems(r) \cup {Head(s)} \subseteq Elems(s)
    BY <1>1 DEF Elems
  <2>. QED  BY <2>1, <2>2
<1>3. ASSUME Distinct(s)
      PROVE  Distinct(r) /\ Head(s) \notin Elems(r)
  BY <1>1, <1>3 DEF Elems, Distinct
<1>. QED  BY <1>1, <1>2, <1>3

(* A function keeps its type when a value of its range is stored, and is     *)
(* not changed by an assignment outside its domain.                          *)
LEMMA ExceptType ==
  ASSUME NEW A, NEW B, NEW f \in [A -> B], NEW x, NEW y, x \in A => y \in B
  PROVE  [f EXCEPT ![x] = y] \in [A -> B]
<1>1. CASE x \in A
  BY <1>1
<1>2. CASE x \notin A
  BY <1>2
<1>. QED  BY <1>1, <1>2

(* An empty queue holds nothing. *)
LEMMA EmptyElems == Elems(<<>>) = {} /\ Distinct(<<>>)
BY DEF Elems, Distinct

-----------------------------------------------------------------------------
(* The inductive invariant *)

(* TypeOK without the ranges of the counters, which follow from Counts.     *)
Types ==
  /\ mutex \in Threads \cup {NoThread}
  /\ commTasks \in Seq(Tasks)
  /\ wannaQuitThreadCount \in Int
  /\ pc \in [Threads -> LoopPc \cup {"main", "exit"}]
  /\ wannaQuit \in [Threads -> BOOLEAN]
  /\ stealedTasks \in [Threads -> Seq(Tasks)]
  /\ due \in [Threads -> SUBSET Fibers]
  /\ work \in [Threads -> Seq(Fibers)]
  /\ currentFiberCount \in [Threads -> Int]
  /\ userYieldFiberQ \in [Threads -> Seq(Fibers)]
  /\ syncSignalFiberQ \in [Threads -> Seq(Fibers)]
  /\ fiberPool \in [Threads -> SUBSET Fibers]
  /\ events \in [Threads -> SUBSET Fibers]
  /\ running \in [Threads -> Fibers \cup {NoFiber}]
  /\ atYield \in [Threads -> BOOLEAN]
  /\ hand \in [Threads -> Fibers \cup {NoFiber}]
  /\ env \in [Fibers -> Threads \cup {NoThread}]
  /\ cStart \in [Fibers -> BOOLEAN]
  /\ cEnd \in [Fibers -> BOOLEAN]
  /\ pfn \in [Fibers -> Tasks \cup {NoTask}]
  /\ waiters \in Seq(Fibers)
  /\ taskState \in [Tasks -> {"new", "submitted", "done"}]

(* A thread that is not in its own loop runs an unfinished fiber that lives *)
(* on it; the halves of an operation follow one another; the lock is held   *)
(* by a thread that is at a place where it can hold it.                     *)
Control ==
  \A t \in Threads :
    /\ running[t] # NoFiber => /\ pc[t] \in {"active", "stolen", "yielded", "signaled"}
                               /\ running[t] \in Live
                               /\ env[running[t]] = t
    /\ atYield[t] => running[t] # NoFiber
    /\ hand[t] # NoFiber => ~atYield[t]
    /\ pc[t] = "locked" => mutex = t
    /\ mutex = t => /\ pc[t] \in {"locked", "main"} \/ running[t] # NoFiber
                    /\ ~atYield[t]

(* The fibers a thread refers to, by the queue that refers to them, and     *)
(* those that wait for a synchronisation object.                            *)
Kinds == {"yield", "signal", "work", "event", "due", "hand"}
refs ==
  [k \in Kinds |-> [t \in Threads |->
     CASE k = "yield"  -> Elems(userYieldFiberQ[t])
       [] k = "signal" -> Elems(syncSignalFiberQ[t])
       [] k = "work"   -> Elems(work[t])
       [] k = "event"  -> events[t]
       [] k = "due"    -> due[t]
       [] k = "hand"   -> {hand[t]} \ {NoFiber}]]
waiting == Elems(waiters)

(* Only unfinished fibers are referred to, and by their own threads, except *)
(* on the way to the signal queue.                                          *)
RefsAreLive ==
  /\ \A k \in Kinds, t \in Threads : \A f \in refs[k][t] :
       f \in Live /\ (k # "hand" => env[f] = t)
  /\ waiting \subseteq Live

(* No fiber is referred to twice, and a running one not at all unless it is *)
(* about to yield in a wait.                                                *)
RefsAreUnique ==
  /\ \A k1, k2 \in Kinds, t1, t2 \in Threads : \A f \in refs[k1][t1] :
       f \in refs[k2][t2] => k1 = k2 /\ t1 = t2
  /\ \A k \in Kinds, t \in Threads : refs[k][t] \cap waiting = {}
  /\ \A t \in Threads :
       running[t] # NoFiber /\ ~atYield[t] =>
         /\ running[t] \notin waiting
         /\ \A k \in Kinds, u \in Threads : running[t] \notin refs[k][u]
  /\ \A t \in Threads : atYield[t] =>
         \A k \in Kinds \ {"hand", "signal"}, u \in Threads : running[t] \notin refs[k][u]

QueuesAreDistinct ==
  /\ \A t \in Threads : /\ Distinct(userYieldFiberQ[t]) /\ Distinct(syncSignalFiberQ[t])
                         /\ Distinct(work[t])
  /\ Distinct(waiters)

(* A fiber in a pool is finished or new, and so is one not created yet.     *)
PoolsAreIdle ==
  /\ \A t \in Threads : \A f \in fiberPool[t] : env[f] = t /\ f \notin Live
  /\ \A f \in Fibers : env[f] = NoThread => ~cStart[f]

(* Both counters count what they stand for. *)
Voters == {t \in Threads : wannaQuit[t]}
Counts ==
  /\ wannaQuitThreadCount = Cardinality(Voters)
  /\ \A t \in Threads : currentFiberCount[t] = Cardinality(LiveOn(t))

(* A vote stands as long as it is true. *)
Votes ==
  \A t \in Threads : wannaQuit[t] => /\ stealedTasks[t] = <<>>
                                     /\ LiveOn(t) = {}
                                     /\ pc[t] # "main"

(* Every submitted task is in a queue or runs. *)
Tracked ==
  \A k \in Tasks : taskState[k] = "submitted" =>
    \/ k \in Elems(commTasks)
    \/ \E t \in Threads : k \in Elems(stealedTasks[t])
    \/ \E f \in Live : pfn[f] = k

(* A thread leaves when all have voted and no task is left. *)
Exits ==
  (\E t \in Threads : pc[t] = "exit") => commTasks = <<>> /\ Voters = Threads

IInv == /\ Types /\ Control /\ RefsAreLive /\ RefsAreUnique /\ QueuesAreDistinct
        /\ PoolsAreIdle /\ Counts /\ Votes /\ Tracked /\ Exits

-----------------------------------------------------------------------------
(* Every variable keeps its type, up to the ranges of the counters. *)
LEMMA TypesInit == Init => Types
BY ThreadsAssumption DEF Init, Types, LoopPc

(* Every step keeps the types. *)
LEMMA TypesStep == Types /\ [Next]_vars => Types'
<1> SUFFICES ASSUME Types, [Next]_vars PROVE Types'
  OBVIOUS
<1> USE DEF Types, shared, locals, queues, control, objects
<1>1. ASSUME NEW t \in Threads, TryLock(t) \/ TryLockFails(t) \/ KeepGoing(t)
                                \/ EndActive(t) \/ EndSignaled(t)
      PROVE  Types'
  BY <1>1 DEF TryLock, TryLockFails, KeepGoing, EndActive, EndSignaled, LoopPc
<1>2. ASSUME NEW t \in Threads, Steal(t)
      PROVE  Types'
  BY <1>2 DEF Steal, Loot, UncountVote, LoopPc
<1>3. ASSUME NEW t \in Threads, VoteToQuit(t)
      PROVE  Types'
  <2>1. CountVote(t) \in Int
    BY DEF CountVote
  <2>2. (IF AllVoted(CountVote(t)) THEN "exit" ELSE "arrive") \in LoopPc \cup {"main", "exit"}
    BY DEF LoopPc
  <2>. QED  BY <1>3, <2>1, <2>2 DEF VoteToQuit
<1>4. ASSUME NEW t \in Threads, TakeArrivals(t)
      PROVE  Types'
  BY <1>4 DEF TakeArrivals, LoopPc
<1>5. ASSUME NEW t \in Threads, ResumeDue(t)
      PROVE  Types'
  <2>1. PICK f \in due[t] : /\ due' = [due EXCEPT ![t] = @ \ {f}]
                            /\ SwitchTo(t, f)
    BY <1>5 DEF ResumeDue
  <2>2. f \in Fibers
    BY <2>1
  <2>. QED  BY <1>5, <2>1, <2>2 DEF ResumeDue, SwitchTo
<1>6. ASSUME NEW t \in Threads, StartTask(t)
      PROVE  Types'
  <2>1. Head(stealedTasks[t]) \in Tasks /\ Tail(stealedTasks[t]) \in Seq(Tasks)
    <3>1. stealedTasks[t] \in Seq(Tasks) /\ stealedTasks[t] # <<>>
      BY <1>6 DEF StartTask
    <3>. QED  BY <3>1, TailElems
  <2>2. PICK P \in PoolFor(t) : \E f \in P :
       /\ fiberPool' = [fiberPool EXCEPT ![t] = P \ {f}]
       /\ env' = [g \in Fibers |-> IF g \in P THEN t ELSE env[g]]
       /\ pfn' = [pfn EXCEPT ![f] = Head(stealedTasks[t])]
       /\ cStart' = [cStart EXCEPT ![f] = TRUE]
       /\ cEnd' = [cEnd EXCEPT ![f] = FALSE]
       /\ currentFiberCount' = [currentFiberCount EXCEPT ![t] = @ + 1]
       /\ SwitchTo(t, f)
    BY <1>6 DEF StartTask
  <2>3. P \subseteq Fibers
    <3>1. CASE fiberPool[t] # {}
      BY <2>2, <3>1 DEF PoolFor
    <3>2. CASE fiberPool[t] = {}
      BY <2>2, <3>2 DEF PoolFor
    <3>. QED  BY <3>1, <3>2
  <2>4. stealedTasks' \in [Threads -> Seq(Tasks)]
    BY <1>6, <2>1 DEF StartTask
  <2>5. /\ fiberPool' \in [Threads -> SUBSET Fibers]
        /\ env' \in [Fibers -> Threads \cup {NoThread}]
        /\ pfn' \in [Fibers -> Tasks \cup {NoTask}]
        /\ cStart' \in [Fibers -> BOOLEAN]
        /\ cEnd' \in [Fibers -> BOOLEAN]
        /\ currentFiberCount' \in [Threads -> Int]
        /\ running' \in [Threads -> Fibers \cup {NoFiber}]
    BY <2>1, <2>2, <2>3, SMTT(20) DEF SwitchTo
  <2>. QED  BY <1>6, <2>4, <2>5 DEF StartTask
<1>7. ASSUME NEW t \in Threads, EndStolen(t) \/ EndYielded(t)
      PROVE  Types'
  <2>1. CASE EndStolen(t)
    BY <2>1 DEF EndStolen, LoopPc
  <2>2. CASE EndYielded(t)
    BY <2>2 DEF EndYielded, Signaled, Unsignaled, LoopPc
  <2>. QED  BY <1>7, <2>1, <2>2
<1>8. ASSUME NEW t \in Threads, ResumeWork(t)
      PROVE  Types'
  <2>1. Head(work[t]) \in Fibers /\ Tail(work[t]) \in Seq(Fibers)
    BY <1>8, TailElems DEF ResumeWork
  <2>. QED  BY <1>8, <2>1 DEF ResumeWork, SwitchTo
<1>9. ASSUME NEW t \in Threads, ScheduleLock(t)
      PROVE  Types'
  BY <1>9 DEF ScheduleLock
<1>10. ASSUME NEW t \in Threads, SchedulePush(t)
       PROVE  Types'
  <2>1. /\ commTasks' \in Seq(Tasks)
        /\ taskState' \in [Tasks -> {"new", "submitted", "done"}]
    BY <1>10, AppendElems DEF SchedulePush
  <2>. QED  BY <1>10, <2>1 DEF SchedulePush
<1>11. ASSUME NEW t \in Threads, FiberCode(t)
       PROVE  running[t] \in Fibers
  BY <1>11 DEF FiberCode, LoopRuns
<1>12. ASSUME NEW t \in Threads, YieldFiber(t)
       PROVE  Types'
  <2>1. Append(userYieldFiberQ[t], running[t]) \in Seq(Fibers)
    BY <1>11, <1>12, AppendElems DEF YieldFiber
  <2>. QED  BY <1>12, <2>1 DEF YieldFiber, SwitchToLoop
<1>13. ASSUME NEW t \in Threads, EnterWaitQueue(t)
       PROVE  Types'
  <2>1. Append(waiters, running[t]) \in Seq(Fibers)
    BY <1>11, <1>13, AppendElems DEF EnterWaitQueue
  <2>. QED  BY <1>13, <2>1 DEF EnterWaitQueue
<1>14. ASSUME NEW t \in Threads, AwaitEvent(t) \/ YieldInWait(t)
       PROVE  Types'
  <2>1. CASE AwaitEvent(t)
    BY <1>11, <2>1 DEF AwaitEvent, SwitchToLoop
  <2>2. CASE YieldInWait(t)
    BY <2>2 DEF YieldInWait, SwitchToLoop
  <2>. QED  BY <1>14, <2>1, <2>2
<1>15. ASSUME NEW t \in Threads, PopWaiter(t)
       PROVE  Types'
  <2>1. Head(waiters) \in Fibers /\ Tail(waiters) \in Seq(Fibers)
    BY <1>15, TailElems DEF PopWaiter
  <2>. QED  BY <1>15, <2>1 DEF PopWaiter
<1>16. ASSUME NEW t \in Threads, PushSignal(t)
       PROVE  Types'
  <2>1. hand[t] \in Fibers
    BY <1>16 DEF PushSignal
  <2>2. syncSignalFiberQ' \in [Threads -> Seq(Fibers)]
    <3> DEFINE u == HomeOf(t, hand[t])
    <3>1. syncSignalFiberQ' = [syncSignalFiberQ EXCEPT ![u] = Append(syncSignalFiberQ[u], hand[t])]
      BY <1>16 DEF PushSignal
    <3>2. u \in Threads => Append(syncSignalFiberQ[u], hand[t]) \in Seq(Fibers)
      BY <2>1, AppendElems
    <3> HIDE DEF u
    <3>. QED  BY <3>1, <3>2, ExceptType
  <2>. QED  BY <1>16, <2>2 DEF PushSignal
<1>17. ASSUME NEW t \in Threads, Finish(t)
       PROVE  Types'
  <2>1. running[t] \in Fibers
    BY <1>17, <1>11 DEF Finish
  <2> DEFINE f == running[t]
             u == env[f]
  <2>2. cEnd' \in [Fibers -> BOOLEAN] /\ running' \in [Threads -> Fibers \cup {NoFiber}]
    BY <1>17, <2>1 DEF Finish, SwitchToLoop
  <2>3. fiberPool' \in [Threads -> SUBSET Fibers]
    <3>1. fiberPool' = [fiberPool EXCEPT ![u] = fiberPool[u] \cup {f}]
      BY <1>17 DEF Finish
    <3>2. u \in Threads => fiberPool[u] \cup {f} \in SUBSET Fibers
      BY <2>1
    <3> HIDE DEF u, f
    <3>. QED  BY <3>1, <3>2, ExceptType
  <2>4. currentFiberCount' \in [Threads -> Int]
    <3>1. currentFiberCount' = [currentFiberCount EXCEPT ![u] = currentFiberCount[u] - 1]
      BY <1>17 DEF Finish
    <3>2. u \in Threads => currentFiberCount[u] - 1 \in Int
      OBVIOUS
    <3> HIDE DEF u, f
    <3>. QED  BY <3>1, <3>2, ExceptType
  <2>5. taskState' \in [Tasks -> {"new", "submitted", "done"}]
    <3>1. taskState' = [taskState EXCEPT ![pfn[f]] = "done"]
      BY <1>17 DEF Finish
    <3>. QED  BY <3>1, ExceptType
  <2>. QED  BY <1>17, <2>2, <2>3, <2>4, <2>5 DEF Finish
<1>18. CASE MainReturns
  BY <1>18 DEF MainReturns, LoopPc
<1>19. CASE Terminated \/ UNCHANGED vars
  BY <1>19 DEF Terminated, vars
<1>. QED
  BY <1>1, <1>2, <1>3, <1>4, <1>5, <1>6, <1>7, <1>8, <1>9, <1>10, <1>15,
     <1>16, <1>17, <1>18, <1>19, <1>12, <1>13, <1>14
  DEF Next, LoopStep, UserStep, Leave, Complete
-----------------------------------------------------------------------------
(* Control *)

(* The set of unfinished fibers changes in StartTask and in Finish only.    *)
LEMMA LiveSame ==
  ASSUME UNCHANGED <<env, cStart, cEnd>>
  PROVE  Live' = Live /\ \A t \in Threads : LiveOn(t)' = LiveOn(t)
BY DEF Live, LiveOn

(* What StartTask does to the fibers: f, of thread t and not started, starts;*)
(* those that are in the middle of their function are left alone.           *)
LEMMA Starting ==
  ASSUME IInv, NEW t \in Threads, StartTask(t)
  PROVE  \E f \in Fibers \ Live :
           /\ running' = [running EXCEPT ![t] = f]
           /\ Live' = Live \cup {f}
           /\ env'[f] = t
           /\ \A g \in Live : env'[g] = env[g] /\ pfn'[g] = pfn[g]
           /\ \A g \in Fibers : env'[g] = NoThread => env[g] = NoThread /\ g # f
           /\ \A u \in Threads \ {t} : fiberPool'[u] = fiberPool[u]
           /\ \A g \in fiberPool'[t] : g \notin Live \cup {f} /\ env'[g] = t
           /\ \A u \in Threads : \A g \in fiberPool'[u] : env'[g] = u /\ g # f
           /\ pfn'[f] = Head(stealedTasks[t])
           /\ cStart' = [cStart EXCEPT ![f] = TRUE]
           /\ currentFiberCount' = [currentFiberCount EXCEPT ![t] = @ + 1]
<1> USE DEF IInv, Types
<1>1. PICK P \in PoolFor(t) : \E f \in P :
       /\ fiberPool' = [fiberPool EXCEPT ![t] = P \ {f}]
       /\ env' = [g \in Fibers |-> IF g \in P THEN t ELSE env[g]]
       /\ pfn' = [pfn EXCEPT ![f] = Head(stealedTasks[t])]
       /\ cStart' = [cStart EXCEPT ![f] = TRUE]
       /\ cEnd' = [cEnd EXCEPT ![f] = FALSE]
       /\ currentFiberCount' = [currentFiberCount EXCEPT ![t] = @ + 1]
       /\ SwitchTo(t, f)
  BY DEF StartTask
<1>2. PICK f \in P :
       /\ fiberPool' = [fiberPool EXCEPT ![t] = P \ {f}]
       /\ env' = [g \in Fibers |-> IF g \in P THEN t ELSE env[g]]
       /\ pfn' = [pfn EXCEPT ![f] = Head(stealedTasks[t])]
       /\ cStart' = [cStart EXCEPT ![f] = TRUE]
       /\ cEnd' = [cEnd EXCEPT ![f] = FALSE]
       /\ currentFiberCount' = [currentFiberCount EXCEPT ![t] = @ + 1]
       /\ SwitchTo(t, f)
  BY <1>1
<1>3. /\ P \subseteq Fibers \ Live
      /\ \A g \in P, u \in Threads \ {t} : g \notin fiberPool[u]
  <2>1. CASE fiberPool[t] # {}
    <3>1. P = fiberPool[t]
      BY <1>1, <2>1 DEF PoolFor
    <3>. QED  BY <3>1 DEF PoolsAreIdle
  <2>2. CASE fiberPool[t] = {}
    <3>1. P \subseteq {g \in Fibers : env[g] = NoThread}
      BY <1>1, <2>2 DEF PoolFor
    <3>. QED  BY <3>1, ThreadsAssumption DEF PoolsAreIdle, Live
  <2>. QED  BY <2>1, <2>2
<1>4. Live' = Live \cup {f}
  BY <1>2, <1>3 DEF Live
<1>5. running' = [running EXCEPT ![t] = f]
  BY <1>2 DEF SwitchTo
<1>6. /\ env'[f] = t
      /\ \A g \in Live : env'[g] = env[g] /\ pfn'[g] = pfn[g]
      /\ \A g \in Fibers : env'[g] = NoThread => env[g] = NoThread /\ g # f
  BY <1>2, <1>3, ThreadsAssumption, SMTT(20) DEF Live
<1>7. /\ \A u \in Threads \ {t} : fiberPool'[u] = fiberPool[u]
      /\ fiberPool'[t] = P \ {f}
  BY <1>2
<1>8. /\ \A g \in fiberPool'[t] : g \notin Live \cup {f} /\ env'[g] = t
      /\ \A u \in Threads : \A g \in fiberPool'[u] : env'[g] = u /\ g # f
  BY <1>2, <1>3, <1>7 DEF PoolsAreIdle
<1>9. pfn'[f] = Head(stealedTasks[t])
  BY <1>2, <1>3
<1>10. /\ f \in Fibers \ Live
       /\ cStart' = [cStart EXCEPT ![f] = TRUE]
       /\ currentFiberCount' = [currentFiberCount EXCEPT ![t] = @ + 1]
  BY <1>2, <1>3
<1> HIDE DEF IInv, Types
<1>. QED  BY <1>4, <1>5, <1>6, <1>7, <1>8, <1>9, <1>10

(* What Finish does: the running fiber f, of thread t, is not referred to   *)
(* from anywhere and is in the middle of its function no more.              *)
LEMMA Finishing ==
  ASSUME IInv, NEW t \in Threads, Finish(t)
  PROVE  LET f == running[t] IN
           /\ f \in Live /\ env[f] = t /\ ~atYield[t] /\ mutex # t
           /\ f \notin waiting
           /\ \A k \in Kinds, u \in Threads : f \notin refs[k][u]
           /\ \A u \in Threads \ {t} : running[u] # f
           /\ Live' = Live \ {f}
           /\ running' = [running EXCEPT ![t] = NoFiber]
           /\ fiberPool' = [fiberPool EXCEPT ![t] = @ \cup {f}]
           /\ currentFiberCount' = [currentFiberCount EXCEPT ![t] = @ - 1]
           /\ taskState' = [taskState EXCEPT ![pfn[f]] = "done"]
<1> DEFINE f == running[t]
<1>1. running[t] # NoFiber /\ ~atYield[t] /\ mutex # t
  BY DEF Finish, FiberCode, UserCode, LoopRuns
<1>2. f \in Live /\ env[f] = t
  BY <1>1 DEF IInv, Control
<1>3. /\ f \notin waiting
      /\ \A k \in Kinds, u \in Threads : f \notin refs[k][u]
  BY <1>1 DEF IInv, RefsAreUnique
<1>4. \A u \in Threads \ {t} : running[u] # f
  BY <1>1, <1>2 DEF IInv, Control
<1>5. Live' = Live \ {f}
  BY <1>2 DEF Finish, Live, IInv, Types
<1>6. /\ running' = [running EXCEPT ![t] = NoFiber]
      /\ fiberPool' = [fiberPool EXCEPT ![t] = @ \cup {f}]
      /\ currentFiberCount' = [currentFiberCount EXCEPT ![t] = @ - 1]
      /\ taskState' = [taskState EXCEPT ![pfn[f]] = "done"]
  BY <1>2 DEF Finish, SwitchToLoop
<1>. QED  BY <1>1, <1>2, <1>3, <1>4, <1>5, <1>6

(* Every step keeps threads and fibers in step with each other. *)
LEMMA ControlStep == IInv /\ [Next]_vars => Control'
<1> SUFFICES ASSUME IInv, [Next]_vars PROVE Control'
  OBVIOUS
<1> USE DEF shared, locals, queues, control, objects
<1>0. /\ Types /\ Control
      /\ NoFiber \notin Fibers /\ NoThread \notin Threads
  BY FibersAssumption, ThreadsAssumption DEF IInv
<1>1. ASSUME NEW t \in Threads,
             TryLock(t) \/ TryLockFails(t) \/ Steal(t) \/ KeepGoing(t) \/ VoteToQuit(t)
      PROVE  Control'
  <2>1. Live' = Live /\ env' = env /\ UNCHANGED <<running, atYield, hand>>
    BY <1>1, LiveSame DEF TryLock, TryLockFails, Steal, KeepGoing, VoteToQuit
  <2>2. pc[t] \in {"try", "locked"} /\ pc'[t] \notin {"main", "active"}
    BY <1>0, <1>1 DEF TryLock, TryLockFails, Steal, KeepGoing, VoteToQuit, Types
  <2>3. running[t] = NoFiber /\ ~atYield[t]
    BY <1>0, <2>2 DEF Control
  <2>4. \A u \in Threads \ {t} : pc'[u] = pc[u]
    BY <1>0, <1>1 DEF TryLock, TryLockFails, Steal, KeepGoing, VoteToQuit, Types
  <2>5. \/ mutex = NoThread /\ mutex' = t /\ pc'[t] = "locked"
        \/ mutex = t /\ mutex' = NoThread /\ pc'[t] # "locked"
        \/ mutex' = mutex /\ pc[t] = "try" /\ pc'[t] # "locked"
    <3>1. CASE TryLock(t) \/ TryLockFails(t)
      BY <1>0, <3>1 DEF TryLock, TryLockFails, Types
    <3>2. CASE Steal(t) \/ KeepGoing(t) \/ VoteToQuit(t)
      <4>1. pc[t] = "locked" /\ mutex' = NoThread /\ pc'[t] # "locked"
        BY <1>0, <3>2 DEF Steal, KeepGoing, VoteToQuit, Types
      <4>. QED  BY <1>0, <4>1 DEF Control
    <3>. QED  BY <1>1, <3>1, <3>2
  <2>6. mutex' = t => pc'[t] = "locked"
    BY <1>0, <2>2, <2>3, <2>5 DEF Control
  <2>. QED  BY <1>0, <2>1, <2>2, <2>3, <2>4, <2>5, <2>6 DEF Control
<1>2. ASSUME NEW t \in Threads,
             TakeArrivals(t) \/ EndActive(t) \/ EndStolen(t) \/ EndYielded(t) \/ EndSignaled(t)
      PROVE  Control'
  <2>1. Live' = Live /\ env' = env /\ UNCHANGED <<running, atYield, hand, mutex>>
    BY <1>2, LiveSame DEF TakeArrivals, EndActive, EndStolen, EndYielded, EndSignaled
  <2>2. /\ \A u \in Threads \ {t} : pc'[u] = pc[u]
        /\ running[t] = NoFiber
        /\ pc[t] \notin {"locked", "main"} /\ pc'[t] # "locked"
    BY <1>0, <1>2 DEF TakeArrivals, EndActive, EndStolen, EndYielded, EndSignaled,
       Types, Control, LoopRuns
  <2>. QED  BY <1>0, <2>1, <2>2 DEF Control, Types
<1>3. ASSUME NEW t \in Threads, ResumeDue(t) \/ ResumeWork(t)
      PROVE  Control'
  <2>1. Live' = Live /\ env' = env /\ UNCHANGED <<pc, atYield, hand, mutex>>
    BY <1>3, LiveSame DEF ResumeDue, ResumeWork
  <2>2. PICK f \in Live : env[f] = t /\ running' = [running EXCEPT ![t] = f]
    <3>1. CASE ResumeDue(t)
      <4>1. \A f \in due[t] : f \in Live /\ env[f] = t
        BY DEF IInv, RefsAreLive, refs, Kinds
      <4>. QED  BY <3>1, <4>1 DEF ResumeDue, SwitchTo
    <3>2. CASE ResumeWork(t)
      <4>1. \A f \in Elems(work[t]) : f \in Live /\ env[f] = t
        BY DEF IInv, RefsAreLive, refs, Kinds
      <4>2. Head(work[t]) \in Elems(work[t])
        BY <1>0, <3>2, TailElems DEF ResumeWork, Types
      <4>. QED  BY <3>2, <4>1, <4>2 DEF ResumeWork, SwitchTo
    <3>. QED  BY <1>3, <3>1, <3>2
  <2>3. running[t] = NoFiber /\ pc[t] \in {"active", "yielded", "signaled"}
    BY <1>3 DEF ResumeDue, ResumeWork, LoopRuns
  <2>4. \A u \in Threads \ {t} : running'[u] = running[u]
    BY <1>0, <2>2 DEF Types
  <2>5. running'[t] = f /\ f # NoFiber
    BY <1>0, <2>2 DEF Types, Live
  <2>. QED  BY <1>0, <2>1, <2>2, <2>3, <2>4, <2>5 DEF Control
<1>4. ASSUME NEW t \in Threads, StartTask(t)
      PROVE  Control'
  <2>1. UNCHANGED <<pc, atYield, hand, mutex>> /\ pc[t] = "stolen" /\ running[t] = NoFiber
    BY <1>4 DEF StartTask, LoopRuns
  <2>2. PICK f \in Fibers \ Live : /\ running' = [running EXCEPT ![t] = f]
                                   /\ Live' = Live \cup {f}
                                   /\ env'[f] = t
                                   /\ \A g \in Live : env'[g] = env[g]
    BY <1>4, Starting
  <2>3. running'[t] = f /\ \A u \in Threads \ {t} : running'[u] = running[u]
    BY <1>0, <2>2 DEF Types
  <2>. QED  BY <1>0, <2>1, <2>2, <2>3 DEF Control
<1>5. ASSUME NEW t \in Threads, ScheduleLock(t) \/ SchedulePush(t)
      PROVE  Control'
  <2>1. Live' = Live /\ env' = env /\ UNCHANGED <<running, atYield, hand, pc>>
    BY <1>5, LiveSame DEF ScheduleLock, SchedulePush
  <2>2. \/ mutex' = t /\ mutex = NoThread /\ UserCode(t)
        \/ mutex' = NoThread /\ mutex = t /\ pc[t] # "locked"
    BY <1>5 DEF ScheduleLock, SchedulePush
  <2>. QED  BY <1>0, <2>1, <2>2 DEF Control, UserCode, LoopRuns
<1>6. ASSUME NEW t \in Threads,
             YieldFiber(t) \/ AwaitEvent(t) \/ EnterWaitQueue(t) \/ YieldInWait(t)
      PROVE  Control'
  <2>1. Live' = Live /\ env' = env /\ UNCHANGED <<pc, hand, mutex>>
    BY <1>6, LiveSame DEF YieldFiber, AwaitEvent, EnterWaitQueue, YieldInWait
  <2>2. \A u \in Threads \ {t} : running'[u] = running[u] /\ atYield'[u] = atYield[u]
    BY <1>0, <1>6 DEF YieldFiber, AwaitEvent, EnterWaitQueue, YieldInWait, SwitchToLoop, Types
  <2>3. /\ running[t] # NoFiber /\ hand[t] = NoFiber /\ mutex # t
        /\ \/ running'[t] = NoFiber /\ atYield'[t] = FALSE
           \/ running'[t] = running[t] /\ atYield'[t] = TRUE
    <3>1. CASE YieldInWait(t)
      BY <1>0, <3>1 DEF YieldInWait, SwitchToLoop, Types, Control
    <3>2. CASE ~YieldInWait(t)
      <4>1. FiberCode(t)
        BY <1>6, <3>2 DEF YieldFiber, AwaitEvent, EnterWaitQueue
      <4>. QED  BY <1>0, <1>6, <3>2, <4>1 DEF YieldFiber, AwaitEvent, EnterWaitQueue, FiberCode,
                UserCode, LoopRuns, SwitchToLoop, Types
    <3>. QED  BY <3>1, <3>2
  <2>4. pc[t] # "locked"
    BY <1>0, <2>3 DEF Control
  <2>. QED  BY <1>0, <2>1, <2>2, <2>3, <2>4 DEF Control
<1>7. ASSUME NEW t \in Threads, PopWaiter(t) \/ PushSignal(t)
      PROVE  Control'
  <2>1. Live' = Live /\ env' = env /\ UNCHANGED <<pc, running, atYield, mutex>>
    BY <1>7, LiveSame DEF PopWaiter, PushSignal
  <2>2. \A u \in Threads \ {t} : hand'[u] = hand[u]
    BY <1>0, <1>7 DEF PopWaiter, PushSignal, Types
  <2>3. ~atYield[t]
    BY <1>0, <1>7 DEF PopWaiter, PushSignal, UserCode, Control
  <2>. QED  BY <1>0, <2>1, <2>2, <2>3 DEF Control
<1>8. ASSUME NEW t \in Threads, Finish(t)
      PROVE  Control'
  <2>1. UNCHANGED <<pc, atYield, hand, mutex, env>>
    BY <1>8 DEF Finish
  <2> DEFINE f == running[t]
  <2>2. /\ ~atYield[t] /\ mutex # t
        /\ Live' = Live \ {f}
        /\ \A u \in Threads \ {t} : running[u] # f
        /\ running' = [running EXCEPT ![t] = NoFiber]
    BY <1>8, Finishing
  <2>3. running'[t] = NoFiber /\ \A u \in Threads \ {t} : running'[u] = running[u]
    BY <1>0, <2>2 DEF Types
  <2>4. pc[t] # "locked"
    BY <1>0, <2>2 DEF Control
  <2>. QED  BY <1>0, <2>1, <2>2, <2>3, <2>4 DEF Control
<1>9. CASE MainReturns
  <2>1. Live' = Live /\ env' = env /\ UNCHANGED <<running, atYield, hand, mutex>>
    BY <1>9, LiveSame DEF MainReturns
  <2>2. /\ Main \in Threads /\ mutex # Main /\ running[Main] = NoFiber
        /\ pc'[Main] = "try" /\ \A u \in Threads \ {Main} : pc'[u] = pc[u]
    BY <1>0, <1>9, ThreadsAssumption, ZenonT(40) DEF MainReturns, UserCode, Types, Control
  <2>. QED  BY <1>0, <2>1, <2>2 DEF Control
<1>10. CASE Terminated \/ UNCHANGED vars
  <2>1. Live' = Live /\ env' = env /\ UNCHANGED <<pc, running, atYield, hand, mutex>>
    BY <1>10, LiveSame DEF Terminated, vars
  <2>. QED  BY <1>0, <2>1 DEF Control
<1>. QED
  BY <1>1, <1>2, <1>3, <1>4, <1>5, <1>6, <1>7, <1>8, <1>9, <1>10
  DEF Next, LoopStep, UserStep, Leave, Complete

-----------------------------------------------------------------------------
(* References *)

(* A step that changes at most the references of thread t in the queues K.  *)
OnlyRefs(t, K) ==
  \A k \in Kinds, u \in Threads : (u # t \/ k \notin K) => refs'[k][u] = refs[k][u]

(* What the references are, before and after a step. *)
LEMMA RefsAt ==
  ASSUME NEW t \in Threads
  PROVE  /\ refs["yield"][t] = Elems(userYieldFiberQ[t])
         /\ refs["signal"][t] = Elems(syncSignalFiberQ[t])
         /\ refs["work"][t] = Elems(work[t])
         /\ refs["event"][t] = events[t]
         /\ refs["due"][t] = due[t]
         /\ refs["hand"][t] = {hand[t]} \ {NoFiber}
         /\ refs'["yield"][t] = Elems(userYieldFiberQ'[t])
         /\ refs'["signal"][t] = Elems(syncSignalFiberQ'[t])
         /\ refs'["work"][t] = Elems(work'[t])
         /\ refs'["event"][t] = events'[t]
         /\ refs'["due"][t] = due'[t]
         /\ refs'["hand"][t] = {hand'[t]} \ {NoFiber}
BY DEF refs, Kinds, Elems

(* Which references a step leaves alone, from the variables it leaves alone.*)
LEMMA RefsFrame ==
  ASSUME NEW t \in Threads, NEW K,
         \A u \in Threads :
           /\ u # t \/ "yield" \notin K => userYieldFiberQ'[u] = userYieldFiberQ[u]
           /\ u # t \/ "signal" \notin K => syncSignalFiberQ'[u] = syncSignalFiberQ[u]
           /\ u # t \/ "work" \notin K => work'[u] = work[u]
           /\ u # t \/ "event" \notin K => events'[u] = events[u]
           /\ u # t \/ "due" \notin K => due'[u] = due[u]
           /\ u # t \/ "hand" \notin K => hand'[u] = hand[u]
  PROVE  OnlyRefs(t, K)
<1> SUFFICES ASSUME NEW k \in Kinds, NEW u \in Threads, u # t \/ k \notin K
             PROVE  refs'[k][u] = refs[k][u]
  BY DEF OnlyRefs
<1>1. CASE k = "yield"
  BY <1>1, RefsAt
<1>2. CASE k = "signal"
  BY <1>2, RefsAt
<1>3. CASE k = "work"
  BY <1>3, RefsAt
<1>4. CASE k = "event"
  BY <1>4, RefsAt
<1>5. CASE k = "due"
  BY <1>5, RefsAt
<1>6. CASE k = "hand"
  BY <1>6, RefsAt, ZenonT(40)
<1>. QED  BY <1>1, <1>2, <1>3, <1>4, <1>5, <1>6 DEF Kinds

(* A step that leaves all of it alone. *)
LEMMA RefsSame ==
  ASSUME UNCHANGED <<userYieldFiberQ, syncSignalFiberQ, work, events, due, hand, waiters>>
  PROVE  refs' = refs /\ waiting' = waiting
BY DEF refs, waiting, Elems

RefsInv == RefsAreLive /\ RefsAreUnique /\ QueuesAreDistinct

(* Handing fibers over: a step takes fibers from the queue k1 of thread t1  *)
(* to the queue k2 of thread t2, where they live (k2 is no hand), and may   *)
(* drop references, but makes no other one.                                 *)
LEMMA HandOver ==
  ASSUME RefsAreLive, RefsAreUnique,
         Live' = Live, waiting' = waiting, UNCHANGED <<env, running, atYield>>,
         NEW k1 \in Kinds, NEW k2 \in Kinds \ {"hand"}, NEW t1 \in Threads, NEW t2 \in Threads,
         \A k \in Kinds, u \in Threads : \A f \in refs'[k][u] :
           f \in refs[k][u] \/ (k = k2 /\ u = t2 /\ f \in refs[k1][t1]),
         \A f \in refs'[k2][t2] : f \in refs[k1][t1] =>
           /\ f \notin refs'[k1][t1]
           /\ env[f] = t2
           /\ k2 = "signal" \/ \A u \in Threads : atYield[u] => running[u] # f
  PROVE  RefsAreLive' /\ RefsAreUnique'
<1>1. RefsAreLive'
  BY DEF RefsAreLive
<1>2. \A j1, j2 \in Kinds, u1, u2 \in Threads : \A f \in refs'[j1][u1] :
        f \in refs'[j2][u2] => j1 = j2 /\ u1 = u2
  <2> SUFFICES ASSUME NEW j1 \in Kinds, NEW j2 \in Kinds, NEW u1 \in Threads, NEW u2 \in Threads,
                      NEW f \in refs'[j1][u1], f \in refs'[j2][u2]
               PROVE  j1 = j2 /\ u1 = u2
    OBVIOUS
  <2>1. CASE f \in refs[k1][t1]
    <3>1. \A j \in Kinds, u \in Threads : f \in refs'[j][u] =>
            (j = k2 /\ u = t2) \/ (j = k1 /\ u = t1)
      BY <2>1 DEF RefsAreUnique
    <3>. QED  BY <2>1, <3>1
  <2>2. CASE f \notin refs[k1][t1]
    BY <2>2 DEF RefsAreUnique
  <2>. QED  BY <2>1, <2>2
<1>3. \A k \in Kinds, u \in Threads : refs'[k][u] \cap waiting' = {}
  BY DEF RefsAreUnique
<1>4. \A t \in Threads : running'[t] # NoFiber /\ ~atYield'[t] =>
         /\ running'[t] \notin waiting'
         /\ \A k \in Kinds, u \in Threads : running'[t] \notin refs'[k][u]
  BY DEF RefsAreUnique
<1>5. \A t \in Threads : atYield'[t] =>
         \A k \in Kinds \ {"hand", "signal"}, u \in Threads : running'[t] \notin refs'[k][u]
  BY DEF RefsAreUnique
<1>. QED  BY <1>1, <1>2, <1>3, <1>4, <1>5 DEF RefsAreUnique

(* Steps of the loop that hand fibers from one queue to another. *)
LEMMA RefsQueueStep ==
  ASSUME IInv, NEW t \in Threads, TakeArrivals(t) \/ EndStolen(t) \/ EndYielded(t)
  PROVE  RefsInv'
<1> USE DEF shared, locals, queues, control, objects
<1>0. /\ Types /\ Control /\ RefsAreLive /\ RefsAreUnique /\ QueuesAreDistinct
      /\ NoFiber \notin Fibers
  BY FibersAssumption DEF IInv
<1>1. /\ Live' = Live /\ waiting' = waiting
      /\ UNCHANGED <<env, running, atYield, waiters>>
  BY LiveSame DEF TakeArrivals, EndStolen, EndYielded, waiting
<1>2. running[t] = NoFiber
  BY <1>0 DEF TakeArrivals, EndStolen, EndYielded, Control, LoopRuns
<1>3. \A k \in Kinds \ {"hand"} : \A f \in refs[k][t] :
        env[f] = t /\ \A u \in Threads : atYield[u] => running[u] # f
  BY <1>0, <1>2 DEF RefsAreLive, Control
<1>4. CASE TakeArrivals(t)
  <2>0. /\ UNCHANGED <<userYieldFiberQ, syncSignalFiberQ, work, hand>>
        /\ \A u \in Threads \ {t} : due'[u] = due[u] /\ events'[u] = events[u]
        /\ due'[t] \subseteq events[t] /\ events'[t] = events[t] \ due'[t]
    <3>1. PICK D \in SUBSET events[t] : /\ due' = [due EXCEPT ![t] = D]
                                        /\ events' = [events EXCEPT ![t] = @ \ D]
      BY <1>4 DEF TakeArrivals
    <3>2. UNCHANGED <<userYieldFiberQ, syncSignalFiberQ, work, hand>>
      BY <1>4 DEF TakeArrivals
    <3>. QED  BY <1>0, <3>1, <3>2 DEF Types
  <2>1. OnlyRefs(t, {"event", "due"})
    BY <2>0, RefsFrame
  <2>2. /\ refs'["due"][t] \subseteq refs["event"][t]
        /\ refs'["event"][t] = refs["event"][t] \ refs'["due"][t]
    BY <2>0, RefsAt
  <2>3. QueuesAreDistinct'
    BY <1>0, <1>1, <2>0 DEF QueuesAreDistinct, Distinct
  <2>4. \A k \in Kinds, u \in Threads : \A f \in refs'[k][u] :
          f \in refs[k][u] \/ (k = "due" /\ u = t /\ f \in refs["event"][t])
    BY <2>1, <2>2 DEF OnlyRefs
  <2>5. \A f \in refs'["due"][t] : f \in refs["event"][t] =>
          /\ f \notin refs'["event"][t]
          /\ env[f] = t
          /\ \A u \in Threads : atYield[u] => running[u] # f
    BY <1>3, <2>2 DEF Kinds
  <2>6. "event" \in Kinds /\ "due" \in Kinds \ {"hand"}
    BY DEF Kinds
  <2>7. RefsAreLive' /\ RefsAreUnique'
    BY <1>0, <1>1, <2>4, <2>5, <2>6, HandOver
  <2>. QED  BY <2>3, <2>7 DEF RefsInv
<1>5. CASE EndStolen(t)
  <2>0. /\ UNCHANGED <<syncSignalFiberQ, events, due, hand>>
        /\ \A u \in Threads \ {t} : work'[u] = work[u] /\ userYieldFiberQ'[u] = userYieldFiberQ[u]
        /\ work'[t] = userYieldFiberQ[t] /\ userYieldFiberQ'[t] = <<>>
    BY <1>0, <1>5 DEF EndStolen, Types
  <2>1. OnlyRefs(t, {"yield", "work"})
    BY <2>0, RefsFrame
  <2>2. /\ refs'["work"][t] = refs["yield"][t]
        /\ refs'["yield"][t] = {}
    BY <2>0, RefsAt, EmptyElems
  <2>3. QueuesAreDistinct'
    <3>1. \A u \in Threads : /\ Distinct(userYieldFiberQ'[u]) /\ Distinct(syncSignalFiberQ'[u])
                             /\ Distinct(work'[u])
      BY <1>0, <2>0, EmptyElems DEF QueuesAreDistinct
    <3>. QED  BY <1>0, <1>1, <3>1 DEF QueuesAreDistinct, Distinct
  <2>4. \A k \in Kinds, u \in Threads : \A f \in refs'[k][u] :
          f \in refs[k][u] \/ (k = "work" /\ u = t /\ f \in refs["yield"][t])
    BY <2>1, <2>2 DEF OnlyRefs
  <2>5. \A f \in refs'["work"][t] : f \in refs["yield"][t] =>
          /\ f \notin refs'["yield"][t]
          /\ env[f] = t
          /\ \A u \in Threads : atYield[u] => running[u] # f
    BY <1>3, <2>2 DEF Kinds
  <2>6. "yield" \in Kinds /\ "work" \in Kinds \ {"hand"}
    BY DEF Kinds
  <2>7. RefsAreLive' /\ RefsAreUnique'
    BY <1>0, <1>1, <2>4, <2>5, <2>6, HandOver
  <2>. QED  BY <2>3, <2>7 DEF RefsInv
<1>6. CASE EndYielded(t)
  <2>0. /\ UNCHANGED <<events, due, hand>>
        /\ \A u \in Threads \ {t} : /\ work'[u] = work[u]
                                     /\ userYieldFiberQ'[u] = userYieldFiberQ[u]
                                     /\ syncSignalFiberQ'[u] = syncSignalFiberQ[u]
        /\ work'[t] = syncSignalFiberQ[t]
        /\ userYieldFiberQ'[t] = <<>> /\ syncSignalFiberQ'[t] = <<>>
    BY <1>0, <1>6 DEF EndYielded, Signaled, Unsignaled, Types
  <2>1. OnlyRefs(t, {"yield", "signal", "work"})
    BY <2>0, RefsFrame
  <2>2. /\ refs'["work"][t] = refs["signal"][t]
        /\ refs'["yield"][t] = {}
        /\ refs'["signal"][t] = {}
    BY <2>0, RefsAt, EmptyElems
  <2>3. QueuesAreDistinct'
    <3>1. \A u \in Threads : /\ Distinct(userYieldFiberQ'[u]) /\ Distinct(syncSignalFiberQ'[u])
                             /\ Distinct(work'[u])
      BY <1>0, <2>0, EmptyElems DEF QueuesAreDistinct
    <3>. QED  BY <1>0, <1>1, <3>1 DEF QueuesAreDistinct, Distinct
  <2>4. \A k \in Kinds, u \in Threads : \A f \in refs'[k][u] :
          f \in refs[k][u] \/ (k = "work" /\ u = t /\ f \in refs["signal"][t])
    BY <2>1, <2>2 DEF OnlyRefs
  <2>5. \A f \in refs'["work"][t] : f \in refs["signal"][t] =>
          /\ f \notin refs'["signal"][t]
          /\ env[f] = t
          /\ \A u \in Threads : atYield[u] => running[u] # f
    BY <1>3, <2>2 DEF Kinds
  <2>6. "signal" \in Kinds /\ "work" \in Kinds \ {"hand"}
    BY DEF Kinds
  <2>7. RefsAreLive' /\ RefsAreUnique'
    BY <1>0, <1>1, <2>4, <2>5, <2>6, HandOver
  <2>. QED  BY <2>3, <2>7 DEF RefsInv
<1>. QED  BY <1>4, <1>5, <1>6

(* Steps of the loop that resume a fiber. *)
LEMMA RefsResumeStep ==
  ASSUME IInv, NEW t \in Threads, ResumeDue(t) \/ ResumeWork(t)
  PROVE  RefsInv'
<1> USE DEF shared, locals, queues, control, objects
<1>0. /\ Types /\ Control /\ RefsAreLive /\ RefsAreUnique /\ QueuesAreDistinct
      /\ NoFiber \notin Fibers
  BY FibersAssumption DEF IInv
<1>1. /\ Live' = Live /\ waiting' = waiting
      /\ UNCHANGED <<env, atYield, waiters, userYieldFiberQ, syncSignalFiberQ>>
  BY LiveSame DEF ResumeDue, ResumeWork, waiting
<1>2. running[t] = NoFiber /\ ~atYield[t]
  BY <1>0 DEF ResumeDue, ResumeWork, Control, LoopRuns
<1>3. \E k \in {"due", "work"} : \E f \in refs[k][t] :
        /\ OnlyRefs(t, {k})
        /\ refs'[k][t] = refs[k][t] \ {f}
        /\ running' = [running EXCEPT ![t] = f]
        /\ QueuesAreDistinct'
  <2>1. CASE ResumeDue(t)
    <3>1. PICK f \in due[t] : /\ due' = [due EXCEPT ![t] = @ \ {f}]
                              /\ running' = [running EXCEPT ![t] = f]
      BY <2>1 DEF ResumeDue, SwitchTo
    <3>2. OnlyRefs(t, {"due"})
      BY <1>0, <2>1, <3>1, RefsFrame DEF ResumeDue, Types
    <3>3. f \in refs["due"][t] /\ refs'["due"][t] = refs["due"][t] \ {f}
      BY <1>0, <3>1, RefsAt DEF Types
    <3>4. QueuesAreDistinct'
      BY <1>0, <2>1 DEF ResumeDue, QueuesAreDistinct, Distinct
    <3>. QED  BY <3>1, <3>2, <3>3, <3>4
  <2>2. CASE ResumeWork(t)
    <3> DEFINE f == Head(work[t])
    <3>1. /\ work[t] \in Seq(Fibers) /\ work[t] # <<>> /\ Distinct(work[t])
          /\ work' = [work EXCEPT ![t] = Tail(@)]
          /\ running' = [running EXCEPT ![t] = f]
      BY <1>0, <2>2 DEF ResumeWork, SwitchTo, Types, QueuesAreDistinct
    <3>2. OnlyRefs(t, {"work"})
      BY <1>0, <2>2, <3>1, RefsFrame DEF ResumeWork, Types
    <3>3. /\ f \in Elems(work[t]) /\ Elems(Tail(work[t])) = Elems(work[t]) \ {f}
          /\ Distinct(Tail(work[t]))
      BY <3>1, TailElems
    <3>4. work'[t] = Tail(work[t]) /\ \A u \in Threads \ {t} : work'[u] = work[u]
      BY <1>0, <3>1 DEF Types
    <3>5. f \in refs["work"][t] /\ refs'["work"][t] = refs["work"][t] \ {f}
      BY <3>3, <3>4, RefsAt
    <3>6. QueuesAreDistinct'
      <4>1. \A u \in Threads : Distinct(work'[u])
        BY <1>0, <3>3, <3>4 DEF QueuesAreDistinct
      <4>. QED  BY <1>0, <1>1, <4>1 DEF QueuesAreDistinct, Distinct
    <3> HIDE DEF f
    <3>. QED  BY <3>1, <3>2, <3>5, <3>6
  <2>. QED  BY <2>1, <2>2
<1>4. PICK k \in {"due", "work"} : \E f \in refs[k][t] :
        /\ OnlyRefs(t, {k})
        /\ refs'[k][t] = refs[k][t] \ {f}
        /\ running' = [running EXCEPT ![t] = f]
        /\ QueuesAreDistinct'
  BY <1>3
<1>5. PICK f \in refs[k][t] :
        /\ OnlyRefs(t, {k})
        /\ refs'[k][t] = refs[k][t] \ {f}
        /\ running' = [running EXCEPT ![t] = f]
        /\ QueuesAreDistinct'
  BY <1>4
<1>6. running'[t] = f /\ \A u \in Threads \ {t} : running'[u] = running[u]
  BY <1>0, <1>5 DEF Types
<1>7. k \in Kinds
  BY DEF Kinds
<1>8. RefsAreLive'
  BY <1>0, <1>1, <1>5, <1>7 DEF RefsAreLive, OnlyRefs
<1>9. RefsAreUnique'
  BY <1>0, <1>1, <1>2, <1>5, <1>6, <1>7 DEF RefsAreUnique, OnlyRefs
<1>. QED  BY <1>5, <1>8, <1>9 DEF RefsInv

(* Steps that touch neither references nor fibers. *)
LEMMA RefsQuietStep ==
  ASSUME IInv,
         UNCHANGED <<userYieldFiberQ, syncSignalFiberQ, work, events, due, hand, waiters,
                     running, atYield, env, cStart, cEnd>>
  PROVE  RefsInv'
<1>1. Live' = Live /\ refs' = refs /\ waiting' = waiting
  BY LiveSame, RefsSame
<1>. QED
  BY <1>1 DEF IInv, RefsInv, RefsAreLive, RefsAreUnique, QueuesAreDistinct, Distinct

(* A task is started on a fiber that nobody refers to. *)
LEMMA RefsStartStep ==
  ASSUME IInv, NEW t \in Threads, StartTask(t)
  PROVE  RefsInv'
<1>0. /\ Types /\ Control /\ RefsAreLive /\ RefsAreUnique /\ QueuesAreDistinct
  BY DEF IInv
<1>1. /\ refs' = refs /\ waiting' = waiting /\ UNCHANGED atYield
      /\ QueuesAreDistinct'
  <2>1. UNCHANGED <<userYieldFiberQ, syncSignalFiberQ, work, events, due, hand, waiters, atYield>>
    BY DEF StartTask, queues
  <2>. QED  BY <1>0, <2>1, RefsSame DEF QueuesAreDistinct, Distinct
<1>2. PICK f \in Fibers \ Live : /\ running' = [running EXCEPT ![t] = f]
                                 /\ Live' = Live \cup {f}
                                 /\ \A g \in Live : env'[g] = env[g]
  BY Starting
<1>3. running'[t] = f /\ \A u \in Threads \ {t} : running'[u] = running[u]
  BY <1>0, <1>2 DEF Types
<1>4. running[t] = NoFiber /\ ~atYield[t]
  BY <1>0 DEF StartTask, LoopRuns, Control
<1>5. f \notin waiting /\ \A k \in Kinds, u \in Threads : f \notin refs[k][u]
  BY <1>0, <1>2 DEF RefsAreLive
<1>6. RefsAreLive'
  BY <1>0, <1>1, <1>2 DEF RefsAreLive
<1>7. RefsAreUnique'
  BY <1>0, <1>1, <1>3, <1>4, <1>5 DEF RefsAreUnique
<1>. QED  BY <1>1, <1>6, <1>7 DEF RefsInv

(* The running fiber ends: nobody refers to it. *)
LEMMA RefsFinishStep ==
  ASSUME IInv, NEW t \in Threads, Finish(t)
  PROVE  RefsInv'
<1>0. /\ Types /\ Control /\ RefsAreLive /\ RefsAreUnique /\ QueuesAreDistinct
  BY DEF IInv
<1>1. /\ refs' = refs /\ waiting' = waiting /\ UNCHANGED <<atYield, env>>
      /\ QueuesAreDistinct'
  <2>1. UNCHANGED <<userYieldFiberQ, syncSignalFiberQ, work, events, due, hand, waiters, atYield, env>>
    BY DEF Finish, queues, locals
  <2>. QED  BY <1>0, <2>1, RefsSame DEF QueuesAreDistinct, Distinct
<1> DEFINE f == running[t]
<1>2. /\ ~atYield[t]
      /\ f \notin waiting
      /\ \A k \in Kinds, u \in Threads : f \notin refs[k][u]
      /\ Live' = Live \ {f}
      /\ running' = [running EXCEPT ![t] = NoFiber]
  BY Finishing
<1>3. running'[t] = NoFiber /\ \A u \in Threads \ {t} : running'[u] = running[u]
  BY <1>0, <1>2 DEF Types
<1>4. RefsAreLive'
  BY <1>0, <1>1, <1>2 DEF RefsAreLive
<1>5. RefsAreUnique'
  BY <1>0, <1>1, <1>2, <1>3 DEF RefsAreUnique
<1>. QED  BY <1>1, <1>4, <1>5 DEF RefsInv

(* The running fiber yields into a queue of its own thread. *)
LEMMA RefsParkStep ==
  ASSUME IInv, NEW t \in Threads, YieldFiber(t) \/ AwaitEvent(t)
  PROVE  RefsInv'
<1> DEFINE f == running[t]
<1>0. /\ Types /\ Control /\ RefsAreLive /\ RefsAreUnique /\ QueuesAreDistinct
      /\ NoFiber \notin Fibers
  BY FibersAssumption DEF IInv
<1>1. /\ Live' = Live /\ waiting' = waiting
      /\ UNCHANGED <<env, atYield, waiters, syncSignalFiberQ, work, due, hand>>
  BY LiveSame DEF YieldFiber, AwaitEvent, waiting, locals, objects
<1>2. /\ f # NoFiber /\ f \in Fibers /\ ~atYield[t]
      /\ running' = [running EXCEPT ![t] = NoFiber]
  BY <1>0 DEF YieldFiber, AwaitEvent, FiberCode, UserCode, LoopRuns, SwitchToLoop, Types
<1>3. running'[t] = NoFiber /\ \A u \in Threads \ {t} : running'[u] = running[u]
  BY <1>0, <1>2 DEF Types
<1>4. /\ f \in Live /\ env[f] = t /\ f \notin waiting
      /\ \A k \in Kinds, u \in Threads : f \notin refs[k][u]
      /\ \A u \in Threads \ {t} : running[u] # f
  BY <1>0, <1>2 DEF Control, RefsAreUnique
<1>5. /\ QueuesAreDistinct'
      /\ \E k \in {"yield", "event"} : OnlyRefs(t, {k}) /\ refs'[k][t] = refs[k][t] \cup {f}
  <2>1. CASE YieldFiber(t)
    <3>1. /\ \A u \in Threads \ {t} : userYieldFiberQ'[u] = userYieldFiberQ[u]
          /\ userYieldFiberQ'[t] = Append(userYieldFiberQ[t], f)
          /\ events' = events
      BY <1>0, <2>1 DEF YieldFiber, Types
    <3>2. Distinct(userYieldFiberQ[t]) /\ f \notin Elems(userYieldFiberQ[t])
      BY <1>0, <1>4, RefsAt DEF QueuesAreDistinct, Kinds
    <3>3. /\ Elems(userYieldFiberQ'[t]) = Elems(userYieldFiberQ[t]) \cup {f}
          /\ Distinct(userYieldFiberQ'[t])
      <4>1. userYieldFiberQ[t] \in Seq(Fibers)
        BY <1>0 DEF Types
      <4>. QED  BY <1>2, <3>1, <3>2, <4>1, AppendElems
    <3>4. OnlyRefs(t, {"yield"})
      BY <1>1, <3>1, RefsFrame
    <3>5. refs'["yield"][t] = refs["yield"][t] \cup {f}
      BY <3>3, RefsAt
    <3>6. QueuesAreDistinct'
      <4>1. \A u \in Threads : Distinct(userYieldFiberQ'[u])
        BY <1>0, <3>1, <3>3 DEF QueuesAreDistinct
      <4>. QED  BY <1>0, <1>1, <4>1 DEF QueuesAreDistinct, Distinct
    <3>. QED  BY <3>4, <3>5, <3>6
  <2>2. CASE AwaitEvent(t)
    <3>1. /\ \A u \in Threads \ {t} : events'[u] = events[u]
          /\ events'[t] = events[t] \cup {f}
          /\ userYieldFiberQ' = userYieldFiberQ
      BY <1>0, <2>2 DEF AwaitEvent, Types
    <3>2. OnlyRefs(t, {"event"})
      BY <1>1, <3>1, RefsFrame
    <3>3. refs'["event"][t] = refs["event"][t] \cup {f}
      BY <3>1, RefsAt
    <3>4. QueuesAreDistinct'
      BY <1>0, <1>1, <3>1 DEF QueuesAreDistinct, Distinct
    <3>. QED  BY <3>2, <3>3, <3>4
  <2>. QED  BY <2>1, <2>2
<1>6. PICK k \in {"yield", "event"} : OnlyRefs(t, {k}) /\ refs'[k][t] = refs[k][t] \cup {f}
  BY <1>5
<1>7. k \in Kinds
  BY DEF Kinds
<1> HIDE DEF f
<1>8. RefsAreLive'
  BY <1>0, <1>1, <1>4, <1>6, <1>7 DEF RefsAreLive, OnlyRefs
<1>9. \A j \in Kinds, u \in Threads : \A g \in refs'[j][u] :
        g \in refs[j][u] \/ (j = k /\ u = t /\ g = f)
  BY <1>6 DEF OnlyRefs
<1>10. \A u \in Threads : running'[u] # NoFiber => running'[u] # f /\ running'[u] = running[u]
  BY <1>3, <1>4
<1>11. \A u \in Threads : atYield[u] => running'[u] # NoFiber
  BY <1>0, <1>2, <1>3 DEF Control
<1>12. RefsAreUnique'
  BY <1>0, <1>1, <1>4, <1>9, <1>10, <1>11 DEF RefsAreUnique
<1>. QED  BY <1>5, <1>8, <1>12 DEF RefsInv

(* The running fiber enters the wait queue, and yields there. *)
LEMMA RefsWaitStep ==
  ASSUME IInv, NEW t \in Threads, EnterWaitQueue(t) \/ YieldInWait(t)
  PROVE  RefsInv'
<1> DEFINE f == running[t]
<1>0. /\ Types /\ Control /\ RefsAreLive /\ RefsAreUnique /\ QueuesAreDistinct
  BY DEF IInv
<1>1. /\ Live' = Live /\ refs' = refs
      /\ UNCHANGED <<env, hand, userYieldFiberQ, syncSignalFiberQ, work>>
  <2>1. UNCHANGED <<env, cStart, cEnd, hand, userYieldFiberQ, syncSignalFiberQ, work, due, events>>
    BY DEF EnterWaitQueue, YieldInWait, locals, queues, objects
  <2>. QED  BY <2>1, LiveSame DEF refs, Elems
<1>2. CASE EnterWaitQueue(t)
  <2>1. /\ f # NoFiber /\ ~atYield[t] /\ f \in Fibers
        /\ running' = running
        /\ waiters' = Append(waiters, f)
        /\ atYield'[t] = TRUE /\ \A u \in Threads \ {t} : atYield'[u] = atYield[u]
    BY <1>0, <1>2 DEF EnterWaitQueue, FiberCode, UserCode, LoopRuns, Types
  <2>2. /\ f \in Live /\ f \notin waiting
        /\ \A k \in Kinds, u \in Threads : f \notin refs[k][u]
        /\ \A u \in Threads \ {t} : running[u] # f
    BY <1>0, <2>1 DEF Control, RefsAreUnique
  <2>3. waiting' = waiting \cup {f} /\ Distinct(waiters')
    <3>1. waiters \in Seq(Fibers) /\ Distinct(waiters) /\ f \notin Elems(waiters)
      BY <1>0, <2>2 DEF Types, QueuesAreDistinct, waiting
    <3>2. /\ Elems(Append(waiters, f)) = Elems(waiters) \cup {f}
          /\ Distinct(Append(waiters, f))
      BY <2>1, <3>1, AppendElems
    <3>3. waiting' = Elems(waiters')
      BY DEF waiting, Elems
    <3>. QED  BY <2>1, <3>2, <3>3 DEF waiting
  <2> HIDE DEF f
  <2>4. RefsAreLive'
    BY <1>0, <1>1, <2>2, <2>3 DEF RefsAreLive
  <2>5. RefsAreUnique'
    BY <1>0, <1>1, <2>1, <2>2, <2>3 DEF RefsAreUnique, f
  <2>6. QueuesAreDistinct'
    BY <1>0, <1>1, <2>3 DEF QueuesAreDistinct, Distinct
  <2>. QED  BY <2>4, <2>5, <2>6 DEF RefsInv
<1>3. CASE YieldInWait(t)
  <2>1. /\ running'[t] = NoFiber /\ \A u \in Threads \ {t} : running'[u] = running[u]
        /\ ~atYield'[t] /\ \A u \in Threads \ {t} : atYield'[u] = atYield[u]
        /\ waiters' = waiters
    BY <1>0, <1>3 DEF YieldInWait, SwitchToLoop, queues, Types
  <2>2. waiting' = waiting
    BY <2>1 DEF waiting
  <2>4. RefsAreLive'
    BY <1>0, <1>1, <2>2 DEF RefsAreLive
  <2>5. RefsAreUnique'
    BY <1>0, <1>1, <2>1, <2>2 DEF RefsAreUnique
  <2>6. QueuesAreDistinct'
    BY <1>0, <1>1, <2>1 DEF QueuesAreDistinct, Distinct
  <2>. QED  BY <2>4, <2>5, <2>6 DEF RefsInv
<1>. QED  BY <1>2, <1>3

(* A waiter is taken from the wait queue, still referred to once. *)
LEMMA RefsPopStep ==
  ASSUME IInv, NEW t \in Threads, PopWaiter(t)
  PROVE  RefsInv'
<1> DEFINE f == Head(waiters)
<1>0. /\ Types /\ Control /\ RefsAreLive /\ RefsAreUnique /\ QueuesAreDistinct
      /\ NoFiber \notin Fibers
  BY FibersAssumption DEF IInv
<1>1. /\ Live' = Live
      /\ UNCHANGED <<env, running, atYield, userYieldFiberQ, syncSignalFiberQ, work, events, due>>
  BY LiveSame DEF PopWaiter, locals, objects
<1>2. /\ hand[t] = NoFiber /\ ~atYield[t]
      /\ hand'[t] = f /\ \A u \in Threads \ {t} : hand'[u] = hand[u]
      /\ waiters # <<>> /\ waiters' = Tail(waiters)
  BY <1>0 DEF PopWaiter, UserCode, Types
<1>3. /\ f \in Live /\ f # NoFiber
      /\ waiting = waiting' \cup {f} /\ f \notin waiting' /\ Distinct(waiters')
  <2>1. waiters \in Seq(Fibers) /\ Distinct(waiters)
    BY <1>0 DEF Types, QueuesAreDistinct
  <2>2. /\ f \in Fibers
        /\ Elems(waiters) = Elems(Tail(waiters)) \cup {f}
        /\ Distinct(Tail(waiters)) /\ f \notin Elems(Tail(waiters))
    BY <1>2, <2>1, TailElems
  <2>3. waiting' = Elems(waiters')
    BY DEF waiting, Elems
  <2>. QED  BY <1>0, <1>2, <2>2, <2>3 DEF waiting, RefsAreLive
<1>4. OnlyRefs(t, {"hand"})
  BY <1>1, <1>2, RefsFrame
<1> HIDE DEF f
<1>5. refs'["hand"][t] = {f}
  BY <1>2, <1>3, RefsAt
<1>6. \A j \in Kinds, u \in Threads : \A g \in refs'[j][u] :
        g \in refs[j][u] \/ (j = "hand" /\ u = t /\ g = f)
  BY <1>4, <1>5 DEF OnlyRefs
<1>7. RefsAreLive'
  BY <1>0, <1>1, <1>3, <1>6 DEF RefsAreLive
<1>8. \A k \in Kinds, u \in Threads : f \notin refs[k][u]
  BY <1>0, <1>3 DEF RefsAreUnique
<1>9. \A u \in Threads : running[u] # NoFiber /\ ~atYield[u] => running[u] # f
  BY <1>0, <1>3 DEF RefsAreUnique
<1>10. RefsAreUnique'
  BY <1>0, <1>1, <1>3, <1>6, <1>8, <1>9 DEF RefsAreUnique
<1>11. QueuesAreDistinct'
  BY <1>0, <1>1, <1>3 DEF QueuesAreDistinct, Distinct
<1>. QED  BY <1>7, <1>10, <1>11 DEF RefsInv

(* The waiter is handed to the signal queue of its own thread. *)
LEMMA RefsSignalStep ==
  ASSUME IInv, NEW t \in Threads, PushSignal(t)
  PROVE  RefsInv'
<1> DEFINE f == hand[t]
           h == env[f]
<1>0. /\ Types /\ Control /\ RefsAreLive /\ RefsAreUnique /\ QueuesAreDistinct /\ PoolsAreIdle
      /\ NoFiber \notin Fibers
  BY FibersAssumption DEF IInv
<1>1. /\ Live' = Live /\ waiting' = waiting
      /\ UNCHANGED <<env, running, atYield, waiters, userYieldFiberQ, work, events, due>>
  BY LiveSame DEF PushSignal, locals, objects, waiting
<1>2. /\ f \in Fibers /\ f # NoFiber
      /\ hand'[t] = NoFiber /\ \A u \in Threads \ {t} : hand'[u] = hand[u]
      /\ syncSignalFiberQ' = [syncSignalFiberQ EXCEPT ![h] = Append(@, f)]
  BY <1>0 DEF PushSignal, HomeOf, Types
<1>3. f \in refs["hand"][t]
  BY <1>2, RefsAt
<1>4. f \in Live /\ \A u \in Threads : f \notin refs["signal"][u]
  BY <1>0, <1>3 DEF RefsAreLive, RefsAreUnique, Kinds
<1>5. h \in Threads
  BY <1>0, <1>2, <1>4 DEF Types, PoolsAreIdle, Live
<1> HIDE DEF f, h
<1>6. /\ \A u \in Threads \ {h} : syncSignalFiberQ'[u] = syncSignalFiberQ[u]
      /\ syncSignalFiberQ'[h] = Append(syncSignalFiberQ[h], f)
  BY <1>0, <1>2, <1>5 DEF Types
<1>7. /\ Elems(syncSignalFiberQ'[h]) = Elems(syncSignalFiberQ[h]) \cup {f}
      /\ Distinct(syncSignalFiberQ'[h])
  <2>1. /\ syncSignalFiberQ[h] \in Seq(Fibers) /\ Distinct(syncSignalFiberQ[h])
        /\ f \notin Elems(syncSignalFiberQ[h])
    <3>1. refs["signal"][h] = Elems(syncSignalFiberQ[h])
      BY <1>5, RefsAt
    <3>. QED  BY <1>0, <1>4, <1>5, <3>1 DEF Types, QueuesAreDistinct
  <2>2. /\ Elems(Append(syncSignalFiberQ[h], f)) = Elems(syncSignalFiberQ[h]) \cup {f}
        /\ Distinct(Append(syncSignalFiberQ[h], f))
    BY <1>2, <2>1, AppendElems
  <2>. QED  BY <1>6, <2>2
<1>8. \A k \in Kinds, u \in Threads : \A g \in refs'[k][u] :
        g \in refs[k][u] \/ (k = "signal" /\ u = h /\ g = f)
  <2> SUFFICES ASSUME NEW k \in Kinds, NEW u \in Threads, NEW g \in refs'[k][u]
               PROVE  g \in refs[k][u] \/ (k = "signal" /\ u = h /\ g = f)
    OBVIOUS
  <2>1. CASE k = "signal"
    <3>1. refs["signal"][u] = Elems(syncSignalFiberQ[u]) /\ refs'["signal"][u] = Elems(syncSignalFiberQ'[u])
      BY RefsAt
    <3>2. CASE u = h
      BY <1>7, <2>1, <3>1, <3>2
    <3>3. CASE u # h
      BY <1>6, <2>1, <3>1, <3>3
    <3>. QED  BY <3>2, <3>3
  <2>2. CASE k = "hand"
    BY <1>2, <2>2, RefsAt
  <2>3. CASE k \notin {"signal", "hand"}
    BY <1>1, <2>3, RefsAt DEF Kinds
  <2>. QED  BY <2>1, <2>2, <2>3
<1>9. refs["hand"][t] = {f} /\ refs'["hand"][t] = {}
  BY <1>2, RefsAt DEF f
<1>10. env[f] = h
  BY DEF h
<1>11. "hand" \in Kinds /\ "signal" \in Kinds \ {"hand"}
  BY DEF Kinds
<1>12. RefsAreLive' /\ RefsAreUnique'
  BY <1>0, <1>1, <1>5, <1>8, <1>9, <1>10, <1>11, HandOver
<1>13. QueuesAreDistinct'
  <2>1. \A u \in Threads : Distinct(syncSignalFiberQ'[u])
    BY <1>0, <1>6, <1>7 DEF QueuesAreDistinct
  <2>. QED  BY <1>0, <1>1, <2>1 DEF QueuesAreDistinct, Distinct
<1>. QED  BY <1>12, <1>13 DEF RefsInv

(* Every step keeps the references as they must be. *)
LEMMA RefsStep == IInv /\ [Next]_vars => RefsInv'
<1> SUFFICES ASSUME IInv, [Next]_vars PROVE RefsInv'
  OBVIOUS
<1>1. ASSUME NEW t \in Threads,
             \/ TryLock(t) \/ TryLockFails(t) \/ Steal(t) \/ KeepGoing(t) \/ VoteToQuit(t)
             \/ EndActive(t) \/ EndSignaled(t)
      PROVE  RefsInv'
  <2>1. UNCHANGED <<userYieldFiberQ, syncSignalFiberQ, work, events, due, hand, waiters,
                    running, atYield, env, cStart, cEnd>>
    BY <1>1 DEF TryLock, TryLockFails, Steal, KeepGoing, VoteToQuit, EndActive, EndSignaled,
       queues, control, objects
  <2>. QED  BY <2>1, RefsQuietStep
<1>2. ASSUME NEW t \in Threads, ScheduleLock(t) \/ SchedulePush(t)
      PROVE  RefsInv'
  <2>1. UNCHANGED <<userYieldFiberQ, syncSignalFiberQ, work, events, due, hand, waiters,
                    running, atYield, env, cStart, cEnd>>
    BY <1>2 DEF ScheduleLock, SchedulePush, locals, queues, control, objects
  <2>. QED  BY <2>1, RefsQuietStep
<1>3. CASE MainReturns \/ Terminated \/ UNCHANGED vars
  <2>1. UNCHANGED <<userYieldFiberQ, syncSignalFiberQ, work, events, due, hand, waiters,
                    running, atYield, env, cStart, cEnd>>
    BY <1>3 DEF MainReturns, Terminated, vars, locals, queues, control, objects
  <2>. QED  BY <2>1, RefsQuietStep
<1>. QED
  BY <1>1, <1>2, <1>3, RefsQueueStep, RefsResumeStep, RefsStartStep, RefsFinishStep,
     RefsParkStep, RefsWaitStep, RefsPopStep, RefsSignalStep
  DEF Next, LoopStep, UserStep, Leave, Complete

-----------------------------------------------------------------------------
(* Pools and counters *)

(* A step that concerns neither tasks, votes nor the life of fibers, and     *)
(* after which no thread has entered or left its loop.                      *)
Aside ==
  /\ UNCHANGED <<commTasks, stealedTasks, taskState, wannaQuit, wannaQuitThreadCount,
                 env, cStart, cEnd, pfn, fiberPool, currentFiberCount>>
  /\ \A t \in Threads : pc'[t] \in {"main", "exit"} => pc'[t] = pc[t]

(* Only five actions touch tasks, votes or the life of fibers. *)
LEMMA WhoMatters ==
  ASSUME Types, [Next]_vars
  PROVE  \/ Aside
         \/ \E t \in Threads : Steal(t) \/ VoteToQuit(t) \/ StartTask(t) \/ SchedulePush(t) \/ Finish(t)
<1> USE DEF Aside, shared, locals, objects, Types
<1>1. ASSUME NEW t \in Threads, LoopStep(t) \/ UserStep(t)
      PROVE  Aside \/ Steal(t) \/ VoteToQuit(t) \/ StartTask(t) \/ SchedulePush(t) \/ Finish(t)
  <2>1. ASSUME TryLock(t) \/ TryLockFails(t) \/ KeepGoing(t)
        PROVE  Aside
    BY <2>1 DEF TryLock, TryLockFails, KeepGoing
  <2>2. ASSUME TakeArrivals(t) \/ ResumeDue(t) \/ EndActive(t)
        PROVE  Aside
    BY <2>2 DEF TakeArrivals, ResumeDue, EndActive
  <2>3. ASSUME EndStolen(t) \/ ResumeWork(t) \/ EndYielded(t) \/ EndSignaled(t)
        PROVE  Aside
    BY <2>3 DEF EndStolen, ResumeWork, EndYielded, EndSignaled
  <2>4. ASSUME \/ ScheduleLock(t) \/ YieldFiber(t) \/ AwaitEvent(t) \/ EnterWaitQueue(t)
               \/ YieldInWait(t) \/ PopWaiter(t) \/ PushSignal(t)
        PROVE  Aside
    BY <2>4 DEF ScheduleLock, YieldFiber, AwaitEvent, EnterWaitQueue, YieldInWait,
       PopWaiter, PushSignal
  <2>. QED  BY <1>1, <2>1, <2>2, <2>3, <2>4 DEF LoopStep, UserStep, Leave, Complete
<1>2. ASSUME MainReturns \/ Terminated \/ UNCHANGED vars
      PROVE  Aside
  BY <1>2, ThreadsAssumption DEF MainReturns, Terminated, vars
<1>. QED  BY <1>1, <1>2 DEF Next

(* The steps that leave the fibers alone, and those that leave the votes.   *)
FibersSame == UNCHANGED <<env, cStart, cEnd, fiberPool, currentFiberCount>>
VotesSame == UNCHANGED <<wannaQuit, wannaQuitThreadCount>>

(* Who starts or ends fibers, and who votes. *)
LEMMA WhatIsSame ==
  ASSUME Types, [Next]_vars
  PROVE  /\ FibersSame \/ \E t \in Threads : StartTask(t) \/ Finish(t)
         /\ VotesSame \/ \E t \in Threads : Steal(t) \/ VoteToQuit(t)
<1> USE DEF Aside, FibersSame, VotesSame, shared, locals, objects
<1>1. CASE Aside
  BY <1>1
<1>2. ASSUME NEW t \in Threads
      PROVE  /\ Steal(t) \/ VoteToQuit(t) \/ SchedulePush(t) => FibersSame
             /\ StartTask(t) \/ SchedulePush(t) \/ Finish(t) => VotesSame
  BY DEF Steal, VoteToQuit, SchedulePush, StartTask, Finish
<1> HIDE DEF Aside, FibersSame, VotesSame
<1>. QED  BY <1>1, <1>2, WhoMatters

(* Only finished fibers come into a pool. *)
LEMMA PoolsStep == IInv /\ [Next]_vars => PoolsAreIdle'
<1> SUFFICES ASSUME IInv, [Next]_vars PROVE PoolsAreIdle'
  OBVIOUS
<1>0. Types /\ PoolsAreIdle
  BY DEF IInv
<1>1. CASE FibersSame
  BY <1>0, <1>1, LiveSame DEF FibersSame, PoolsAreIdle
<1>2. ASSUME NEW t \in Threads, StartTask(t)
      PROVE  PoolsAreIdle'
  <2>1. PICK f \in Fibers \ Live :
          /\ Live' = Live \cup {f}
          /\ \A g \in Fibers : env'[g] = NoThread => env[g] = NoThread /\ g # f
          /\ \A u \in Threads \ {t} : fiberPool'[u] = fiberPool[u]
          /\ \A g \in fiberPool'[t] : g \notin Live \cup {f} /\ env'[g] = t
          /\ \A u \in Threads : \A g \in fiberPool'[u] : env'[g] = u /\ g # f
          /\ cStart' = [cStart EXCEPT ![f] = TRUE]
    BY <1>2, Starting
  <2>2. \A g \in Fibers : g # f => cStart'[g] = cStart[g]
    BY <1>0, <2>1 DEF Types
  <2>. QED  BY <1>0, <2>1, <2>2 DEF PoolsAreIdle
<1>3. ASSUME NEW t \in Threads, Finish(t)
      PROVE  PoolsAreIdle'
  <2> DEFINE f == running[t]
  <2>1. /\ f \in Live /\ env[f] = t /\ Live' = Live \ {f}
        /\ fiberPool' = [fiberPool EXCEPT ![t] = @ \cup {f}]
    BY <1>3, Finishing
  <2>2. UNCHANGED <<env, cStart>>
    BY <1>3 DEF Finish
  <2>. QED  BY <1>0, <2>1, <2>2, SMTT(20) DEF PoolsAreIdle, Types
<1>. QED  BY <1>0, <1>1, <1>2, <1>3, WhatIsSame

(* Unfinished fibers and voters can be counted. *)
LEMMA Countable ==
  /\ IsFiniteSet(Voters) /\ Voters \subseteq Threads
  /\ \A t : IsFiniteSet(LiveOn(t))
<1>1. Voters \subseteq Threads
  BY DEF Voters
<1>2. ASSUME NEW t PROVE LiveOn(t) \subseteq Fibers
  BY DEF LiveOn, Live
<1>. QED  BY <1>1, <1>2, FS_Subset, ThreadsAssumption, FibersAssumption

(* What thread t's vote, and its taking it back, do to the voters. *)
LEMMA VotersAfter ==
  ASSUME Types, Counts, NEW t \in Threads, NEW b \in BOOLEAN,
         wannaQuit' = [wannaQuit EXCEPT ![t] = b],
         wannaQuitThreadCount' = IF b THEN CountVote(t) ELSE UncountVote(t)
  PROVE  /\ Voters' = IF b THEN Voters \cup {t} ELSE Voters \ {t}
         /\ wannaQuitThreadCount' = Cardinality(Voters')
<1>1. Voters' = IF b THEN Voters \cup {t} ELSE Voters \ {t}
  BY DEF Voters, Types
<1>2. IsFiniteSet(Voters) /\ wannaQuitThreadCount = Cardinality(Voters)
  BY Countable DEF Counts
<1>3. t \in Voters <=> wannaQuit[t]
  BY DEF Voters
<1>4. CASE b
  BY <1>1, <1>2, <1>3, <1>4, FS_AddElement DEF CountVote
<1>5. CASE ~b
  BY <1>1, <1>2, <1>3, <1>5, FS_RemoveElement DEF UncountVote
<1>. QED  BY <1>1, <1>4, <1>5

(* Who has voted depends on the votes only. *)
LEMMA VotersSame ==
  ASSUME UNCHANGED wannaQuit
  PROVE  Voters' = Voters
BY DEF Voters

(* Every step keeps both counters exact. *)
LEMMA CountsStep == IInv /\ [Next]_vars => Counts'
<1> SUFFICES ASSUME IInv, [Next]_vars PROVE Counts'
  OBVIOUS
<1>0. Types /\ Counts
  BY DEF IInv
<1>1. wannaQuitThreadCount' = Cardinality(Voters')
  <2>1. CASE VotesSame
    BY <1>0, <2>1, VotersSame DEF Counts, VotesSame
  <2>2. ASSUME NEW t \in Threads, Steal(t)
        PROVE  wannaQuitThreadCount' = Cardinality(Voters')
    BY <1>0, <2>2, VotersAfter DEF Steal
  <2>3. ASSUME NEW t \in Threads, VoteToQuit(t)
        PROVE  wannaQuitThreadCount' = Cardinality(Voters')
    BY <1>0, <2>3, VotersAfter DEF VoteToQuit
  <2>. QED  BY <1>0, <2>1, <2>2, <2>3, WhatIsSame
<1>2. \A u \in Threads : currentFiberCount'[u] = Cardinality(LiveOn(u)')
  <2>1. CASE FibersSame
    BY <1>0, <2>1, LiveSame DEF FibersSame, Counts
  <2>2. ASSUME NEW t \in Threads, StartTask(t), NEW u \in Threads
        PROVE  currentFiberCount'[u] = Cardinality(LiveOn(u)')
    <3>1. PICK f \in Fibers \ Live :
            /\ Live' = Live \cup {f}
            /\ env'[f] = t
            /\ \A g \in Live : env'[g] = env[g]
            /\ currentFiberCount' = [currentFiberCount EXCEPT ![t] = @ + 1]
      BY <2>2, Starting
    <3>2. LiveOn(u)' = IF u = t THEN LiveOn(u) \cup {f} ELSE LiveOn(u)
      BY <3>1 DEF LiveOn
    <3>3. f \notin LiveOn(u) /\ IsFiniteSet(LiveOn(u))
      BY <3>1, Countable DEF LiveOn
    <3>4. currentFiberCount'[u] = IF u = t THEN currentFiberCount[u] + 1 ELSE currentFiberCount[u]
      BY <1>0, <3>1 DEF Types
    <3>5. /\ Cardinality(LiveOn(u) \cup {f}) = Cardinality(LiveOn(u)) + 1
          /\ currentFiberCount[u] = Cardinality(LiveOn(u))
      BY <1>0, <3>3, FS_AddElement DEF Counts
    <3>6. CASE u = t
      BY <3>2, <3>4, <3>5, <3>6
    <3>7. CASE u # t
      BY <3>2, <3>4, <3>5, <3>7
    <3>. QED  BY <3>6, <3>7
  <2>3. ASSUME NEW t \in Threads, Finish(t), NEW u \in Threads
        PROVE  currentFiberCount'[u] = Cardinality(LiveOn(u)')
    <3> DEFINE f == running[t]
    <3>1. /\ f \in Live /\ env[f] = t /\ Live' = Live \ {f}
          /\ currentFiberCount' = [currentFiberCount EXCEPT ![t] = @ - 1]
      BY <2>3, Finishing
    <3>2. env' = env
      BY <2>3 DEF Finish
    <3> HIDE DEF f
    <3>3. LiveOn(u)' = LiveOn(u) \ {f} /\ (f \in LiveOn(u) <=> u = t)
      BY <3>1, <3>2 DEF LiveOn
    <3>4. IsFiniteSet(LiveOn(u))
      BY Countable
    <3>5. currentFiberCount'[u] = IF u = t THEN currentFiberCount[u] - 1 ELSE currentFiberCount[u]
      BY <1>0, <3>1 DEF Types
    <3>. QED  BY <1>0, <3>3, <3>4, <3>5, FS_RemoveElement, SMTT(20) DEF Counts
  <2>. QED  BY <1>0, <2>1, <2>2, <2>3, WhatIsSame
<1>. QED  BY <1>1, <1>2 DEF Counts

-----------------------------------------------------------------------------
(* Votes, tasks and the exit *)

(* No step makes a vote false. *)
LEMMA VotesStep == IInv /\ [Next]_vars => Votes'
<1> SUFFICES ASSUME IInv, [Next]_vars, NEW u \in Threads, wannaQuit'[u]
             PROVE  stealedTasks'[u] = <<>> /\ LiveOn(u)' = {} /\ pc'[u] # "main"
  BY DEF Votes
<1>0. Types /\ Control /\ Counts /\ Votes
  BY DEF IInv
<1> DEFINE Goal == stealedTasks'[u] = <<>> /\ LiveOn(u)' = {} /\ pc'[u] # "main"
<1>1. CASE Aside
  BY <1>0, <1>1, LiveSame DEF Aside, Votes
<1>2. ASSUME NEW t \in Threads, Steal(t)
      PROVE  Goal
  <2>1. /\ u # t /\ wannaQuit[u] /\ stealedTasks'[u] = stealedTasks[u] /\ pc'[u] = pc[u]
        /\ UNCHANGED <<env, cStart, cEnd>>
    BY <1>0, <1>2 DEF Steal, Types, objects
  <2>. QED  BY <1>0, <2>1, LiveSame DEF Votes
<1>3. ASSUME NEW t \in Threads, VoteToQuit(t)
      PROVE  Goal
  <2>1. stealedTasks' = stealedTasks /\ UNCHANGED <<env, cStart, cEnd>>
    BY <1>3 DEF VoteToQuit, objects
  <2>2. CASE u = t
    <3>1. stealedTasks[t] = <<>> /\ currentFiberCount[t] = 0
      BY <1>3 DEF VoteToQuit, NothingToDo
    <3>2. LiveOn(t) = {}
      BY <1>0, <3>1, Countable, FS_EmptySet DEF Counts
    <3>3. pc'[t] # "main"
      BY <1>0, <1>3 DEF VoteToQuit, Types
    <3>. QED  BY <2>1, <2>2, <3>1, <3>2, <3>3, LiveSame
  <2>3. CASE u # t
    <3>1. wannaQuit[u] /\ pc'[u] = pc[u]
      BY <1>0, <1>3, <2>3 DEF VoteToQuit, Types
    <3>. QED  BY <1>0, <2>1, <3>1, LiveSame DEF Votes
  <2>. QED  BY <2>2, <2>3
<1>4. ASSUME NEW t \in Threads, StartTask(t)
      PROVE  Goal
  <2>1. /\ wannaQuit[u] /\ pc' = pc /\ stealedTasks[t] # <<>>
    BY <1>4 DEF StartTask
  <2>2. u # t
    BY <1>0, <2>1 DEF Votes
  <2>3. stealedTasks'[u] = stealedTasks[u]
    BY <1>0, <1>4, <2>2 DEF StartTask, Types
  <2>4. PICK f \in Fibers \ Live : /\ Live' = Live \cup {f} /\ env'[f] = t
                                   /\ \A g \in Live : env'[g] = env[g]
    BY <1>4, Starting
  <2>5. LiveOn(u)' = LiveOn(u)
    BY <2>2, <2>4 DEF LiveOn
  <2>. QED  BY <1>0, <2>1, <2>3, <2>5 DEF Votes
<1>5. ASSUME NEW t \in Threads, SchedulePush(t)
      PROVE  Goal
  <2>1. /\ wannaQuit[u] /\ pc' = pc /\ stealedTasks' = stealedTasks
        /\ UNCHANGED <<env, cStart, cEnd>>
    BY <1>5 DEF SchedulePush, locals, objects
  <2>. QED  BY <1>0, <2>1, LiveSame DEF Votes
<1>6. ASSUME NEW t \in Threads, Finish(t)
      PROVE  Goal
  <2>1. wannaQuit[u] /\ pc' = pc /\ stealedTasks' = stealedTasks /\ env' = env
    BY <1>6 DEF Finish, locals
  <2>2. LiveOn(u)' \subseteq LiveOn(u)
    BY <1>6, <2>1, Finishing DEF LiveOn
  <2>. QED  BY <1>0, <2>1, <2>2 DEF Votes
<1>. QED  BY <1>0, <1>1, <1>2, <1>3, <1>4, <1>5, <1>6, WhoMatters

(* No step loses a task that was submitted. *)
LEMMA TrackedStep == IInv /\ [Next]_vars => Tracked'
<1> SUFFICES ASSUME IInv, [Next]_vars, NEW k \in Tasks, taskState'[k] = "submitted"
             PROVE  \/ k \in Elems(commTasks')
                    \/ \E t \in Threads : k \in Elems(stealedTasks'[t])
                    \/ \E f \in Live' : pfn'[f] = k
  BY DEF Tracked, Elems
<1> DEFINE Goal == \/ k \in Elems(commTasks')
                   \/ \E t \in Threads : k \in Elems(stealedTasks'[t])
                   \/ \E f \in Live' : pfn'[f] = k
<1>0. Types /\ Tracked
  BY DEF IInv
<1>1. CASE Aside
  BY <1>0, <1>1, LiveSame DEF Aside, Tracked
<1>2. ASSUME NEW t \in Threads, VoteToQuit(t)
      PROVE  Goal
  <2>1. UNCHANGED <<commTasks, stealedTasks, taskState, pfn, env, cStart, cEnd>>
    BY <1>2 DEF VoteToQuit, objects
  <2>. QED  BY <1>0, <2>1, LiveSame DEF Tracked
<1>3. ASSUME NEW t \in Threads, Steal(t)
      PROVE  Goal
  <2>1. /\ UNCHANGED <<taskState, pfn, env, cStart, cEnd>>
        /\ commTasks' = stealedTasks[t] /\ stealedTasks'[t] = commTasks
        /\ \A u \in Threads \ {t} : stealedTasks'[u] = stealedTasks[u]
    BY <1>0, <1>3 DEF Steal, Loot, objects, Types
  <2>2. Live' = Live
    BY <2>1, LiveSame
  <2>. QED  BY <1>0, <2>1, <2>2 DEF Tracked
<1>4. ASSUME NEW t \in Threads, StartTask(t)
      PROVE  Goal
  <2>1. /\ UNCHANGED <<taskState, commTasks>>
        /\ stealedTasks[t] # <<>>
        /\ stealedTasks'[t] = Tail(stealedTasks[t])
        /\ \A u \in Threads \ {t} : stealedTasks'[u] = stealedTasks[u]
    BY <1>0, <1>4 DEF StartTask, shared, Types
  <2>2. Elems(stealedTasks[t]) = Elems(Tail(stealedTasks[t])) \cup {Head(stealedTasks[t])}
    <3>1. stealedTasks[t] \in Seq(Tasks)
      BY <1>0 DEF Types
    <3>. QED  BY <2>1, <3>1, TailElems
  <2>3. PICK f \in Fibers \ Live : /\ Live' = Live \cup {f}
                                   /\ \A g \in Live : pfn'[g] = pfn[g]
                                   /\ pfn'[f] = Head(stealedTasks[t])
    BY <1>4, Starting
  <2>4. CASE k \in Elems(commTasks)
    BY <2>1, <2>4
  <2>5. CASE \E u \in Threads : k \in Elems(stealedTasks[u])
    BY <2>1, <2>2, <2>3, <2>5
  <2>6. CASE \E g \in Live : pfn[g] = k
    BY <2>3, <2>6
  <2>. QED  BY <1>0, <2>1, <2>4, <2>5, <2>6 DEF Tracked
<1>5. ASSUME NEW t \in Threads, SchedulePush(t)
      PROVE  Goal
  <2>1. PICK j \in Tasks : /\ taskState' = [taskState EXCEPT ![j] = "submitted"]
                           /\ commTasks' = Append(commTasks, j)
    BY <1>5 DEF SchedulePush
  <2>2. UNCHANGED <<stealedTasks, pfn, env, cStart, cEnd>>
    BY <1>5 DEF SchedulePush, locals, objects
  <2>3. Live' = Live
    BY <2>2, LiveSame
  <2>4. Elems(commTasks') = Elems(commTasks) \cup {j}
    BY <1>0, <2>1, AppendElems DEF Types
  <2>5. k = j \/ taskState[k] = "submitted"
    BY <1>0, <2>1 DEF Types
  <2>. QED  BY <1>0, <2>2, <2>3, <2>4, <2>5 DEF Tracked
<1>6. ASSUME NEW t \in Threads, Finish(t)
      PROVE  Goal
  <2> DEFINE f == running[t]
  <2>1. /\ f \in Live /\ Live' = Live \ {f}
        /\ taskState' = [taskState EXCEPT ![pfn[f]] = "done"]
    BY <1>6, Finishing
  <2>2. UNCHANGED <<commTasks, stealedTasks, pfn>>
    BY <1>6 DEF Finish, shared, locals
  <2> HIDE DEF f
  <2>3. taskState[k] = "submitted" /\ pfn[f] # k
    BY <1>0, <2>1 DEF Types
  <2>. QED  BY <1>0, <2>1, <2>2, <2>3 DEF Tracked
<1>. QED  BY <1>0, <1>1, <1>2, <1>3, <1>4, <1>5, <1>6, WhoMatters

(* After a thread has left its loop no task can be scheduled any more. *)
LEMMA ExitsStep == IInv /\ [Next]_vars => Exits'
<1> SUFFICES ASSUME IInv, [Next]_vars, NEW e \in Threads, pc'[e] = "exit"
             PROVE  commTasks' = <<>> /\ Voters' = Threads
  BY DEF Exits
<1>0. Types /\ Control /\ Counts /\ Votes /\ Exits
  BY DEF IInv
<1>1. CASE Aside
  BY <1>0, <1>1, VotersSame DEF Aside, Exits
<1>2. ASSUME NEW t \in Threads, VoteToQuit(t)
      PROVE  commTasks' = <<>> /\ Voters' = Threads
  <2>1. commTasks' = <<>>
    BY <1>2 DEF VoteToQuit
  <2>2. /\ Voters' = Voters \cup {t}
        /\ wannaQuitThreadCount' = Cardinality(Voters')
        /\ wannaQuitThreadCount' = CountVote(t)
    BY <1>0, <1>2, VotersAfter DEF VoteToQuit
  <2>3. CASE \E u \in Threads : pc[u] = "exit"
    BY <1>0, <2>1, <2>2, <2>3 DEF Exits
  <2>4. CASE ~ \E u \in Threads : pc[u] = "exit"
    <3>1. e = t /\ AllVoted(CountVote(t))
      BY <1>0, <1>2, <2>4 DEF VoteToQuit, Types
    <3>2. Cardinality(Voters') = Cardinality(Threads)
      BY <2>2, <3>1 DEF AllVoted, ThreadNum
    <3>3. Voters' \in SUBSET Threads
      BY <2>2, Countable
    <3>4. Voters' = Threads
      BY <3>2, <3>3, FS_Subset, ThreadsAssumption
    <3>. QED  BY <2>1, <3>4
  <2>. QED  BY <2>3, <2>4
<1>3. ASSUME NEW t \in Threads, Steal(t) \/ StartTask(t) \/ SchedulePush(t) \/ Finish(t)
      PROVE  commTasks' = <<>> /\ Voters' = Threads
  <2>1. pc[e] = "exit"
    <3>1. CASE Steal(t)
      BY <1>0, <3>1 DEF Steal, Types
    <3>2. CASE StartTask(t) \/ SchedulePush(t) \/ Finish(t)
      BY <3>2 DEF StartTask, SchedulePush, Finish, locals
    <3>. QED  BY <1>3, <3>1, <3>2
  <2>2. commTasks = <<>> /\ wannaQuit[t]
    BY <1>0, <2>1 DEF Exits, Voters
  <2>3. stealedTasks[t] = <<>> /\ LiveOn(t) = {} /\ pc[t] # "main"
    BY <1>0, <2>2 DEF Votes
  <2>4. running[t] = NoFiber
    BY <1>0, <2>3 DEF Control, LiveOn
  <2>5. ~Steal(t) /\ ~StartTask(t) /\ ~Finish(t)
    BY <2>2, <2>3, <2>4 DEF Steal, StartTask, Finish, FiberCode, LoopRuns
  <2>6. ~SchedulePush(t)
    BY <1>0, <2>3, <2>4 DEF SchedulePush, Control
  <2>. QED  BY <1>3, <2>5, <2>6
<1>. QED  BY <1>0, <1>1, <1>2, <1>3, WhoMatters

-----------------------------------------------------------------------------
(* The theorems *)

(* The invariant holds initially ... *)
LEMMA IInvInit == Init => IInv
<1> SUFFICES ASSUME Init PROVE IInv
  OBVIOUS
<1>1. Types
  BY TypesInit
<1>2. Live = {} /\ waiting = {} /\ Voters = {}
  BY EmptyElems DEF Init, Live, waiting, Voters
<1>3. \A t \in Threads : LiveOn(t) = {}
  BY <1>2 DEF LiveOn
<1>4. \A k \in Kinds, t \in Threads : refs[k][t] = {}
  BY EmptyElems, RefsAt DEF Init, Kinds
<1>5. Control
  BY ThreadsAssumption DEF Init, Control
<1>6. RefsAreLive /\ RefsAreUnique
  BY <1>2, <1>4 DEF Init, RefsAreLive, RefsAreUnique
<1>7. QueuesAreDistinct
  BY EmptyElems DEF Init, QueuesAreDistinct
<1>8. PoolsAreIdle
  BY DEF Init, PoolsAreIdle
<1>9. Counts
  BY <1>2, <1>3, FS_EmptySet DEF Init, Counts
<1>10. Votes /\ Tracked /\ Exits
  BY DEF Init, Votes, Tracked, Exits
<1>. QED  BY <1>1, <1>5, <1>6, <1>7, <1>8, <1>9, <1>10 DEF IInv

(* ... and every step keeps it. *)
LEMMA IInvStep == IInv /\ [Next]_vars => IInv'
<1> SUFFICES ASSUME IInv, [Next]_vars PROVE IInv'
  OBVIOUS
<1>1. Types' /\ Control'
  BY TypesStep, ControlStep DEF IInv
<1>2. RefsInv'
  BY RefsStep
<1>3. PoolsAreIdle' /\ Counts' /\ Votes' /\ Tracked' /\ Exits'
  BY PoolsStep, CountsStep, VotesStep, TrackedStep, ExitsStep
<1>. QED  BY <1>1, <1>2, <1>3 DEF IInv, RefsInv

(* In every reachable state of any scheduler, every condition the argument  *)
(* rests on holds.                                                          *)
THEOREM Invariance == Spec => []IInv
<1>. QED  BY IInvInit, IInvStep, PTL DEF Spec

(* Every variable of the scheduler keeps its type; in particular no counter *)
(* becomes negative and no more votes are counted than there are threads.   *)
THEOREM TypeCorrect == Spec => []TypeOK
<1>1. ASSUME IInv PROVE TypeOK
  <2>1. Types /\ Counts
    BY <1>1 DEF IInv
  <2>2. wannaQuitThreadCount \in 0 .. ThreadNum
    <3>1. /\ Cardinality(Voters) \in Nat /\ ThreadNum \in Nat
          /\ Cardinality(Voters) <= ThreadNum
      BY Countable, FS_Subset, FS_CardinalityType, ThreadsAssumption DEF ThreadNum
    <3>. QED  BY <2>1, <3>1 DEF Counts
  <2>3. currentFiberCount \in [Threads -> Nat]
    <3>1. \A t \in Threads : Cardinality(LiveOn(t)) \in Nat
      BY Countable, FS_CardinalityType
    <3>. QED  BY <2>1, <3>1 DEF Counts, Types
  <2>. QED  BY <2>1, <2>2, <2>3 DEF Types, TypeOK
<1>. QED  BY <1>1, Invariance, PTL

(* The vote counter of threadRoutine is exact and no vote is stale, however *)
(* many threads steal, start, signal and finish in whatever order.          *)
THEOREM HonestVotes == Spec => []VotesAreHonest
<1>1. ASSUME IInv PROVE VotesAreHonest
  BY <1>1 DEF IInv, Counts, Votes, VotesAreHonest, Voters
<1>. QED  BY <1>1, Invariance, PTL

(* When the first thread leaves threadRoutine, main() has returned, every   *)
(* scheduled task has run to its end and no fiber is unfinished anywhere.   *)
THEOREM NobodyLeavesEarly == Spec => []ExitMeansDone
<1>1. ASSUME IInv PROVE ExitMeansDone
  <2> SUFFICES ASSUME \E t \in Threads : pc[t] = "exit"
               PROVE  /\ pc[Main] # "main" /\ commTasks = <<>> /\ Live = {}
                      /\ \A k \in Tasks : taskState[k] # "submitted"
    BY DEF ExitMeansDone
  <2>1. Types /\ PoolsAreIdle /\ Votes /\ Tracked /\ Exits
    BY <1>1 DEF IInv
  <2>2. commTasks = <<>> /\ \A t \in Threads : wannaQuit[t]
    BY <2>1 DEF Exits, Voters
  <2>3. \A t \in Threads : stealedTasks[t] = <<>> /\ LiveOn(t) = {} /\ pc[t] # "main"
    BY <2>1, <2>2 DEF Votes
  <2>4. Live = {}
    <3>1. \A f \in Live : env[f] \in Threads
      BY <2>1 DEF PoolsAreIdle, Types, Live
    <3>. QED  BY <2>3, <3>1 DEF LiveOn
  <2>5. \A k \in Tasks : taskState[k] # "submitted"
    BY <2>1, <2>2, <2>3, <2>4, EmptyElems DEF Tracked
  <2>. QED  BY <2>2, <2>3, <2>4, <2>5, ThreadsAssumption
<1>. QED  BY <1>1, Invariance, PTL

-----------------------------------------------------------------------------
(* Nobody is forgotten *)

(* The fibers to which a resume is owed, and those that wait for an event.  *)
owedSet ==
  {f \in Fibers : \E t \in Threads :
     f \in Elems(userYieldFiberQ[t]) \cup Elems(syncSignalFiberQ[t])
             \cup Elems(work[t]) \cup due[t] \cup {hand[t]}}
sleeping == {f \in Fibers : \E t \in Threads : f \in events[t]}

(* A fiber runs, and has not entered a wait queue. *)
Busy(f) == running[env[f]] = f /\ ~atYield[env[f]]

(* The sets are disjoint, hold unfinished fibers only, and none that is busy.*)
LEMMA Disjoint ==
  ASSUME IInv
  PROVE  /\ owedSet \subseteq Live /\ sleeping \subseteq Live /\ waiting \subseteq Live
         /\ owedSet \cap sleeping = {} /\ owedSet \cap waiting = {}
         /\ sleeping \cap waiting = {}
         /\ \A f \in Live : Busy(f) => f \notin owedSet \cup sleeping \cup waiting
         /\ \A t \in Threads : running[t] # NoFiber => running[t] \notin sleeping
<1>0. Types /\ Control /\ RefsAreLive /\ RefsAreUnique /\ PoolsAreIdle /\ NoFiber \notin Fibers
  BY FibersAssumption DEF IInv
<1>1. \A f \in owedSet : \E k \in Kinds \ {"event"}, t \in Threads : f \in refs[k][t]
  <2> SUFFICES ASSUME NEW f \in owedSet
               PROVE  \E k \in Kinds \ {"event"}, t \in Threads : f \in refs[k][t]
    OBVIOUS
  <2>1. PICK t \in Threads :
          f \in Elems(userYieldFiberQ[t]) \cup Elems(syncSignalFiberQ[t])
                  \cup Elems(work[t]) \cup due[t] \cup {hand[t]}
    BY DEF owedSet
  <2>2. f \in Fibers
    BY DEF owedSet
  <2>. QED  BY <1>0, <2>1, <2>2, RefsAt DEF Kinds
<1>2. \A f \in sleeping : \E t \in Threads : f \in refs["event"][t]
  BY RefsAt DEF sleeping
<1>3. "event" \in Kinds
  BY DEF Kinds
<1>4. \A f \in Live : env[f] \in Threads
  BY <1>0 DEF Types, PoolsAreIdle, Live
<1>5. owedSet \subseteq Live /\ sleeping \subseteq Live /\ waiting \subseteq Live
  BY <1>0, <1>1, <1>2, <1>3 DEF RefsAreLive
<1>6. owedSet \cap sleeping = {}
  BY <1>0, <1>1, <1>2, <1>3 DEF RefsAreUnique
<1>7. owedSet \cap waiting = {} /\ sleeping \cap waiting = {}
  BY <1>0, <1>1, <1>2, <1>3 DEF RefsAreUnique
<1>8. ASSUME NEW f \in Live, Busy(f)
      PROVE  f \notin owedSet \cup sleeping \cup waiting
  <2>1. f # NoFiber /\ env[f] \in Threads /\ running[env[f]] = f /\ ~atYield[env[f]]
    BY <1>0, <1>4, <1>8 DEF Busy, Live
  <2>. QED  BY <1>0, <1>1, <1>2, <1>3, <2>1 DEF RefsAreUnique
<1>9. ASSUME NEW t \in Threads, running[t] # NoFiber
      PROVE  running[t] \notin sleeping
  BY <1>0, <1>2, <1>3, <1>9, Zenon DEF RefsAreUnique
<1>. QED  BY <1>5, <1>6, <1>7, <1>8, <1>9

(* The sets before and after a step, queue by queue. *)
LEMMA OwedAt ==
  /\ \A f : f \in owedSet <=> f \in Fibers /\ \E t \in Threads :
       \/ f \in Elems(userYieldFiberQ[t]) \/ f \in Elems(syncSignalFiberQ[t])
       \/ f \in Elems(work[t]) \/ f \in due[t] \/ f = hand[t]
  /\ \A f : f \in owedSet' <=> f \in Fibers /\ \E t \in Threads :
       \/ f \in Elems(userYieldFiberQ'[t]) \/ f \in Elems(syncSignalFiberQ'[t])
       \/ f \in Elems(work'[t]) \/ f \in due'[t] \/ f = hand'[t]
BY DEF owedSet, Elems

(* What a step does to the fibers: it starts, ends, resumes or parks one,   *)
(* moves some to where a resume is owed to them, or does none of this.      *)
Quiet ==
  /\ Live' = Live /\ owedSet' = owedSet /\ sleeping' = sleeping /\ waiting' = waiting
  /\ UNCHANGED <<running, atYield, env>>

(* Steps that touch no fiber and no queue. *)
LEMMA QuietSteps ==
  ASSUME NEW t \in Threads,
         \/ TryLock(t) \/ TryLockFails(t) \/ Steal(t) \/ KeepGoing(t) \/ VoteToQuit(t)
         \/ EndActive(t) \/ EndSignaled(t) \/ ScheduleLock(t) \/ SchedulePush(t)
         \/ MainReturns \/ Terminated \/ UNCHANGED vars
  PROVE  Quiet
<1>1. UNCHANGED <<userYieldFiberQ, syncSignalFiberQ, work, events, due, hand, waiters,
                  running, atYield, env, cStart, cEnd>>
  BY DEF TryLock, TryLockFails, Steal, KeepGoing, VoteToQuit, EndActive, EndSignaled,
     ScheduleLock, SchedulePush, MainReturns, Terminated, vars,
     shared, locals, queues, control, objects
<1>. QED  BY <1>1 DEF Quiet, Live, owedSet, sleeping, waiting, Elems

(* The loop moves fibers from one queue to the next, and drops none: the    *)
(* queue it refills is empty, and so is userYieldFiberQ_ when it is cleared,*)
(* provided no fiber yields again at once.                                  *)
QueuesAreUsedUp ==
  \A t \in Threads : /\ pc[t] = "yielded" => userYieldFiberQ[t] = <<>>
                     /\ pc[t] \notin {"yielded", "signaled"} => work[t] = <<>>
                     /\ pc[t] # "active" => due[t] = {}

(* The steps that only move fibers between the queues that owe a resume     *)
(* (end of stealing, end of the yields, a signal) change nothing else.      *)
LEMMA MovingSteps ==
  ASSUME IInv, QueuesAreUsedUp,
         NEW t \in Threads, EndStolen(t) \/ EndYielded(t) \/ PushSignal(t)
  PROVE  Quiet
<1> USE DEF shared, locals, queues, control, objects
<1>0. Types /\ NoFiber \notin Fibers
  BY FibersAssumption DEF IInv
<1>1. /\ UNCHANGED <<running, atYield, env>>
      /\ Live' = Live /\ sleeping' = sleeping /\ waiting' = waiting
  BY LiveSame DEF EndStolen, EndYielded, PushSignal, sleeping, waiting
<1>2. CASE EndStolen(t)
  <2>1. /\ work[t] = <<>>
        /\ work'[t] = userYieldFiberQ[t] /\ userYieldFiberQ'[t] = <<>>
        /\ \A u \in Threads \ {t} : work'[u] = work[u] /\ userYieldFiberQ'[u] = userYieldFiberQ[u]
        /\ UNCHANGED <<syncSignalFiberQ, due, hand>>
    BY <1>0, <1>2 DEF EndStolen, Types, QueuesAreUsedUp
  <2>2. \A f : f \in owedSet' <=> f \in owedSet
    BY <2>1, OwedAt, EmptyElems
  <2>. QED  BY <1>1, <2>2 DEF Quiet
<1>3. CASE EndYielded(t)
  <2>1. /\ work[t] = <<>> /\ userYieldFiberQ[t] = <<>>
        /\ work'[t] = syncSignalFiberQ[t] /\ syncSignalFiberQ'[t] = <<>>
        /\ userYieldFiberQ'[t] = <<>>
        /\ \A u \in Threads \ {t} : /\ work'[u] = work[u]
                                     /\ userYieldFiberQ'[u] = userYieldFiberQ[u]
                                     /\ syncSignalFiberQ'[u] = syncSignalFiberQ[u]
        /\ UNCHANGED <<due, hand>>
    BY <1>0, <1>3 DEF EndYielded, Signaled, Unsignaled, Types, QueuesAreUsedUp
  <2>2. \A f : f \in owedSet' <=> f \in owedSet
    BY <2>1, OwedAt, EmptyElems
  <2>. QED  BY <1>1, <2>2 DEF Quiet
<1>4. CASE PushSignal(t)
  <2> DEFINE f == hand[t]
             h == env[f]
  <2>1. /\ f \in Fibers /\ f # NoFiber /\ hand'[t] = NoFiber
        /\ \A u \in Threads \ {t} : hand'[u] = hand[u]
        /\ syncSignalFiberQ' = [syncSignalFiberQ EXCEPT ![h] = Append(@, f)]
        /\ UNCHANGED <<userYieldFiberQ, work, due>>
    BY <1>0, <1>4 DEF PushSignal, HomeOf, Types
  <2>2. h \in Threads
    <3>1. f \in refs["hand"][t] /\ "hand" \in Kinds
      BY <2>1, RefsAt DEF Kinds
    <3>. QED  BY <1>0, <3>1 DEF IInv, RefsAreLive, PoolsAreIdle, Types, Live
  <2> HIDE DEF f, h
  <2>3. /\ \A u \in Threads \ {h} : syncSignalFiberQ'[u] = syncSignalFiberQ[u]
        /\ Elems(syncSignalFiberQ'[h]) = Elems(syncSignalFiberQ[h]) \cup {f}
    <3>1. syncSignalFiberQ[h] \in Seq(Fibers) /\ syncSignalFiberQ'[h] = Append(syncSignalFiberQ[h], f)
      BY <1>0, <2>1, <2>2 DEF Types
    <3>2. Elems(Append(syncSignalFiberQ[h], f)) = Elems(syncSignalFiberQ[h]) \cup {f}
      BY <2>1, <3>1, AppendElems
    <3>. QED  BY <1>0, <2>1, <2>2, <3>1, <3>2 DEF Types
  <2>4. \A g : g \in owedSet' <=> g \in owedSet
    <3>1. f = hand[t]
      BY DEF f
    <3>. QED  BY <1>0, <2>1, <2>2, <2>3, <3>1, OwedAt
  <2>. QED  BY <1>1, <2>4 DEF Quiet
<1>. QED  BY <1>2, <1>3, <1>4

(* The other steps, by what they do to the fibers. *)
pending == sleeping \cup waiting

Begins(t, f) ==
  /\ f \in Fibers \ Live /\ running[t] = NoFiber
  /\ Live' = Live \cup {f} /\ owedSet' = owedSet /\ pending' = pending
  /\ running' = [running EXCEPT ![t] = f] /\ atYield' = atYield
  /\ env'[f] = t /\ \A g \in Fibers : env[g] # NoThread => env'[g] = env[g]

Resumes(t, f) ==
  /\ f \in owedSet /\ env[f] = t /\ running[t] = NoFiber
  /\ owedSet' = owedSet \ {f} /\ pending' = pending /\ Live' = Live
  /\ running' = [running EXCEPT ![t] = f]
  /\ UNCHANGED <<atYield, env>>

Wakes(D) ==
  /\ D \subseteq pending
  /\ owedSet' = owedSet \cup D /\ pending' = pending \ D /\ Live' = Live
  /\ UNCHANGED <<running, atYield, env>>

(* The running fiber f of thread t ... *)
Runs(t, f) == f # NoFiber /\ running[t] = f

Yields(t, f) ==
  /\ Runs(t, f) /\ ~atYield[t]
  /\ owedSet' = owedSet \cup {f} /\ pending' = pending /\ Live' = Live
  /\ running' = [running EXCEPT ![t] = NoFiber]
  /\ UNCHANGED <<atYield, env>>

Registers(t, f) ==
  /\ Runs(t, f) /\ ~atYield[t]
  /\ owedSet' = owedSet /\ pending' = pending \cup {f} /\ Live' = Live
  /\ atYield' = [atYield EXCEPT ![t] = TRUE]
  /\ UNCHANGED <<running, env>>

Parks(t, f) ==
  /\ Runs(t, f)
  /\ owedSet' = owedSet /\ Live' = Live
  /\ \/ atYield[t] /\ pending' = pending
     \/ ~atYield[t] /\ pending' = pending \cup {f}
  /\ atYield' = [atYield EXCEPT ![t] = FALSE]
  /\ running' = [running EXCEPT ![t] = NoFiber]
  /\ env' = env

Ends(t, f) ==
  /\ Runs(t, f) /\ ~atYield[t]
  /\ owedSet' = owedSet /\ pending' = pending /\ Live' = Live \ {f}
  /\ running' = [running EXCEPT ![t] = NoFiber]
  /\ UNCHANGED <<atYield, env>>

(* The loop collects arrived events: it wakes whoever waited for them.      *)
LEMMA ArrivalsWake ==
  ASSUME IInv, QueuesAreUsedUp, NEW t \in Threads, TakeArrivals(t)
  PROVE  \E D : Wakes(D)
<1> USE DEF shared, locals, queues, control, objects
<1>0. Types
  BY DEF IInv
<1>1. PICK D \in SUBSET events[t] : /\ due' = [due EXCEPT ![t] = D]
                                    /\ events' = [events EXCEPT ![t] = @ \ D]
  BY DEF TakeArrivals
<1>2. /\ UNCHANGED <<running, atYield, env, waiting, userYieldFiberQ, syncSignalFiberQ, work, hand>>
      /\ Live' = Live
  BY LiveSame DEF TakeArrivals, waiting
<1>3. /\ due[t] = {} /\ due'[t] = D /\ events'[t] = events[t] \ D
      /\ \A u \in Threads \ {t} : due'[u] = due[u] /\ events'[u] = events[u]
  BY <1>0, <1>1 DEF Types, QueuesAreUsedUp, TakeArrivals
<1>4. \A f : f \in owedSet' <=> f \in owedSet \cup D
  BY <1>0, <1>1, <1>2, <1>3, OwedAt DEF Types
<1>5. \A u \in Threads \ {t} : events[u] \cap D = {}
  <2>1. \A u \in Threads : refs["event"][u] = events[u] /\ "event" \in Kinds
    BY RefsAt DEF Kinds
  <2>. QED  BY <1>1, <2>1 DEF IInv, RefsAreUnique
<1>6. \A f : f \in sleeping' <=> f \in sleeping \ D
  BY <1>0, <1>1, <1>3, <1>5 DEF sleeping, Types
<1>7. D \subseteq sleeping /\ D \cap waiting = {}
  <2>1. D \subseteq sleeping
    BY <1>0, <1>1 DEF sleeping, Types
  <2>. QED  BY <2>1, Disjoint
<1>8. Wakes(D)
  BY <1>2, <1>4, <1>6, <1>7 DEF Wakes, pending
<1>. QED  BY <1>8

(* A step that takes f from one queue, or puts it into one, where queues     *)
(* are meant that owe a resume.                                             *)
Owing == Kinds \ {"event"}

(* A fiber is owed a resume iff some queue other than the events names it.  *)
LEMMA OwedRefs ==
  /\ \A f : f \in owedSet <=> f \in Fibers /\ \E k \in Owing, t \in Threads : f \in refs[k][t]
  /\ \A f : f \in owedSet' <=> f \in Fibers /\ \E k \in Owing, t \in Threads : f \in refs'[k][t]
<1>1. Owing = {"yield", "signal", "work", "due", "hand"}
  BY DEF Owing, Kinds
<1>. QED  BY <1>1, OwedAt, RefsAt, FibersAssumption

(* Taking a fiber's only reference out of a queue ends the resume owed it.  *)
LEMMA TakeOwed ==
  ASSUME RefsAreUnique, NEW k \in Owing, NEW t \in Threads, NEW f \in refs[k][t],
         OnlyRefs(t, {k}), refs'[k][t] = refs[k][t] \ {f}
  PROVE  owedSet' = owedSet \ {f}
<1>1. Owing \subseteq Kinds
  BY DEF Owing
<1>2. \A j \in Owing, u \in Threads : refs'[j][u] = refs[j][u] \ {f}
  BY <1>1 DEF OnlyRefs, RefsAreUnique
<1>. QED  BY <1>2, OwedRefs

(* Putting a fiber in a queue makes its resume owed.                        *)
LEMMA PutOwed ==
  ASSUME NEW k \in Owing, NEW t \in Threads, NEW f \in Fibers,
         OnlyRefs(t, {k}), refs'[k][t] = refs[k][t] \cup {f}
  PROVE  owedSet' = owedSet \cup {f}
<1>1. Owing \subseteq Kinds
  BY DEF Owing
<1>2. \A j \in Owing, u \in Threads :
        j # k \/ u # t => refs'[j][u] = refs[j][u]
  BY <1>1 DEF OnlyRefs
<1>3. ASSUME NEW g PROVE g \in owedSet' <=> g \in owedSet \cup {f}
  BY <1>2, OwedRefs
<1>. QED  BY <1>3

(* The loop resumes whom a resume is owed to, and owes it no more. *)
LEMMA LoopResumes ==
  ASSUME IInv, NEW t \in Threads, ResumeDue(t) \/ ResumeWork(t)
  PROVE  \E f \in Fibers : Resumes(t, f)
<1> USE DEF shared, locals, queues, control, objects
<1>0. Types /\ RefsAreLive /\ RefsAreUnique /\ QueuesAreDistinct
  BY DEF IInv
<1>1. /\ Live' = Live /\ pending' = pending /\ running[t] = NoFiber
      /\ UNCHANGED <<atYield, env>>
  BY LiveSame DEF ResumeDue, ResumeWork, LoopRuns, pending, sleeping, waiting
<1>2. PICK f \in Fibers, k \in Owing \ {"hand"} :
        /\ running' = [running EXCEPT ![t] = f]
        /\ f \in refs[k][t] /\ refs'[k][t] = refs[k][t] \ {f} /\ OnlyRefs(t, {k})
  <2>1. "due" \in Owing \ {"hand"} /\ "work" \in Owing \ {"hand"}
    BY DEF Owing, Kinds
  <2>2. CASE ResumeDue(t)
    <3>1. PICK f \in due[t] : due' = [due EXCEPT ![t] = @ \ {f}] /\ SwitchTo(t, f)
      BY <2>2 DEF ResumeDue
    <3>2. f \in refs["due"][t] /\ refs'["due"][t] = refs["due"][t] \ {f}
      BY <1>0, <3>1, RefsAt DEF Types
    <3>3. OnlyRefs(t, {"due"})
      BY <1>0, <2>2, <3>1, RefsFrame DEF ResumeDue, Types
    <3>. QED  BY <1>0, <2>1, <3>1, <3>2, <3>3 DEF SwitchTo, Types
  <2>3. CASE ResumeWork(t)
    <3> DEFINE f == Head(work[t])
    <3>1. /\ work[t] \in Seq(Fibers) /\ work[t] # <<>> /\ work' = [work EXCEPT ![t] = Tail(@)]
          /\ running' = [running EXCEPT ![t] = f]
      BY <1>0, <2>3 DEF ResumeWork, SwitchTo, Types
    <3>2. /\ f \in Fibers /\ Elems(work[t]) = Elems(Tail(work[t])) \cup {f}
          /\ f \notin Elems(Tail(work[t]))
      BY <1>0, <3>1, TailElems DEF QueuesAreDistinct
    <3> HIDE DEF f
    <3>3. f \in refs["work"][t] /\ refs'["work"][t] = refs["work"][t] \ {f}
      BY <1>0, <3>1, <3>2, RefsAt DEF Types
    <3>4. OnlyRefs(t, {"work"})
      BY <1>0, <2>3, <3>1, RefsFrame DEF ResumeWork, Types
    <3>. QED  BY <2>1, <3>1, <3>2, <3>3, <3>4
  <2>. QED  BY <2>2, <2>3
<1>3. owedSet' = owedSet \ {f} /\ f \in owedSet
  BY <1>0, <1>2, TakeOwed, OwedRefs
<1>4. env[f] = t
  BY <1>0, <1>2 DEF RefsAreLive, Owing
<1>. QED  BY <1>1, <1>2, <1>3, <1>4 DEF Resumes

(* A task begins on a fiber that was idle. *)
LEMMA TaskBegins ==
  ASSUME IInv, NEW t \in Threads, StartTask(t)
  PROVE  \E f : Begins(t, f)
<1> USE DEF locals, queues, control
<1>1. PICK f \in Fibers \ Live : /\ running' = [running EXCEPT ![t] = f]
                                 /\ Live' = Live \cup {f}
                                 /\ env'[f] = t
  BY Starting
<1>2. /\ UNCHANGED <<userYieldFiberQ, syncSignalFiberQ, work, events, due, hand, waiters, atYield>>
      /\ running[t] = NoFiber
  BY DEF StartTask, LoopRuns
<1>3. owedSet' = owedSet /\ pending' = pending
  BY <1>2 DEF owedSet, pending, sleeping, waiting, Elems
<1>4. \A g \in Fibers : env[g] # NoThread => env'[g] = env[g]
  <2>1. PICK P \in PoolFor(t) : env' = [g \in Fibers |-> IF g \in P THEN t ELSE env[g]]
    BY DEF StartTask
  <2>2. \A g \in P : env[g] \in {t, NoThread}
    <3>1. CASE fiberPool[t] # {}
      BY <2>1, <3>1 DEF PoolFor, IInv, PoolsAreIdle
    <3>2. CASE fiberPool[t] = {}
      BY <2>1, <3>2 DEF PoolFor
    <3>. QED  BY <3>1, <3>2
  <2>. QED  BY <2>1, <2>2
<1>. QED  BY <1>1, <1>2, <1>3, <1>4 DEF Begins

(* What a fiber does to itself. *)
LEMMA FiberSteps ==
  ASSUME IInv, NEW t \in Threads,
         \/ YieldFiber(t) \/ AwaitEvent(t) \/ EnterWaitQueue(t) \/ YieldInWait(t) \/ Finish(t)
  PROVE  \E f \in Fibers : Yields(t, f) \/ Registers(t, f) \/ Parks(t, f) \/ Ends(t, f)
<1> USE DEF shared, locals, queues, control, objects
<1> DEFINE f == running[t]
<1>0. Types /\ Control /\ NoFiber \notin Fibers
  BY FibersAssumption DEF IInv
<1>1. Runs(t, f) /\ f \in Fibers
  BY <1>0 DEF YieldFiber, AwaitEvent, EnterWaitQueue, YieldInWait, Finish, FiberCode,
     LoopRuns, Control, Runs, Types
<1>2. ~YieldInWait(t) => ~atYield[t]
  BY DEF YieldFiber, AwaitEvent, EnterWaitQueue, Finish, FiberCode, UserCode
<1>3. ~Finish(t) => Live' = Live /\ env' = env
  BY LiveSame DEF YieldFiber, AwaitEvent, EnterWaitQueue, YieldInWait
<1>4. CASE YieldFiber(t)
  <2>1. /\ userYieldFiberQ' = [userYieldFiberQ EXCEPT ![t] = Append(@, f)]
        /\ running' = [running EXCEPT ![t] = NoFiber]
        /\ UNCHANGED <<syncSignalFiberQ, work, events, due, hand, waiters, atYield, env>>
        /\ Live' = Live
    BY <1>4, LiveSame DEF YieldFiber, SwitchToLoop
  <2> HIDE DEF f
  <2>2. userYieldFiberQ[t] \in Seq(Fibers) /\ userYieldFiberQ'[t] = Append(userYieldFiberQ[t], f)
    BY <1>0, <2>1 DEF Types
  <2>3. refs'["yield"][t] = refs["yield"][t] \cup {f}
    <3>1. Elems(Append(userYieldFiberQ[t], f)) = Elems(userYieldFiberQ[t]) \cup {f}
      BY <1>1, <2>2, AppendElems
    <3>. QED  BY <2>2, <3>1, RefsAt
  <2>4. OnlyRefs(t, {"yield"}) /\ "yield" \in Owing
    BY <1>0, <2>1, RefsFrame DEF Types, Owing, Kinds
  <2>5. owedSet' = owedSet \cup {f}
    BY <1>1, <2>3, <2>4, PutOwed
  <2>6. pending' = pending
    BY <2>1 DEF pending, sleeping, waiting
  <2>7. ~YieldInWait(t) \/ ~atYield[t]
    BY <1>4 DEF f, YieldFiber, FiberCode, UserCode
  <2>. QED  BY <1>1, <1>2, <2>1, <2>5, <2>6, <2>7 DEF Yields
<1>5. CASE AwaitEvent(t)
  <2>1. /\ events' = [events EXCEPT ![t] = @ \cup {f}]
        /\ running' = [running EXCEPT ![t] = NoFiber]
        /\ UNCHANGED <<userYieldFiberQ, syncSignalFiberQ, work, due, hand, waiters, atYield, env>>
        /\ Live' = Live /\ ~atYield[t]
    BY <1>5, LiveSame DEF AwaitEvent, SwitchToLoop, FiberCode, UserCode
  <2> HIDE DEF f
  <2>2. owedSet' = owedSet /\ waiting' = waiting
    BY <2>1 DEF owedSet, waiting, Elems
  <2>3. \A g : g \in sleeping' <=> g \in sleeping \cup {f}
    BY <1>0, <1>1, <2>1 DEF sleeping, Types
  <2>4. atYield' = [atYield EXCEPT ![t] = FALSE]
    BY <1>0, <2>1 DEF Types
  <2>. QED  BY <1>1, <2>1, <2>2, <2>3, <2>4 DEF Parks, pending
<1>6. CASE EnterWaitQueue(t)
  <2>1. /\ waiters' = Append(waiters, f)
        /\ atYield' = [atYield EXCEPT ![t] = TRUE]
        /\ UNCHANGED <<userYieldFiberQ, syncSignalFiberQ, work, due, hand, events, running, env>>
        /\ Live' = Live /\ ~atYield[t]
    BY <1>6, LiveSame DEF EnterWaitQueue, FiberCode, UserCode
  <2> HIDE DEF f
  <2>2. owedSet' = owedSet /\ sleeping' = sleeping
    BY <2>1 DEF owedSet, sleeping, Elems
  <2>3. Elems(Append(waiters, f)) = Elems(waiters) \cup {f}
    BY <1>0, <1>1, AppendElems DEF Types
  <2>4. waiting' = waiting \cup {f}
    BY <2>1, <2>3 DEF waiting
  <2>. QED  BY <1>1, <2>1, <2>2, <2>4 DEF Registers, pending
<1>7. CASE YieldInWait(t)
  <2>1. /\ atYield[t] /\ atYield' = [atYield EXCEPT ![t] = FALSE]
        /\ running' = [running EXCEPT ![t] = NoFiber]
        /\ UNCHANGED <<userYieldFiberQ, syncSignalFiberQ, work, due, hand, events, waiters, env>>
        /\ Live' = Live
    BY <1>7, LiveSame DEF YieldInWait, SwitchToLoop
  <2>2. owedSet' = owedSet /\ pending' = pending
    BY <2>1 DEF owedSet, pending, sleeping, waiting, Elems
  <2>. QED  BY <1>1, <2>1, <2>2 DEF Parks
<1>8. CASE Finish(t)
  <2>1. /\ Live' = Live \ {f} /\ running' = [running EXCEPT ![t] = NoFiber] /\ ~atYield[t]
        /\ UNCHANGED <<userYieldFiberQ, syncSignalFiberQ, work, due, hand, events, waiters, atYield, env>>
    BY <1>8, Finishing DEF Finish
  <2>2. owedSet' = owedSet /\ pending' = pending
    BY <2>1 DEF owedSet, pending, sleeping, waiting, Elems
  <2>. QED  BY <1>1, <2>1, <2>2 DEF Ends
<1>. QED  BY <1>4, <1>5, <1>6, <1>7, <1>8

(* Whoever pops a waiter owes it a resume from then on. *)
LEMMA PopWakes ==
  ASSUME IInv, NEW t \in Threads, PopWaiter(t)
  PROVE  \E D : Wakes(D)
<1> USE DEF shared, locals, queues, control, objects
<1> DEFINE f == Head(waiters)
<1>0. Types /\ RefsAreUnique /\ QueuesAreDistinct /\ NoFiber \notin Fibers
  BY FibersAssumption DEF IInv
<1>1. /\ hand' = [hand EXCEPT ![t] = f] /\ waiters' = Tail(waiters) /\ hand[t] = NoFiber
      /\ UNCHANGED <<userYieldFiberQ, syncSignalFiberQ, work, due, events, running, atYield, env>>
      /\ Live' = Live /\ waiters # <<>>
  BY LiveSame DEF PopWaiter, UserCode
<1>2. /\ f \in Fibers /\ Elems(waiters) = Elems(Tail(waiters)) \cup {f}
      /\ f \notin Elems(Tail(waiters))
  BY <1>0, <1>1, TailElems DEF Types, QueuesAreDistinct
<1> HIDE DEF f
<1>3. waiting' = waiting \ {f} /\ f \in waiting /\ sleeping' = sleeping
  BY <1>1, <1>2 DEF waiting, sleeping
<1>4. f \notin sleeping
  BY <1>3, Disjoint
<1>5. refs'["hand"][t] = refs["hand"][t] \cup {f}
  BY <1>0, <1>1, <1>2, RefsAt DEF Types
<1>6. OnlyRefs(t, {"hand"}) /\ "hand" \in Owing
  BY <1>0, <1>1, RefsFrame DEF Types, Owing, Kinds
<1>7. owedSet' = owedSet \cup {f}
  BY <1>2, <1>5, <1>6, PutOwed
<1>8. Wakes({f})
  BY <1>1, <1>3, <1>4, <1>7 DEF Wakes, pending
<1>. QED  BY <1>8

(* What a step may be. *)
StepKinds ==
  \/ Quiet
  \/ \E t \in Threads, f \in Fibers :
       \/ Begins(t, f) \/ Resumes(t, f) \/ Yields(t, f) \/ Registers(t, f)
       \/ Parks(t, f) \/ Ends(t, f)
  \/ \E D : Wakes(D)

(* Every step of the scheduler is of one of the kinds the contract names.   *)
LEMMA StepsByKind ==
  ASSUME IInv, QueuesAreUsedUp, [Next]_vars
  PROVE  StepKinds
<1>1. ASSUME NEW t \in Threads, LoopStep(t) \/ UserStep(t)
      PROVE  StepKinds
  <2>1. ASSUME StartTask(t) PROVE StepKinds
    BY <2>1, TaskBegins DEF StepKinds, Begins
  <2>2. ASSUME ResumeDue(t) \/ ResumeWork(t) PROVE StepKinds
    BY <2>2, LoopResumes DEF StepKinds
  <2>3. ASSUME TakeArrivals(t) \/ PopWaiter(t) PROVE StepKinds
    BY <2>3, ArrivalsWake, PopWakes DEF StepKinds
  <2>4. ASSUME \/ YieldFiber(t) \/ AwaitEvent(t) \/ EnterWaitQueue(t) \/ YieldInWait(t) \/ Finish(t)
        PROVE  StepKinds
    BY <2>4, FiberSteps DEF StepKinds
  <2>5. ASSUME EndStolen(t) \/ EndYielded(t) \/ PushSignal(t) PROVE StepKinds
    BY <2>5, MovingSteps DEF StepKinds
  <2>6. ASSUME \/ TryLock(t) \/ TryLockFails(t) \/ Steal(t) \/ KeepGoing(t) \/ VoteToQuit(t)
               \/ EndActive(t) \/ EndSignaled(t) \/ ScheduleLock(t) \/ SchedulePush(t)
        PROVE  StepKinds
    BY <2>6, QuietSteps DEF StepKinds
  <2>. QED  BY <1>1, <2>1, <2>2, <2>3, <2>4, <2>5, <2>6 DEF LoopStep, UserStep, Leave, Complete
<1>2. ASSUME MainReturns \/ Terminated \/ UNCHANGED vars PROVE StepKinds
  BY <1>2, QuietSteps, ThreadsAssumption DEF StepKinds
<1>. QED  BY <1>1, <1>2 DEF Next

(* Every queue the loop is about to refill is empty, unless a fiber that    *)
(* was resumed from a yield() may yield() again before anything else.       *)
LEMMA UsedUpStep ==
  ASSUME ~YieldAgain, IInv, QueuesAreUsedUp, [Next]_vars
  PROVE  QueuesAreUsedUp'
<1> USE DEF shared, locals, queues, control, objects
<1>0. Types /\ QueuesAreUsedUp /\ LoopPc = {"try", "locked", "arrive", "active", "stolen", "yielded", "signaled"}
  BY DEF IInv, LoopPc
<1> DEFINE Same(u) == /\ pc'[u] = pc[u] /\ userYieldFiberQ'[u] = userYieldFiberQ[u]
                      /\ work'[u] = work[u] /\ due'[u] = due[u]
           Good(u) == /\ pc'[u] = "yielded" => userYieldFiberQ'[u] = <<>>
                      /\ pc'[u] \notin {"yielded", "signaled"} => work'[u] = <<>>
                      /\ pc'[u] # "active" => due'[u] = {}
<1>1. ASSUME NEW u \in Threads, Same(u) PROVE Good(u)
  BY <1>0, <1>1 DEF QueuesAreUsedUp
<1>2. ASSUME NEW t \in Threads,
             TryLock(t) \/ TryLockFails(t) \/ Steal(t) \/ KeepGoing(t) \/ VoteToQuit(t)
      PROVE  \A u \in Threads : Good(u)
  <2>1. /\ UNCHANGED <<userYieldFiberQ, work, due>> /\ \A u \in Threads \ {t} : pc'[u] = pc[u]
        /\ pc[t] \in {"try", "locked"} /\ pc'[t] \in {"locked", "arrive", "exit"}
    BY <1>0, <1>2 DEF TryLock, TryLockFails, Steal, KeepGoing, VoteToQuit, Types
  <2>. QED  BY <1>0, <1>1, <2>1 DEF QueuesAreUsedUp
<1>3. ASSUME NEW t \in Threads, TakeArrivals(t) \/ EndActive(t) \/ EndSignaled(t)
      PROVE  \A u \in Threads : Good(u)
  <2>1. /\ \A u \in Threads \ {t} : Same(u)
        /\ work[t] = <<>> /\ work'[t] = <<>>
        /\ pc'[t] = "active" \/ (pc'[t] \in {"stolen", "try"} /\ due'[t] = {})
    BY <1>0, <1>3 DEF TakeArrivals, EndActive, EndSignaled, Types, QueuesAreUsedUp
  <2>. QED  BY <1>1, <2>1
<1>4. ASSUME NEW t \in Threads, EndStolen(t) \/ EndYielded(t)
      PROVE  \A u \in Threads : Good(u)
  <2>1. /\ \A u \in Threads \ {t} : Same(u)
        /\ userYieldFiberQ'[t] = <<>> /\ pc'[t] \in {"yielded", "signaled"} /\ due'[t] = {}
    BY <1>0, <1>4 DEF EndStolen, EndYielded, Types, QueuesAreUsedUp
  <2>. QED  BY <1>1, <2>1
<1>5. ASSUME NEW t \in Threads, ResumeDue(t) \/ ResumeWork(t)
      PROVE  \A u \in Threads : Good(u)
  <2>1. /\ \A u \in Threads \ {t} : Same(u)
        /\ pc' = pc /\ userYieldFiberQ' = userYieldFiberQ
        /\ \/ pc[t] = "active" /\ work'[t] = work[t]
           \/ pc[t] \in {"yielded", "signaled"} /\ due'[t] = due[t]
    BY <1>0, <1>5 DEF ResumeDue, ResumeWork, Types
  <2>. QED  BY <1>0, <1>1, <2>1 DEF QueuesAreUsedUp
<1>6. ASSUME NEW t \in Threads, YieldFiber(t)
      PROVE  \A u \in Threads : Good(u)
  <2>1. /\ \A u \in Threads \ {t} : Same(u)
        /\ pc[t] # "yielded" /\ UNCHANGED <<pc, work, due>>
    BY <1>0, <1>6 DEF YieldFiber, Types
  <2>. QED  BY <1>0, <1>1, <2>1 DEF QueuesAreUsedUp
<1>7. ASSUME NEW t \in Threads,
             \/ StartTask(t) \/ ScheduleLock(t) \/ SchedulePush(t) \/ PopWaiter(t) \/ AwaitEvent(t)
             \/ EnterWaitQueue(t) \/ Finish(t) \/ YieldInWait(t) \/ PushSignal(t)
      PROVE  \A u \in Threads : Good(u)
  <2>1. UNCHANGED <<pc, userYieldFiberQ, work, due>>
    BY <1>7 DEF StartTask, ScheduleLock, SchedulePush, PopWaiter, AwaitEvent, EnterWaitQueue,
       Finish, YieldInWait, PushSignal
  <2>. QED  BY <1>1, <2>1
<1>8. ASSUME MainReturns \/ Terminated \/ UNCHANGED vars
      PROVE  \A u \in Threads : Good(u)
  <2>1. CASE MainReturns
    <3>1. /\ UNCHANGED <<userYieldFiberQ, work, due>> /\ \A u \in Threads \ {Main} : pc'[u] = pc[u]
          /\ pc[Main] = "main" /\ pc'[Main] = "try" /\ Main \in Threads
      BY <1>0, <2>1, ThreadsAssumption DEF MainReturns, Types
    <3>. QED  BY <1>0, <1>1, <3>1 DEF QueuesAreUsedUp
  <2>2. CASE Terminated \/ UNCHANGED vars
    BY <1>1, <2>2 DEF Terminated, vars
  <2>. QED  BY <1>8, <2>1, <2>2
<1>9. \A u \in Threads : Good(u)
  BY <1>2, <1>3, <1>4, <1>5, <1>6, <1>7, <1>8 DEF Next, LoopStep, UserStep, Leave, Complete
<1>. QED  BY <1>9 DEF QueuesAreUsedUp

(* An unfinished fiber runs, or waits for an event or for somebody to wake  *)
(* it, or will be resumed: none is forgotten.                               *)
NobodyForgotten == \A f \in Live : f \in owedSet \cup pending \/ Busy(f)

(* No kind of step forgets a live fiber.                                    *)
LEMMA ForgottenStep ==
  ASSUME IInv, NobodyForgotten, StepKinds
  PROVE  NobodyForgotten'
<1> SUFFICES ASSUME NEW f \in Live', f \notin owedSet' \cup pending'
             PROVE  running'[env'[f]] = f /\ ~atYield'[env'[f]]
  BY DEF NobodyForgotten, Busy
<1>0. Types /\ Control /\ NoFiber \notin Fibers
  BY FibersAssumption DEF IInv
<1>1. \A g \in Live : env[g] \in Threads /\ g \in Fibers /\ env[g] # NoThread
  BY ThreadsAssumption DEF IInv, Types, PoolsAreIdle, Live
<1>2. \A t \in Threads : running[t] = NoFiber => ~atYield[t]
  BY <1>0 DEF Control
<1>3. \A t \in Threads : \A g : Runs(t, g) => g \in Live /\ env[g] = t
  BY <1>0 DEF Control, Runs
<1>4. \A t \in Threads : \A g : running' = [running EXCEPT ![t] = g] =>
        running'[t] = g /\ \A u \in Threads \ {t} : running'[u] = running[u]
  BY <1>0 DEF Types
<1>5. \A t \in Threads, b \in BOOLEAN : atYield' = [atYield EXCEPT ![t] = b] =>
        atYield'[t] = b /\ \A u \in Threads \ {t} : atYield'[u] = atYield[u]
  BY <1>0 DEF Types
<1> USE DEF NobodyForgotten, Busy
<1>6. CASE Quiet
  BY <1>6 DEF Quiet, pending
<1>7. ASSUME NEW t \in Threads, NEW g \in Fibers, Begins(t, g) \/ Resumes(t, g)
      PROVE  running'[env'[f]] = f /\ ~atYield'[env'[f]]
  <2>1. /\ running'[t] = g /\ atYield' = atYield /\ ~atYield[t] /\ running[t] = NoFiber
        /\ env'[g] = t /\ \A h \in Live : env'[h] = env[h]
        /\ \A u \in Threads \ {t} : running'[u] = running[u]
        /\ f = g \/ (f \in Live /\ f \notin owedSet \cup pending)
    BY <1>1, <1>2, <1>4, <1>7 DEF Begins, Resumes
  <2>. QED  BY <1>0, <1>1, <2>1 DEF Live
<1>8. ASSUME NEW t \in Threads, NEW g \in Fibers,
             Yields(t, g) \/ Registers(t, g) \/ Parks(t, g) \/ Ends(t, g)
      PROVE  running'[env'[f]] = f /\ ~atYield'[env'[f]]
  <2>1. /\ g \in Live /\ env[g] = t /\ running[t] = g /\ env' = env
        /\ f \in Live /\ f \notin owedSet \cup pending
    BY <1>3, <1>8 DEF Yields, Registers, Parks, Ends, Runs
  <2>2. running[env[f]] = f /\ ~atYield[env[f]]
    BY <2>1
  <2>3. f # g
    BY <1>8, <2>1, <2>2 DEF Yields, Registers, Parks, Ends
  <2>4. env[f] # t /\ env[f] \in Threads
    BY <1>1, <2>1, <2>2, <2>3
  <2>5. \A u \in Threads \ {t} : running'[u] = running[u] /\ atYield'[u] = atYield[u]
    BY <1>4, <1>5, <1>8 DEF Yields, Registers, Parks, Ends
  <2>. QED  BY <2>1, <2>2, <2>4, <2>5
<1>9. ASSUME NEW D, Wakes(D)
      PROVE  running'[env'[f]] = f /\ ~atYield'[env'[f]]
  BY <1>9 DEF Wakes
<1>. QED  BY <1>6, <1>7, <1>8, <1>9 DEF StepKinds

(* Where a reference of each kind stands. *)
IsPlace(p, f, k, t) ==
  \/ k = "yield" /\ \E i \in Positions(userYieldFiberQ[t], f) : p = <<"yield", t, i>>
  \/ k = "signal" /\ \E i \in Positions(syncSignalFiberQ[t], f) : p = <<"signal", t, i>>
  \/ k = "work" /\ \E i \in Positions(work[t], f) : p = <<"work", t, i>>
  \/ k = "due" /\ f \in due[t] /\ p = <<"due", t>>
  \/ k = "hand" /\ f = hand[t] /\ p = <<"hand", t>>

(* The places of a fiber, told by the kind of queue that holds it.          *)
LEMMA PlacesByKind ==
  ASSUME NEW f \in Fibers, NEW p
  PROVE  /\ p \in QueuedAt(f) <=> \E k \in Owing, t \in Threads : IsPlace(p, f, k, t)
         /\ p \in Places(f) <=>
              \/ p \in QueuedAt(f)
              \/ \E t \in Threads : f \in events[t] /\ p = <<"event", t>>
              \/ \E i \in Positions(waiters, f) : p = <<"wait", i>>
<1>1. \A k : k \in Owing <=> k \in {"yield", "signal", "work", "due", "hand"}
  BY DEF Owing, Kinds
<1>2. p \in QueuedAt(f) <=> \E t \in Threads :
        \/ \E i \in Positions(userYieldFiberQ[t], f) : p = <<"yield", t, i>>
        \/ \E i \in Positions(syncSignalFiberQ[t], f) : p = <<"signal", t, i>>
        \/ \E i \in Positions(work[t], f) : p = <<"work", t, i>>
        \/ f \in due[t] /\ p = <<"due", t>>
        \/ f = hand[t] /\ p = <<"hand", t>>
  <2> DEFINE At(t) ==
             {<<"yield", t, i>> : i \in Positions(userYieldFiberQ[t], f)}
        \cup {<<"signal", t, i>> : i \in Positions(syncSignalFiberQ[t], f)}
        \cup {<<"work", t, i>> : i \in Positions(work[t], f)}
        \cup {<<"due", t>> : x \in due[t] \cap {f}}
        \cup {<<"hand", t>> : x \in {hand[t]} \cap {f}}
  <2>1. QueuedAt(f) = UNION {At(t) : t \in Threads}
    BY DEF QueuedAt
  <2>2. \A t : p \in At(t) <=>
          \/ \E i \in Positions(userYieldFiberQ[t], f) : p = <<"yield", t, i>>
          \/ \E i \in Positions(syncSignalFiberQ[t], f) : p = <<"signal", t, i>>
          \/ \E i \in Positions(work[t], f) : p = <<"work", t, i>>
          \/ f \in due[t] /\ p = <<"due", t>>
          \/ f = hand[t] /\ p = <<"hand", t>>
    OBVIOUS
  <2> HIDE DEF At
  <2>. QED  BY <2>1, <2>2
<1>3. p \in QueuedAt(f) <=> \E k \in Owing, t \in Threads : IsPlace(p, f, k, t)
  BY <1>1, <1>2 DEF IsPlace
<1>4. p \in Places(f) <=>
        \/ p \in QueuedAt(f)
        \/ \E t \in Threads : f \in events[t] /\ p = <<"event", t>>
        \/ \E i \in Positions(waiters, f) : p = <<"wait", i>>
  BY DEF Places
<1>. QED  BY <1>3, <1>4

(* A fiber is in no place or in one: in some if it is owed a resume or      *)
(* waits, and one of those that owe it one exactly if it is owed.           *)
LEMMA OnePlace ==
  ASSUME IInv, NEW f \in Fibers
  PROVE  /\ \A p, q \in Places(f) : p = q
         /\ Places(f) = {} <=> f \notin owedSet \cup pending
         /\ QueuedAt(f) = {} <=> f \notin owedSet
         /\ QueuedAt(f) \subseteq Places(f)
<1>0. RefsAreUnique /\ QueuesAreDistinct /\ NoFiber \notin Fibers
  BY FibersAssumption DEF IInv
<1>1. ASSUME NEW k \in Owing, NEW t \in Threads, NEW p, IsPlace(p, f, k, t)
      PROVE  f \in refs[k][t]
  BY <1>0, <1>1, RefsAt DEF IsPlace, Positions, Elems
<1>2. ASSUME NEW k \in Owing, NEW t \in Threads, f \in refs[k][t]
      PROVE  \E p : IsPlace(p, f, k, t)
  <2>1. CASE k = "yield"
    <3>1. PICK i \in Positions(userYieldFiberQ[t], f) : TRUE
      BY <1>2, <2>1, RefsAt DEF Positions, Elems
    <3>2. IsPlace(<<"yield", t, i>>, f, k, t)
      BY <2>1, <3>1 DEF IsPlace
    <3>. QED  BY <3>2
  <2>2. CASE k = "signal"
    <3>1. PICK i \in Positions(syncSignalFiberQ[t], f) : TRUE
      BY <1>2, <2>2, RefsAt DEF Positions, Elems
    <3>2. IsPlace(<<"signal", t, i>>, f, k, t)
      BY <2>2, <3>1 DEF IsPlace
    <3>. QED  BY <3>2
  <2>3. CASE k = "work"
    <3>1. PICK i \in Positions(work[t], f) : TRUE
      BY <1>2, <2>3, RefsAt DEF Positions, Elems
    <3>2. IsPlace(<<"work", t, i>>, f, k, t)
      BY <2>3, <3>1 DEF IsPlace
    <3>. QED  BY <3>2
  <2>4. CASE k \in {"due", "hand"}
    BY <1>2, <2>4, RefsAt DEF IsPlace
  <2>. QED  BY <2>1, <2>2, <2>3, <2>4 DEF Owing, Kinds
<1>3. ASSUME NEW k \in Owing, NEW t \in Threads, NEW p, NEW q,
             IsPlace(p, f, k, t), IsPlace(q, f, k, t)
      PROVE  p = q
  <2>1. /\ \A i, j \in Positions(userYieldFiberQ[t], f) : i = j
        /\ \A i, j \in Positions(syncSignalFiberQ[t], f) : i = j
        /\ \A i, j \in Positions(work[t], f) : i = j
    BY <1>0 DEF QueuesAreDistinct, Distinct, Positions
  <2>. QED  BY <1>3, <2>1 DEF IsPlace
<1>4. /\ f \in owedSet <=> \E k \in Owing, t \in Threads : f \in refs[k][t]
      /\ f \in sleeping <=> \E t \in Threads : f \in events[t]
      /\ f \in waiting <=> Positions(waiters, f) # {}
      /\ \A i, j \in Positions(waiters, f) : i = j
  BY <1>0, OwedRefs DEF sleeping, waiting, Elems, Positions, QueuesAreDistinct, Distinct
<1>5. QueuedAt(f) = {} <=> f \notin owedSet
  BY <1>1, <1>2, <1>4, PlacesByKind
<1>6. /\ QueuedAt(f) \subseteq Places(f)
      /\ Places(f) = {} <=> f \notin owedSet \cup pending
  <2>1. \A t \in Threads : f \in events[t] => <<"event", t>> \in Places(f)
    BY PlacesByKind
  <2>2. \A i \in Positions(waiters, f) : <<"wait", i>> \in Places(f)
    BY PlacesByKind
  <2>. QED  BY <1>4, <1>5, <2>1, <2>2, PlacesByKind DEF pending
<1>7. ASSUME NEW p \in Places(f), NEW q \in Places(f)
      PROVE  p = q
  <2>1. CASE f \in owedSet
    <3>1. f \notin sleeping \cup waiting
      BY <2>1, Disjoint
    <3>2. p \in QueuedAt(f) /\ q \in QueuedAt(f)
      BY <1>4, <3>1, PlacesByKind
    <3>3. PICK k1 \in Owing, t1 \in Threads : IsPlace(p, f, k1, t1)
      BY <3>2, PlacesByKind
    <3>4. PICK k2 \in Owing, t2 \in Threads : IsPlace(q, f, k2, t2)
      BY <3>2, PlacesByKind
    <3>5. k1 = k2 /\ t1 = t2
      BY <1>0, <1>1, <3>3, <3>4 DEF RefsAreUnique, Owing
    <3>. QED  BY <1>3, <3>3, <3>4, <3>5
  <2>2. CASE f \notin owedSet
    <3>1. p \notin QueuedAt(f) /\ q \notin QueuedAt(f)
      BY <1>5, <2>2
    <3>2. f \notin sleeping \/ f \notin waiting
      BY Disjoint
    <3>3. \A t, u \in Threads : f \in events[t] /\ f \in events[u] => t = u
      BY <1>0, RefsAt DEF RefsAreUnique, Kinds
    <3>. QED  BY <1>4, <3>1, <3>2, <3>3, PlacesByKind
  <2>. QED  BY <2>1, <2>2
<1>. QED  BY <1>5, <1>6, <1>7

(* A set is counted at most once if its members are equal. *)
LEMMA CountOne ==
  ASSUME NEW S, \A p, q \in S : p = q
  PROVE  Cardinality(S) = IF S = {} THEN 0 ELSE 1
<1>1. CASE S = {}
  BY <1>1, FS_EmptySet
<1>2. CASE S # {}
  <2>1. PICK p : S = {p}
    BY <1>2
  <2>. QED  BY <1>2, <2>1, FS_Singleton
<1>. QED  BY <1>1, <1>2

-----------------------------------------------------------------------------
(* The contract *)

(* A fiber is owed one resume or none. *)
OwedExact ==
  \A f \in Fibers : Cardinality(QueuedAt(f)) = IF f \in owedSet THEN 1 ELSE 0

(* A fiber that is owed a resume stands in one queue, any other in none.    *)
LEMMA OwedIsExact == IInv => OwedExact
<1> SUFFICES ASSUME IInv, NEW f \in Fibers
             PROVE  Cardinality(QueuedAt(f)) = IF f \in owedSet THEN 1 ELSE 0
  BY DEF OwedExact
<1>. QED  BY OnePlace, CountOne

(* Every step is one the contract allows, or changes nothing it speaks of.  *)
LEMMA ContractStep ==
  ASSUME IInv, Types', OwedExact, OwedExact', StepKinds
  PROVE  [Contract!ContractNext]_(Contract!contractVars)
<1> DEFINE status == [f \in Fibers |-> Status(f)]
           owed == [f \in Fibers |-> Cardinality(QueuedAt(f))]
<1>0. Types /\ Control /\ NoFiber \notin Fibers
  BY FibersAssumption DEF IInv
<1>1. /\ \A f \in Fibers : owed[f] = IF f \in owedSet THEN 1 ELSE 0
      /\ \A f \in Fibers : owed'[f] = IF f \in owedSet' THEN 1 ELSE 0
      /\ owed = [f \in Fibers |-> owed[f]] /\ owed' = [f \in Fibers |-> owed'[f]]
  BY DEF OwedExact
<1>2. /\ \A f \in Fibers : status[f] =
           IF f \notin Live THEN "idle" ELSE IF running[env[f]] = f THEN "running" ELSE "parked"
      /\ \A f \in Fibers : status'[f] =
           IF f \notin Live' THEN "idle" ELSE IF running'[env'[f]] = f THEN "running" ELSE "parked"
      /\ status = [f \in Fibers |-> status[f]] /\ status' = [f \in Fibers |-> status'[f]]
  BY DEF Status
<1>3. /\ Live \subseteq Fibers /\ owedSet \subseteq Live /\ pending \subseteq Live
      /\ owedSet \cap pending = {}
      /\ \A f \in Live : Busy(f) => f \notin owedSet
      /\ \A f \in Live : env[f] \in Threads /\ env[f] # NoThread
  <2>1. Live \subseteq Fibers /\ \A f \in Live : env[f] \in Threads /\ env[f] # NoThread
    BY <1>0, ThreadsAssumption DEF Live, IInv, Types, PoolsAreIdle
  <2>. QED  BY <2>1, Disjoint DEF pending
<1>4. \A t \in Threads : \A g : Runs(t, g) => g \in Live /\ env[g] = t
  BY <1>0 DEF Control, Runs
<1>5. \A t \in Threads : \A g : running' = [running EXCEPT ![t] = g] =>
        running'[t] = g /\ \A u \in Threads \ {t} : running'[u] = running[u]
  BY <1>0 DEF Types
<1> HIDE DEF status, owed
<1>6. CASE Quiet
  <2>1. status' = status /\ owed' = owed /\ env' = env
    BY <1>1, <1>2, <1>6 DEF Quiet
  <2>. QED  BY <2>1 DEF Contract!contractVars, status, owed
<1>7. ASSUME NEW t \in Threads, NEW f \in Fibers, Begins(t, f)
      PROVE  Contract!Start(f, t)
  <2>1. /\ running[t] = NoFiber /\ running'[t] = f /\ f \notin Live
        /\ \A u \in Threads \ {t} : running'[u] = running[u]
        /\ Live' = Live \cup {f} /\ owedSet' = owedSet
        /\ env'[f] = t /\ \A g \in Fibers : env[g] # NoThread => env'[g] = env[g]
    BY <1>5, <1>7, ZenonT(40) DEF Begins
  <2>2. owed' = owed
    BY <1>1, <2>1
  <2>3. status[f] = "idle" /\ status' = [status EXCEPT ![f] = "running"]
    <3>1. \A g \in Fibers \ {f} : status'[g] = status[g]
      BY <1>0, <1>2, <1>3, <2>1
    <3>. QED  BY <1>2, <2>1, <3>1
  <2>4. \A g \in Fibers : status[g] = "running" => env[g] # t
    BY <1>0, <1>2, <2>1
  <2>5. env' \in [Fibers -> Threads \cup {NoThread}]
    BY DEF Types
  <2>. QED  BY <2>1, <2>2, <2>3, <2>4, <2>5 DEF Contract!Start, Contract!LoopRuns, status, owed
<1>8. ASSUME NEW t \in Threads, NEW f \in Fibers, Resumes(t, f)
      PROVE  Contract!Resume(f)
  <2>1. /\ running[t] = NoFiber /\ running'[t] = f /\ env[f] = t /\ env' = env
        /\ \A u \in Threads \ {t} : running'[u] = running[u]
        /\ f \in owedSet /\ f \in Live /\ Live' = Live /\ owedSet' = owedSet \ {f}
    BY <1>3, <1>5, <1>8 DEF Resumes
  <2>2. owed[f] = 1 /\ owed' = [owed EXCEPT ![f] = 0]
    <3>1. owed'[f] = 0 /\ \A g \in Fibers \ {f} : owed'[g] = owed[g]
      BY <1>1, <2>1
    <3>. QED  BY <1>1, <2>1, <3>1
  <2>3. status[f] = "parked" /\ status' = [status EXCEPT ![f] = "running"]
    <3>1. \A g \in Fibers \ {f} : status'[g] = status[g]
      BY <1>0, <1>2, <1>3, <2>1
    <3>. QED  BY <1>0, <1>2, <2>1, <3>1
  <2>4. \A g \in Fibers : status[g] = "running" => env[g] # env[f]
    BY <1>0, <1>2, <2>1
  <2>. QED  BY <2>1, <2>2, <2>3, <2>4 DEF Contract!Resume, Contract!LoopRuns, status, owed
<1>9. ASSUME NEW t \in Threads, NEW f \in Fibers,
             Yields(t, f) \/ Registers(t, f) \/ Parks(t, f) \/ Ends(t, f)
      PROVE  Contract!YieldNow(f) \/ Contract!Park(f) \/ Contract!End(f)
             \/ UNCHANGED Contract!contractVars
  <2>1. /\ f \in Live /\ env[f] = t /\ running[t] = f /\ env' = env
        /\ \A g \in Live \ {f} : env[g] = t => running[t] # g
        /\ status[f] = "running"
    BY <1>2, <1>3, <1>4, <1>9 DEF Yields, Registers, Parks, Ends, Runs
  <2>2. ~atYield[t] => owed[f] = 0
    BY <1>1, <1>3, <2>1 DEF Busy
  <2>3. CASE Registers(t, f)
    <3>1. status' = status /\ owed' = owed
      BY <1>1, <1>2, <2>3 DEF Registers
    <3>. QED  BY <2>1, <3>1 DEF Contract!contractVars, status, owed
  <2>4. ASSUME ~Registers(t, f)
        PROVE  /\ running'[t] = NoFiber
               /\ \A g \in Fibers \ {f} : status'[g] = status[g]
    <3>1. /\ running'[t] = NoFiber /\ \A u \in Threads \ {t} : running'[u] = running[u]
          /\ Live' = Live \/ Live' = Live \ {f}
      BY <1>5, <1>9, <2>4 DEF Yields, Parks, Ends
    <3>. QED  BY <1>0, <1>2, <1>3, <2>1, <3>1
  <2>5. CASE Yields(t, f)
    <3>1. owed[f] = 0 /\ owed' = [owed EXCEPT ![f] = 1]
      <4>1. owed'[f] = 1 /\ \A g \in Fibers \ {f} : owed'[g] = owed[g]
        BY <1>1, <2>5 DEF Yields
      <4>. QED  BY <1>1, <2>2, <2>5, <4>1 DEF Yields
    <3>2. status' = [status EXCEPT ![f] = "parked"]
      <4>1. running'[t] = NoFiber /\ Live' = Live
        BY <1>5, <2>5 DEF Yields
      <4>2. ~Registers(t, f)
        BY <1>0, <2>1, <4>1 DEF Registers
      <4>3. status'[f] = "parked"
        BY <1>0, <1>2, <2>1, <4>1
      <4>. QED  BY <1>2, <2>4, <4>2, <4>3
    <3>. QED  BY <2>1, <3>1, <3>2 DEF Contract!YieldNow, status, owed
  <2>6. CASE Parks(t, f)
    <3>1. running'[t] = NoFiber /\ Live' = Live /\ owedSet' = owedSet
      BY <1>5, <2>6 DEF Parks
    <3>2. ~Registers(t, f)
      BY <1>0, <2>1, <3>1 DEF Registers
    <3>3. status'[f] = "parked"
      BY <1>0, <1>2, <2>1, <3>1
    <3>4. status' = [status EXCEPT ![f] = "parked"] /\ owed' = owed
      BY <1>1, <1>2, <2>4, <3>1, <3>2, <3>3
    <3>. QED  BY <2>1, <3>4 DEF Contract!Park, status, owed
  <2>7. CASE Ends(t, f)
    <3>1. /\ running'[t] = NoFiber /\ Live' = Live \ {f} /\ owedSet' = owedSet /\ ~atYield[t]
      BY <1>5, <2>7 DEF Ends
    <3>2. ~Registers(t, f)
      BY <1>0, <2>1, <3>1 DEF Registers
    <3>3. status'[f] = "idle"
      BY <1>2, <3>1
    <3>4. status' = [status EXCEPT ![f] = "idle"] /\ owed' = owed
      BY <1>1, <1>2, <2>4, <3>1, <3>2, <3>3
    <3>. QED  BY <2>1, <2>2, <3>1, <3>4 DEF Contract!End, status, owed
  <2>. QED  BY <1>9, <2>3, <2>5, <2>6, <2>7
<1>10. ASSUME NEW D, Wakes(D)
       PROVE  (\E F \in SUBSET Fibers : Contract!Wake(F)) \/ UNCHANGED Contract!contractVars
  <2>1. D \subseteq pending /\ owedSet' = owedSet \cup D /\ Live' = Live /\ env' = env
        /\ running' = running
    BY <1>10 DEF Wakes
  <2>2. status' = status
    BY <1>2, <2>1
  <2>3. CASE D = {}
    <3>1. owed' = owed
      BY <1>1, <2>1, <2>3
    <3>. QED  BY <2>1, <2>2, <3>1 DEF Contract!contractVars, status, owed
  <2>4. CASE D # {}
    <3>1. D \in SUBSET Fibers /\ \A f \in D : status[f] # "idle" /\ owed[f] = 0
      BY <1>1, <1>2, <1>3, <2>1
    <3>2. owed' = [f \in Fibers |-> IF f \in D THEN 1 ELSE owed[f]]
      BY <1>1, <2>1
    <3>3. Contract!Wake(D)
      BY <2>1, <2>2, <2>4, <3>1, <3>2 DEF Contract!Wake, status, owed
    <3>. QED  BY <3>1, <3>3
  <2>. QED  BY <2>3, <2>4
<1>. QED  BY <1>6, <1>7, <1>8, <1>9, <1>10 DEF StepKinds, Contract!ContractNext

-----------------------------------------------------------------------------
(* The theorems about references *)

RefInv == IInv /\ QueuesAreUsedUp /\ NobodyForgotten

(* In every reachable state of a scheduler whose fibers do not yield again  *)
(* at once, no fiber is forgotten and no queue is refilled before it is     *)
(* used up.                                                                 *)
THEOREM NothingIsDropped ==
  ASSUME ~YieldAgain
  PROVE  Spec => []RefInv
<1>1. Init => RefInv
  <2> SUFFICES ASSUME Init PROVE RefInv
    OBVIOUS
  <2>1. IInv
    BY IInvInit
  <2>2. QueuesAreUsedUp
    BY DEF Init, QueuesAreUsedUp
  <2>3. NobodyForgotten
    BY DEF Init, NobodyForgotten, Live
  <2>. QED  BY <2>1, <2>2, <2>3 DEF RefInv
<1>2. RefInv /\ [Next]_vars => RefInv'
  <2> SUFFICES ASSUME RefInv, [Next]_vars PROVE RefInv'
    OBVIOUS
  <2>1. IInv'
    BY IInvStep DEF RefInv
  <2>2. QueuesAreUsedUp'
    BY UsedUpStep DEF RefInv
  <2>3. NobodyForgotten'
    BY StepsByKind, ForgottenStep DEF RefInv
  <2>. QED  BY <2>1, <2>2, <2>3 DEF RefInv
<1>. QED  BY <1>1, <1>2, PTL DEF Spec

(* Whoever waits is referred to from exactly one queue of threadRoutine or  *)
(* of an object, a running fiber from none unless it is about to yield in a *)
(* wait, one in a pool from none, and no fiber migrates: for every number of*)
(* threads, fibers and tasks and every order of their steps, provided that  *)
(* no fiber yields again at once (with YieldAgain the code drops one).      *)
THEOREM ReferredToOnce ==
  ASSUME ~YieldAgain
  PROVE  Spec => []ExactlyOneReference
<1>1. ASSUME RefInv PROVE ExactlyOneReference
  <2> SUFFICES ASSUME NEW f \in Fibers
               PROVE  /\ Cardinality(Places(f)) =
                           IF f \notin Live THEN 0
                           ELSE IF running[env[f]] # f THEN 1
                           ELSE IF atYield[env[f]] THEN 1 ELSE 0
                      /\ \A t \in Threads :
                           /\ f \in Elems(userYieldFiberQ[t]) \cup Elems(syncSignalFiberQ[t])
                                   \cup Elems(work[t]) \cup events[t] \cup due[t] \cup {running[t]}
                              => env[f] = t
                           /\ f \in fiberPool[t] => env[f] = t /\ f \notin Live
    BY DEF ExactlyOneReference
  <2>0. /\ IInv /\ NobodyForgotten /\ RefsAreLive /\ Control /\ PoolsAreIdle
        /\ NoFiber \notin Fibers
    BY <1>1, FibersAssumption DEF RefInv, IInv
  <2>1. Cardinality(Places(f)) = IF f \notin owedSet \cup pending THEN 0 ELSE 1
    <3>1. /\ \A p, q \in Places(f) : p = q
          /\ Places(f) = {} <=> f \notin owedSet \cup pending
      BY <2>0, OnePlace
    <3>. QED  BY <3>1, CountOne
  <2>2. /\ f \notin Live => f \notin owedSet \cup pending
        /\ f \in Live => (f \in owedSet \cup pending <=> ~Busy(f))
    BY <2>0, Disjoint DEF NobodyForgotten, pending
  <2>3. ASSUME NEW t \in Threads
        PROVE  /\ f \in Elems(userYieldFiberQ[t]) \cup Elems(syncSignalFiberQ[t])
                       \cup Elems(work[t]) \cup events[t] \cup due[t] \cup {running[t]}
                  => env[f] = t
               /\ f \in fiberPool[t] => env[f] = t /\ f \notin Live
    <3>1. /\ f \in Elems(userYieldFiberQ[t]) \cup Elems(syncSignalFiberQ[t])
                     \cup Elems(work[t]) \cup events[t] \cup due[t] => env[f] = t
      BY <2>0, RefsAt DEF RefsAreLive, Kinds
    <3>. QED  BY <2>0, <3>1 DEF Control, PoolsAreIdle
  <2>. QED  BY <2>1, <2>2, <2>3 DEF Busy
<1>. QED  BY <1>1, NothingIsDropped, PTL

(* The loop of threadRoutine, with its queues, its pools and the hand-over  *)
(* of woken fibers, implements the contract that the mutex, the condition   *)
(* variable, the shared mutex and the channel are written against: a fiber  *)
(* parks, is woken and is resumed once per wake-up, on its own thread.      *)
THEOREM LoopImplementsContract ==
  ASSUME ~YieldAgain
  PROVE  Spec => ImplementsContract
<1>1. Init => Contract!ContractInit
  <2> SUFFICES ASSUME Init PROVE Contract!ContractInit
    OBVIOUS
  <2>1. OwedExact /\ IInv
    BY IInvInit, OwedIsExact
  <2>2. Live = {} /\ owedSet = {}
    BY <2>1, Disjoint DEF Init, Live
  <2>. QED  BY <2>1, <2>2, ThreadsAssumption DEF Init, OwedExact, Contract!ContractInit, Status
<1>2. RefInv /\ OwedExact /\ RefInv' /\ OwedExact' /\ [Next]_vars
        => [Contract!ContractNext]_(Contract!contractVars)
  <2> SUFFICES ASSUME RefInv, OwedExact, RefInv', OwedExact', [Next]_vars
               PROVE  [Contract!ContractNext]_(Contract!contractVars)
    OBVIOUS
  <2>1. StepKinds
    BY StepsByKind DEF RefInv
  <2>2. Types'
    BY DEF RefInv, IInv
  <2>. QED  BY <2>1, <2>2, ContractStep DEF RefInv
<1>3. RefInv => OwedExact
  BY OwedIsExact DEF RefInv
<1>. QED  BY <1>1, <1>2, <1>3, NothingIsDropped, PTL
          DEF Spec, ImplementsContract, Contract!ContractSpec

=============================================================================
