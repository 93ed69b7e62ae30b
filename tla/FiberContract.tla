--------------------------- MODULE FiberContract ---------------------------
(***************************************************************************)
(* What the fiber scheduler promises to the code that runs on fibers, and  *)
(* what that code must respect in return.  A fiber registers itself where  *)
(* it waits and parks (Fiber::Yield); somebody queues a resume for it (the *)
(* signal queue, the yield queue, the active list of the timer wheel); the *)
(* loop of the thread that owns the fiber performs the resume once.        *)
(*                                                                         *)
(* FiberScheduler implements this specification.  The synchronisation      *)
(* objects (FiberSync and the modules that extend it) are written against  *)
(* it and are checked to respect it.                                       *)
(***************************************************************************)
EXTENDS Naturals

CONSTANTS Threads,      \* scheduler threads
          Fibers,       \* Fiber objects
          NoThread      \* env_ of a Fiber object that was not created yet

ASSUME NoThreadAssumption == NoThread \notin Threads

VARIABLES status,       \* idle: no unfinished function; else running or parked
          owed,         \* number of resumes queued for a fiber
          host          \* Fiber::env_, the thread a fiber lives on

contractVars == <<status, owed, host>>

ContractInit ==
  /\ status = [f \in Fibers |-> "idle"]
  /\ owed = [f \in Fibers |-> 0]
  /\ host \in [Fibers -> Threads \cup {NoThread}]

(* No fiber of thread t is running: t executes its own loop. *)
LoopRuns(t) == \A f \in Fibers : status[f] = "running" => host[f] # t

(* A task starts on an idle fiber of thread t, created now or earlier. *)
Start(f, t) ==
  /\ status[f] = "idle"
  /\ LoopRuns(t)
  /\ host' \in [Fibers -> Threads \cup {NoThread}]
  /\ host'[f] = t
  /\ \A g \in Fibers : host[g] # NoThread => host'[g] = host[g]
  /\ status' = [status EXCEPT ![f] = "running"]
  /\ UNCHANGED owed

(* Fiber::Yield, after the fiber registered itself wherever it waits. *)
Park(f) ==
  /\ status[f] = "running"
  /\ status' = [status EXCEPT ![f] = "parked"]
  /\ UNCHANGED <<owed, host>>

(* this_fiber::yield: park and ask to be resumed at once. *)
YieldNow(f) ==
  /\ status[f] = "running"
  /\ owed[f] = 0
  /\ status' = [status EXCEPT ![f] = "parked"]
  /\ owed' = [owed EXCEPT ![f] = 1]
  /\ UNCHANGED host

(* A resume is queued for every fiber of F.  A fiber that registered itself *)
(* and has not parked yet may be among them: its thread is still running it *)
(* and performs the resume later.  None of them may have one queued.        *)
Wake(F) ==
  /\ F # {}
  /\ \A f \in F : status[f] # "idle" /\ owed[f] = 0
  /\ owed' = [f \in Fibers |-> IF f \in F THEN 1 ELSE owed[f]]
  /\ UNCHANGED <<status, host>>

(* Fiber::Resume from the loop of the fiber's own thread. *)
Resume(f) ==
  /\ status[f] = "parked"
  /\ owed[f] = 1
  /\ LoopRuns(host[f])
  /\ status' = [status EXCEPT ![f] = "running"]
  /\ owed' = [owed EXCEPT ![f] = 0]
  /\ UNCHANGED host

(* The end of GoRoutine. *)
End(f) ==
  /\ status[f] = "running"
  /\ owed[f] = 0
  /\ status' = [status EXCEPT ![f] = "idle"]
  /\ UNCHANGED <<owed, host>>

ContractNext ==
  \/ \E f \in Fibers : \/ \E t \in Threads : Start(f, t)
                       \/ Park(f) \/ YieldNow(f) \/ Resume(f) \/ End(f)
  \/ \E F \in SUBSET Fibers : Wake(F)

ContractSpec == ContractInit /\ [][ContractNext]_contractVars
=============================================================================
