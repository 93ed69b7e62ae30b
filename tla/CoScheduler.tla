---------------------------- MODULE CoScheduler ----------------------------
(***************************************************************************)
(* The stackless scheduler: one thread that runs scheduled coroutines and  *)
(* then asks its three emitters, in this order, for timers that ran out,   *)
(* conditions that hold and descriptors with an event, and resumes the     *)
(* coroutine that awaits each of them.                                     *)
(*                                                                         *)
(* A coroutine awaits one Event at a time, which lives in its frame, so    *)
(* that the events of the code are the tasks here.  A chain of Chainable   *)
(* coroutines that co_await one another is one task: await_suspend and     *)
(* final_suspend hand control down and up the chain without the scheduler. *)
(* What the tasks do is left to the module that extends this one.          *)
(***************************************************************************)
EXTENDS Integers, Sequences, FiniteSets

CONSTANTS Tasks, Fds, Nobody,
          MaxTime       \* bound: the clock stops there

ASSUME SchedulerAssumption == Nobody \notin Tasks /\ Nobody \notin Fds /\ MaxTime \in Nat

VARIABLES
  scheduled,            \* deque of the scheduler
  at,                   \* start, handed, timeout, condition, epoll, returned
  running,              \* the task that has control, Nobody: the scheduler
  pc,                   \* of each task; unborn, ready, ..., done, destroyed
  event,                \* what a task awaits
  awaiting,             \* Epoll::awaiting_
  conditions,           \* Condition::awaiting_
  timers,               \* Timeout::queue_
  now,
  shared                \* history: tasks that awaited a descriptor with another

emitters == <<awaiting, conditions, timers>>
schedulerVars == <<scheduled, at, running, pc, event, emitters, now, shared>>

NoDeadline == 0 - 1
NoEvent == [category |-> "none", fd |-> Nobody, deadline |-> NoDeadline, result |-> "none"]

SchedulerInit(first) ==
  /\ scheduled = first
  /\ at = "start" /\ running = Nobody
  /\ pc = [t \in Tasks |-> IF \E i \in 1..Len(first) : first[i] = t THEN "ready" ELSE "unborn"]
  /\ event = [t \in Tasks |-> NoEvent]
  /\ awaiting = [fd \in Fds |-> Nobody]
  /\ conditions = {} /\ timers = {}
  /\ now = 0 /\ shared = {}

-----------------------------------------------------------------------------
(* Awaiting: Universal::await_suspend tells every emitter and gives control *)
(* to the scheduler.  A descriptor that has a waiter keeps it (emplace).    *)
Awaits(t) == running # t /\ pc[t] \notin {"unborn", "ready", "done", "destroyed"}

EpollArrival(t, fd) ==
  IF awaiting[fd] = Nobody THEN [awaiting EXCEPT ![fd] = t] ELSE awaiting
Rivals(fd) == {t \in Tasks : Awaits(t) /\ event[t].fd = fd}

Await(t, label, e) ==
  /\ pc' = [pc EXCEPT ![t] = label]
  /\ event' = [event EXCEPT ![t] = e]
  /\ running' = Nobody
  /\ timers' = IF e.deadline # NoDeadline THEN timers \cup {t} ELSE timers
  /\ IF e.category = "epoll"
     THEN /\ awaiting' = EpollArrival(t, e.fd)
          /\ shared' = IF Rivals(e.fd) = {} THEN shared ELSE shared \cup {t} \cup Rivals(e.fd)
          /\ UNCHANGED conditions
     ELSE conditions' = conditions \cup {t} /\ UNCHANGED <<awaiting, shared>>
  /\ UNCHANGED <<scheduled, at, now>>

EpollEvent(fd, deadline) ==
  [category |-> "epoll", fd |-> fd, deadline |-> deadline, result |-> "none"]
ConditionEvent(deadline) ==
  [category |-> "condition", fd |-> Nobody, deadline |-> deadline, result |-> "none"]

(* A task goes on without giving up control.                                *)
Continue(t, label) ==
  /\ pc' = [pc EXCEPT ![t] = label]
  /\ UNCHANGED <<scheduled, at, running, event, emitters, now, shared>>

(* final_suspend: FinalContinuation hands control to the scheduler.         *)
Finish(t) ==
  /\ pc' = [pc EXCEPT ![t] = "done"] /\ running' = Nobody
  /\ UNCHANGED <<scheduled, at, event, emitters, now, shared>>

(* Scheduler::Schedule, called by a running task.                           *)
Schedule(t, new) ==
  /\ scheduled' = Append(scheduled, new)
  /\ pc' = [pc EXCEPT ![new] = "ready"]
  /\ UNCHANGED <<at, running, event, emitters, now, shared>>

-----------------------------------------------------------------------------
(* The loop.  A frame is destroyed only if the task finished when it was    *)
(* first handed control.  Destroying it ends the locals of the task, so the *)
(* module that knows them completes this step.                              *)
HandScheduled ==
  /\ at = "start" /\ scheduled # <<>>
  /\ at' = "handed" /\ running' = Head(scheduled)
  /\ pc' = [pc EXCEPT ![Head(scheduled)] = "begin"]
  /\ UNCHANGED <<scheduled, event, emitters, now, shared>>

PopScheduled ==
  /\ at = "handed" /\ running = Nobody
  /\ at' = "start" /\ scheduled' = Tail(scheduled)
  /\ pc' = IF pc[Head(scheduled)] = "done"
             THEN [pc EXCEPT ![Head(scheduled)] = "destroyed"] ELSE pc
  /\ UNCHANGED <<running, event, emitters, now, shared>>

AllEmpty == (\A fd \in Fds : awaiting[fd] = Nobody) /\ timers = {} /\ conditions = {}

CheckDone ==
  /\ at = "start" /\ scheduled = <<>>
  /\ at' = IF AllEmpty THEN "returned" ELSE "timeout"
  /\ UNCHANGED <<scheduled, running, pc, event, emitters, now, shared>>

(* yield_value: every emitter forgets the event, then its continuation      *)
(* runs.  The epoll emitter forgets whoever awaits the descriptor.          *)
TimeoutDeparture_First(t) ==
  {u \in timers : \E v \in timers : event[v].deadline < event[u].deadline}
TimeoutDeparture(t) == timers \ {t}
EpollDeparture(t) ==
  [fd \in Fds |-> IF event[t].category = "epoll" /\ fd = event[t].fd THEN Nobody ELSE awaiting[fd]]

ResumeWith(t, result) ==
  /\ timers' = TimeoutDeparture(t)
  /\ conditions' = conditions \ {t}
  /\ awaiting' = EpollDeparture(t)
  /\ event' = [event EXCEPT ![t].result = result]
  /\ running' = t
  /\ UNCHANGED <<scheduled, at, pc, now, shared>>

NextEmitter(from, to) ==
  /\ at = from /\ at' = to
  /\ UNCHANGED <<scheduled, running, pc, event, emitters, now, shared>>

(* Timeout::Emit looks at the first timer of its ordered queue only.        *)
First_Last(t) == t \in timers /\ \A u \in timers : event[u].deadline <= event[t].deadline
First(t) == t \in timers /\ \A u \in timers : event[t].deadline <= event[u].deadline
Expired(t) == First(t) /\ event[t].deadline < now

EmitTimeout ==
  /\ at = "timeout" /\ running = Nobody
  /\ \/ \E t \in timers : Expired(t) /\ ResumeWith(t, "timeout")
     \/ (\A t \in timers : ~Expired(t)) /\ NextEmitter("timeout", "condition")

(* Condition::Emit evaluates the conditions of all waiters.                 *)
EmitCondition(holding) ==
  /\ at = "condition" /\ running = Nobody
  /\ \/ \E t \in conditions \cap holding : ResumeWith(t, "wakeup")
     \/ conditions \cap holding = {} /\ NextEmitter("condition", "epoll")

(* Time only matters while a timer is set.                                  *)
Tick ==
  /\ timers # {} /\ now < MaxTime /\ now' = now + 1
  /\ UNCHANGED <<scheduled, at, running, pc, event, emitters, shared>>

Loop == HandScheduled \/ CheckDone \/ EmitTimeout

-----------------------------------------------------------------------------
(* The emitters point only at events of tasks that await them, so never     *)
(* into a frame that has gone on: a task that an emitter resumes has left   *)
(* all of them.                                                             *)
NoDanglingEvent ==
  /\ \A t \in timers : Awaits(t) /\ event[t].deadline # NoDeadline
  /\ \A t \in conditions : Awaits(t) /\ event[t].category = "condition"
  /\ \A fd \in Fds : awaiting[fd] # Nobody =>
       Awaits(awaiting[fd]) /\ event[awaiting[fd]].fd = fd

(* A task that awaits something is known to the emitters that can resume    *)
(* it, unless it awaits a descriptor together with another task.            *)
WaiterIsWatched ==
  \A t \in Tasks : Awaits(t) =>
    /\ event[t].deadline # NoDeadline => t \in timers
    /\ event[t].category = "condition" => t \in conditions
    /\ event[t].category = "epoll" /\ t \notin shared => awaiting[event[t].fd] = t

(* Run returns only when every task that was started has finished.          *)
RunFinishesAll ==
  at = "returned" => \A t \in Tasks \ shared : pc[t] \in {"unborn", "done", "destroyed"}

(* The scheduler goes on from its timers only when none of them is due.     *)
NoTimerIsPassedOver ==
  [][at = "timeout" /\ at' = "condition" => \A t \in timers : event[t].deadline >= now]_schedulerVars
=============================================================================
