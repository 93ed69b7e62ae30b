--------------------------- MODULE CoServer_proofs ---------------------------
(***************************************************************************)
(* Proofs about CoScheduler and CoServer: the events that the emitters     *)
(* hold, and what becomes of the units a peer sends, for any number of     *)
(* tasks, watchers and connections.                                        *)
(***************************************************************************)
EXTENDS CoServer, SequenceTheorems, WellFoundedInduction, TLAPS

-----------------------------------------------------------------------------
(* The inductive invariant *)

(* Where a task waits, and where it runs. *)
Waiting == {"accepting", "connecting", "reading", "writing", "watching"}
Idle == {"unborn", "ready", "done", "destroyed"}
Labels == Waiting \cup Idle \cup {"begin", "block", "try", "write", "put"}
LabelsOf(t) ==
  Idle \cup {"begin"} \cup
  (IF t = Listen THEN {"block", "accepting"}
   ELSE IF t = Client THEN {"connecting"}
   ELSE IF t \in Conns THEN {"reading", "try", "write", "put", "writing"}
   ELSE {"watching"})

Results == {"none", "wakeup", "timeout", "error", "hangup"}
Event(e) ==
  /\ e = [category |-> e.category, fd |-> e.fd, deadline |-> e.deadline, result |-> e.result]
  /\ e.category \in {"none", "epoll", "condition"}
  /\ e.fd \in Fds \cup {Nobody} /\ (e.fd \in Fds <=> e.category = "epoll")
  /\ e.deadline \in Nat \cup {NoDeadline} /\ e.result \in Results

(* The scheduler.  A task is ready while it is in the queue and has not     *)
(* been handed control.                                                     *)
TypedScheduler ==
  /\ scheduled \in Seq(Tasks)
  /\ at \in {"start", "handed", "timeout", "condition", "epoll", "returned"}
  /\ running \in Tasks \cup {Nobody} /\ now \in Nat
  /\ pc \in [Tasks -> Labels] /\ \A t \in Tasks : pc[t] \in LabelsOf(t)
  /\ DOMAIN event = Tasks /\ \A t \in Tasks : Event(event[t])
  /\ awaiting \in [Fds -> Tasks \cup {Nobody}]
  /\ timers \subseteq Tasks /\ conditions \subseteq Tasks /\ shared \subseteq Tasks
QueueIsReady ==
  /\ \A i, j \in 1..Len(scheduled) : scheduled[i] = scheduled[j] => i = j
  /\ \A t \in Tasks : pc[t] = "ready" =>
       \E i \in 1..Len(scheduled) : scheduled[i] = t /\ (at = "handed" => i # 1)
  /\ \A i \in 1..Len(scheduled) : (at = "handed" => i # 1) => pc[scheduled[i]] = "ready"
  /\ at = "handed" =>
       /\ scheduled # <<>> /\ running \in {Nobody, scheduled[1]}
       /\ pc[scheduled[1]] \notin {"unborn", "ready", "destroyed"}
  /\ at \in {"start", "returned"} => running = Nobody
  /\ at = "returned" => scheduled = <<>> /\ AllEmpty
Controlled ==
  /\ \A t \in Tasks : running # t => pc[t] \in Waiting \cup Idle
  /\ \A t \in Tasks : running = t => pc[t] \notin Idle
  /\ \A t \in Tasks : Awaits(t) => event[t].category # "none"
RivalsShare ==
  \A t, u \in Tasks :
    (t # u /\ Awaits(t) /\ Awaits(u) /\ event[t].fd = event[u].fd /\ event[t].fd \in Fds)
      => {t, u} \subseteq shared

(* The sockets and what flows through them. *)
TypedData ==
  /\ sock \in [Fds -> {"none", "queued", "open", "connecting", "failed", "closed"}]
  /\ \A c \in Conns : sock[c] \notin {"connecting", "failed"}
  /\ sent \in [Conns -> 0..Units] /\ eof \in [Conns -> BOOLEAN] /\ room \in [Conns -> 0..Room]
  /\ unread \in [Conns -> Seq(Nat)] /\ buf \in [Conns -> Seq(Nat)] /\ echoed \in [Conns -> Seq(Nat)]
  /\ interest \in [Fds -> SUBSET {"in", "out", "rdhup"}] /\ oneshot \in [Fds -> BOOLEAN]
  /\ short \subseteq Conns /\ pending \subseteq Fds
Unborn == \A c \in Conns : sock[c] \in {"none", "queued"} => pc[c] = "unborn"
Handlers ==
  \A c \in Conns :
    /\ Awaits(c) => event[c].fd = c /\ event[c].deadline = NoDeadline
    /\ form[c] = "span" =>
         /\ c \notin short /\ pc[c] \notin {"try", "put"} /\ interest[c] \subseteq {"in", "out"}
         /\ running = c /\ pc[c] = "writing" => event[c].result = "wakeup"
    /\ form[c] = "chars" /\ pc[c] \in {"unborn", "ready", "begin", "reading", "try"} =>
         buf[c] = <<>>

(* From the first unit echoed to the last one not read they rise.           *)
Whole(c) == echoed[c] \o buf[c] \o unread[c]
Rising(s, n) ==
  /\ s \in Seq(1..n)
  /\ \A i, j \in 1..Len(s) : i <= j => j - i <= s[j] - s[i]
UnitsRise == \A c \in Conns :
  /\ Rising(Whole(c), sent[c])
  /\ c \notin short => Len(Whole(c)) = sent[c]

SchedulerInv ==
  TypedScheduler /\ QueueIsReady /\ Controlled /\ NoDanglingEvent /\ WaiterIsWatched /\ RivalsShare
DataInv == TypedData /\ Unborn /\ Handlers /\ UnitsRise
IInv == SchedulerInv /\ DataInv

-----------------------------------------------------------------------------
(* The steps, by what they do to the scheduler *)

Resumed(t, result) ==
  /\ at \in {"timeout", "condition", "epoll"} /\ running = Nobody
  /\ t \in Tasks /\ result \in Results
  /\ t \in timers \cup conditions \/ \E fd \in Fds : awaiting[fd] = t
  /\ ResumeWith(t, result)
Passes ==
  /\ running = Nobody
  /\ \/ at = "timeout" /\ at' = "condition"
     \/ at = "condition" /\ at' = "epoll"
     \/ at = "epoll" /\ at' = "start"
  /\ UNCHANGED <<scheduled, running, pc, event, emitters, now, shared>>
Blocks(t, label, e) ==
  /\ t \in Tasks /\ running = t /\ label \in Waiting \cap LabelsOf(t)
  /\ Event(e) /\ e.category # "none"
  /\ Await(t, label, e)
GoesOn(t, label) ==
  /\ t \in Tasks /\ running = t /\ label \in LabelsOf(t) \ Idle
  /\ Continue(t, label)
Ends(t) == t \in Tasks /\ running = t /\ Finish(t)
Accepts(c) ==
  /\ c \in Conns /\ running = Listen /\ pc[c] = "unborn"
  /\ sock[c] = "queued" /\ sock' = [sock EXCEPT ![c] = "open"]
  /\ scheduled' = Append(scheduled, c)
  /\ pc' = [pc EXCEPT ![c] = "ready", ![Listen] = "begin"]
  /\ UNCHANGED <<at, running, event, emitters, now, shared>>
Stays ==
  /\ UNCHANGED <<scheduled, at, running, pc, event, emitters, shared>>
  /\ now' \in Nat

SchedulerSteps ==
  \/ HandScheduled \/ PopScheduled \/ CheckDone \/ Passes \/ Stays
  \/ \E t, result : Resumed(t, result)
  \/ \E t, label, e : Blocks(t, label, e)
  \/ \E t, label : GoesOn(t, label)
  \/ \E t : Ends(t)
  \/ \E c : Accepts(c)

(* The events that the tasks await. *)
LEMMA EventsDo ==
  /\ \A fd \in Fds, d \in Nat \cup {NoDeadline} :
       Event(EpollEvent(fd, d)) /\ EpollEvent(fd, d).category = "epoll"
  /\ \A d \in Nat \cup {NoDeadline} :
       Event(ConditionEvent(d)) /\ ConditionEvent(d).category = "condition"
BY SchedulerAssumption DEF Event, EpollEvent, ConditionEvent, Results

(* The tasks, and which of them serve descriptors. *)
LEMMA Names ==
  /\ Listen \in Tasks /\ Client \in Tasks /\ Listen # Client /\ Listen \notin Conns /\ Client \notin Conns
  /\ Conns \subseteq Tasks /\ Watchers \subseteq Tasks /\ Conns \cap Watchers = {}
  /\ Listen \notin Watchers /\ Client \notin Watchers
  /\ Fds = {Listen, Client} \cup Conns /\ Nobody \notin Tasks
  /\ \A t \in Tasks : t = Listen \/ t = Client \/ t \in Conns \/ t \in Watchers
BY ServerAssumption, SchedulerAssumption

(* Every step of the program is one of these for the scheduler. *)
LEMMA SchedulerStepsByKind ==
  ASSUME IInv, [Next]_vars
  PROVE  SchedulerSteps
<1> USE DEF SchedulerSteps
<1>1. /\ TypedScheduler /\ QueueIsReady /\ Controlled /\ NoDanglingEvent /\ Unborn
      /\ timers \subseteq Tasks /\ conditions \subseteq Tasks
      /\ awaiting \in [Fds -> Tasks \cup {Nobody}] /\ now \in Nat
  BY DEF IInv, SchedulerInv, DataInv, TypedScheduler
<1>3. ASSUME NEW t \in Tasks, NEW label, Continue(t, label), running = t,
             label \in LabelsOf(t) \ Idle
      PROVE  SchedulerSteps
  BY <1>3 DEF GoesOn
<1>4. ASSUME NEW t \in Tasks, NEW label, NEW fd \in Fds, NEW d \in Nat \cup {NoDeadline},
             Await(t, label, EpollEvent(fd, d)), running = t, label \in Waiting \cap LabelsOf(t)
      PROVE  SchedulerSteps
  BY <1>4, EventsDo, Zenon DEF Blocks
<1>5. CASE Loop \/ EmitCondition({t \in Tasks : Holds(t)})
  <2>1. CASE HandScheduled \/ CheckDone
    BY <2>1
  <2>2. CASE EmitTimeout
    <3>1. CASE \E t \in timers : Expired(t) /\ ResumeWith(t, "timeout")
      BY <1>1, <2>2, <3>1 DEF EmitTimeout, Resumed, Results
    <3>2. CASE NextEmitter("timeout", "condition")
      BY <2>2, <3>2 DEF EmitTimeout, NextEmitter, Passes
    <3>. QED  BY <2>2, <3>1, <3>2 DEF EmitTimeout
  <2>3. CASE EmitCondition({t \in Tasks : Holds(t)})
    <3>1. CASE \E t \in conditions : ResumeWith(t, "wakeup")
      BY <1>1, <2>3, <3>1 DEF EmitCondition, Resumed, Results
    <3>2. CASE NextEmitter("condition", "epoll")
      BY <2>3, <3>2 DEF EmitCondition, NextEmitter, Passes
    <3>. QED  BY <2>3, <3>1, <3>2 DEF EmitCondition
  <2>. QED  BY <1>5, <2>1, <2>2, <2>3 DEF Loop
<1>6. CASE PopTask
  BY <1>6 DEF PopTask
<1>7. CASE EmitEpoll
  <2>1. CASE UNCHANGED schedulerVars
    BY <1>1, <2>1 DEF schedulerVars, Stays
  <2>2. CASE NextEmitter("epoll", "start")
    BY <1>7, <2>2 DEF EmitEpoll, NextEmitter, Passes
  <2>3. ASSUME NEW fd \in pending, Sides(fd) # {}, awaiting[fd] # Nobody,
               ResumeWith(awaiting[fd], ResultOf(fd))
        PROVE  SchedulerSteps
    <3>1. fd \in Fds
      BY <2>3 DEF IInv, DataInv, TypedData
    <3>2. awaiting[fd] \in Tasks /\ ResultOf(fd) \in Results
      BY <1>1, <2>3, <3>1 DEF ResultOf, Results
    <3>. QED  BY <1>7, <2>3, <3>1, <3>2 DEF EmitEpoll, Resumed
  <2>. QED  BY <1>7, <2>1, <2>2, <2>3 DEF EmitEpoll
<1>8. CASE AcceptOne
  <2>1. PICK c \in Queued : /\ scheduled' = Append(scheduled, c)
                            /\ sock' = [sock EXCEPT ![c] = "open"]
                            /\ pc' = [pc EXCEPT ![c] = "ready", ![Listen] = "begin"]
    BY <1>8 DEF AcceptOne, AcceptAgain, Registered
  <2>2. c \in Conns /\ sock[c] = "queued" /\ pc[c] = "unborn"
    BY <1>1 DEF Queued, Unborn
  <2>. QED  BY <1>8, <2>1, <2>2 DEF AcceptOne, Accepts, At
<1>9. CASE AcceptBlocks \/ AcceptResumes \/ Connect \/ Connected
  <2>1. CASE AcceptBlocks
    BY <1>4, <2>1, Names DEF AcceptBlocks, At, Waiting, LabelsOf
  <2>2. CASE AcceptResumes
    BY <1>3, <2>2, Names DEF AcceptResumes, At, LabelsOf, Ends, Idle
  <2>3. CASE Connect
    BY <1>4, <2>3, Names DEF Connect, At, Waiting, LabelsOf
  <2>4. CASE Connected
    BY <2>4, Names DEF Connected, At, Ends
  <2>. QED  BY <1>9, <2>1, <2>2, <2>3, <2>4
<1>10. ASSUME NEW c \in Conns, Handler(c)
       PROVE  SchedulerSteps
  <2>1. c \in Tasks /\ c \in Fds /\ LabelsOf(c) = Idle \cup {"begin", "reading", "try", "write", "put", "writing"}
    BY Names DEF LabelsOf
  <2>2. CASE SpanRead(c)
    BY <1>3, <1>4, <2>1, <2>2 DEF SpanRead, At, Waiting, Idle
  <2>3. CASE SpanWrite(c)
    BY <1>3, <1>4, <2>1, <2>3 DEF SpanWrite, At, Waiting, Idle, Ends
  <2>4. CASE CharsRead(c) \/ CharsWrite(c)
    BY <1>4, <2>1, <2>4 DEF CharsRead, CharsWrite, At, Waiting
  <2>5. CASE CharsReadTry(c) \/ CharsWriteTry(c) \/ Resumes(c)
    BY <1>3, <2>1, <2>5 DEF CharsReadTry, CharsWriteTry, Resumes, At, Idle
  <2>. QED  BY <1>10, <2>2, <2>3, <2>4, <2>5 DEF Handler
<1>11. ASSUME NEW w \in Watchers, Watch(w) \/ Watched(w)
       PROVE  SchedulerSteps
  <2>1. w \in Tasks /\ "watching" \in Waiting \cap LabelsOf(w)
    BY Names DEF LabelsOf, Waiting
  <2>2. running = w
    BY <1>11 DEF Watch, Watched, At
  <2>3. deadline[w] \in Nat \cup {NoDeadline} /\ watched[w] \in Fds \cup {Nobody}
    BY ServerAssumption
  <2>4. CASE Finish(w)
    BY <2>1, <2>2, <2>4 DEF Ends
  <2>5. CASE Await(w, "watching", ConditionEvent(deadline[w]))
    <3>1. Blocks(w, "watching", ConditionEvent(deadline[w]))
      BY <2>1, <2>2, <2>3, <2>5, EventsDo DEF Blocks
    <3>. QED  BY <3>1
  <2>6. CASE watched[w] # Nobody /\ Await(w, "watching", EpollEvent(watched[w], deadline[w]))
    BY <1>4, <2>1, <2>2, <2>3, <2>6
  <2>. QED  BY <1>11, <2>4, <2>5, <2>6 DEF Watch, Watched
<1>12. CASE Tick
  BY <1>1, <1>12 DEF Tick, Stays
<1>13. CASE UNCHANGED vars \/ PeerAnswers \/ \E c \in Conns : PeerConnects(c) \/ PeerSends(c) \/ PeerShuts(c) \/ PeerReads(c)
  <2>1. UNCHANGED schedulerVars
    BY <1>13 DEF vars, PeerAnswers, PeerConnects, PeerSends, PeerShuts, PeerReads
  <2>. QED  BY <1>1, <2>1 DEF schedulerVars, Stays
<1>. QED
  BY <1>5, <1>6, <1>7, <1>8, <1>9, <1>10, <1>11, <1>12, <1>13, Zenon DEF Next, Program

-----------------------------------------------------------------------------
(* Every step keeps the scheduler's part *)

(* Values stay in their ranges. *)
LEMMA TypedSchedulerStep ==
  ASSUME TypedScheduler, QueueIsReady, SchedulerSteps
  PROVE  TypedScheduler'
<1> USE DEF TypedScheduler
<1>0. /\ \A t \in Tasks : Idle \cup {"begin"} \subseteq LabelsOf(t) /\ LabelsOf(t) \subseteq Labels
      /\ \A t, u \in Tasks : u \in DOMAIN pc
  BY DEF LabelsOf, Idle, Labels, Waiting
<1>1. CASE HandScheduled
  <2>1. Head(scheduled) \in Tasks
    BY <1>1 DEF HandScheduled
  <2>. QED  BY <1>0, <1>1, <2>1 DEF HandScheduled, emitters, Idle, Labels
<1>2. CASE PopScheduled
  <2>1. scheduled # <<>> /\ Head(scheduled) \in Tasks /\ Tail(scheduled) \in Seq(Tasks)
    BY <1>2 DEF PopScheduled, QueueIsReady
  <2>. QED  BY <1>0, <1>2, <2>1 DEF PopScheduled, emitters, Idle, Labels
<1>3. CASE CheckDone \/ Passes \/ Stays
  BY <1>3 DEF CheckDone, Passes, Stays, emitters
<1>4. ASSUME NEW t, NEW result, Resumed(t, result)
      PROVE  TypedScheduler'
  <2>1. /\ t \in Tasks /\ result \in Results
        /\ timers' = timers \ {t} /\ conditions' = conditions \ {t}
        /\ awaiting' = EpollDeparture(t) /\ event' = [event EXCEPT ![t].result = result]
        /\ running' = t /\ UNCHANGED <<scheduled, at, pc, now, shared>>
    BY <1>4 DEF Resumed, ResumeWith, TimeoutDeparture
  <2>2. awaiting' \in [Fds -> Tasks \cup {Nobody}]
    BY <2>1 DEF EpollDeparture
  <2>3. DOMAIN event' = Tasks /\ \A u \in Tasks : Event(event'[u])
    <3>1. Event(event[t])
      BY <2>1
    <3>2. event'[t] = [category |-> event[t].category, fd |-> event[t].fd,
                       deadline |-> event[t].deadline, result |-> result]
      BY <2>1, <3>1 DEF Event
    <3>3. Event(event'[t])
      BY <2>1, <3>1, <3>2 DEF Event
    <3>. QED  BY <2>1, <3>3
  <2>. QED  BY <2>1, <2>2, <2>3
<1>5. ASSUME NEW t, NEW label, NEW e, Blocks(t, label, e)
      PROVE  TypedScheduler'
  <2>1. /\ t \in Tasks /\ label \in LabelsOf(t) /\ Event(e)
        /\ pc' = [pc EXCEPT ![t] = label] /\ event' = [event EXCEPT ![t] = e]
        /\ running' = Nobody /\ timers' \in {timers, timers \cup {t}}
        /\ UNCHANGED <<scheduled, at, now>>
    BY <1>5 DEF Blocks, Await
  <2>2. /\ conditions' \in {conditions, conditions \cup {t}}
        /\ awaiting' \in {awaiting, EpollArrival(t, e.fd)}
        /\ shared' \in {shared, shared \cup {t} \cup Rivals(e.fd)}
    BY <1>5 DEF Blocks, Await
  <2>3. Rivals(e.fd) \subseteq Tasks /\ EpollArrival(t, e.fd) \in [Fds -> Tasks \cup {Nobody}]
    BY <2>1 DEF Rivals, EpollArrival
  <2>4. pc' \in [Tasks -> Labels] /\ \A u \in Tasks : pc'[u] \in LabelsOf(u)
    BY <1>0, <2>1
  <2>5. DOMAIN event' = Tasks /\ \A u \in Tasks : Event(event'[u])
    BY <2>1
  <2>6. timers' \subseteq Tasks /\ conditions' \subseteq Tasks /\ shared' \subseteq Tasks
        /\ awaiting' \in [Fds -> Tasks \cup {Nobody}]
    BY <2>1, <2>2, <2>3
  <2>. QED  BY <2>1, <2>4, <2>5, <2>6
<1>6. ASSUME NEW t, NEW label, GoesOn(t, label)
      PROVE  TypedScheduler'
  BY <1>0, <1>6 DEF GoesOn, Continue, emitters
<1>7. ASSUME NEW t, Ends(t)
      PROVE  TypedScheduler'
  BY <1>0, <1>7 DEF Ends, Finish, emitters, Idle
<1>8. ASSUME NEW c, Accepts(c)
      PROVE  TypedScheduler'
  <2>1. c \in Tasks /\ Listen \in Tasks /\ c # Listen
    BY <1>8, Names DEF Accepts
  <2>. QED  BY <1>0, <1>8, <2>1 DEF Accepts, emitters, Idle
<1>. QED
  BY <1>1, <1>2, <1>3, <1>4, <1>5, <1>6, <1>7, <1>8, Zenon DEF SchedulerSteps

(* The queue holds each ready task once, and no other but the one handed    *)
(* control.                                                                 *)
LEMMA QueueStep ==
  ASSUME TypedScheduler, QueueIsReady, Controlled, NoDanglingEvent, SchedulerSteps
  PROVE  QueueIsReady'
<1> USE DEF QueueIsReady
<1>0. /\ Nobody \notin Tasks /\ scheduled \in Seq(Tasks) /\ pc \in [Tasks -> Labels]
      /\ \A i \in 1..Len(scheduled) : scheduled[i] \in Tasks
  BY Names DEF TypedScheduler
<1>1. CASE HandScheduled
  <2>1. /\ at = "start" /\ at' = "handed" /\ scheduled # <<>> /\ scheduled' = scheduled
        /\ running' = scheduled[1] /\ pc' = [pc EXCEPT ![scheduled[1]] = "begin"]
        /\ UNCHANGED <<event, emitters, now, shared>>
    BY <1>1 DEF HandScheduled
  <2>2. 1 \in 1..Len(scheduled)
    BY <1>0, <2>1
  <2>. QED  BY <1>0, <2>1, <2>2
<1>2. CASE PopScheduled
  <2>1. /\ at = "handed" /\ at' = "start" /\ running = Nobody /\ running' = Nobody
        /\ scheduled # <<>> /\ scheduled' = Tail(scheduled)
        /\ pc' = IF pc[scheduled[1]] = "done" THEN [pc EXCEPT ![scheduled[1]] = "destroyed"] ELSE pc
    BY <1>2 DEF PopScheduled
  <2>2. /\ Len(scheduled') = Len(scheduled) - 1 /\ 1 \in 1..Len(scheduled)
        /\ \A i \in 1..Len(scheduled') : i + 1 \in 1..Len(scheduled) /\ scheduled'[i] = scheduled[i + 1]
    BY <1>0, <2>1
  <2>3. \A t \in Tasks : t # scheduled[1] => pc'[t] = pc[t]
    BY <1>0, <2>1
  <2>4. pc'[scheduled[1]] # "ready"
    BY <1>0, <2>1, <2>2
  <2>5. \A t \in Tasks : pc'[t] = "ready" => \E i \in 1..Len(scheduled') : scheduled'[i] = t
    <3>1. SUFFICES ASSUME NEW t \in Tasks, pc'[t] = "ready"
                   PROVE  \E i \in 1..Len(scheduled') : scheduled'[i] = t
      OBVIOUS
    <3>2. PICK i \in 1..Len(scheduled) : scheduled[i] = t /\ i # 1
      BY <2>1, <2>3, <2>4, <3>1
    <3>3. i - 1 \in 1..Len(scheduled') /\ scheduled'[i - 1] = t
      BY <1>0, <2>2, <3>2
    <3>. QED  BY <3>3
  <2>6. \A i \in 1..Len(scheduled') : pc'[scheduled'[i]] = "ready"
    <3>1. SUFFICES ASSUME NEW i \in 1..Len(scheduled') PROVE pc'[scheduled'[i]] = "ready"
      OBVIOUS
    <3>2. i + 1 \in 1..Len(scheduled) /\ i + 1 # 1 /\ scheduled'[i] = scheduled[i + 1]
      BY <1>0, <2>2
    <3>3. scheduled[i + 1] # scheduled[1] /\ pc[scheduled[i + 1]] = "ready"
      BY <2>1, <2>2, <3>2
    <3>. QED  BY <1>0, <2>3, <3>2, <3>3
  <2>7. \A i, j \in 1..Len(scheduled') : scheduled'[i] = scheduled'[j] => i = j
    BY <1>0, <2>2
  <2>. QED  BY <2>1, <2>5, <2>6, <2>7
<1>3. CASE CheckDone
  <2>1. scheduled = <<>> /\ at = "start" /\ at' \in {"returned", "timeout"} /\ (at' = "returned" => AllEmpty)
        /\ UNCHANGED <<scheduled, running, pc, event, emitters, now, shared>>
    BY <1>3 DEF CheckDone
  <2>2. AllEmpty' = AllEmpty
    BY <2>1 DEF AllEmpty, emitters
  <2>. QED  BY <2>1, <2>2
<1>4. CASE Passes
  BY <1>4 DEF Passes
<1>5. CASE Stays
  BY <1>5 DEF Stays, AllEmpty, emitters
<1>6. ASSUME NEW t, NEW result, Resumed(t, result)
      PROVE  QueueIsReady'
  BY <1>6 DEF Resumed, ResumeWith
<1>7. ASSUME NEW t, NEW label, NEW e, Blocks(t, label, e)
      PROVE  QueueIsReady'
  <2>1. /\ t \in Tasks /\ running = t /\ label \notin Idle /\ pc[t] \notin Idle
        /\ pc' = [pc EXCEPT ![t] = label] /\ running' = Nobody /\ UNCHANGED <<scheduled, at>>
    BY <1>7 DEF Blocks, Await, Waiting, Idle, Controlled
  <2>2. at \notin {"start", "returned"}
    BY <1>0, <2>1
  <2>. QED  BY <1>0, <2>1, <2>2 DEF Idle
<1>8. ASSUME NEW t, NEW label, GoesOn(t, label)
      PROVE  QueueIsReady'
  <2>1. /\ t \in Tasks /\ running = t /\ label \notin Idle /\ pc[t] \notin Idle
        /\ pc' = [pc EXCEPT ![t] = label] /\ UNCHANGED <<scheduled, at, running>>
    BY <1>8 DEF GoesOn, Continue, Controlled
  <2>2. at \notin {"start", "returned"}
    BY <1>0, <2>1
  <2>. QED  BY <1>0, <2>1, <2>2 DEF Idle
<1>9. ASSUME NEW t, Ends(t)
      PROVE  QueueIsReady'
  <2>1. /\ t \in Tasks /\ running = t /\ pc[t] \notin Idle
        /\ pc' = [pc EXCEPT ![t] = "done"] /\ running' = Nobody /\ UNCHANGED <<scheduled, at>>
    BY <1>9 DEF Ends, Finish, Controlled
  <2>2. at \notin {"start", "returned"}
    BY <1>0, <2>1
  <2>. QED  BY <1>0, <2>1, <2>2 DEF Idle
<1>10. ASSUME NEW c, Accepts(c)
       PROVE  QueueIsReady'
  <2>1. /\ c \in Tasks /\ Listen \in Tasks /\ c # Listen /\ pc[c] = "unborn"
        /\ running = Listen /\ pc[Listen] \notin Idle
        /\ pc' = [pc EXCEPT ![c] = "ready", ![Listen] = "begin"]
        /\ scheduled' = Append(scheduled, c) /\ UNCHANGED <<at, running>>
    BY <1>10, Names DEF Accepts, Controlled
  <2>2. at \notin {"start", "returned"}
    BY <1>0, <2>1
  <2>3. /\ Len(scheduled') = Len(scheduled) + 1 /\ scheduled'[Len(scheduled')] = c
        /\ \A i \in 1..Len(scheduled) : scheduled'[i] = scheduled[i]
        /\ Len(scheduled) \in Nat
    BY <1>0, <2>1
  <2>4. \A i \in 1..Len(scheduled) : scheduled[i] # c
    BY <2>1
  <2>5. \A i, j \in 1..Len(scheduled') : scheduled'[i] = scheduled'[j] => i = j
    BY <1>0, <2>3, <2>4
  <2>6. /\ pc'[c] = "ready" /\ pc'[Listen] = "begin"
        /\ \A t \in Tasks \ {c, Listen} : pc'[t] = pc[t]
    BY <1>0, <2>1
  <2>7. \A t \in Tasks : pc'[t] = "ready" =>
           \E i \in 1..Len(scheduled') : scheduled'[i] = t /\ (at' = "handed" => i # 1)
    <3>1. SUFFICES ASSUME NEW t \in Tasks, pc'[t] = "ready"
                   PROVE  \E i \in 1..Len(scheduled') : scheduled'[i] = t /\ (at' = "handed" => i # 1)
      OBVIOUS
    <3>2. CASE t = c
      <4>1. Len(scheduled') \in 1..Len(scheduled') /\ (at' = "handed" => Len(scheduled') # 1)
        BY <1>0, <2>1, <2>3
      <4>. QED  BY <2>3, <3>2, <4>1
    <3>3. CASE t # c
      <4>1. PICK i \in 1..Len(scheduled) : scheduled[i] = t /\ (at = "handed" => i # 1)
        BY <2>6, <3>1, <3>3
      <4>. QED  BY <2>1, <2>3, <4>1
    <3>. QED  BY <3>2, <3>3
  <2>8. \A i \in 1..Len(scheduled') : (at' = "handed" => i # 1) => pc'[scheduled'[i]] = "ready"
    <3>1. SUFFICES ASSUME NEW i \in 1..Len(scheduled'), at' = "handed" => i # 1
                   PROVE  pc'[scheduled'[i]] = "ready"
      OBVIOUS
    <3>2. CASE i = Len(scheduled')
      BY <2>3, <2>6, <3>2
    <3>3. CASE i # Len(scheduled')
      <4>1. i \in 1..Len(scheduled) /\ scheduled'[i] = scheduled[i] /\ pc[scheduled[i]] = "ready"
        BY <2>1, <2>3, <3>1, <3>3
      <4>. QED  BY <1>0, <2>1, <2>6, <4>1 DEF Idle
    <3>. QED  BY <3>2, <3>3
  <2>9. at' = "handed" =>
          /\ scheduled' # <<>> /\ running' \in {Nobody, scheduled'[1]}
          /\ pc'[scheduled'[1]] \notin {"unborn", "ready", "destroyed"}
    <3>1. SUFFICES ASSUME at = "handed"
                   PROVE  /\ scheduled' # <<>> /\ running' \in {Nobody, scheduled'[1]}
                          /\ pc'[scheduled'[1]] \notin {"unborn", "ready", "destroyed"}
      BY <2>1
    <3>2. 1 \in 1..Len(scheduled) /\ scheduled'[1] = scheduled[1] /\ scheduled[1] = Listen
      BY <1>0, <2>1, <2>3, <3>1
    <3>. QED  BY <2>1, <2>3, <2>6, <3>1, <3>2
  <2>. QED  BY <2>1, <2>2, <2>5, <2>7, <2>8, <2>9
<1>. QED
  BY <1>1, <1>2, <1>3, <1>4, <1>5, <1>6, <1>7, <1>8, <1>9, <1>10, Zenon DEF SchedulerSteps

EventsInv == Controlled /\ NoDanglingEvent /\ WaiterIsWatched /\ RivalsShare

(* A step of the queue and the loop: nobody begins or ends to wait. *)
LEMMA EventsStay ==
  ASSUME TypedScheduler, EventsInv, UNCHANGED <<event, emitters, shared>>,
         \A t \in Tasks : /\ Awaits(t)' <=> Awaits(t)
                          /\ running' # t => pc'[t] \in Waiting \cup Idle
                          /\ running' = t => pc'[t] \notin Idle
  PROVE  EventsInv'
<1> USE DEF Awaits
<1>1. Controlled'
  BY DEF EventsInv, Controlled
<1>2. NoDanglingEvent'
  BY DEF EventsInv, NoDanglingEvent, emitters, TypedScheduler
<1>3. WaiterIsWatched'
  BY DEF EventsInv, WaiterIsWatched, emitters
<1>4. RivalsShare'
  BY DEF EventsInv, RivalsShare
<1>. QED  BY <1>1, <1>2, <1>3, <1>4 DEF EventsInv

(* The task that an emitter resumes leaves all emitters; whoever awaits its *)
(* descriptor too has awaited it with another task.                         *)
LEMMA ResumedKeepsEvents ==
  ASSUME TypedScheduler, EventsInv, NEW t, NEW result, Resumed(t, result)
  PROVE  EventsInv'
<1> USE DEF Awaits
<1>1. /\ t \in Tasks /\ Nobody \notin Tasks /\ running = Nobody /\ running' = t
      /\ timers' = timers \ {t} /\ conditions' = conditions \ {t}
      /\ awaiting' = [fd \in Fds |-> IF event[t].category = "epoll" /\ fd = event[t].fd
                                       THEN Nobody ELSE awaiting[fd]]
      /\ UNCHANGED <<pc, shared>>
      /\ event' = [event EXCEPT ![t].result = result]
      /\ t \in timers \cup conditions \/ \E fd \in Fds : awaiting[fd] = t
  BY Names DEF Resumed, ResumeWith, TimeoutDeparture, EpollDeparture
<1>2. pc[t] \notin Idle
  BY <1>1 DEF EventsInv, NoDanglingEvent, Idle
<1>3. /\ \A u \in Tasks : event'[u].fd = event[u].fd /\ event'[u].category = event[u].category
                          /\ event'[u].deadline = event[u].deadline
  <2>1. Event(event[t])
    BY <1>1 DEF TypedScheduler
  <2>2. event'[t] = [event[t] EXCEPT !.result = result] /\ \A u \in Tasks \ {t} : event'[u] = event[u]
    BY <1>1 DEF TypedScheduler
  <2>. QED  BY <2>1, <2>2 DEF Event
<1>4. \A fd \in Fds : awaiting[fd] # Nobody =>
        /\ awaiting[fd] \in Tasks /\ Awaits(awaiting[fd]) /\ event[awaiting[fd]].fd = fd
        /\ event[awaiting[fd]].category = "epoll"
  BY DEF EventsInv, NoDanglingEvent, TypedScheduler, Event
<1>5. Controlled'
  BY <1>1, <1>2, <1>3 DEF EventsInv, Controlled, Idle
<1>6. NoDanglingEvent'
  <2>1. \A u \in timers' \cup conditions' : Awaits(u)' /\ u \in Tasks
    BY <1>1 DEF EventsInv, NoDanglingEvent, TypedScheduler
  <2>2. ASSUME NEW fd \in Fds, awaiting'[fd] # Nobody
        PROVE  Awaits(awaiting[fd])' /\ event'[awaiting'[fd]].fd = fd
    <3>1. awaiting'[fd] = awaiting[fd] /\ awaiting[fd] # t
      BY <1>1, <1>4, <2>2
    <3>. QED  BY <1>1, <1>3, <1>4, <2>2, <3>1
  <2>. QED  BY <1>1, <1>3, <2>1, <2>2 DEF EventsInv, NoDanglingEvent
<1>7. WaiterIsWatched'
  <2>1. SUFFICES ASSUME NEW u \in Tasks, u # t, Awaits(u)
                 PROVE  /\ event[u].deadline # NoDeadline => u \in timers'
                        /\ event[u].category = "condition" => u \in conditions'
                        /\ event[u].category = "epoll" /\ u \notin shared => awaiting'[event[u].fd] = u
    BY <1>1, <1>3 DEF WaiterIsWatched
  <2>2. /\ event[u].deadline # NoDeadline => u \in timers
        /\ event[u].category = "condition" => u \in conditions
        /\ event[u].category = "epoll" /\ u \notin shared => awaiting[event[u].fd] = u
    BY <2>1 DEF EventsInv, WaiterIsWatched
  <2>3. ASSUME event[u].category = "epoll", u \notin shared
        PROVE  awaiting'[event[u].fd] = u
    <3>1. event[u].fd \in Fds
      BY <2>3 DEF TypedScheduler, Event
    <3>2. ~(event[t].category = "epoll" /\ event[t].fd = event[u].fd)
      BY <1>1, <1>2, <2>1, <2>3, <3>1 DEF EventsInv, RivalsShare, Idle
    <3>. QED  BY <1>1, <2>2, <2>3, <3>1, <3>2
  <2>. QED  BY <1>1, <2>1, <2>2, <2>3
<1>8. RivalsShare'
  BY <1>1, <1>3 DEF EventsInv, RivalsShare
<1>. QED  BY <1>5, <1>6, <1>7, <1>8 DEF EventsInv

(* A task that begins to wait is told to every emitter that can resume it,  *)
(* unless the descriptor has a waiter already: then both share it.          *)
LEMMA BlocksKeepsEvents ==
  ASSUME TypedScheduler, EventsInv, NEW t, NEW label, NEW e, Blocks(t, label, e)
  PROVE  EventsInv'
<1> USE DEF Awaits
<1>1. /\ t \in Tasks /\ Nobody \notin Tasks /\ running = t /\ running' = Nobody
      /\ label \in Waiting /\ Event(e) /\ e.category # "none"
      /\ pc' = [pc EXCEPT ![t] = label] /\ event' = [event EXCEPT ![t] = e]
      /\ timers' = IF e.deadline # NoDeadline THEN timers \cup {t} ELSE timers
      /\ IF e.category = "epoll"
         THEN /\ awaiting' = EpollArrival(t, e.fd)
              /\ shared' = IF Rivals(e.fd) = {} THEN shared ELSE shared \cup {t} \cup Rivals(e.fd)
              /\ UNCHANGED conditions
         ELSE conditions' = conditions \cup {t} /\ UNCHANGED <<awaiting, shared>>
  BY Names DEF Blocks, Await
<1>2. /\ label \notin Idle
      /\ e.category \in {"epoll", "condition"} /\ (e.fd \in Fds <=> e.category = "epoll")
  BY <1>1 DEF Waiting, Idle, Event
<1>3. /\ pc'[t] = label /\ event'[t] = e
      /\ \A u \in Tasks \ {t} : pc'[u] = pc[u] /\ event'[u] = event[u] /\ (Awaits(u)' <=> Awaits(u))
      /\ Awaits(t)' /\ ~Awaits(t)
  BY <1>1, <1>2 DEF TypedScheduler, Idle
<1>4. /\ t \notin timers /\ t \notin conditions
      /\ \A fd \in Fds : awaiting[fd] # Nobody =>
           /\ awaiting[fd] \in Tasks /\ Awaits(awaiting[fd]) /\ event[awaiting[fd]].fd = fd
  BY <1>3 DEF EventsInv, NoDanglingEvent, TypedScheduler
<1>5. /\ e.category = "epoll" =>
           /\ e.fd \in Fds
           /\ awaiting' \in [Fds -> Tasks \cup {Nobody}]
           /\ \A fd \in Fds : awaiting'[fd] = IF fd = e.fd /\ awaiting[fd] = Nobody THEN t ELSE awaiting[fd]
      /\ e.category # "epoll" => awaiting' = awaiting
  BY <1>1, <1>2 DEF EpollArrival, TypedScheduler
<1>6. shared \subseteq shared'
  BY <1>1, <1>2
<1>7. Controlled'
  BY <1>1, <1>2, <1>3 DEF EventsInv, Controlled, Idle
<1>8. NoDanglingEvent'
  <2>1. \A u \in timers' : Awaits(u)' /\ event'[u].deadline # NoDeadline
    BY <1>1, <1>3 DEF EventsInv, NoDanglingEvent, TypedScheduler
  <2>2. \A u \in conditions' : Awaits(u)' /\ event'[u].category = "condition"
    BY <1>1, <1>2, <1>3 DEF EventsInv, NoDanglingEvent, TypedScheduler
  <2>3. ASSUME NEW fd \in Fds, awaiting'[fd] # Nobody
        PROVE  Awaits(awaiting[fd])' /\ event'[awaiting'[fd]].fd = fd
    <3>1. CASE awaiting'[fd] = awaiting[fd]
      <4>1. awaiting[fd] \in Tasks \ {t} /\ event[awaiting[fd]].fd = fd /\ Awaits(awaiting[fd])
        BY <1>3, <1>4, <2>3, <3>1
      <4>. QED  BY <1>1, <1>3, <3>1, <4>1
    <3>2. CASE awaiting'[fd] # awaiting[fd]
      <4>1. fd = e.fd /\ awaiting'[fd] = t
        BY <1>5, <3>2
      <4>. QED  BY <1>1, <1>3, <4>1
    <3>. QED  BY <3>1, <3>2
  <2>. QED  BY <2>1, <2>2, <2>3 DEF NoDanglingEvent
<1>9. WaiterIsWatched'
  <2>1. SUFFICES ASSUME NEW u \in Tasks, Awaits(u)'
                 PROVE  /\ event'[u].deadline # NoDeadline => u \in timers'
                        /\ event'[u].category = "condition" => u \in conditions'
                        /\ event'[u].category = "epoll" /\ u \notin shared' => awaiting'[event'[u].fd] = u
    BY DEF WaiterIsWatched
  <2>2. CASE u = t
    <3>1. ASSUME e.category = "epoll", t \notin shared'
          PROVE  awaiting'[e.fd] = t
      <4>1. Rivals(e.fd) = {} /\ e.fd \in Fds
        BY <1>1, <1>2, <3>1
      <4>2. awaiting[e.fd] = Nobody
        BY <1>4, <4>1 DEF Rivals
      <4>. QED  BY <1>5, <3>1, <4>1, <4>2
    <3>. QED  BY <1>1, <1>2, <1>3, <2>2, <3>1
  <2>3. CASE u # t
    <3>1. /\ event'[u] = event[u] /\ Awaits(u)
          /\ event[u].deadline # NoDeadline => u \in timers
          /\ event[u].category = "condition" => u \in conditions
          /\ event[u].category = "epoll" /\ u \notin shared => awaiting[event[u].fd] = u
      BY <1>3, <2>1, <2>3 DEF EventsInv, WaiterIsWatched
    <3>2. event[u].category = "epoll" => event[u].fd \in Fds
      BY DEF TypedScheduler, Event
    <3>3. event[u].category = "epoll" /\ u \notin shared' => awaiting'[event[u].fd] = u
      BY <1>1, <1>5, <1>6, <3>1, <3>2
    <3>. QED  BY <1>1, <3>1, <3>3
  <2>. QED  BY <2>2, <2>3
<1>10. RivalsShare'
  <2>1. SUFFICES ASSUME NEW u \in Tasks, NEW w \in Tasks, u # w, Awaits(u)', Awaits(w)',
                        event'[u].fd = event'[w].fd, event'[u].fd \in Fds
                 PROVE  {u, w} \subseteq shared'
    BY DEF RivalsShare
  <2>2. ASSUME NEW x \in Tasks \ {t}, Awaits(x)', event'[x].fd = e.fd, e.fd \in Fds
        PROVE  {x, t} \subseteq shared'
    <3>1. x \in Rivals(e.fd)
      BY <1>3, <2>2 DEF Rivals
    <3>. QED  BY <1>1, <1>2, <2>2, <3>1
  <2>3. CASE u = t \/ w = t
    BY <1>3, <2>1, <2>2, <2>3
  <2>4. CASE u # t /\ w # t
    BY <1>3, <1>6, <2>1, <2>4 DEF EventsInv, RivalsShare
  <2>. QED  BY <2>3, <2>4
<1>. QED  BY <1>7, <1>8, <1>9, <1>10 DEF EventsInv

(* No step leaves an emitter with an event that its task has gone on from,  *)
(* or a waiter without its emitters.                                        *)
LEMMA EventsStep ==
  ASSUME TypedScheduler, QueueIsReady, EventsInv, SchedulerSteps
  PROVE  EventsInv'
<1> USE DEF Awaits, Idle
<1>0. Controlled /\ Nobody \notin Tasks /\ pc \in [Tasks -> Labels]
  BY Names DEF EventsInv, TypedScheduler
<1>1. CASE HandScheduled
  <2>1. /\ at = "start" /\ running = Nobody /\ scheduled # <<>>
        /\ running' = scheduled[1] /\ pc' = [pc EXCEPT ![scheduled[1]] = "begin"]
        /\ UNCHANGED <<event, emitters, now, shared>>
    BY <1>1 DEF HandScheduled, QueueIsReady
  <2>2. scheduled[1] \in Tasks /\ pc[scheduled[1]] = "ready"
    <3>1. 1 \in 1..Len(scheduled)
      BY <2>1 DEF TypedScheduler
    <3>. QED  BY <2>1, <3>1 DEF TypedScheduler, QueueIsReady
  <2>3. \A t \in Tasks : /\ Awaits(t)' <=> Awaits(t)
                         /\ running' # t => pc'[t] \in Waiting \cup Idle
                         /\ running' = t => pc'[t] \notin Idle
    BY <1>0, <2>1, <2>2 DEF Controlled
  <2>. QED  BY <2>1, <2>3, EventsStay
<1>2. CASE PopScheduled
  <2>1. /\ running = Nobody /\ running' = Nobody /\ scheduled # <<>>
        /\ pc' = IF pc[scheduled[1]] = "done" THEN [pc EXCEPT ![scheduled[1]] = "destroyed"] ELSE pc
        /\ UNCHANGED <<event, emitters, now, shared>>
    BY <1>2 DEF PopScheduled, QueueIsReady
  <2>2. \A t \in Tasks : /\ Awaits(t)' <=> Awaits(t)
                         /\ running' # t => pc'[t] \in Waiting \cup Idle
                         /\ running' = t => pc'[t] \notin Idle
    BY <1>0, <2>1 DEF Controlled
  <2>. QED  BY <2>1, <2>2, EventsStay
<1>3. CASE CheckDone \/ Passes \/ Stays
  <2>1. UNCHANGED <<pc, running, event, emitters, shared>>
    BY <1>3 DEF CheckDone, Passes, Stays
  <2>. QED  BY <1>0, <2>1, EventsStay DEF Controlled
<1>4. ASSUME NEW t, NEW label, GoesOn(t, label)
      PROVE  EventsInv'
  <2>1. /\ t \in Tasks /\ running = t /\ label \notin Idle /\ pc' = [pc EXCEPT ![t] = label]
        /\ UNCHANGED <<running, event, emitters, shared>>
    BY <1>4 DEF GoesOn, Continue
  <2>2. \A u \in Tasks : /\ Awaits(u)' <=> Awaits(u)
                         /\ running' # u => pc'[u] \in Waiting \cup Idle
                         /\ running' = u => pc'[u] \notin Idle
    BY <1>0, <2>1 DEF Controlled
  <2>. QED  BY <2>1, <2>2, EventsStay
<1>5. ASSUME NEW t, Ends(t)
      PROVE  EventsInv'
  <2>1. /\ t \in Tasks /\ running = t /\ pc' = [pc EXCEPT ![t] = "done"] /\ running' = Nobody
        /\ UNCHANGED <<event, emitters, shared>>
    BY <1>5 DEF Ends, Finish
  <2>2. \A u \in Tasks : /\ Awaits(u)' <=> Awaits(u)
                         /\ running' # u => pc'[u] \in Waiting \cup Idle
                         /\ running' = u => pc'[u] \notin Idle
    BY <1>0, <2>1 DEF Controlled
  <2>. QED  BY <2>1, <2>2, EventsStay
<1>6. ASSUME NEW c, Accepts(c)
      PROVE  EventsInv'
  <2>1. /\ c \in Tasks /\ Listen \in Tasks /\ c # Listen /\ running = Listen /\ pc[c] = "unborn"
        /\ pc' = [pc EXCEPT ![c] = "ready", ![Listen] = "begin"]
        /\ UNCHANGED <<running, event, emitters, shared>>
    BY <1>6, Names DEF Accepts
  <2>2. \A u \in Tasks : /\ Awaits(u)' <=> Awaits(u)
                         /\ running' # u => pc'[u] \in Waiting \cup Idle
                         /\ running' = u => pc'[u] \notin Idle
    BY <1>0, <2>1 DEF Controlled
  <2>. QED  BY <2>1, <2>2, EventsStay
<1>. QED
  BY <1>1, <1>2, <1>3, <1>4, <1>5, <1>6, ResumedKeepsEvents, BlocksKeepsEvents, Zenon
  DEF SchedulerSteps
-----------------------------------------------------------------------------
(* Rising sequences of units *)

(* The first k elements of a sequence and the others. *)
LEMMA TakeAndDrop ==
  ASSUME NEW S, NEW s \in Seq(S), NEW k \in 0..Len(s)
  PROVE  /\ SubSeq(s, 1, k) \in Seq(S) /\ Len(SubSeq(s, 1, k)) = k
         /\ \A i \in 1..k : SubSeq(s, 1, k)[i] = s[i]
         /\ SubSeq(s, k + 1, Len(s)) \in Seq(S) /\ Len(SubSeq(s, k + 1, Len(s))) = Len(s) - k
         /\ \A i \in 1..(Len(s) - k) : SubSeq(s, k + 1, Len(s))[i] = s[k + i]
<1>1. Len(s) \in Nat /\ \A i \in 1..Len(s) : s[i] \in S
  OBVIOUS
<1>2. /\ SubSeq(s, 1, k) \in Seq(S)
      /\ Len(SubSeq(s, 1, k)) = IF 1 <= k THEN k - 1 + 1 ELSE 0
      /\ \A i \in 1..(k - 1 + 1) : SubSeq(s, 1, k)[i] = s[1 + i - 1]
  <2>1. \A i \in 1..k : s[i] \in S
    BY <1>1
  <2>2. 1 \in Int /\ k \in Int
    BY <1>1
  <2>. QED  BY ONLY <2>1, <2>2, SubSeqProperties
<1>3. /\ SubSeq(s, k + 1, Len(s)) \in Seq(S)
      /\ Len(SubSeq(s, k + 1, Len(s))) = IF k + 1 <= Len(s) THEN Len(s) - (k + 1) + 1 ELSE 0
      /\ \A i \in 1..(Len(s) - (k + 1) + 1) : SubSeq(s, k + 1, Len(s))[i] = s[(k + 1) + i - 1]
  <2>1. \A i \in (k + 1)..Len(s) : s[i] \in S
    BY <1>1
  <2>2. k + 1 \in Int /\ Len(s) \in Int
    BY <1>1
  <2>. QED  BY ONLY <2>1, <2>2, SubSeqProperties
<1>. QED  BY <1>1, <1>2, <1>3

(* What stands where in three sequences that follow one another. *)
LEMMA ThreeInARow ==
  ASSUME NEW a \in Seq(Nat), NEW b \in Seq(Nat), NEW c \in Seq(Nat)
  PROVE  /\ a \o b \o c \in Seq(Nat) /\ Len(a \o b \o c) = Len(a) + Len(b) + Len(c)
         /\ \A i \in 1..Len(a) : (a \o b \o c)[i] = a[i]
         /\ \A i \in 1..Len(b) : (a \o b \o c)[Len(a) + i] = b[i]
         /\ \A i \in 1..Len(c) : (a \o b \o c)[Len(a) + Len(b) + i] = c[i]
<1>1. a \o b \in Seq(Nat) /\ Len(a \o b) = Len(a) + Len(b)
  OBVIOUS
<1>2. \A i \in 1..Len(a) : (a \o b)[i] = a[i]
  OBVIOUS
<1>3. \A i \in 1..Len(b) : (a \o b)[Len(a) + i] = b[i]
  OBVIOUS
<1>. DEFINE ab == a \o b
<1>4. /\ ab \o c \in Seq(Nat) /\ Len(ab \o c) = Len(ab) + Len(c)
      /\ \A i \in 1..Len(ab) : (ab \o c)[i] = ab[i]
      /\ \A i \in 1..Len(c) : (ab \o c)[Len(ab) + i] = c[i]
  <2>. HIDE DEF ab
  <2>1. ab \in Seq(Nat)
    BY <1>1 DEF ab
  <2>2. /\ ab \o c \in Seq(Nat) /\ Len(ab \o c) = Len(ab) + Len(c)
    BY <2>1
  <2>3. \A i \in 1..Len(ab) : (ab \o c)[i] = ab[i]
    BY <2>1
  <2>4. \A i \in 1..Len(c) : (ab \o c)[Len(ab) + i] = c[i]
    BY <2>1
  <2>. QED  BY <2>2, <2>3, <2>4
<1>5. Len(a) \in Nat /\ Len(b) \in Nat /\ Len(c) \in Nat
  OBVIOUS
<1>6. \A i \in 1..Len(a) : i \in 1..Len(ab)
  BY <1>1, <1>5
<1>7. \A i \in 1..Len(b) : Len(a) + i \in 1..Len(ab)
  BY <1>1, <1>5
<1>. QED  BY <1>1, <1>2, <1>3, <1>4, <1>5, <1>6, <1>7

(* Moving the first elements of one to the end of the one before leaves the *)
(* row as it was.                                                           *)
LEMMA FirstMovesOver ==
  ASSUME NEW S, NEW a \in Seq(S), NEW b \in Seq(S), NEW k \in 0..Len(b)
  PROVE  (a \o SubSeq(b, 1, k)) \o SubSeq(b, k + 1, Len(b)) = a \o b
<1>. DEFINE p == SubSeq(b, 1, k)
            q == SubSeq(b, k + 1, Len(b))
<1>1. /\ p \in Seq(S) /\ q \in Seq(S) /\ Len(p) = k /\ Len(q) = Len(b) - k
      /\ \A i \in 1..k : p[i] = b[i]
      /\ \A i \in 1..(Len(b) - k) : q[i] = b[k + i]
  BY TakeAndDrop
<1>. HIDE DEF p, q
<1>2. Len(a) \in Nat /\ Len(b) \in Nat /\ k \in Nat /\ k <= Len(b)
  OBVIOUS
<1>3. /\ a \o p \o q \in Seq(S) /\ Len(a \o p \o q) = Len(a) + Len(p) + Len(q)
      /\ \A i \in 1..Len(a) : (a \o p \o q)[i] = a[i]
      /\ \A i \in 1..Len(p) : (a \o p \o q)[Len(a) + i] = p[i]
      /\ \A i \in 1..Len(q) : (a \o p \o q)[Len(a) + Len(p) + i] = q[i]
  <2>1. p \in Seq(S) /\ q \in Seq(S) /\ a \in Seq(S)
    BY <1>1
  <2>. QED  BY ONLY <2>1, ThreeInARow
<1>4. a \o b \in Seq(S) /\ Len(a \o b) = Len(a) + Len(b)
  OBVIOUS
<1>5. \A i \in 1..Len(a) : (a \o b)[i] = a[i]
  OBVIOUS
<1>6. \A i \in 1..Len(b) : (a \o b)[Len(a) + i] = b[i]
  OBVIOUS
<1>. DEFINE u == a \o p \o q
            v == a \o b
<1>7. /\ u \in Seq(S) /\ v \in Seq(S) /\ Len(u) = Len(v) /\ Len(v) = Len(a) + Len(b)
      /\ \A i \in 1..Len(a) : u[i] = a[i] /\ v[i] = a[i]
      /\ \A i \in 1..k : u[Len(a) + i] = p[i]
      /\ \A i \in 1..(Len(b) - k) : u[Len(a) + k + i] = q[i]
      /\ \A i \in 1..Len(b) : v[Len(a) + i] = b[i]
  <2>1. Len(p) + Len(q) = Len(b)
    BY <1>1, <1>2
  <2>2. u \in Seq(S) /\ v \in Seq(S) /\ Len(u) = Len(v) /\ Len(v) = Len(a) + Len(b)
    BY <1>1, <1>2, <1>3, <1>4, <2>1
  <2>3. /\ \A i \in 1..Len(a) : u[i] = a[i]
        /\ \A i \in 1..k : u[Len(a) + i] = p[i]
        /\ \A i \in 1..(Len(b) - k) : u[Len(a) + k + i] = q[i]
    BY <1>1, <1>3
  <2>. QED  BY <1>5, <1>6, <2>2, <2>3
<1>. HIDE DEF u, v
<1>8. ASSUME NEW i \in 1..Len(v)
      PROVE  u[i] = v[i]
  <2>1. CASE i <= Len(a)
    BY <1>2, <1>7, <2>1
  <2>2. CASE i > Len(a) /\ i <= Len(a) + k
    <3>1. PICK j \in 1..k : i = Len(a) + j
      <4>1. i - Len(a) \in 1..k /\ i = Len(a) + (i - Len(a))
        BY <1>2, <2>2
      <4>. QED  BY <4>1
    <3>2. j \in 1..Len(b)
      BY <1>2
    <3>. QED  BY <1>1, <1>7, <3>1, <3>2
  <2>3. CASE i > Len(a) + k
    <3>1. PICK j \in 1..(Len(b) - k) : i = Len(a) + k + j
      <4>1. i - (Len(a) + k) \in 1..(Len(b) - k) /\ i = Len(a) + k + (i - (Len(a) + k))
        BY <1>2, <1>7, <2>3
      <4>. QED  BY <4>1
    <3>2. k + j \in 1..Len(b) /\ i = Len(a) + (k + j)
      BY <1>2, <3>1
    <3>3. u[i] = q[j] /\ q[j] = b[k + j]
      BY <1>1, <1>7, <3>1
    <3>4. v[i] = b[k + j]
      BY <1>7, <3>2
    <3>. QED  BY <3>3, <3>4
  <2>. QED  BY <1>2, <1>7, <2>1, <2>2, <2>3
<1>9. u = v
  BY <1>7, <1>8, SeqEqual
<1>. QED  BY <1>9 DEF p, q, u, v

(* The order in which sequences are put together does not matter. *)
LEMMA ConcatAssociates ==
  \A a, b, c \in Seq(Nat) : (a \o b) \o c = a \o (b \o c)
BY ConcatAssociative, SMTT(60)

(* A rising sequence of units up to n. *)
LEMMA RisingBounds ==
  ASSUME NEW n \in Nat, NEW s, Rising(s, n)
  PROVE  /\ Len(s) \in Nat /\ Len(s) <= n
         /\ \A i \in 1..Len(s) : s[i] \in 1..n
         /\ \A i, j \in 1..Len(s) : i <= j => j - i <= s[j] - s[i]
         /\ Len(s) = n => s = [i \in 1..n |-> i]
<1>1. /\ s \in Seq(1..n) /\ Len(s) \in Nat
      /\ \A i \in 1..Len(s) : s[i] \in 1..n
      /\ \A i, j \in 1..Len(s) : i <= j => j - i <= s[j] - s[i]
  BY DEF Rising
<1>2. ASSUME NEW i \in 1..Len(s)
      PROVE  i <= s[i] /\ Len(s) - i <= n - s[i]
  <2>1. 1 \in 1..Len(s) /\ Len(s) \in 1..Len(s) /\ 1 <= i /\ i <= Len(s)
    BY <1>1
  <2>2. i - 1 <= s[i] - s[1] /\ Len(s) - i <= s[Len(s)] - s[i]
    BY <1>1, <2>1
  <2>3. s[1] \in 1..n /\ s[Len(s)] \in 1..n /\ s[i] \in 1..n
    BY <1>1, <2>1
  <2>4. \A j, l, x, y, z \in Int :
          j - 1 <= y - x /\ 1 <= x /\ l - j <= z - y /\ z <= n => j <= y /\ l - j <= n - y
    OBVIOUS
  <2>5. /\ i \in Int /\ Len(s) \in Int /\ s[1] \in Int /\ s[i] \in Int /\ s[Len(s)] \in Int
        /\ 1 <= s[1] /\ s[Len(s)] <= n
    BY <1>1, <2>3
  <2>. QED  BY <2>2, <2>4, <2>5
<1>3. Len(s) <= n
  <2>1. CASE Len(s) = 0
    BY <2>1
  <2>2. CASE Len(s) # 0
    <3>1. Len(s) \in 1..Len(s)
      BY <1>1, <2>2
    <3>2. Len(s) <= s[Len(s)] /\ s[Len(s)] \in 1..n
      BY <1>1, <1>2, <3>1
    <3>. QED  BY <1>1, <3>2
  <2>. QED  BY <2>1, <2>2
<1>4. ASSUME Len(s) = n
      PROVE  s = [i \in 1..n |-> i]
  <2>1. \A i \in 1..n : s[i] = i
    <3>1. SUFFICES ASSUME NEW i \in 1..n PROVE s[i] = i
      OBVIOUS
    <3>2. i <= s[i] /\ n - i <= n - s[i] /\ s[i] \in 1..n
      BY <1>1, <1>2, <1>4
    <3>. QED  BY <3>2
  <2>2. s = [i \in 1..Len(s) |-> s[i]]
    BY <1>1
  <2>. QED  BY <1>4, <2>1, <2>2
<1>. QED  BY <1>1, <1>3, <1>4

(* A peer's next unit comes last. *)
LEMMA RisingGrows ==
  ASSUME NEW n \in Nat, NEW s, Rising(s, n)
  PROVE  Rising(Append(s, n + 1), n + 1) /\ Len(Append(s, n + 1)) = Len(s) + 1
<1>. DEFINE t == Append(s, n + 1)
<1>1. /\ s \in Seq(1..n) /\ Len(s) \in Nat /\ Len(s) <= n
      /\ \A i \in 1..Len(s) : s[i] \in 1..n
      /\ \A i, j \in 1..Len(s) : i <= j => j - i <= s[j] - s[i]
  BY RisingBounds DEF Rising
<1>2. s \in Seq(1..(n + 1))
  BY <1>1
<1>3. /\ t \in Seq(1..(n + 1)) /\ Len(t) = Len(s) + 1 /\ t[Len(s) + 1] = n + 1
      /\ \A i \in 1..Len(s) : t[i] = s[i]
  BY <1>2
<1>. HIDE DEF t
<1>4. ASSUME NEW i \in 1..Len(t), NEW j \in 1..Len(t), i <= j
      PROVE  j - i <= t[j] - t[i]
  <2>1. CASE j <= Len(s)
    <3>1. i \in 1..Len(s) /\ j \in 1..Len(s)
      BY <1>1, <1>3, <1>4, <2>1
    <3>. QED  BY <1>1, <1>3, <1>4, <3>1
  <2>2. CASE j = Len(s) + 1 /\ i <= Len(s)
    <3>1. i \in 1..Len(s) /\ Len(s) \in 1..Len(s) /\ i <= Len(s)
      BY <1>1, <1>3, <2>2
    <3>2. Len(s) - i <= s[Len(s)] - s[i] /\ s[Len(s)] \in 1..n /\ s[i] \in 1..n
      BY <1>1, <3>1
    <3>3. t[j] = n + 1 /\ t[i] = s[i]
      BY <1>3, <2>2, <3>1
    <3>4. j - i = (Len(s) - i) + 1 /\ t[j] - t[i] = (n - s[i]) + 1
      BY <1>1, <2>2, <3>1, <3>2, <3>3
    <3>. QED
      <4>1. \A x, y, z \in Int : x <= y - z /\ y <= n => x + 1 <= (n - z) + 1
        OBVIOUS
      <4>2. Len(s) - i \in Int
        BY <1>1, <3>1
      <4>3. s[Len(s)] \in Int /\ s[i] \in Int /\ s[Len(s)] <= n
        BY ONLY n \in Nat, <3>2
      <4>4. (Len(s) - i) + 1 <= (n - s[i]) + 1
        BY ONLY <3>2, <4>1, <4>2, <4>3
      <4>. QED  BY ONLY <3>4, <4>4
  <2>3. CASE i = Len(s) + 1
    BY <1>1, <1>3, <1>4, <2>3
  <2>. QED  BY <1>1, <1>3, <1>4, <2>1, <2>2, <2>3
<1>5. Rising(t, n + 1) /\ Len(t) = Len(s) + 1
  BY <1>3, <1>4 DEF Rising
<1>. QED  BY <1>5 DEF t

(* A part that is left out of the middle leaves a rising sequence. *)
LEMMA RisingWithout ==
  ASSUME NEW n \in Nat, NEW a \in Seq(Nat), NEW b \in Seq(Nat), NEW c \in Seq(Nat),
         Rising(a \o b \o c, n), NEW k \in 0..Len(b)
  PROVE  Rising((a \o SubSeq(b, 1, k)) \o <<>> \o c, n)
<1>. DEFINE p == SubSeq(b, 1, k)
            w == a \o b \o c
            v == a \o p \o c
            f(i) == IF i <= Len(a) + k THEN i ELSE i + (Len(b) - k)
<1>1. p \in Seq(Nat) /\ Len(p) = k /\ \A i \in 1..k : p[i] = b[i]
  BY TakeAndDrop
<1>2. Len(a) \in Nat /\ Len(b) \in Nat /\ Len(c) \in Nat /\ k \in Nat /\ k <= Len(b)
  OBVIOUS
<1>3. /\ w \in Seq(Nat) /\ Len(w) = Len(a) + Len(b) + Len(c)
      /\ \A i \in 1..Len(a) : w[i] = a[i]
      /\ \A i \in 1..Len(b) : w[Len(a) + i] = b[i]
      /\ \A i \in 1..Len(c) : w[Len(a) + Len(b) + i] = c[i]
  <2>1. a \in Seq(Nat) /\ b \in Seq(Nat) /\ c \in Seq(Nat)
    OBVIOUS
  <2>. QED  BY ONLY <2>1, ThreeInARow
<1>. HIDE DEF p
<1>4. /\ v \in Seq(Nat) /\ Len(v) = Len(a) + k + Len(c)
      /\ \A i \in 1..Len(a) : v[i] = a[i]
      /\ \A i \in 1..k : v[Len(a) + i] = p[i]
      /\ \A i \in 1..Len(c) : v[Len(a) + k + i] = c[i]
  <2>1. p \in Seq(Nat) /\ a \in Seq(Nat) /\ c \in Seq(Nat)
    BY <1>1
  <2>2. /\ v \in Seq(Nat) /\ Len(v) = Len(a) + Len(p) + Len(c)
        /\ \A i \in 1..Len(a) : v[i] = a[i]
        /\ \A i \in 1..Len(p) : v[Len(a) + i] = p[i]
        /\ \A i \in 1..Len(c) : v[Len(a) + Len(p) + i] = c[i]
    BY ONLY <2>1, ThreeInARow
  <2>3. Len(p) = k
    BY <1>1
  <2>. HIDE DEF v
  <2>. QED  BY ONLY <2>2, <2>3, Zenon
<1>5. (a \o p) \o <<>> \o c = v
  <2>1. a \o p \in Seq(Nat)
    BY <1>1
  <2>2. (a \o p) \o <<>> = a \o p
    BY <2>1, ConcatEmptySeq
  <2>. QED  BY <2>2
<1>6. Rising(w, n)
  OBVIOUS
<1>. HIDE DEF w, v
<1>7. ASSUME NEW i \in 1..Len(v)
      PROVE  f(i) \in 1..Len(w) /\ v[i] = w[f(i)]
  <2>1. CASE i <= Len(a)
    <3>1. f(i) = i /\ i \in 1..Len(a) /\ i \in 1..Len(w)
      BY <1>2, <1>3, <2>1
    <3>2. v[i] = a[i] /\ w[i] = a[i]
      BY <1>3, <1>4, <3>1
    <3>. QED  BY <3>1, <3>2
  <2>2. CASE i > Len(a) /\ i <= Len(a) + k
    <3>1. PICK j \in 1..k : i = Len(a) + j
      <4>1. i - Len(a) \in 1..k /\ i = Len(a) + (i - Len(a))
        BY <1>2, <2>2
      <4>. QED  BY <4>1
    <3>2. j \in 1..Len(b) /\ f(i) = i
      BY <1>2, <2>2
    <3>3. v[i] = b[j] /\ w[i] = b[j]
      <4>1. v[i] = p[j] /\ p[j] = b[j]
        BY <1>1, <1>4, <3>1
      <4>2. w[i] = b[j]
        BY <1>3, <3>1, <3>2
      <4>. QED  BY <4>1, <4>2
    <3>4. i \in 1..Len(w)
      BY <1>2, <1>3, <2>2
    <3>. QED  BY <3>2, <3>3, <3>4
  <2>3. CASE i > Len(a) + k
    <3>1. PICK j \in 1..Len(c) : i = Len(a) + k + j
      <4>1. /\ Len(a) \in Nat /\ k \in Nat /\ Len(c) \in Nat
            /\ i \in 1..(Len(a) + k + Len(c)) /\ i > Len(a) + k
        BY <1>2, <1>4, <2>3
      <4>2. i - (Len(a) + k) \in 1..Len(c) /\ i = Len(a) + k + (i - (Len(a) + k))
        BY ONLY <4>1
      <4>. QED  BY <4>2
    <3>2. f(i) = Len(a) + Len(b) + j
      BY <1>2, <2>3, <3>1
    <3>3. v[i] = c[j] /\ w[f(i)] = c[j]
      BY <1>3, <1>4, <3>1, <3>2
    <3>4. Len(a) + Len(b) + j \in 1..Len(w)
      BY <1>2, <1>3
    <3>. QED  BY <3>2, <3>3, <3>4
  <2>. QED  BY <1>2, <1>4, <2>1, <2>2, <2>3
<1>8. /\ w \in Seq(1..n) /\ \A i \in 1..Len(w) : w[i] \in 1..n
      /\ \A i, j \in 1..Len(w) : i <= j => j - i <= w[j] - w[i]
  BY <1>6 DEF Rising
<1>9. v \in Seq(1..n)
  <2>1. ASSUME NEW i \in 1..Len(v) PROVE v[i] \in 1..n
    <3>. HIDE DEF f
    <3>. QED  BY <1>7, <1>8
  <2>2. Len(v) \in Nat /\ 1 \in Int /\ Len(v) \in Int
    BY <1>4
  <2>3. SubSeq(v, 1, Len(v)) \in Seq(1..n)
    BY ONLY <2>1, <2>2, SubSeqProperties
  <2>4. SubSeq(v, 1, Len(v)) = v
    <3>1. /\ SubSeq(v, 1, Len(v)) \in Seq(Nat) /\ Len(SubSeq(v, 1, Len(v))) = Len(v)
          /\ \A i \in 1..Len(v) : SubSeq(v, 1, Len(v))[i] = v[i]
      <4>1. v \in Seq(Nat) /\ Len(v) \in 0..Len(v)
        BY <1>4, <2>2
      <4>. QED  BY ONLY <4>1, TakeAndDrop
    <3>. DEFINE x == SubSeq(v, 1, Len(v))
    <3>2. x \in Seq(Nat) /\ v \in Seq(Nat) /\ Len(x) = Len(v) /\ \A i \in 1..Len(x) : x[i] = v[i]
      BY <1>4, <3>1
    <3>. HIDE DEF x
    <3>3. x = v
      BY ONLY <3>2, SeqEqual
    <3>. QED  BY <3>3 DEF x
  <2>. QED  BY <2>3, <2>4
<1>10. ASSUME NEW i \in 1..Len(v), NEW j \in 1..Len(v), i <= j
       PROVE  j - i <= v[j] - v[i]
  <2>1. f(i) <= f(j) /\ j - i <= f(j) - f(i) /\ f(i) \in Int /\ f(j) \in Int
    BY <1>2, <1>4, <1>10, SMTT(30)
  <2>2. f(i) \in 1..Len(w) /\ f(j) \in 1..Len(w) /\ v[i] = w[f(i)] /\ v[j] = w[f(j)]
    BY <1>7
  <2>. HIDE DEF f
  <2>3. f(j) - f(i) <= v[j] - v[i] /\ v[i] \in 1..n /\ v[j] \in 1..n
    BY <1>8, <2>1, <2>2
  <2>. DEFINE x == j - i
              y == f(j) - f(i)
              z == v[j] - v[i]
  <2>4. x <= y /\ y <= z /\ x \in Int /\ y \in Int /\ z \in Int
    <3>1. x <= y /\ y <= z
      BY ONLY <2>1, <2>3
    <3>2. x \in Int
      OBVIOUS
    <3>3. y \in Int
      BY ONLY <2>1
    <3>4. v[j] \in Int /\ v[i] \in Int
      BY ONLY <2>3, n \in Nat
    <3>. QED  BY ONLY <3>1, <3>2, <3>3, <3>4
  <2>5. x <= z
    <3>. HIDE DEF x, y, z
    <3>. QED  BY ONLY <2>4
  <2>. QED  BY ONLY <2>5
<1>11. Rising(v, n)
  BY <1>9, <1>10 DEF Rising
<1>. QED  BY <1>5, <1>11 DEF p

-----------------------------------------------------------------------------
(* Every step keeps the sockets' part *)

(* How many units a span read takes, and how many a write finds room for. *)
LEMMA HowMuch ==
  ASSUME TypedData, NEW c \in Conns
  PROVE  /\ Fits(c) \subseteq 0..Len(buf[c]) /\ \A k \in Fits(c) : k <= room[c]
         /\ Max(Fits(c) \cup {0}) \in 0..Len(buf[c]) /\ Max(Fits(c) \cup {0}) <= room[c]
         /\ Len(buf[c]) <= room[c] => Max(Fits(c) \cup {0}) = Len(buf[c])
         /\ LET k == Min({Len(unread[c]), Want - Len(buf[c])}) IN
              k \in Int /\ (k > 0 => k \in 0..Len(unread[c]))
<1>1. Len(buf[c]) \in Nat /\ room[c] \in Nat /\ Len(unread[c]) \in Nat /\ Want \in Nat
  BY ServerAssumption DEF TypedData
<1>. DEFINE l == Len(buf[c])
            r == room[c]
            most == IF l <= r THEN l ELSE r
<1>2. l \in Nat /\ r \in Nat /\ Fits(c) = {k \in 1..l : k <= r} /\ most = IF l <= r THEN l ELSE r
  BY <1>1 DEF Fits
<1>. HIDE DEF l, r, most
<1>3. /\ most \in Fits(c) \cup {0} /\ \A k \in Fits(c) \cup {0} : most >= k /\ k \in Nat
  BY <1>2
<1>4. Max(Fits(c) \cup {0}) = most
  BY <1>2, <1>3 DEF Max
<1>5. Fits(c) \subseteq 0..l /\ (\A k \in Fits(c) : k <= r) /\ most \in 0..l /\ most <= r
      /\ (l <= r => most = l)
  BY <1>2
<1>. DEFINE u == Len(unread[c])
            w == Want - l
<1>6. u \in Nat /\ w \in Int
  BY <1>1, <1>2
<1>. HIDE DEF u, w
<1>7. \E m \in {u, w} : \A k \in {u, w} : m <= k
  BY <1>6
<1>8. Min({u, w}) \in {u, w} /\ Min({u, w}) <= u
  BY <1>7 DEF Min
<1>9. Min({u, w}) \in Int /\ (Min({u, w}) > 0 => Min({u, w}) \in 0..u)
  BY <1>6, <1>8
<1>. QED  BY <1>4, <1>5, <1>9 DEF l, r, u, w

(* Sockets, buffers and streams stay in their ranges. *)
LEMMA TypedDataStep ==
  ASSUME IInv, [Next]_vars
  PROVE  TypedData'
<1> USE DEF TypedData
<1>1. TypedData /\ Conns \subseteq Fds /\ Listen \in Fds /\ Client \in Fds /\ Client \notin Conns
  BY Names DEF IInv, DataInv
<1>2. ASSUME UNCHANGED <<kernel, data>>
      PROVE  TypedData'
  BY <1>1, <1>2 DEF kernel, data
<1>3. ASSUME UNCHANGED <<sent, unread, eof, room, data>>, NEW fd \in Fds,
             \/ /\ \/ sock' = [sock EXCEPT ![fd] = "open"]
                   \/ fd \notin Conns /\ sock' = [sock EXCEPT ![fd] = "connecting"]
                /\ Registered(fd, sock')
             \/ Closed(fd) /\ UNCHANGED oneshot
      PROVE  TypedData'
  <2>1. /\ \/ interest' = [interest EXCEPT ![fd] = {"in", "out"}]
           \/ interest' = [interest EXCEPT ![fd] = {}]
        /\ oneshot' = oneshot \/ oneshot' = [oneshot EXCEPT ![fd] = FALSE]
        /\ pending' = pending \cup {fd} \/ pending' = pending \ {fd}
    BY <1>3 DEF Registered, Closed
  <2>2. /\ oneshot' \in [Fds -> BOOLEAN] /\ pending' \subseteq Fds
        /\ interest' \in [Fds -> SUBSET {"in", "out", "rdhup"}]
    <3>1. interest' \in [Fds -> SUBSET {"in", "out", "rdhup"}]
      <4>1. {"in", "out"} \in SUBSET {"in", "out", "rdhup"} /\ {} \in SUBSET {"in", "out", "rdhup"}
        OBVIOUS
      <4>2. interest \in [Fds -> SUBSET {"in", "out", "rdhup"}]
        BY <1>1
      <4>. QED  BY <2>1, <4>1, <4>2, Zenon
    <3>2. oneshot' \in [Fds -> BOOLEAN]
      BY <1>1, <2>1
    <3>3. pending' \subseteq Fds
      BY <1>1, <2>1
    <3>. QED  BY <3>1, <3>2, <3>3
  <2>3. \/ sock' = [sock EXCEPT ![fd] = "open"] \/ sock' = [sock EXCEPT ![fd] = "closed"]
        \/ fd \notin Conns /\ sock' = [sock EXCEPT ![fd] = "connecting"]
    BY <1>3 DEF Closed
  <2>4. /\ sock' \in [Fds -> {"none", "queued", "open", "connecting", "failed", "closed"}]
        /\ \A c \in Conns : sock'[c] \notin {"connecting", "failed"}
    BY <1>1, <2>3
  <2>. QED  BY <1>1, <1>3, <2>2, <2>4 DEF data
<1>4. CASE EmitEpoll
  <2>1. /\ UNCHANGED <<sock, sent, unread, eof, room, oneshot, echoed, buf, short>>
        /\ pending' \subseteq pending
        /\ interest' = interest \/ \E fd \in pending : interest' = Disarm(fd)
    BY <1>4 DEF EmitEpoll
  <2>2. ASSUME NEW fd \in pending, interest' = Disarm(fd)
        PROVE  interest' \in [Fds -> SUBSET {"in", "out", "rdhup"}]
    BY <1>1, <2>2 DEF Disarm
  <2>. QED  BY <1>1, <2>1, <2>2
<1>5. CASE PopTask
  <2>1. CASE UNCHANGED kernel
    BY <1>2, <1>5, <2>1 DEF PopTask
  <2>2. CASE Head(scheduled) \in Conns /\ Closed(Head(scheduled)) /\ UNCHANGED <<sent, unread, eof, room, oneshot>>
    BY <1>1, <1>3, <1>5, <2>2 DEF PopTask
  <2>. QED  BY <1>5, <2>1, <2>2 DEF PopTask
<1>6. CASE AcceptOne
  BY <1>1, <1>3, <1>6 DEF AcceptOne, Queued, Registered
<1>7. CASE Connect \/ Connected
  BY <1>1, <1>3, <1>7 DEF Connect, Connected, Registered
<1>8. ASSUME NEW c \in Conns, Handler(c)
      PROVE  TypedData'
  <2>1. /\ buf[c] \in Seq(Nat) /\ unread[c] \in Seq(Nat) /\ echoed[c] \in Seq(Nat)
        /\ room[c] \in 0..Room /\ Room \in Nat
    BY <1>1, ServerAssumption
  <2>2. ASSUME NEW k \in 0..Len(buf[c]), k <= room[c], Put(c, k)
        PROVE  echoed' \in [Conns -> Seq(Nat)] /\ room' \in [Conns -> 0..Room]
    <3>1. SubSeq(buf[c], 1, k) \in Seq(Nat)
      BY <2>1, TakeAndDrop
    <3>2. echoed[c] \o SubSeq(buf[c], 1, k) \in Seq(Nat) /\ room[c] - k \in 0..Room
      BY <2>1, <2>2, <3>1
    <3>. QED  BY <1>1, <2>2, <3>2 DEF Put
  <2>3. CASE SpanRead(c)
    <3>1. CASE UNCHANGED <<buf, unread>>
      BY <1>1, <2>3, <3>1 DEF SpanRead
    <3>2. CASE buf' # buf \/ unread' # unread
      <4>1. PICK k \in 0..Len(unread[c]) :
              /\ buf' = [buf EXCEPT ![c] = buf[c] \o SubSeq(unread[c], 1, k)]
              /\ unread' = [unread EXCEPT ![c] = SubSeq(unread[c], k + 1, Len(unread[c]))]
        BY <1>1, <2>3, <3>2, HowMuch DEF SpanRead, Filled
      <4>2. SubSeq(unread[c], 1, k) \in Seq(Nat) /\ SubSeq(unread[c], k + 1, Len(unread[c])) \in Seq(Nat)
        BY <2>1, TakeAndDrop
      <4>3. buf[c] \o SubSeq(unread[c], 1, k) \in Seq(Nat)
        BY <2>1, <4>2
      <4>4. buf' \in [Conns -> Seq(Nat)] /\ unread' \in [Conns -> Seq(Nat)]
        BY <1>1, <4>1, <4>2, <4>3
      <4>. QED  BY <1>1, <2>3, <4>4 DEF SpanRead
    <3>. QED  BY <3>1, <3>2
  <2>4. CASE SpanWrite(c)
    <3>1. CASE UNCHANGED <<sock, room, interest, oneshot, pending, echoed, buf>>
      BY <1>1, <2>4, <3>1 DEF SpanWrite
    <3>2. ASSUME NEW k \in Fits(c), Put(c, k), buf' = [buf EXCEPT ![c] = TakenFrom(c, k)],
                 UNCHANGED <<sock, interest, oneshot, pending>>
          PROVE  TypedData'
      <4>1. k \in 0..Len(buf[c]) /\ k <= room[c]
        BY <1>1, HowMuch
      <4>2. TakenFrom(c, k) \in Seq(Nat)
        BY <2>1, <4>1, TakeAndDrop DEF TakenFrom
      <4>3. echoed' \in [Conns -> Seq(Nat)] /\ room' \in [Conns -> 0..Room]
        BY <2>2, <3>2, <4>1
      <4>4. buf' \in [Conns -> Seq(Nat)]
        BY <1>1, <3>2, <4>2
      <4>. QED  BY <1>1, <2>4, <3>2, <4>3, <4>4 DEF SpanWrite
    <3>. QED  BY <2>4, <3>1, <3>2 DEF SpanWrite
  <2>5. CASE CharsRead(c) \/ CharsWrite(c)
    BY <1>2, <2>5 DEF CharsRead, CharsWrite
  <2>6. CASE CharsReadTry(c)
    BY <1>1, <2>1, <2>6 DEF CharsReadTry, Reset
  <2>7. CASE CharsWriteTry(c)
    <3>1. echoed' \in [Conns -> Seq(Nat)] /\ room' \in [Conns -> 0..Room]
      BY <1>1, <2>2, <2>7, HowMuch DEF CharsWriteTry
    <3>2. buf' \in [Conns -> Seq(Nat)] /\ short' \subseteq Conns
      BY <1>1, <2>7 DEF CharsWriteTry
    <3>. QED  BY <1>1, <2>7, <3>1, <3>2 DEF CharsWriteTry, Reset
  <2>8. CASE Resumes(c)
    <3>1. /\ buf' = buf \/ buf' = [buf EXCEPT ![c] = <<>>]
          /\ short' = short \/ short' = short \cup {c}
      BY <2>8 DEF Resumes
    <3>2. buf' \in [Conns -> Seq(Nat)]
      <4>1. CASE buf' = [buf EXCEPT ![c] = <<>>]
        <5>1. buf \in [Conns -> Seq(Nat)] /\ <<>> \in Seq(Nat)
          BY <1>1
        <5>. QED  BY <4>1, <5>1, Zenon
      <4>. QED  BY <1>1, <3>1, <4>1
    <3>3. short' \subseteq Conns
      BY <1>1, <3>1
    <3>. QED  BY <1>1, <2>8, <3>2, <3>3 DEF Resumes, kernel
  <2>. QED  BY <1>8, <2>3, <2>4, <2>5, <2>6, <2>7, <2>8 DEF Handler
<1>9. ASSUME NEW c \in Conns, PeerConnects(c) \/ PeerSends(c) \/ PeerShuts(c) \/ PeerReads(c)
      PROVE  TypedData'
  <2>1. pending' \subseteq Fds
    BY <1>1, <1>9 DEF PeerConnects, PeerSends, PeerShuts, PeerReads, Edge
  <2>2. CASE PeerConnects(c)
    BY <1>1, <2>1, <2>2 DEF PeerConnects, data
  <2>3. CASE PeerSends(c)
    <3>1. sent[c] + 1 \in 0..Units /\ sent[c] + 1 \in Nat /\ Append(unread[c], sent[c] + 1) \in Seq(Nat)
      BY <1>1, <2>3, ServerAssumption DEF PeerSends
    <3>. QED  BY <1>1, <2>1, <2>3, <3>1 DEF PeerSends, data
  <2>4. CASE PeerShuts(c)
    BY <1>1, <2>1, <2>4 DEF PeerShuts, data
  <2>5. CASE PeerReads(c)
    <3>1. room[c] + 1 \in 0..Room
      BY <1>1, <2>5, ServerAssumption DEF PeerReads
    <3>. QED  BY <1>1, <2>1, <2>5, <3>1 DEF PeerReads, data
  <2>. QED  BY <1>9, <2>2, <2>3, <2>4, <2>5
<1>10. CASE PeerAnswers
  <2>1. pending' \subseteq Fds
    BY <1>1, <1>10 DEF PeerAnswers, Edge
  <2>. QED  BY <1>1, <1>10, <2>1 DEF PeerAnswers, data
<1>11. CASE UNCHANGED vars
  BY <1>2, <1>11 DEF vars
<1>. QED
  BY <1>2, <1>4, <1>5, <1>6, <1>7, <1>8, <1>9, <1>10, <1>11, Zenon
  DEF Next, Program, AcceptBlocks, AcceptResumes, Watch, Watched

(* A connection that is not accepted yet was not accepted before. *)
LEMMA NotAccepted ==
  ASSUME IInv, [Next]_vars, NEW c \in Conns, sock'[c] \in {"none", "queued"}
  PROVE  sock[c] \in {"none", "queued"}
<1>1. /\ sock \in [Fds -> {"none", "queued", "open", "connecting", "failed", "closed"}]
      /\ Conns \subseteq Fds /\ Client \in Fds
  BY Names DEF IInv, DataInv, TypedData
<1>2. CASE UNCHANGED sock
  BY <1>2
<1>3. CASE PopTask \/ Connected
  BY <1>1, <1>3 DEF PopTask, Connected, Closed, kernel
<1>4. CASE AcceptOne
  BY <1>1, <1>4 DEF AcceptOne, Registered
<1>5. CASE Connect
  BY <1>1, <1>5 DEF Connect, Registered
<1>6. ASSUME NEW d \in Conns, Handler(d)
      PROVE  UNCHANGED sock
  BY <1>6 DEF Handler, SpanRead, SpanWrite, CharsRead, CharsReadTry, CharsWrite, CharsWriteTry, Resumes, kernel
<1>7. ASSUME NEW d \in Conns, PeerConnects(d) \/ PeerSends(d) \/ PeerShuts(d) \/ PeerReads(d)
      PROVE  sock[c] \in {"none", "queued"}
  BY <1>1, <1>7 DEF PeerConnects, PeerSends, PeerShuts, PeerReads
<1>8. CASE PeerAnswers
  BY <1>1, <1>8, Names DEF PeerAnswers
<1>9. CASE EmitEpoll
  BY <1>2, <1>9 DEF EmitEpoll
<1>. QED
  BY <1>2, <1>3, <1>4, <1>5, <1>6, <1>7, <1>8, <1>9
  DEF Next, Program, AcceptBlocks, AcceptResumes, Watch, Watched, kernel, vars

(* The handler of a connection is born when it is accepted. *)
LEMMA UnbornStep ==
  ASSUME IInv, [Next]_vars
  PROVE  Unborn'
<1>1. SchedulerSteps
  BY SchedulerStepsByKind
<1>2. TypedScheduler /\ QueueIsReady /\ EventsInv /\ TypedData /\ Unborn
  BY DEF IInv, SchedulerInv, DataInv, EventsInv
<1>3. SUFFICES ASSUME NEW c \in Conns, sock'[c] \in {"none", "queued"}
               PROVE  pc'[c] = "unborn"
  BY DEF Unborn
<1>4. pc[c] = "unborn" /\ c \in Tasks /\ c # Listen /\ c \in Fds
  BY <1>2, <1>3, NotAccepted, Names DEF Unborn
<1>5. running # c /\ pc \in [Tasks -> Labels] /\ sock[c] # "open"
  BY <1>2, <1>3, <1>4, NotAccepted DEF EventsInv, Controlled, Idle, TypedScheduler
<1>6. CASE HandScheduled
  <2>1. scheduled # <<>> /\ 1 \in 1..Len(scheduled) /\ at = "start"
    BY <1>2, <1>6 DEF HandScheduled, TypedScheduler
  <2>2. pc[scheduled[1]] = "ready"
    BY <1>2, <2>1 DEF QueueIsReady
  <2>. QED  BY <1>4, <1>5, <1>6, <2>2 DEF HandScheduled
<1>7. CASE PopScheduled
  BY <1>4, <1>5, <1>7 DEF PopScheduled
<1>8. CASE CheckDone \/ Passes \/ Stays
  BY <1>4, <1>8 DEF CheckDone, Passes, Stays
<1>9. ASSUME NEW t, NEW result, Resumed(t, result)
      PROVE  pc'[c] = "unborn"
  BY <1>4, <1>9 DEF Resumed, ResumeWith
<1>10. ASSUME NEW t, NEW label, NEW e, Blocks(t, label, e) \/ GoesOn(t, label) \/ Ends(t)
       PROVE  pc'[c] = "unborn"
  BY <1>4, <1>5, <1>10 DEF Blocks, GoesOn, Ends, Await, Continue, Finish
<1>11. ASSUME NEW d, Accepts(d)
       PROVE  pc'[c] = "unborn"
  BY <1>2, <1>3, <1>4, <1>5, <1>11 DEF Accepts, TypedData
<1>. QED
  BY <1>1, <1>6, <1>7, <1>8, <1>9, <1>10, <1>11 DEF SchedulerSteps

(* What the steps of others leave of a connection. *)
LEMMA OthersLeave ==
  ASSUME IInv, [Next]_vars, NEW c \in Conns, ~Handler(c)
  PROVE  /\ buf'[c] = buf[c] /\ echoed'[c] = echoed[c] /\ (c \in short' <=> c \in short)
         /\ interest'[c] \in {interest[c], {}, {"in", "out"}}
         /\ \/ unread'[c] = unread[c] /\ sent'[c] = sent[c]
            \/ unread'[c] = Append(unread[c], sent[c] + 1) /\ sent'[c] = sent[c] + 1
         /\ running = c => UNCHANGED <<running, pc, event>>
<1>1. /\ TypedData /\ c \in Fds /\ c \in Tasks /\ c # Listen /\ c # Client /\ c \notin Watchers
      /\ Nobody \notin Tasks /\ Listen \in Fds /\ Client \in Fds /\ Conns \subseteq Fds /\ QueueIsReady
  BY Names DEF IInv, DataInv, SchedulerInv
<1>2. CASE UNCHANGED <<kernel, data>> /\ (running = c => UNCHANGED <<running, pc, event>>)
  BY <1>2 DEF kernel, data
<1>3. CASE EmitEpoll
  <2>1. interest'[c] \in {interest[c], {}}
    BY <1>1, <1>3 DEF EmitEpoll, Disarm, TypedData
  <2>. QED  BY <1>1, <1>3, <2>1 DEF EmitEpoll
<1>4. CASE PopTask
  <2>1. UNCHANGED <<sent, unread, data>> /\ interest'[c] \in {interest[c], {}}
    BY <1>1, <1>4 DEF PopTask, Closed, kernel, TypedData
  <2>. QED  BY <1>1, <1>4, <2>1 DEF PopTask, PopScheduled, data
<1>5. CASE AcceptOne \/ Connect \/ Connected
  <2>1. UNCHANGED <<sent, unread, data>> /\ interest'[c] \in {interest[c], {}, {"in", "out"}}
    BY <1>1, <1>5 DEF AcceptOne, Connect, Connected, Registered, Closed, TypedData
  <2>2. running # c
    BY <1>1, <1>5 DEF AcceptOne, Connect, Connected, At
  <2>. QED  BY <2>1, <2>2 DEF data
<1>6. ASSUME NEW d \in Conns, Handler(d)
      PROVE  /\ buf'[c] = buf[c] /\ echoed'[c] = echoed[c] /\ (c \in short' <=> c \in short)
             /\ interest'[c] = interest[c] /\ unread'[c] = unread[c] /\ sent'[c] = sent[c]
             /\ running # c
  <2>1. d # c /\ running = d /\ UNCHANGED sent /\ d \in Fds
    <3>1. d # c /\ d \in Fds
      BY <1>1, <1>6
    <3>2. running = d /\ UNCHANGED sent
      BY <1>6 DEF Handler, SpanRead, SpanWrite, CharsRead, CharsReadTry, CharsWrite, CharsWriteTry,
           Resumes, At, kernel
    <3>. QED  BY <3>1, <3>2
  <2>2. buf'[c] = buf[c]
    BY <1>1, <1>6, <2>1 DEF Handler, SpanRead, SpanWrite, CharsRead, CharsReadTry, CharsWrite,
         CharsWriteTry, Resumes, data, TypedData
  <2>3. echoed'[c] = echoed[c]
    BY <1>1, <1>6, <2>1 DEF Handler, SpanRead, SpanWrite, CharsRead, CharsReadTry, CharsWrite,
         CharsWriteTry, Resumes, data, Put, TypedData
  <2>4. c \in short' <=> c \in short
    BY <1>6, <2>1 DEF Handler, SpanRead, SpanWrite, CharsRead, CharsReadTry, CharsWrite,
         CharsWriteTry, Resumes, data
  <2>5. interest'[c] = interest[c]
    BY <1>1, <1>6, <2>1 DEF Handler, SpanRead, SpanWrite, CharsRead, CharsReadTry, CharsWrite,
         CharsWriteTry, Resumes, kernel, Reset, TypedData
  <2>6. unread'[c] = unread[c]
    BY <1>1, <1>6, <2>1 DEF Handler, SpanRead, SpanWrite, CharsRead, CharsReadTry, CharsWrite,
         CharsWriteTry, Resumes, kernel, TypedData
  <2>. QED  BY <2>1, <2>2, <2>3, <2>4, <2>5, <2>6
<1>7. ASSUME NEW d \in Conns, PeerConnects(d) \/ PeerSends(d) \/ PeerShuts(d) \/ PeerReads(d)
      PROVE  /\ UNCHANGED <<data, interest, schedulerVars>>
             /\ \/ unread'[c] = unread[c] /\ sent'[c] = sent[c]
                \/ unread'[c] = Append(unread[c], sent[c] + 1) /\ sent'[c] = sent[c] + 1
  BY <1>1, <1>7 DEF PeerConnects, PeerSends, PeerShuts, PeerReads, TypedData
<1>8. CASE PeerAnswers
  BY <1>8 DEF PeerAnswers, data, schedulerVars
<1>9. CASE AcceptBlocks \/ AcceptResumes \/ \E w \in Watchers : Watch(w) \/ Watched(w)
  <2>1. running # c /\ UNCHANGED <<kernel, data>>
    BY <1>1, <1>9 DEF AcceptBlocks, AcceptResumes, Watch, Watched, At
  <2>. QED  BY <1>2, <2>1
<1>10. CASE (Loop \/ EmitCondition({t \in Tasks : Holds(t)})) /\ UNCHANGED <<kernel, data>>
  <2>1. running # c
    BY <1>1, <1>10 DEF Loop, HandScheduled, CheckDone, EmitTimeout, EmitCondition, QueueIsReady
  <2>. QED  BY <1>2, <1>10, <2>1
<1>11. CASE (Tick /\ UNCHANGED <<kernel, data>>) \/ UNCHANGED vars
  BY <1>2, <1>11 DEF Tick, vars, schedulerVars
<1>. QED
  BY <1>3, <1>4, <1>5, <1>6, <1>7, <1>8, <1>9, <1>10, <1>11 DEF Next, Program, data, schedulerVars

(* A span handler is resumed by a wake-up only: it has no deadline, and its *)
(* socket is registered for input and output, not for hang-ups.             *)
LEMMA SpanIsWokenUp ==
  ASSUME IInv, [Next]_vars, NEW c \in Conns, form[c] = "span",
         running # c, running' = c, pc'[c] = "writing"
  PROVE  event'[c].result = "wakeup"
<1>1. /\ TypedScheduler /\ TypedData /\ NoDanglingEvent /\ Handlers /\ QueueIsReady
      /\ c \in Fds /\ c \in Tasks /\ c # Listen /\ c # Client /\ c \notin Watchers /\ Nobody \notin Tasks
  BY Names DEF IInv, DataInv, SchedulerInv
<1>2. /\ sock[c] # "failed" /\ interest[c] \subseteq {"in", "out"}
      /\ Awaits(c) => event[c].fd = c /\ event[c].deadline = NoDeadline
  BY <1>1 DEF TypedData, Handlers
<1>3. ASSUME NEW result, ResumeWith(c, result)
      PROVE  event'[c].result = result
  <2>1. c \in DOMAIN event /\ Event(event[c]) /\ event' = [event EXCEPT ![c].result = result]
    BY <1>1, <1>3 DEF ResumeWith, TypedScheduler
  <2>. QED  BY <2>1 DEF Event
<1>4. CASE EmitEpoll
  <2>1. PICK fd \in pending : awaiting[fd] = c /\ ResumeWith(c, ResultOf(fd))
    BY <1>4, <1>1 DEF EmitEpoll, ResumeWith, schedulerVars, NextEmitter
  <2>2. fd = c
    BY <1>1, <1>2, <2>1 DEF NoDanglingEvent, TypedData
  <2>3. "err" \notin Sides(c) /\ "rdhup" \notin Sides(c)
    BY <1>1, <1>2 DEF Sides
  <2>. QED  BY <1>3, <2>1, <2>2, <2>3 DEF ResultOf
<1>5. CASE EmitTimeout
  <2>1. c \in timers
    BY <1>5, <1>1 DEF EmitTimeout, ResumeWith, NextEmitter
  <2>. QED  BY <1>1, <1>2, <2>1 DEF NoDanglingEvent
<1>6. CASE EmitCondition({t \in Tasks : Holds(t)})
  <2>1. ResumeWith(c, "wakeup")
    BY <1>6, <1>1 DEF EmitCondition, ResumeWith, NextEmitter
  <2>. QED  BY <1>3, <2>1
<1>7. CASE HandScheduled
  <2>1. pc'[c] = "begin"
    BY <1>1, <1>7 DEF HandScheduled, TypedScheduler
  <2>. QED  BY <2>1
<1>8. ASSUME NEW d \in Conns, Handler(d)
      PROVE  running' \in {running, Nobody}
  BY <1>8 DEF Handler, SpanRead, SpanWrite, CharsRead, CharsReadTry, CharsWrite, CharsWriteTry, Resumes,
       Await, Continue, Finish
<1>9. ASSUME NEW w \in Watchers, Watch(w) \/ Watched(w)
      PROVE  running' \in {running, Nobody}
  BY <1>9 DEF Watch, Watched, Await, Finish
<1>10. CASE AcceptOne \/ AcceptBlocks \/ AcceptResumes \/ Connect \/ Connected \/ PopTask \/ CheckDone \/ Tick
  <2>1. running' \in {running, Nobody}
    BY <1>10 DEF AcceptOne, AcceptBlocks, AcceptResumes, Connect, Connected, PopTask, PopScheduled,
         CheckDone, Tick, Await, Continue, Finish
  <2>. QED  BY <1>1, <2>1
<1>11. ASSUME NEW d \in Conns, PeerConnects(d) \/ PeerSends(d) \/ PeerShuts(d) \/ PeerReads(d)
       PROVE  UNCHANGED running
  BY <1>11 DEF PeerConnects, PeerSends, PeerShuts, PeerReads, schedulerVars
<1>12. CASE PeerAnswers \/ UNCHANGED vars
  BY <1>12 DEF PeerAnswers, vars, schedulerVars
<1>. QED
  BY <1>1, <1>4, <1>5, <1>6, <1>7, <1>8, <1>9, <1>10, <1>11, <1>12 DEF Next, Program, Loop

(* What a step of the scheduler makes of a handler that has no control. *)
LEMMA HandlerRests ==
  ASSUME TypedScheduler, QueueIsReady, EventsInv, SchedulerSteps, NEW c \in Tasks, running # c, c # Listen
  PROVE  /\ Awaits(c)' => Awaits(c) /\ event'[c] = event[c]
         /\ \/ pc'[c] = pc[c]
            \/ pc[c] = "unborn" /\ pc'[c] = "ready"
            \/ pc[c] = "ready" /\ pc'[c] = "begin"
            \/ pc[c] = "done" /\ pc'[c] = "destroyed"
         /\ running' = c => pc'[c] \notin Idle
<1> USE DEF Awaits
<1>1. /\ pc \in [Tasks -> Labels] /\ DOMAIN event = Tasks /\ Nobody \notin Tasks
      /\ pc[c] \in Waiting \cup Idle /\ Controlled'
  BY Names, EventsStep DEF TypedScheduler, EventsInv, Controlled
<1>2. running' = c => pc'[c] \notin Idle
  BY <1>1 DEF Controlled
<1>3. CASE HandScheduled
  <2>1. scheduled # <<>> /\ 1 \in 1..Len(scheduled) /\ at = "start" /\ running = Nobody
    BY <1>3 DEF HandScheduled, TypedScheduler, QueueIsReady
  <2>2. pc[scheduled[1]] = "ready" /\ Head(scheduled) = scheduled[1]
    BY <2>1 DEF QueueIsReady
  <2>. QED  BY <1>1, <1>2, <1>3, <2>2 DEF HandScheduled
<1>4. CASE PopScheduled
  BY <1>1, <1>2, <1>4 DEF PopScheduled
<1>5. CASE CheckDone \/ Passes \/ Stays
  BY <1>2, <1>5 DEF CheckDone, Passes, Stays
<1>6. ASSUME NEW t, NEW result, Resumed(t, result)
      PROVE  /\ Awaits(c)' => Awaits(c) /\ event'[c] = event[c]
             /\ pc'[c] = pc[c]
  BY <1>1, <1>6 DEF Resumed, ResumeWith
<1>7. ASSUME NEW t, NEW label, NEW e, Blocks(t, label, e)
      PROVE  /\ Awaits(c)' => Awaits(c) /\ event'[c] = event[c]
             /\ pc'[c] = pc[c]
  BY <1>1, <1>7 DEF Blocks, Await
<1>8. ASSUME NEW t, NEW label, GoesOn(t, label) \/ Ends(t)
      PROVE  /\ Awaits(c)' => Awaits(c) /\ event'[c] = event[c]
             /\ pc'[c] = pc[c]
  BY <1>1, <1>8 DEF GoesOn, Ends, Continue, Finish
<1>9. ASSUME NEW d, Accepts(d)
      PROVE  /\ Awaits(c)' => Awaits(c) /\ event'[c] = event[c]
             /\ pc'[c] = pc[c] \/ (pc[c] = "unborn" /\ pc'[c] = "ready")
  <2>1. /\ UNCHANGED <<running, event>> /\ pc[d] = "unborn"
        /\ pc' = [pc EXCEPT ![d] = "ready", ![Listen] = "begin"]
    BY <1>9 DEF Accepts
  <2>2. CASE c = d
    <3>1. pc'[c] = "ready"
      BY <1>1, <2>1, <2>2
    <3>. QED  BY <2>1, <2>2, <3>1
  <2>3. CASE c # d
    <3>1. pc'[c] = pc[c]
      BY <1>1, <2>1, <2>3
    <3>2. Awaits(c)' <=> Awaits(c)
      BY <2>1, <3>1
    <3>3. event'[c] = event[c]
      BY <2>1
    <3>. QED  BY <3>1, <3>2, <3>3, Zenon
  <2>. QED  BY <2>2, <2>3
<1>. QED
  BY <1>2, <1>3, <1>4, <1>5, <1>6, <1>7, <1>8, <1>9 DEF SchedulerSteps

(* A handler awaits its own socket, without a deadline. *)
LEMMA HandlerAwaits ==
  ASSUME IInv, NEW c \in Conns, Handler(c), Awaits(c)'
  PROVE  event'[c].fd = c /\ event'[c].deadline = NoDeadline
<1>1. DOMAIN event = Tasks /\ c \in Tasks
  BY Names DEF IInv, SchedulerInv, TypedScheduler
<1>2. ASSUME NEW label, Await(c, label, EpollEvent(c, NoDeadline))
      PROVE  event'[c].fd = c /\ event'[c].deadline = NoDeadline
  BY <1>1, <1>2 DEF Await, EpollEvent
<1>3. ASSUME NEW label, running = c, Continue(c, label)
      PROVE  FALSE
  BY <1>3 DEF Continue, Awaits
<1>4. ASSUME Finish(c)
      PROVE  FALSE
  BY <1>1, <1>4 DEF Finish, Awaits, IInv, SchedulerInv, TypedScheduler
<1>. QED
  BY <1>2, <1>3, <1>4 DEF Handler, SpanRead, SpanWrite, CharsRead, CharsReadTry, CharsWrite, CharsWriteTry,
     Resumes, At

(* What a handler awaits, how its socket is registered and what its buffer  *)
(* holds depend on where it is.                                             *)
LEMMA HandlersStep ==
  ASSUME IInv, [Next]_vars
  PROVE  Handlers'
<1>1. SchedulerSteps
  BY SchedulerStepsByKind
<1>2. TypedScheduler /\ QueueIsReady /\ EventsInv /\ TypedData /\ Unborn /\ Handlers
  BY DEF IInv, SchedulerInv, DataInv, EventsInv
<1>3. SUFFICES ASSUME NEW c \in Conns
               PROVE  /\ Awaits(c)' => event'[c].fd = c /\ event'[c].deadline = NoDeadline
                      /\ form[c] = "span" =>
                           /\ c \notin short' /\ pc'[c] \notin {"try", "put"}
                           /\ interest'[c] \subseteq {"in", "out"}
                           /\ running' = c /\ pc'[c] = "writing" => event'[c].result = "wakeup"
                      /\ form[c] = "chars" /\ pc'[c] \in {"unborn", "ready", "begin", "reading", "try"} =>
                           buf'[c] = <<>>
  BY DEF Handlers
<1>4. /\ Awaits(c) => event[c].fd = c /\ event[c].deadline = NoDeadline
      /\ form[c] = "span" =>
           /\ c \notin short /\ pc[c] \notin {"try", "put"} /\ interest[c] \subseteq {"in", "out"}
           /\ running = c /\ pc[c] = "writing" => event[c].result = "wakeup"
      /\ form[c] = "chars" /\ pc[c] \in {"unborn", "ready", "begin", "reading", "try"} => buf[c] = <<>>
      /\ form[c] \in {"span", "chars"} /\ c \in Tasks /\ c # Listen
      /\ pc \in [Tasks -> Labels] /\ c \in Fds
  BY <1>2, Names, ServerAssumption DEF Handlers, TypedScheduler
<1>5. CASE ~Handler(c)
  <2>1. /\ buf'[c] = buf[c] /\ (c \in short' <=> c \in short)
        /\ interest'[c] \in {interest[c], {}, {"in", "out"}}
        /\ running = c => UNCHANGED <<running, pc, event>>
    BY <1>5, OthersLeave
  <2>2. CASE running = c
    BY <1>4, <2>1, <2>2 DEF Awaits
  <2>3. CASE running # c
    <3>1. /\ Awaits(c)' => Awaits(c) /\ event'[c] = event[c]
          /\ \/ pc'[c] = pc[c]
             \/ pc[c] = "unborn" /\ pc'[c] = "ready"
             \/ pc[c] = "ready" /\ pc'[c] = "begin"
             \/ pc[c] = "done" /\ pc'[c] = "destroyed"
      BY <1>1, <1>2, <1>4, <2>3, HandlerRests
    <3>2. form[c] = "span" /\ running' = c /\ pc'[c] = "writing" => event'[c].result = "wakeup"
      BY <2>3, SpanIsWokenUp
    <3>. QED  BY <1>4, <2>1, <3>1, <3>2
  <2>. QED  BY <2>2, <2>3
<1>6. CASE Handler(c)
  <2>1. Awaits(c)' => event'[c].fd = c /\ event'[c].deadline = NoDeadline
    BY <1>6, HandlerAwaits
  <2>2. ASSUME NEW label, Continue(c, label)
        PROVE  pc'[c] = label
    BY <1>4, <2>2 DEF Continue
  <2>3. ASSUME NEW label, Await(c, label, EpollEvent(c, NoDeadline))
        PROVE  pc'[c] = label /\ running' # c
    BY <1>4, <2>3, Names DEF Await
  <2>4. ASSUME Finish(c)
        PROVE  pc'[c] = "done"
    BY <1>4, <2>4 DEF Finish
  <2>5. CASE SpanRead(c)
    <3>1. form[c] = "span" /\ UNCHANGED <<short, interest>>
      BY <2>5 DEF SpanRead
    <3>2. pc'[c] \in {"begin", "write"} \/ pc'[c] = "reading"
      BY <2>2, <2>3, <2>5 DEF SpanRead
    <3>. QED  BY <1>4, <2>1, <3>1, <3>2
  <2>6. CASE SpanWrite(c)
    <3>1. form[c] = "span" /\ UNCHANGED <<short, interest>>
      BY <2>6 DEF SpanWrite
    <3>2. pc'[c] \in {"write", "done"} \/ (pc'[c] = "writing" /\ running' # c)
      BY <2>2, <2>3, <2>4, <2>6 DEF SpanWrite
    <3>. QED  BY <1>4, <2>1, <3>1, <3>2
  <2>7. CASE CharsRead(c) \/ CharsWrite(c)
    <3>1. form[c] = "chars" /\ UNCHANGED buf
      BY <2>7 DEF CharsRead, CharsWrite, data
    <3>2. (pc[c] = "begin" /\ pc'[c] = "reading") \/ pc'[c] = "writing"
      BY <2>3, <2>7 DEF CharsRead, CharsWrite, At
    <3>. QED  BY <1>4, <2>1, <3>1, <3>2
  <2>8. CASE CharsReadTry(c)
    <3>1. pc[c] = "try" /\ pc'[c] = "write"
      BY <2>2, <2>8 DEF CharsReadTry, At
    <3>. QED  BY <1>4, <2>1, <3>1
  <2>9. CASE CharsWriteTry(c)
    <3>1. pc[c] = "put" /\ buf'[c] = <<>>
      BY <1>2, <2>9 DEF CharsWriteTry, At, TypedData
    <3>. QED  BY <1>4, <2>1, <3>1
  <2>10. CASE Resumes(c)
    <3>1. CASE At(c, "reading")
      <4>1. UNCHANGED <<buf, short, interest>> /\ pc[c] = "reading"
            /\ pc'[c] = IF event[c].result # "wakeup" THEN "write" ELSE IF form[c] = "span" THEN "begin" ELSE "try"
        BY <2>2, <2>10, <3>1 DEF Resumes, At, Result, kernel
      <4>. QED  BY <1>4, <2>1, <4>1
    <3>2. CASE At(c, "writing") /\ event[c].result = "wakeup"
      <4>1. UNCHANGED <<buf, short, interest>>
            /\ pc'[c] = IF form[c] = "span" THEN "write" ELSE "put"
        BY <2>2, <2>10, <3>2 DEF Resumes, At, Result, kernel
      <4>. QED  BY <1>4, <2>1, <4>1
    <3>3. CASE At(c, "writing") /\ event[c].result # "wakeup"
      <4>1. buf' = [buf EXCEPT ![c] = <<>>] /\ form[c] # "span"
        BY <1>4, <2>10, <3>3 DEF Resumes, At, Result
      <4>2. buf'[c] = <<>>
        BY <1>2, <4>1 DEF TypedData
      <4>. QED  BY <1>4, <2>1, <4>1, <4>2
    <3>. QED  BY <2>10, <3>1, <3>2, <3>3 DEF Resumes, Result
  <2>. QED  BY <1>6, <2>5, <2>6, <2>7, <2>8, <2>9, <2>10 DEF Handler
<1>. QED  BY <1>5, <1>6

(* What is appended to the last of two is appended to both. *)
LEMMA ConcatAppend ==
  ASSUME NEW a \in Seq(Nat), NEW u \in Seq(Nat), NEW x \in Nat
  PROVE  a \o Append(u, x) = Append(a \o u, x)
<1>1. Append(u, x) = u \o <<x>> /\ <<x>> \in Seq(Nat)
  BY AppendIsConcat
<1>2. a \o u \in Seq(Nat)
  OBVIOUS
<1>3. Append(a \o u, x) = (a \o u) \o <<x>>
  BY ONLY <1>2, x \in Nat, AppendIsConcat
<1>4. (a \o u) \o <<x>> = a \o (u \o <<x>>)
  BY ONLY <1>1, a \in Seq(Nat), u \in Seq(Nat), ConcatAssociative
<1>. QED  BY <1>1, <1>3, <1>4

(* Units move on from one place to the next, come last, or are forgotten by *)
(* a handler that stops short.                                              *)
LEMMA UnitsRiseStep ==
  ASSUME IInv, [Next]_vars
  PROVE  UnitsRise'
<1>1. TypedData /\ TypedData' /\ Handlers /\ UnitsRise
  BY TypedDataStep DEF IInv, DataInv
<1>2. SUFFICES ASSUME NEW c \in Conns
               PROVE  Rising(Whole(c)', sent'[c]) /\ (c \notin short' => Len(Whole(c)') = sent'[c])
  BY DEF UnitsRise
<1>. DEFINE e == echoed[c]
            b == buf[c]
            u == unread[c]
            n == sent[c]
<1>3. /\ e \in Seq(Nat) /\ b \in Seq(Nat) /\ u \in Seq(Nat) /\ n \in Nat
      /\ Rising(e \o b \o u, n) /\ (c \notin short => Len(e \o b \o u) = n)
  BY <1>1 DEF TypedData, UnitsRise, Whole
<1>4. Whole(c)' = echoed'[c] \o buf'[c] \o unread'[c]
  BY DEF Whole
<1>5. Len(b) \in Nat /\ Len(u) \in Nat /\ 0 \in 0..Len(b)
  BY <1>3
<1>6. ASSUME echoed'[c] = e, buf'[c] = b, unread'[c] = u, sent'[c] = n, c \in short => c \in short'
      PROVE  Rising(Whole(c)', sent'[c]) /\ (c \notin short' => Len(Whole(c)') = sent'[c])
  BY <1>3, <1>4, <1>6
<1>7. ASSUME Whole(c)' = e \o b \o u, sent'[c] = n, c \in short => c \in short'
      PROVE  Rising(Whole(c)', sent'[c]) /\ (c \notin short' => Len(Whole(c)') = sent'[c])
  BY <1>3, <1>7
<1>8. ASSUME NEW k \in 0..Len(b), Whole(c)' = (e \o SubSeq(b, 1, k)) \o <<>> \o u, sent'[c] = n,
             c \in short'
      PROVE  Rising(Whole(c)', sent'[c]) /\ (c \notin short' => Len(Whole(c)') = sent'[c])
  <2>1. Rising((e \o SubSeq(b, 1, k)) \o <<>> \o u, n)
    <3>. HIDE DEF e, b, u, n
    <3>. QED  BY <1>3, RisingWithout
  <2>. QED  BY <1>8, <2>1
<1>9. CASE ~Handler(c)
  <2>1. /\ buf'[c] = b /\ echoed'[c] = e /\ (c \in short' <=> c \in short)
        /\ \/ unread'[c] = u /\ sent'[c] = n
           \/ unread'[c] = Append(u, n + 1) /\ sent'[c] = n + 1
    BY <1>9, OthersLeave
  <2>2. CASE unread'[c] = Append(u, n + 1) /\ sent'[c] = n + 1
    <3>1. Whole(c)' = e \o b \o Append(u, n + 1)
      BY <1>4, <2>1, <2>2
    <3>2. e \o b \o Append(u, n + 1) = Append(e \o b \o u, n + 1)
      <4>. HIDE DEF e, b, u, n
      <4>1. e \o b \in Seq(Nat) /\ n + 1 \in Nat /\ u \in Seq(Nat)
        BY <1>3
      <4>. QED  BY ONLY <4>1, ConcatAppend
    <3>3. Rising(Append(e \o b \o u, n + 1), n + 1)
          /\ Len(Append(e \o b \o u, n + 1)) = Len(e \o b \o u) + 1
      <4>. HIDE DEF e, b, u, n
      <4>1. n \in Nat /\ Rising(e \o b \o u, n)
        BY <1>3
      <4>. QED  BY ONLY <4>1, RisingGrows
    <3>. HIDE DEF e, b, u, n
    <3>. QED  BY <1>3, <2>1, <2>2, <3>1, <3>2, <3>3
  <2>. QED  BY <1>6, <2>1, <2>2
<1>10. CASE Handler(c)
  <2>1. sent'[c] = n
    BY <1>10 DEF Handler, SpanRead, SpanWrite, CharsRead, CharsReadTry, CharsWrite, CharsWriteTry, Resumes, kernel
  <2>2. ASSUME UNCHANGED <<echoed, buf, unread, short>>
        PROVE  Rising(Whole(c)', sent'[c]) /\ (c \notin short' => Len(Whole(c)') = sent'[c])
    BY <1>6, <2>1, <2>2
  <2>3. ASSUME NEW k \in 0..Len(b), Put(c, k)
        PROVE  echoed'[c] = e \o SubSeq(b, 1, k)
    BY <1>1, <2>3 DEF Put, TypedData
  <2>4. CASE SpanRead(c)
    <3>1. UNCHANGED <<echoed, short>>
      BY <2>4 DEF SpanRead
    <3>2. CASE buf' # buf \/ unread' # unread
      <4>1. PICK k \in 0..Len(u) :
              /\ buf' = [buf EXCEPT ![c] = buf[c] \o SubSeq(unread[c], 1, k)]
              /\ unread' = [unread EXCEPT ![c] = SubSeq(unread[c], k + 1, Len(unread[c]))]
        BY <1>1, <2>4, <3>2, HowMuch DEF SpanRead, Filled
      <4>2. buf'[c] = b \o SubSeq(u, 1, k) /\ unread'[c] = SubSeq(u, k + 1, Len(u))
        BY <1>1, <4>1 DEF TypedData
      <4>3. Whole(c)' = e \o (b \o SubSeq(u, 1, k)) \o SubSeq(u, k + 1, Len(u))
        BY <1>4, <3>1, <4>2
      <4>4. e \o (b \o SubSeq(u, 1, k)) \o SubSeq(u, k + 1, Len(u)) = e \o b \o u
        <5>. DEFINE p == SubSeq(u, 1, k)
                    q == SubSeq(u, k + 1, Len(u))
        <5>. HIDE DEF e, b, u, n
        <5>1. p \in Seq(Nat) /\ q \in Seq(Nat)
          BY <1>3, TakeAndDrop
        <5>2. (b \o p) \o q = b \o u
          <6>1. b \in Seq(Nat) /\ u \in Seq(Nat) /\ k \in 0..Len(u)
            BY <1>3
          <6>. QED  BY ONLY <6>1, FirstMovesOver
        <5>. HIDE DEF p, q
        <5>3. b \o p \in Seq(Nat)
          BY <1>3, <5>1
        <5>4. (e \o (b \o p)) \o q = e \o ((b \o p) \o q)
          <6>. DEFINE bp == b \o p
          <6>1. e \in Seq(Nat) /\ bp \in Seq(Nat) /\ q \in Seq(Nat)
            BY <1>3, <5>1, <5>3
          <6>. HIDE DEF bp
          <6>2. (e \o bp) \o q = e \o (bp \o q)
            BY ONLY <6>1, ConcatAssociates, Zenon
          <6>. QED  BY <6>2 DEF bp
        <5>5. (e \o b) \o u = e \o (b \o u)
          <6>1. e \in Seq(Nat) /\ b \in Seq(Nat) /\ u \in Seq(Nat)
            BY <1>3
          <6>. QED  BY ONLY <6>1, ConcatAssociates, Zenon
        <5>6. (e \o (b \o p)) \o q = e \o b \o u
          BY ONLY <5>2, <5>4, <5>5
        <5>. QED  BY <5>6 DEF p, q
      <4>. QED  BY <1>7, <2>1, <3>1, <4>3, <4>4
    <3>. QED  BY <2>2, <3>1, <3>2
  <2>5. CASE SpanWrite(c)
    <3>1. CASE UNCHANGED <<sock, room, interest, oneshot, pending, echoed, buf>>
      BY <2>2, <2>5, <3>1 DEF SpanWrite
    <3>2. ASSUME NEW k \in Fits(c), Put(c, k), buf' = [buf EXCEPT ![c] = TakenFrom(c, k)]
          PROVE  Rising(Whole(c)', sent'[c]) /\ (c \notin short' => Len(Whole(c)') = sent'[c])
      <4>1. k \in 0..Len(b)
        BY <1>1, HowMuch
      <4>2. echoed'[c] = e \o SubSeq(b, 1, k) /\ buf'[c] = SubSeq(b, k + 1, Len(b))
            /\ unread'[c] = u /\ UNCHANGED short
        BY <1>1, <2>3, <2>5, <3>2, <4>1 DEF TypedData, TakenFrom, SpanWrite
      <4>3. (e \o SubSeq(b, 1, k)) \o SubSeq(b, k + 1, Len(b)) = e \o b
        <5>. HIDE DEF e, b, u, n
        <5>1. e \in Seq(Nat) /\ b \in Seq(Nat) /\ k \in 0..Len(b)
          BY <1>3, <4>1
        <5>. QED  BY ONLY <5>1, FirstMovesOver
      <4>4. Whole(c)' = e \o b \o u
        BY <1>4, <4>2, <4>3
      <4>. QED  BY <1>7, <2>1, <4>2, <4>4
    <3>. QED  BY <2>5, <3>1, <3>2 DEF SpanWrite
  <2>6. CASE CharsRead(c) \/ CharsWrite(c)
    BY <2>2, <2>6 DEF CharsRead, CharsWrite, kernel, data
  <2>7. CASE CharsReadTry(c)
    <3>1. b = <<>>
      BY <1>1, <2>7, ServerAssumption DEF Handlers, CharsReadTry, At
    <3>2. /\ UNCHANGED <<echoed, short>> /\ buf'[c] = u /\ unread'[c] = <<>>
      BY <1>1, <2>7 DEF CharsReadTry, TypedData
    <3>3. (e \o u) \o <<>> = (e \o <<>>) \o u
      <4>. HIDE DEF e, b, u, n
      <4>1. e \o u \in Seq(Nat)
        BY <1>3
      <4>2. (e \o u) \o <<>> = e \o u
        BY ONLY <4>1, ConcatEmptySeq
      <4>3. e \o <<>> = e
        BY ONLY <1>3, ConcatEmptySeq
      <4>. QED  BY ONLY <4>2, <4>3
    <3>4. Whole(c)' = e \o b \o u
      BY <1>4, <3>1, <3>2, <3>3
    <3>. QED  BY <1>7, <2>1, <3>2, <3>4
  <2>8. CASE CharsWriteTry(c)
    <3>. DEFINE k == Max(Fits(c) \cup {0})
    <3>1. k \in 0..Len(b) /\ (Len(b) <= room[c] => k = Len(b))
      BY <1>1, HowMuch
    <3>7. room[c] \in Nat
      BY <1>1, ServerAssumption DEF TypedData
    <3>2. /\ echoed'[c] = e \o SubSeq(b, 1, k) /\ buf'[c] = <<>> /\ unread'[c] = u
      BY <1>1, <2>3, <2>8, <3>1 DEF CharsWriteTry, TypedData
    <3>3. short' = IF Len(b) > room[c] THEN short \cup {c} ELSE short
      BY <2>8 DEF CharsWriteTry
    <3>. HIDE DEF k
    <3>4. Whole(c)' = (e \o SubSeq(b, 1, k)) \o <<>> \o u
      BY <1>4, <3>2
    <3>5. CASE Len(b) > room[c]
      BY <1>8, <2>1, <3>1, <3>3, <3>4, <3>5
    <3>6. CASE ~(Len(b) > room[c])
      <4>1. k = Len(b)
        BY <1>5, <3>1, <3>6, <3>7
      <4>2. SubSeq(b, 1, Len(b)) = b
        <5>. HIDE DEF e, b, u, n
        <5>1. /\ SubSeq(b, 1, Len(b)) \in Seq(Nat) /\ Len(SubSeq(b, 1, Len(b))) = Len(b)
              /\ \A i \in 1..Len(b) : SubSeq(b, 1, Len(b))[i] = b[i]
          <6>1. b \in Seq(Nat) /\ Len(b) \in 0..Len(b)
            BY <1>3, <1>5
          <6>. QED  BY ONLY <6>1, TakeAndDrop
        <5>. QED  BY <1>3, <5>1, SeqEqual
      <4>3. (e \o b) \o <<>> = e \o b
        <5>. HIDE DEF e, b, u, n
        <5>1. e \o b \in Seq(Nat)
          BY <1>3
        <5>. QED  BY ONLY <5>1, ConcatEmptySeq
      <4>4. Whole(c)' = e \o b \o u
        BY <3>4, <4>1, <4>2, <4>3
      <4>. QED  BY <1>7, <2>1, <3>3, <3>6, <4>4
    <3>. QED  BY <3>5, <3>6
  <2>9. CASE Resumes(c)
    <3>1. UNCHANGED <<echoed, unread>>
      BY <2>9 DEF Resumes, kernel
    <3>2. CASE UNCHANGED <<buf, short>>
      BY <2>2, <3>1, <3>2
    <3>3. CASE buf' = [buf EXCEPT ![c] = <<>>] /\ short' = IF buf[c] # <<>> THEN short \cup {c} ELSE short
      <4>1. buf'[c] = <<>>
        BY <1>1, <3>3 DEF TypedData
      <4>2. CASE b = <<>>
        BY <1>6, <2>1, <3>1, <3>3, <4>1, <4>2
      <4>3. CASE b # <<>>
        <5>1. e \o SubSeq(b, 1, 0) = e
          <6>1. SubSeq(b, 1, 0) = <<>>
            BY SubSeqEmpty
          <6>2. e \o <<>> = e
            <7>. HIDE DEF e, b, u, n
            <7>. QED  BY ONLY <1>3, ConcatEmptySeq
          <6>. QED  BY <6>1, <6>2
        <5>2. Whole(c)' = (e \o SubSeq(b, 1, 0)) \o <<>> \o u
          BY <1>4, <3>1, <4>1, <5>1
        <5>. QED  BY <1>5, <1>8, <2>1, <3>3, <4>3, <5>2
      <4>. QED  BY <4>2, <4>3
    <3>. QED  BY <2>9, <3>2, <3>3 DEF Resumes
  <2>. QED  BY <1>10, <2>4, <2>5, <2>6, <2>7, <2>8, <2>9 DEF Handler
<1>. QED  BY <1>9, <1>10

-----------------------------------------------------------------------------
(* The invariant holds *)

(* At first nobody waits and nothing was sent. *)
LEMMA IInvInit == Init => IInv
<1>1. SUFFICES ASSUME Init PROVE IInv
  OBVIOUS
<1>2. PICK first \in Starts : SchedulerInit(first)
  BY <1>1 DEF Init
<1>3. /\ first \in Seq({Listen, Client} \cup Watchers)
      /\ \A i, j \in DOMAIN first : first[i] = first[j] => i = j
  BY ServerAssumption DEF IsInjective
<1>4. /\ first \in Seq(Tasks) /\ DOMAIN first = 1..Len(first) /\ Len(first) \in Nat
      /\ \A i \in 1..Len(first) : first[i] \in Tasks /\ first[i] \notin Conns
  BY <1>3, Names
<1>5. /\ scheduled = first /\ at = "start" /\ running = Nobody /\ now = 0
      /\ pc = [t \in Tasks |-> IF \E i \in 1..Len(first) : first[i] = t THEN "ready" ELSE "unborn"]
      /\ event = [t \in Tasks |-> NoEvent] /\ awaiting = [fd \in Fds |-> Nobody]
      /\ timers = {} /\ conditions = {} /\ shared = {}
  BY <1>2 DEF SchedulerInit
<1>6. \A t \in Tasks : pc[t] \in {"ready", "unborn"} /\ ~Awaits(t)
  BY <1>5 DEF Awaits
<1>7. TypedScheduler
  <2>1. Event(NoEvent)
    BY SchedulerAssumption DEF Event, NoEvent, Results
  <2>2. pc \in [Tasks -> Labels] /\ \A t \in Tasks : pc[t] \in LabelsOf(t)
    BY <1>5 DEF Labels, LabelsOf, Idle
  <2>. QED  BY <1>4, <1>5, <2>1, <2>2 DEF TypedScheduler
<1>8. QueueIsReady
  <2>1. \A i \in 1..Len(first) : pc[first[i]] = "ready"
    BY <1>4, <1>5
  <2>2. \A t \in Tasks : pc[t] = "ready" => \E i \in 1..Len(first) : first[i] = t
    BY <1>5
  <2>. QED  BY <1>3, <1>4, <1>5, <2>1, <2>2 DEF QueueIsReady
<1>9. Controlled
  BY <1>5, <1>6, Names DEF Controlled, Idle
<1>10. NoDanglingEvent /\ WaiterIsWatched /\ RivalsShare
  BY <1>5, <1>6 DEF NoDanglingEvent, WaiterIsWatched, RivalsShare
<1>11. TypedData
  <2>1. /\ sock \in [Fds -> {"none", "queued", "open", "connecting", "failed", "closed"}]
        /\ \A c \in Conns : sock[c] \notin {"connecting", "failed"}
    BY <1>1, Names DEF Init
  <2>2. /\ sent \in [Conns -> 0..Units] /\ eof \in [Conns -> BOOLEAN] /\ room \in [Conns -> 0..Room]
        /\ unread \in [Conns -> Seq(Nat)] /\ buf \in [Conns -> Seq(Nat)]
        /\ echoed \in [Conns -> Seq(Nat)]
    BY <1>1, ServerAssumption DEF Init
  <2>3. /\ interest \in [Fds -> SUBSET {"in", "out", "rdhup"}] /\ oneshot \in [Fds -> BOOLEAN]
        /\ short \subseteq Conns /\ pending \subseteq Fds
    BY <1>1 DEF Init
  <2>. QED  BY <2>1, <2>2, <2>3 DEF TypedData
<1>12. Unborn
  BY <1>4, <1>5, Names DEF Unborn
<1>13. Handlers
  <2>1. SUFFICES ASSUME NEW c \in Conns
                 PROVE  /\ Awaits(c) => event[c].fd = c /\ event[c].deadline = NoDeadline
                        /\ form[c] = "span" =>
                             /\ c \notin short /\ pc[c] \notin {"try", "put"} /\ interest[c] \subseteq {"in", "out"}
                             /\ running = c /\ pc[c] = "writing" => event[c].result = "wakeup"
                        /\ form[c] = "chars" /\ pc[c] \in {"unborn", "ready", "begin", "reading", "try"} =>
                             buf[c] = <<>>
    BY DEF Handlers
  <2>2. c \in Tasks /\ c \in Fds /\ c # Listen /\ running # c
    BY <1>5, Names
  <2>3. short = {} /\ interest[c] = {} /\ buf[c] = <<>>
    BY <1>1, <2>2 DEF Init
  <2>. QED  BY <1>6, <2>2, <2>3
<1>14. UnitsRise
  <2>1. SUFFICES ASSUME NEW c \in Conns
                 PROVE  Rising(Whole(c), sent[c]) /\ Len(Whole(c)) = sent[c]
    BY DEF UnitsRise
  <2>2. Whole(c) = <<>> \o <<>> \o <<>> /\ sent[c] = 0
    BY <1>1 DEF Init, Whole
  <2>3. \A S : <<>> \in Seq(S)
    OBVIOUS
  <2>4. <<>> \o <<>> = <<>>
    BY <2>3, ConcatEmptySeq
  <2>5. Whole(c) = <<>>
    BY <2>2, <2>4
  <2>6. Len(<<>>) = 0 /\ <<>> \in Seq(1..sent[c])
    OBVIOUS
  <2>7. \A i, j \in 1..Len(Whole(c)) : i <= j => j - i <= Whole(c)[j] - Whole(c)[i]
    BY <2>5, <2>6
  <2>. QED  BY <2>2, <2>5, <2>6, <2>7 DEF Rising
<1>. QED
  BY <1>7, <1>8, <1>9, <1>10, <1>11, <1>12, <1>13, <1>14 DEF IInv, SchedulerInv, DataInv

(* Every step keeps all parts. *)
LEMMA IInvStep == IInv /\ [Next]_vars => IInv'
<1>1. SUFFICES ASSUME IInv, [Next]_vars PROVE IInv'
  OBVIOUS
<1>2. SchedulerSteps
  BY <1>1, SchedulerStepsByKind
<1>3. TypedScheduler /\ QueueIsReady /\ EventsInv
  BY <1>1 DEF IInv, SchedulerInv, EventsInv
<1>4. TypedScheduler' /\ QueueIsReady' /\ EventsInv'
  BY <1>2, <1>3, TypedSchedulerStep, QueueStep, EventsStep DEF EventsInv
<1>5. TypedData' /\ Unborn' /\ Handlers' /\ UnitsRise'
  BY <1>1, TypedDataStep, UnbornStep, HandlersStep, UnitsRiseStep
<1>. QED  BY <1>4, <1>5 DEF IInv, SchedulerInv, DataInv, EventsInv

(* So the invariant always holds. *)
LEMMA Invariance == Spec => []IInv
BY IInvInit, IInvStep, PTL DEF Spec

-----------------------------------------------------------------------------
(* What it implies *)

(* Run returns only when nobody waits: every started task that shares no    *)
(* descriptor has finished.                                                 *)
LEMMA ReturnedHaveFinished == IInv => RunFinishesAll
<1>1. SUFFICES ASSUME IInv, at = "returned", NEW t \in Tasks \ shared
               PROVE  pc[t] \in {"unborn", "done", "destroyed"}
  BY DEF RunFinishesAll
<1>2. TypedScheduler /\ QueueIsReady /\ Controlled /\ WaiterIsWatched
  BY <1>1 DEF IInv, SchedulerInv
<1>3. scheduled = <<>> /\ AllEmpty /\ running = Nobody /\ running # t
  BY <1>1, <1>2, Names DEF QueueIsReady
<1>4. pc[t] # "ready"
  <2>1. Len(scheduled) = 0
    BY <1>3
  <2>. QED  BY <1>2, <2>1 DEF QueueIsReady
<1>5. ~Awaits(t)
  <2>1. SUFFICES ASSUME Awaits(t) PROVE FALSE
    OBVIOUS
  <2>2. Event(event[t]) /\ event[t].category # "none"
    BY <1>2, <2>1 DEF TypedScheduler, Controlled
  <2>3. CASE event[t].category = "condition"
    BY <1>2, <1>3, <2>1, <2>3 DEF WaiterIsWatched, AllEmpty
  <2>4. CASE event[t].category = "epoll"
    BY <1>2, <1>3, <2>1, <2>2, <2>4, Names DEF WaiterIsWatched, AllEmpty, Event
  <2>. QED  BY <2>2, <2>3, <2>4 DEF Event
<1>. QED  BY <1>2, <1>3, <1>4, <1>5 DEF Controlled, Awaits, Idle

(* The whole of what a peer has sent and the handler has not forgotten is   *)
(* no longer than what it has sent.                                         *)
LEMMA WholeIsBounded ==
  ASSUME IInv, NEW c \in Conns
  PROVE  /\ echoed[c] \in Seq(Nat) /\ buf[c] \in Seq(Nat) /\ unread[c] \in Seq(Nat)
         /\ Rising(Whole(c), sent[c]) /\ sent[c] \in 0..Units /\ sent[c] \in Nat
         /\ Len(buf[c]) <= sent[c] /\ Len(echoed[c]) <= Len(Whole(c)) /\ Len(Whole(c)) <= sent[c]
<1>1. /\ echoed[c] \in Seq(Nat) /\ buf[c] \in Seq(Nat) /\ unread[c] \in Seq(Nat)
      /\ Rising(Whole(c), sent[c]) /\ sent[c] \in 0..Units /\ sent[c] \in Nat
  BY ServerAssumption DEF IInv, DataInv, TypedData, UnitsRise
<1>2. Len(Whole(c)) = Len(echoed[c]) + Len(buf[c]) + Len(unread[c])
  BY <1>1, ThreeInARow DEF Whole
<1>3. Len(Whole(c)) <= sent[c] /\ Len(Whole(c)) \in Nat
  BY <1>1, RisingBounds
<1>4. Len(echoed[c]) \in Nat /\ Len(buf[c]) \in Nat /\ Len(unread[c]) \in Nat
  BY <1>1
<1>5. \A l, x, y, z, n \in Nat : l = x + y + z /\ l <= n => y <= n /\ x <= l
  OBVIOUS
<1>7. Len(buf[c]) <= sent[c] /\ Len(echoed[c]) <= Len(Whole(c))
  BY <1>1, <1>2, <1>3, <1>4, <1>5
<1>. QED  BY <1>1, <1>3, <1>7

(* Types, and what emitters and tasks know of one another: no emitter       *)
(* points at an event whose task has gone on, each waiter is with every     *)
(* emitter that may resume it, and Run returns when nobody waits.           *)
THEOREM EmittersKnowTheWaiters == Spec => []EventsAreWatched
<1>1. IInv => TypeOK
  <2>1. SUFFICES ASSUME IInv PROVE TypeOK
    OBVIOUS
  <2>2. \A c \in Conns : Len(buf[c]) <= Units
    <3>1. SUFFICES ASSUME NEW c \in Conns PROVE Len(buf[c]) <= Units
      OBVIOUS
    <3>2. Len(buf[c]) <= sent[c] /\ sent[c] \in 0..Units /\ buf[c] \in Seq(Nat)
      BY <2>1, WholeIsBounded
    <3>3. Len(buf[c]) \in Nat /\ Units \in Nat
      BY <3>2, ServerAssumption
    <3>. QED  BY <3>2, <3>3
  <2>. QED  BY <2>1, <2>2 DEF TypeOK, IInv, SchedulerInv, DataInv, TypedScheduler, TypedData
<1>2. IInv => EventsAreWatched
  BY <1>1, ReturnedHaveFinished DEF EventsAreWatched, IInv, SchedulerInv
<1>. QED  BY <1>2, Invariance, PTL

(* The echo is the input: the units a peer gets back are those it sent, in  *)
(* their order, none twice, and none is lost between the peer and the send  *)
(* buffer unless a buffer write stopped short.                              *)
THEOREM TheEchoIsTheInput == Spec => []EchoIsWhole
<1>1. IInv => EchoInOrder
  <2>1. SUFFICES ASSUME IInv, NEW c \in Conns, NEW i \in 1..Len(echoed[c]), NEW j \in 1..Len(echoed[c]), i < j
                 PROVE  echoed[c][i] < echoed[c][j] /\ echoed[c][j] <= sent[c]
    BY DEF EchoInOrder
  <2>. DEFINE w == Whole(c)
  <2>2. /\ echoed[c] \in Seq(Nat) /\ buf[c] \in Seq(Nat) /\ unread[c] \in Seq(Nat)
        /\ Rising(w, sent[c]) /\ sent[c] \in Nat /\ Len(echoed[c]) <= Len(w)
    BY <2>1, WholeIsBounded
  <2>3. w[i] = echoed[c][i] /\ w[j] = echoed[c][j]
    <3>1. \A x \in 1..Len(echoed[c]) : (echoed[c] \o buf[c] \o unread[c])[x] = echoed[c][x]
      <4>. DEFINE e == echoed[c]
                  b == buf[c]
                  u == unread[c]
      <4>1. e \in Seq(Nat) /\ b \in Seq(Nat) /\ u \in Seq(Nat)
        BY <2>2
      <4>. HIDE DEF e, b, u
      <4>2. \A x \in 1..Len(e) : (e \o b \o u)[x] = e[x]
        BY ONLY <4>1, ThreeInARow
      <4>. QED  BY <4>2 DEF e, b, u
    <3>. QED  BY <2>1, <3>1 DEF Whole
  <2>8. Len(echoed[c]) \in Nat
    BY <2>2
  <2>. HIDE DEF w
  <2>4. /\ Len(w) \in Nat
        /\ \A x \in 1..Len(w) : w[x] \in 1..sent[c]
        /\ \A x, y \in 1..Len(w) : x <= y => y - x <= w[y] - w[x]
    <3>1. Rising(w, sent[c]) /\ sent[c] \in Nat
      BY <2>2
    <3>. QED  BY ONLY <3>1, RisingBounds
  <2>5. i \in 1..Len(w) /\ j \in 1..Len(w) /\ i <= j
    BY <2>1, <2>2, <2>4, <2>8
  <2>6. j - i <= w[j] - w[i] /\ w[i] \in 1..sent[c] /\ w[j] \in 1..sent[c]
    BY <2>4, <2>5
  <2>7. w[i] < w[j] /\ w[j] <= sent[c]
    BY <2>1, <2>2, <2>5, <2>6
  <2>. QED  BY <2>3, <2>7
<1>2. IInv => NothingIsLost
  <2>1. SUFFICES ASSUME IInv, NEW c \in Conns
                 PROVE  /\ c \in short => form[c] = "chars"
                        /\ c \notin short => Whole(c) = [i \in 1..sent[c] |-> i]
    BY DEF NothingIsLost, Whole
  <2>2. form[c] \in {"span", "chars"} /\ (form[c] = "span" => c \notin short)
    BY <2>1, ServerAssumption DEF IInv, DataInv, Handlers
  <2>3. Rising(Whole(c), sent[c]) /\ sent[c] \in Nat /\ (c \notin short => Len(Whole(c)) = sent[c])
    BY <2>1, WholeIsBounded DEF IInv, DataInv, UnitsRise
  <2>. QED  BY <2>2, <2>3, RisingBounds
<1>3. IInv => EchoIsWhole
  BY <1>1, <1>2 DEF EchoIsWhole
<1>. QED  BY <1>3, Invariance, PTL

-----------------------------------------------------------------------------
(* Timers *)

(* A set of numbers has a least one. *)
LEMMA LeastNumber ==
  ASSUME NEW N \in SUBSET Nat, N # {}
  PROVE  \E x \in N : \A y \in N : x <= y
<1>1. PICK R : R = OpToRel(<, Nat)
  OBVIOUS
<1>2. IsWellFoundedOn(R, Nat)
  BY <1>1, NatLessThanWellFounded
<1>3. PICK x \in N : \A y \in N : <<y, x>> \notin R
  BY <1>2, WFMin
<1>4. \A y, z \in Nat : y < z => <<y, z>> \in R
  BY <1>1 DEF OpToRel
<1>5. ASSUME NEW y \in N PROVE x <= y
  <2>1. x \in Nat /\ y \in Nat /\ ~(y < x)
    BY <1>3, <1>4
  <2>. QED  BY <2>1
<1>. QED  BY <1>5

(* The timer that comes first is due before any other is, so if it is not   *)
(* due none is.                                                             *)
LEMMA FirstIsDueFirst ==
  ASSUME IInv, \A t \in timers : ~Expired(t), NEW u \in timers
  PROVE  event[u].deadline >= now
<1>. DEFINE N == {event[t].deadline : t \in timers}
<1>1. \A t \in timers : event[t].deadline \in Nat
  BY DEF IInv, SchedulerInv, NoDanglingEvent, TypedScheduler, Event
<1>2. N \in SUBSET Nat /\ N # {}
  BY <1>1
<1>3. PICK x \in N : \A y \in N : x <= y
  <2>. HIDE DEF N
  <2>. QED  BY <1>2, LeastNumber
<1>4. PICK t \in timers : event[t].deadline = x
  BY <1>3
<1>5. First(t)
  BY <1>3, <1>4 DEF First
<1>6. ~(event[t].deadline < now) /\ event[t].deadline <= event[u].deadline /\ now \in Nat
  BY <1>5 DEF Expired, First, IInv, SchedulerInv, TypedScheduler
<1>. QED  BY <1>1, <1>6

(* The scheduler goes on from its timers only when none of them is due.     *)
THEOREM TimersComeFirst == Spec => NoTimerIsPassedOver
<1>1. ASSUME IInv, [Next]_vars, at = "timeout", at' = "condition", NEW u \in timers
      PROVE  event[u].deadline >= now
  <2>1. QueueIsReady
    BY <1>1 DEF IInv, SchedulerInv
  <2>2. CASE EmitTimeout
    <3>1. \A t \in timers : ~Expired(t)
      BY <1>1, <2>2 DEF EmitTimeout, ResumeWith
    <3>. QED  BY <1>1, <3>1, FirstIsDueFirst
  <2>3. ASSUME NEW c \in Conns, Handler(c)
        PROVE  UNCHANGED at
    BY <2>3 DEF Handler, SpanRead, SpanWrite, CharsRead, CharsReadTry, CharsWrite, CharsWriteTry, Resumes,
         Await, Continue, Finish
  <2>4. ASSUME NEW w \in Watchers, Watch(w) \/ Watched(w)
        PROVE  UNCHANGED at
    BY <2>4 DEF Watch, Watched, Await, Finish
  <2>5. CASE AcceptOne \/ AcceptBlocks \/ AcceptResumes \/ Connect \/ Connected \/ Tick \/ PeerAnswers
             \/ UNCHANGED vars
    BY <1>1, <2>5 DEF AcceptOne, AcceptBlocks, AcceptResumes, Connect, Connected, Tick, PeerAnswers,
         vars, schedulerVars, Await, Continue, Finish
  <2>6. ASSUME NEW c \in Conns, PeerConnects(c) \/ PeerSends(c) \/ PeerShuts(c) \/ PeerReads(c)
        PROVE  UNCHANGED at
    BY <2>6 DEF PeerConnects, PeerSends, PeerShuts, PeerReads, schedulerVars
  <2>7. CASE PopTask \/ HandScheduled \/ CheckDone \/ EmitEpoll
             \/ EmitCondition({t \in Tasks : Holds(t)})
    BY <1>1, <2>7 DEF PopTask, PopScheduled, HandScheduled, CheckDone, EmitEpoll, EmitCondition
  <2>. QED
    BY <1>1, <2>2, <2>3, <2>4, <2>5, <2>6, <2>7 DEF Next, Program, Loop
<1>2. IInv /\ [Next]_vars =>
        [at = "timeout" /\ at' = "condition" => \A t \in timers : event[t].deadline >= now]_schedulerVars
  BY <1>1
<1>. QED  BY <1>2, Invariance, PTL DEF Spec, NoTimerIsPassedOver
=============================================================================
