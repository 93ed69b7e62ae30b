------------------------------ MODULE CoServer ------------------------------
(***************************************************************************)
(* Sockets and asynchronous operations on the stackless scheduler: the     *)
(* accept loop of AsyncServer, the two forms of AsyncRead and AsyncWrite,  *)
(* AsyncConnect, and the tasks of the repository's echo servers.           *)
(*                                                                         *)
(* A task that serves a descriptor has the descriptor's name.  The kernel  *)
(* and the peers are external: edge-triggered epoll, whose interest is     *)
(* given once (registration) or for one event (EpollResetSocket), accept   *)
(* queue, and peers that send units, half-close, and read.  Resets of a    *)
(* connection are left out; a refused connect is the error modelled.       *)
(***************************************************************************)
EXTENDS CoScheduler, SequencesExt

CONSTANTS Listen,       \* the listening socket and its AsyncServer
          Conns,        \* connections a peer may open, and their handlers
          Client,       \* a socket that connects out, and its task
          Watchers,     \* tasks that await a condition or a socket, with a deadline
          watched,      \* the socket of a watcher; Nobody: a condition
          deadline,     \* of a watcher
          form,         \* how a handler reads and writes: "span", "chars"
          Starts,       \* bound: what is scheduled before Run
          Want,         \* units a span handler reads
          Units,        \* bound: units a peer sends
          Room          \* bound: units a send buffer takes

ASSUME ServerAssumption ==
  /\ Fds = {Listen, Client} \cup Conns /\ Tasks = Fds \cup Watchers
  /\ Listen # Client /\ {Listen, Client} \cap Conns = {} /\ Fds \cap Watchers = {}
  /\ form \in [Conns -> {"span", "chars"}]
  /\ watched \in [Watchers -> Fds \cup {Nobody}]
  /\ deadline \in [Watchers -> Nat \cup {NoDeadline}]
  /\ Starts \subseteq Seq({Listen, Client} \cup Watchers)
  /\ \A first \in Starts : IsInjective(first)
  /\ Want \in Nat \ {0} /\ Units \in Nat /\ Room \in Nat \ {0}

VARIABLES
  sock,                 \* none, queued, open, connecting, failed, closed
  sent, unread,         \* units a peer has sent; those not read yet
  eof,                  \* the peer has shut down its side
  room, echoed,         \* of the send buffer; units the kernel took
  interest, oneshot,    \* registration with epoll
  pending,              \* descriptors with an edge not reported yet
  buf,                  \* the buffer of a handler
  dropped,              \* history: input was reported while nobody awaited it
  short                 \* history: a handler forgot what it had not written

kernel == <<sock, sent, unread, eof, room, interest, oneshot, pending>>
data == <<echoed, buf, dropped, short>>
vars == <<schedulerVars, kernel, data>>

Init ==
  /\ \E first \in Starts : SchedulerInit(first)
  /\ sock = [fd \in Fds |-> IF fd = Listen THEN "open" ELSE "none"]
  /\ sent = [c \in Conns |-> 0] /\ unread = [c \in Conns |-> <<>>]
  /\ eof = [c \in Conns |-> FALSE] /\ room = [c \in Conns |-> Room]
  /\ echoed = [c \in Conns |-> <<>>] /\ buf = [c \in Conns |-> <<>>]
  /\ interest = [fd \in Fds |-> IF fd = Listen THEN {"in", "out"} ELSE {}]
  /\ oneshot = [fd \in Fds |-> FALSE]
  /\ pending = {} /\ dropped = {} /\ short = {}

-----------------------------------------------------------------------------
Queued == {c \in Conns : sock[c] = "queued"}

(* What epoll would report of a descriptor.                                 *)
Sides(fd) ==
  LET is(side) == CASE side = "in" -> IF fd = Listen THEN Queued # {}
                                      ELSE fd \in Conns /\ (unread[fd] # <<>> \/ eof[fd])
                    [] side = "out" -> IF fd = Client THEN sock[fd] = "open"
                                       ELSE fd \in Conns /\ room[fd] > 0
                    [] side = "rdhup" -> fd \in Conns /\ eof[fd]
                    [] side = "err" -> sock[fd] = "failed"
  IN {side \in interest[fd] \cup (IF interest[fd] = {} THEN {} ELSE {"err"}) : is(side)}
Edge(fd, side) == pending' = IF side \in interest[fd] \/ (side = "err" /\ interest[fd] # {})
                               THEN pending \cup {fd} ELSE pending

(* Epoll::Emit: one event at a time; one for a descriptor that nobody       *)
(* awaits is thrown away.                                                   *)
ResultOf(fd) ==
  IF "err" \in Sides(fd) THEN "error" ELSE IF "rdhup" \in Sides(fd) THEN "hangup" ELSE "wakeup"
Disarm(fd) == IF oneshot[fd] THEN [interest EXCEPT ![fd] = {}] ELSE interest

EmitEpoll ==
  /\ at = "epoll" /\ running = Nobody
  /\ \/ \E fd \in {p \in pending : Sides(p) # {}} :
          /\ pending' = pending \ {fd} /\ interest' = Disarm(fd)
          /\ \/ /\ awaiting[fd] # Nobody
                /\ ResumeWith(awaiting[fd], ResultOf(fd))
                /\ UNCHANGED dropped
             \/ /\ awaiting[fd] = Nobody
                /\ dropped' = IF "in" \in Sides(fd) THEN dropped \cup {fd} ELSE dropped
                /\ UNCHANGED schedulerVars
     \/ /\ \A fd \in pending : Sides(fd) = {}
        /\ NextEmitter("epoll", "start")
        /\ UNCHANGED <<pending, interest, dropped>>
  /\ UNCHANGED <<sock, sent, unread, eof, room, oneshot, echoed, buf, short>>

(* The condition of the watchers: the client is through.                    *)
Holds(t) == sock[Client] = "closed"

-----------------------------------------------------------------------------
At(t, label) == running = t /\ pc[t] = label
Result(t) == event[t].result

(* EpollRegisterSocket, EpollResetSocket, EpollDeregisterSocket.            *)
Registered(fd, open) ==
  /\ sock' = open
  /\ interest' = [interest EXCEPT ![fd] = {"in", "out"}]
  /\ oneshot' = [oneshot EXCEPT ![fd] = FALSE]
  /\ pending' = pending \cup {fd}
Reset_Armed(fd, side) == UNCHANGED <<interest, oneshot, pending>>
Reset(fd, side) ==
  /\ interest' = [interest EXCEPT ![fd] = {side, "rdhup"}]
  /\ oneshot' = [oneshot EXCEPT ![fd] = TRUE]
  /\ pending' = pending \cup {fd}
Closed(fd) ==
  /\ sock' = [sock EXCEPT ![fd] = "closed"]
  /\ interest' = [interest EXCEPT ![fd] = {}]
  /\ pending' = pending \ {fd}

(* AsyncAccept in the loop of AsyncServer: accept while there is somebody,  *)
(* then await; each connection is registered and its handler scheduled.     *)
AcceptAgain_Awaits == "block"
AcceptAgain == "begin"

AcceptOne ==
  /\ At(Listen, "begin")
  /\ \E c \in Queued :
       /\ Registered(c, [sock EXCEPT ![c] = "open"])
       /\ scheduled' = Append(scheduled, c)
       /\ pc' = [pc EXCEPT ![c] = "ready", ![Listen] = AcceptAgain]
  /\ UNCHANGED <<at, running, event, emitters, now, shared>>
  /\ UNCHANGED <<sent, unread, eof, room, data>>
AcceptBlocks ==
  /\ \/ At(Listen, "begin") /\ Queued = {}
     \/ At(Listen, "block")
  /\ Await(Listen, "accepting", EpollEvent(Listen, NoDeadline))
  /\ UNCHANGED <<kernel, data>>
AcceptResumes ==
  /\ At(Listen, "accepting")
  /\ IF Result(Listen) = "wakeup" THEN Continue(Listen, "begin") ELSE Finish(Listen)
  /\ UNCHANGED <<kernel, data>>

(* AsyncConnect, in a task that owns the socket and closes it when it ends. *)
Connect ==
  /\ At(Client, "begin")
  /\ Registered(Client, [sock EXCEPT ![Client] = "connecting"])
  /\ Await(Client, "connecting", EpollEvent(Client, NoDeadline))
  /\ UNCHANGED <<sent, unread, eof, room, data>>
Connected ==
  /\ At(Client, "connecting")
  /\ Closed(Client) /\ Finish(Client)
  /\ UNCHANGED <<sent, unread, eof, room, oneshot, data>>

-----------------------------------------------------------------------------
(* AsyncRead of a span tries first and awaits at EAGAIN, until it has what  *)
(* it wants or the end of the stream.                                       *)
Filled_FromStart(c, k) == SubSeq(unread[c], 1, k)
Filled(c, k) == buf[c] \o SubSeq(unread[c], 1, k)

SpanRead(c) ==
  /\ form[c] = "span" /\ At(c, "begin")
  /\ LET k == Min({Len(unread[c]), Want - Len(buf[c])}) IN
     \/ /\ k > 0
        /\ buf' = [buf EXCEPT ![c] = Filled(c, k)]
        /\ unread' = [unread EXCEPT ![c] = SubSeq(@, k + 1, Len(@))]
        /\ Continue(c, "begin")
     \/ /\ Len(buf[c]) = Want \/ (k = 0 /\ eof[c])
        /\ Continue(c, "write")
        /\ UNCHANGED <<buf, unread>>
     \/ /\ k = 0 /\ Len(buf[c]) < Want /\ ~eof[c]
        /\ Await(c, "reading", EpollEvent(c, NoDeadline))
        /\ UNCHANGED <<buf, unread>>
  /\ UNCHANGED <<sock, sent, eof, room, interest, oneshot, pending, echoed, dropped, short>>

(* AsyncWrite of a span goes on until all is written.                       *)
TakenFrom(c, k) == SubSeq(buf[c], k + 1, Len(buf[c]))
Put(c, k) ==
  /\ echoed' = [echoed EXCEPT ![c] = @ \o SubSeq(buf[c], 1, k)]
  /\ room' = [room EXCEPT ![c] = @ - k]
Fits(c) == {k \in 1..Len(buf[c]) : k <= room[c]}

SpanWrite(c) ==
  /\ form[c] = "span" /\ At(c, "write")
  /\ \/ \E k \in Fits(c) :
          /\ Put(c, k) /\ buf' = [buf EXCEPT ![c] = TakenFrom(c, k)]
          /\ Continue(c, "write")
          /\ UNCHANGED <<sock, interest, oneshot, pending>>
     \/ /\ buf[c] # <<>> /\ Fits(c) = {}
        /\ Await(c, "writing", EpollEvent(c, NoDeadline))
        /\ UNCHANGED <<sock, room, interest, oneshot, pending, echoed, buf>>
     \/ /\ buf[c] = <<>>
        /\ Finish(c)
        /\ UNCHANGED <<sock, room, interest, oneshot, pending, echoed, buf>>
  /\ UNCHANGED <<sent, unread, eof, dropped, short>>

(* AsyncRead into a buffer awaits first, reads all there is and arms the    *)
(* other side for one event.                                                *)
CharsRead(c) ==
  /\ form[c] = "chars" /\ At(c, "begin")
  /\ Await(c, "reading", EpollEvent(c, NoDeadline))
  /\ UNCHANGED <<kernel, data>>
(* AsyncWrite awaits first too, and stops at EAGAIN as if all was written.  *)
CharsWrite(c) ==
  /\ form[c] = "chars" /\ At(c, "write")
  /\ Await(c, "writing", EpollEvent(c, NoDeadline))
  /\ UNCHANGED <<kernel, data>>

CharsReadTry(c) ==
  /\ At(c, "try")
  /\ buf' = [buf EXCEPT ![c] = unread[c]] /\ unread' = [unread EXCEPT ![c] = <<>>]
  /\ Reset(c, "out")
  /\ Continue(c, "write")
  /\ UNCHANGED <<sock, sent, eof, room, echoed, dropped, short>>
CharsWriteTry(c) ==
  /\ At(c, "put")
  /\ Put(c, Max(Fits(c) \cup {0}))
  /\ short' = IF Len(buf[c]) > room[c] THEN short \cup {c} ELSE short
  /\ buf' = [buf EXCEPT ![c] = <<>>]
  /\ Reset(c, "in")
  /\ Continue(c, "begin")
  /\ UNCHANGED <<sock, sent, unread, eof, dropped>>

(* What the operations do when they are resumed.  A hang-up is not an error *)
(* to the handlers, which look at its errno (0): they go on with the next   *)
(* operation, and the buffer operation has not armed the socket again.      *)
Resumes(c) ==
  /\ \/ /\ At(c, "reading")
        /\ Continue(c, IF Result(c) # "wakeup" THEN "write"
                       ELSE IF form[c] = "span" THEN "begin" ELSE "try")
        /\ UNCHANGED <<buf, short>>
     \/ /\ At(c, "writing") /\ Result(c) = "wakeup"
        /\ Continue(c, IF form[c] = "span" THEN "write" ELSE "put")
        /\ UNCHANGED <<buf, short>>
     \/ /\ At(c, "writing") /\ Result(c) # "wakeup"
        /\ Continue(c, "begin")
        /\ buf' = [buf EXCEPT ![c] = <<>>]
        /\ short' = IF buf[c] # <<>> THEN short \cup {c} ELSE short
  /\ UNCHANGED <<kernel, echoed, dropped>>

(* A frame that the scheduler destroys takes the handler's socket with it.  *)
PopTask ==
  /\ PopScheduled
  /\ LET t == Head(scheduled) IN
     IF pc[t] = "done" /\ t \in Conns
     THEN Closed(t) /\ UNCHANGED <<sent, unread, eof, room, oneshot>>
     ELSE UNCHANGED kernel
  /\ UNCHANGED data

-----------------------------------------------------------------------------
(* A user's task that awaits with a deadline and ends.                      *)
Watch(w) ==
  /\ At(w, "begin")
  /\ LET ends == deadline[w] IN
     IF watched[w] = Nobody
     THEN IF Holds(w) THEN Finish(w) ELSE Await(w, "watching", ConditionEvent(ends))
     ELSE Await(w, "watching", EpollEvent(watched[w], ends))
  /\ UNCHANGED <<kernel, data>>
Watched(w) ==
  /\ At(w, "watching") /\ Finish(w)
  /\ UNCHANGED <<kernel, data>>

-----------------------------------------------------------------------------
PeerConnects(c) ==
  /\ sock[c] = "none"
  /\ sock' = [sock EXCEPT ![c] = "queued"] /\ Edge(Listen, "in")
  /\ UNCHANGED <<schedulerVars, sent, unread, eof, room, interest, oneshot, data>>
PeerSends(c) ==
  /\ sock[c] \in {"queued", "open"} /\ ~eof[c] /\ sent[c] < Units
  /\ sent' = [sent EXCEPT ![c] = @ + 1]
  /\ unread' = [unread EXCEPT ![c] = Append(@, sent[c] + 1)] /\ Edge(c, "in")
  /\ UNCHANGED <<schedulerVars, sock, eof, room, interest, oneshot, data>>
PeerShuts(c) ==
  /\ sock[c] = "open" /\ ~eof[c]
  /\ eof' = [eof EXCEPT ![c] = TRUE]
  /\ pending' = IF interest[c] \cap {"in", "rdhup"} # {} THEN pending \cup {c} ELSE pending
  /\ UNCHANGED <<schedulerVars, sock, sent, unread, room, interest, oneshot, data>>
PeerReads(c) ==
  /\ sock[c] = "open" /\ room[c] < Room
  /\ room' = [room EXCEPT ![c] = @ + 1] /\ Edge(c, "out")
  /\ UNCHANGED <<schedulerVars, sock, sent, unread, eof, interest, oneshot, data>>
PeerAnswers ==
  /\ sock[Client] = "connecting"
  /\ \/ sock' = [sock EXCEPT ![Client] = "open"] /\ Edge(Client, "out")
     \/ sock' = [sock EXCEPT ![Client] = "failed"] /\ Edge(Client, "err")
  /\ UNCHANGED <<schedulerVars, sent, unread, eof, room, interest, oneshot, data>>

Handler(c) ==
  \/ SpanRead(c) \/ SpanWrite(c) \/ CharsRead(c) \/ CharsReadTry(c) \/ CharsWrite(c)
  \/ CharsWriteTry(c) \/ Resumes(c)
Program ==
  \/ Loop /\ UNCHANGED <<kernel, data>>
  \/ EmitCondition({t \in Tasks : Holds(t)}) /\ UNCHANGED <<kernel, data>>
  \/ PopTask \/ EmitEpoll \/ AcceptOne \/ AcceptBlocks \/ AcceptResumes \/ Connect \/ Connected
  \/ (\E c \in Conns : Handler(c)) \/ (\E w \in Watchers : Watch(w) \/ Watched(w))

Next ==
  \/ Program
  \/ Tick /\ UNCHANGED <<kernel, data>>
  \/ \E c \in Conns : PeerConnects(c) \/ PeerSends(c) \/ PeerShuts(c) \/ PeerReads(c)
  \/ PeerAnswers

(* One thread, which goes on; nothing is assumed of peers and clock.        *)
Spec == Init /\ [][Next]_vars /\ WF_vars(Program)

-----------------------------------------------------------------------------
(* Every variable stays in its range, and no send buffer is overfilled.     *)
TypeOK ==
  /\ at \in {"start", "handed", "timeout", "condition", "epoll", "returned"}
  /\ running \in Tasks \cup {Nobody} /\ timers \subseteq Tasks /\ conditions \subseteq Tasks
  /\ awaiting \in [Fds -> Tasks \cup {Nobody}]
  /\ sock \in [Fds -> {"none", "queued", "open", "connecting", "failed", "closed"}]
  /\ room \in [Conns -> 0..Room] /\ \A c \in Conns : Len(buf[c]) <= Units

(* Types, and what emitters and tasks know of one another: no emitter       *)
(* points at an event whose task has gone on, each waiter is with every     *)
(* emitter that may resume it, and Run returns when nobody waits.           *)
EventsAreWatched == TypeOK /\ NoDanglingEvent /\ WaiterIsWatched /\ RunFinishesAll

(* The units a peer gets back are those it sent, in their order, none of    *)
(* them twice.                                                              *)
EchoInOrder ==
  \A c \in Conns : \A i, j \in 1..Len(echoed[c]) :
    i < j => echoed[c][i] < echoed[c][j] /\ echoed[c][j] <= sent[c]

(* Between the peer's sends and the kernel's send buffer no unit is lost,   *)
(* unless a buffer write came to a full send buffer or to a hang-up and     *)
(* reported success all the same; a span write never does.                  *)
NothingIsLost ==
  \A c \in Conns :
    /\ c \in short => form[c] = "chars"
    /\ c \notin short => echoed[c] \o buf[c] \o unread[c] = [i \in 1..sent[c] |-> i]

(* The echo is the input: in order, once, and whole. *)
EchoIsWhole == EchoInOrder /\ NothingIsLost

(* A handler that awaits input is resumed once there is some.  A buffer     *)
(* read that awaits before it has tried is not if the event was reported    *)
(* before it awaited, and after a hang-up the socket stays disarmed.        *)
InputIsRead ==
  \A c \in Conns :
    Awaits(c) /\ pc[c] = "reading" /\ unread[c] # <<>> ~>
      ~Awaits(c) \/ (form[c] = "chars" /\ (c \in dropped \/ eof[c]))

(* A handler that awaits room in its send buffer is resumed once there is.  *)
WriterGoesOn ==
  \A c \in Conns :
    Awaits(c) /\ pc[c] = "writing" /\ room[c] > 0 ~>
      ~Awaits(c) \/ room[c] = 0 \/ (form[c] = "chars" /\ eof[c])

(* A handler goes on when its socket lets it. *)
HandlersGoOn == InputIsRead /\ WriterGoesOn

(* Every connection in the accept queue is accepted, however many came with *)
(* one event, as long as the server alone awaits its socket.                *)
EveryoneIsAccepted ==
  \A c \in Conns :
    sock[c] = "queued" /\ pc[Listen] # "unborn" ~> sock[c] # "queued" \/ Listen \in shared

(* A deadline that has passed ends its wait.                                *)
DeadlineEndsWait ==
  \A t \in Tasks : t \in timers /\ event[t].deadline < now ~> t \notin timers

(* Timers come up in every round of the loop and end what they belong to.   *)
DeadlinesAreKept == NoTimerIsPassedOver /\ DeadlineEndsWait
=============================================================================
