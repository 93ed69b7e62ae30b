----------------------------- MODULE FiberPoll -----------------------------
(***************************************************************************)
(* The system call hooks of syshook.cc on top of co_poll_inner: a fiber    *)
(* that would block registers its descriptors with the epoll instance of   *)
(* its thread, sets a timer, yields, and tries again when the loop has     *)
(* resumed it.                                                             *)
(*                                                                         *)
(* The kernel is external: descriptor numbers that are reused, sockets     *)
(* that become readable and writable, level-triggered epoll.  All hooks    *)
(* are enabled.  Time is abstracted: a timed poll may run out any time.    *)
(***************************************************************************)
EXTENDS Integers, Sequences, FiniteSets, SequencesExt

CONSTANTS Threads, Fibers,
          host,         \* the thread of a fiber
          Fds,          \* descriptor numbers
          Start,        \* state of each descriptor before the fibers run
          Script,       \* bound: the hooks a fiber may call first, second, ...
          WriteLen,     \* bytes of a write
          Room,         \* bytes a send buffer takes
          NoOne

ASSUME PollAssumption ==
  /\ IsFiniteSet(Fibers) /\ Fds \subseteq Nat \ {0}
  /\ host \in [Fibers -> Threads] /\ NoOne \notin Fibers \cup Threads
  /\ Script \in [Fibers -> Seq(SUBSET STRING)]
  /\ Start \in [Fds -> {"closed", "new", "up", "listen"}]
  /\ WriteLen \in Nat \ {0} /\ Room \in Nat \ {0}

VARIABLES
  sock,                 \* closed, raw (just opened), new, listen, pending, up, failed
  input, room,          \* something to read; bytes that can be written
  nonblock,             \* O_NONBLOCK as the kernel knows it
  fresh,                \* the context's domain is -1
  userNonblock, rdTimed, wrTimed,   \* rpchook_t
  reg,                  \* per thread: the fiber whose poll item has the descriptor
  active,               \* pollers to be resumed in this round
  cur,                  \* the running fiber
  pc, call, calls,      \* of each fiber
  askedNonblock, askedTimed, disturbed, misused    \* history

kernel == <<sock, input, room, nonblock>>
contexts == <<fresh, userNonblock, rdTimed, wrTimed>>
loops == <<active, cur>>
asked == <<askedNonblock, askedTimed, misused>>
vars == <<kernel, contexts, reg, loops, pc, call, calls, asked, disturbed>>

(* The locals of a hook: its descriptor, what it polls when it polls,       *)
(* whether that may time out, the events raised, where it goes on, and the  *)
(* counters of its loop.                                                    *)
NoCall == [fd |-> 0, on |-> {}, timed |-> FALSE, raised |-> {}, then |-> "idle",
           wrote |-> 0, taken |-> <<>>, n |-> 0]

Init ==
  /\ sock = Start
  /\ input = [fd \in Fds |-> FALSE]
  /\ room = [fd \in Fds |-> IF Start[fd] = "up" THEN Room ELSE 0]
  /\ nonblock = [fd \in Fds |-> Start[fd] # "closed"]
  /\ fresh = [fd \in Fds |-> Start[fd] = "closed"]
  /\ userNonblock = [fd \in Fds |-> FALSE]
  /\ rdTimed = [fd \in Fds |-> FALSE] /\ wrTimed = [fd \in Fds |-> FALSE]
  /\ reg = [t \in Threads |-> [fd \in Fds |-> NoOne]]
  /\ active = [t \in Threads |-> <<>>]
  /\ cur = [t \in Threads |-> NoOne]
  /\ pc = [f \in Fibers |-> "idle"]
  /\ call = [f \in Fibers |-> NoCall]
  /\ calls = [f \in Fibers |-> 0]
  /\ askedNonblock = [fd \in Fds |-> FALSE]
  /\ askedTimed = [fd \in Fds |-> <<FALSE, FALSE>>]
  /\ misused = {} /\ disturbed = {}

-----------------------------------------------------------------------------
Open(fd) == sock[fd] # "closed"
Ready(fd, w) ==
  \/ sock[fd] = "failed"
  \/ w = "in" /\ input[fd]
  \/ w = "out" /\ sock[fd] = "up" /\ room[fd] > 0

(* A fiber between two hooks goes on with the next, or gives up its thread, *)
(* which costs no step: the loop goes on, or resumes another that is idle.  *)
Free(t) == \A f \in Fibers : cur[t] = f => pc[f] = "idle"
Runs(f) == cur[host[f]] = f
At(f, label) == Runs(f) /\ pc[f] = label
Go(f, label, c) == pc' = [pc EXCEPT ![f] = label] /\ call' = [call EXCEPT ![f] = c]
Return(f) == Go(f, "idle", NoCall) /\ disturbed' = disturbed \ {f}
Keep(f) == cur' = [cur EXCEPT ![host[f]] = f] /\ UNCHANGED active
Leave(f) == cur' = [cur EXCEPT ![host[f]] = NoOne] /\ UNCHANGED active
Parked(f) == pc[f] = "parked"
Uses(f, fd) == pc[f] # "idle" /\ (call[f].fd = fd \/ \E p \in call[f].on : p[1] = fd)

(* Two hooks of one thread on a descriptor, or of two threads on the same   *)
(* side of it, take each other's registration or each other's data.         *)
Rivals(f, on) ==
  {g \in Fibers \ {f} : pc[g] # "idle" /\ \E p \in on, q \in call[g].on :
      p[1] = q[1] /\ (p[2] = q[2] \/ host[f] = host[g])}
Disturb(f, on) ==
  disturbed' = disturbed \cup Rivals(f, on) \cup (IF Rivals(f, on) = {} THEN {} ELSE {f})

(* FdContextManager::GetContextByFd fills a context on its first use: until *)
(* then it stands for these.                                                *)
IsNonblock(fd) == ~fresh[fd] /\ userNonblock[fd]
Timed(fd, w) == ~fresh[fd] /\ (IF w = "in" THEN rdTimed[fd] ELSE wrTimed[fd])

-----------------------------------------------------------------------------
(* co_poll_inner: EPOLL_CTL_ADD for every descriptor, with its errors       *)
(* ignored (EEXIST when a fiber of the thread has it already, EBADF when it *)
(* is closed), a timer, and the yield.                                      *)
Adds(f, on) ==
  {fd \in {p[1] : p \in on} : Open(fd) /\ reg[host[f]][fd] = NoOne}
Registered(f, on) ==
  [fd \in Fds |-> IF fd \in Adds(f, on) THEN f ELSE reg[host[f]][fd]]

PollEnter(f, c, timed, then) ==
  /\ reg' = [reg EXCEPT ![host[f]] = Registered(f, c.on)]
  /\ Go(f, "parked", [c EXCEPT !.timed = timed, !.raised = {}, !.then = then])
  /\ Leave(f)

(* After the yield: EPOLL_CTL_DEL for every descriptor, whoever has it.     *)
Unregistered_RaisedOnly(f) ==
  [fd \in Fds |-> IF \E p \in call[f].raised : p[1] = fd THEN NoOne ELSE reg[host[f]][fd]]
Unregistered(f) ==
  [fd \in Fds |-> IF \E p \in call[f].on : p[1] = fd THEN NoOne ELSE reg[host[f]][fd]]

PollExit(f) ==
  /\ At(f, "parked")
  /\ reg' = [reg EXCEPT ![host[f]] = Unregistered(f)]
  /\ IF call[f].then = "idle" THEN Return(f)
     ELSE Go(f, call[f].then, call[f]) /\ UNCHANGED disturbed
  /\ UNCHANGED <<kernel, contexts, loops, calls, asked>>

-----------------------------------------------------------------------------
(* threadRoutine: events, then expired timers, make the active list.        *)
(* OnPollPrepare moves a poller there with its first event.                 *)
Events(t, f) ==
  {p \in call[f].on : reg[t][p[1]] = f /\ Ready(p[1], p[2])}

Woken_All(t) ==
  {f \in Fibers : host[f] = t /\ Parked(f) /\ Events(t, f) = call[f].on}
Woken(t) == {f \in Fibers : host[f] = t /\ Parked(f) /\ Events(t, f) # {}}
MayExpire(t) == {f \in Fibers : host[f] = t /\ Parked(f) /\ call[f].timed}
Due(t) == MayExpire(t) \ Woken(t)

Collect(t) ==
  /\ Free(t) /\ active[t] = <<>>
  /\ cur' = [cur EXCEPT ![t] = NoOne]
  /\ \E expired \in SUBSET Due(t) :
     \E first \in SetToSeqs(Woken(t)), last \in SetToSeqs(expired) :
       /\ first \o last # <<>>
       /\ active' = [active EXCEPT ![t] = first \o last]
  /\ call' = [f \in Fibers |-> IF f \in Woken(t)
                THEN [call[f] EXCEPT !.raised = Events(t, f)] ELSE call[f]]
  /\ UNCHANGED <<kernel, contexts, reg, pc, calls, asked, disturbed>>

(* OnPollProcess *)
ResumeNext(t) ==
  /\ Free(t) /\ active[t] # <<>>
  /\ cur' = [cur EXCEPT ![t] = Head(active[t])]
  /\ active' = [active EXCEPT ![t] = Tail(@)]
  /\ UNCHANGED <<kernel, contexts, reg, pc, call, calls, asked, disturbed>>

-----------------------------------------------------------------------------
Begins(f, op) ==
  /\ Runs(f) \/ (Free(host[f]) /\ active[host[f]] = <<>>)
  /\ pc[f] = "idle" /\ calls[f] < Len(Script[f]) /\ op \in Script[f][calls[f] + 1]
  /\ calls' = [calls EXCEPT ![f] = @ + 1]
Usable == {fd \in Fds : sock[fd] \notin {"closed", "raw"}}
On(fd) == [NoCall EXCEPT !.fd = fd]

(* The kernel opens the lowest number; the hook then makes the context and  *)
(* the descriptor non-blocking, in a step of its own.                       *)
Lowest(fd) == ~Open(fd) /\ \A k \in Fds : k < fd => Open(k)
RawOpen(f, fd, label, left) ==
  /\ sock' = [sock EXCEPT ![fd] = "raw"]
  /\ nonblock' = [nonblock EXCEPT ![fd] = FALSE]
  /\ input' = [left EXCEPT ![fd] = FALSE] /\ room' = [room EXCEPT ![fd] = 0]
  /\ askedNonblock' = [askedNonblock EXCEPT ![fd] = FALSE]
  /\ askedTimed' = [askedTimed EXCEPT ![fd] = <<FALSE, FALSE>>]
  /\ Go(f, label, On(fd))

Socket(f) ==
  /\ Begins(f, "socket")
  /\ \E fd \in Fds : Lowest(fd) /\ RawOpen(f, fd, "setupNew", input)
  /\ Keep(f)
  /\ UNCHANGED <<contexts, reg, misused, disturbed>>

(* fcntl(F_SETFL): the kernel's flag is always set, the user's is kept.     *)
KernelFlag(param) == TRUE

SetFlags(fd, param) ==
  /\ nonblock' = [nonblock EXCEPT ![fd] = KernelFlag(param)]
  /\ fresh' = [fresh EXCEPT ![fd] = FALSE]
  /\ userNonblock' = [userNonblock EXCEPT ![fd] = param]
  /\ rdTimed' = [rdTimed EXCEPT ![fd] = Timed(fd, "in")]
  /\ wrTimed' = [wrTimed EXCEPT ![fd] = Timed(fd, "out")]

Setup(f) ==
  /\ pc[f] \in {"setupNew", "setupAccepted"} /\ Runs(f)
  /\ LET fd == call[f].fd  new == pc[f] = "setupNew" IN
     /\ SetFlags(fd, nonblock[fd])
     /\ sock' = [sock EXCEPT ![fd] = IF new THEN "new" ELSE "up"]
     /\ room' = [room EXCEPT ![fd] = IF new THEN 0 ELSE Room]
  /\ Return(f)
  /\ UNCHANGED <<input, reg, loops, calls, asked>>

Fcntl(f) ==
  /\ Begins(f, "fcntl")
  /\ \E fd \in Usable, param \in BOOLEAN :
       /\ SetFlags(fd, param)
       /\ askedNonblock' = [askedNonblock EXCEPT ![fd] = param]
  /\ Keep(f)
  /\ UNCHANGED <<sock, input, room, reg, pc, call, askedTimed, misused, disturbed>>

(* setsockopt remembers SO_RCVTIMEO and SO_SNDTIMEO.                        *)
Closing(fd) == \E g \in Fibers : pc[g] = "closing" /\ call[g].fd = fd
Setsockopt(f) ==
  /\ Begins(f, "setsockopt")
  /\ \E fd \in Usable, timed \in BOOLEAN, w \in {"in", "out"} :
       /\ fresh' = [fresh EXCEPT ![fd] = FALSE]
       /\ userNonblock' = [userNonblock EXCEPT ![fd] = IsNonblock(fd)]
       /\ rdTimed' = [rdTimed EXCEPT ![fd] = IF w = "in" THEN timed ELSE Timed(fd, "in")]
       /\ wrTimed' = [wrTimed EXCEPT ![fd] = IF w = "out" THEN timed ELSE Timed(fd, "out")]
       /\ askedTimed' = [askedTimed EXCEPT ![fd] = <<rdTimed'[fd], wrTimed'[fd]>>]
       /\ misused' = IF Closing(fd) THEN misused \cup {fd} ELSE misused
  /\ Keep(f)
  /\ UNCHANGED <<kernel, reg, pc, call, askedNonblock, disturbed>>

(* close: first the context is dropped, then the descriptor.                *)
DelContext_Keeps(fd) == UNCHANGED fresh
DelContext(fd) == fresh' = [fresh EXCEPT ![fd] = TRUE]

Close(f) ==
  /\ Begins(f, "close")
  /\ \E fd \in Usable :
       /\ ~Closing(fd)
       /\ DelContext(fd)
       /\ Go(f, "closing", On(fd))
       /\ misused' = misused \ {fd}
  /\ Keep(f)
  /\ UNCHANGED <<kernel, userNonblock, rdTimed, wrTimed, reg, askedNonblock, askedTimed, disturbed>>
RawClose(f) ==
  /\ At(f, "closing")
  /\ LET fd == call[f].fd IN
     /\ sock' = [sock EXCEPT ![fd] = "closed"]
     /\ input' = [input EXCEPT ![fd] = FALSE] /\ room' = [room EXCEPT ![fd] = 0]
     /\ reg' = [t \in Threads |-> [reg[t] EXCEPT ![fd] = NoOne]]
     /\ disturbed' = disturbed \cup {g \in Fibers \ {f} : Uses(g, fd)}
  /\ Go(f, "idle", NoCall)
  /\ UNCHANGED <<nonblock, contexts, loops, calls, asked>>

-----------------------------------------------------------------------------
(* A hook on a descriptor begins: if the user asked for a non-blocking      *)
(* descriptor it makes one call and returns.                                *)
Starts(f, op, fd, w) ==
  /\ Begins(f, op) /\ Disturb(f, {<<fd, w>>})
  /\ sock[fd] = (CASE op = "accept" -> "listen" [] op = "connect" -> "new" [] OTHER -> "up")
For(fd, w) == [NoCall EXCEPT !.fd = fd, !.on = {<<fd, w>>}]

(* These poll first and then try once.                                      *)
PollFirst(f, op, try) ==
  /\ \E fd \in Fds :
       /\ Starts(f, op, fd, "in")
       /\ IF IsNonblock(fd)
          THEN Go(f, try, For(fd, "in")) /\ Keep(f) /\ UNCHANGED reg
          ELSE PollEnter(f, For(fd, "in"), Timed(fd, "in"), try)
  /\ UNCHANGED <<kernel, contexts, asked>>
Read(f) == PollFirst(f, "read", "read")
Readv(f) == PollFirst(f, "readv", "read")
Recv(f) == PollFirst(f, "recv", "read")
Recvfrom(f) == PollFirst(f, "recvfrom", "read")
Accept(f) == PollFirst(f, "accept", "accept")

ReadTry(f) ==
  /\ At(f, "read")
  /\ input' = [input EXCEPT ![call[f].fd] = FALSE]
  /\ Return(f)
  /\ UNCHANGED <<sock, room, nonblock, contexts, reg, loops, calls, asked>>

(* The new descriptor is set up like that of socket.                        *)
AcceptTry(f) ==
  /\ At(f, "accept")
  /\ LET fd == call[f].fd
         got == sock[fd] = "listen" /\ input[fd] /\ \E new \in Fds : ~Open(new)
     IN \/ /\ got /\ \E new \in Fds :
                Lowest(new) /\ RawOpen(f, new, "setupAccepted", [input EXCEPT ![fd] = FALSE])
           /\ disturbed' = disturbed \ {f}
           /\ UNCHANGED <<contexts, reg, loops, calls, misused>>
        \/ /\ ~got /\ Return(f)
           /\ UNCHANGED <<kernel, contexts, reg, loops, calls, asked>>

-----------------------------------------------------------------------------
(* These try first.                                                         *)
TryFirst(f, op, try) ==
  /\ \E fd \in Fds :
       /\ Starts(f, op, fd, "out")
       /\ Go(f, IF IsNonblock(fd) THEN "once" ELSE try, For(fd, "out"))
  /\ Keep(f)
  /\ UNCHANGED <<kernel, contexts, reg, asked>>
Write(f) == TryFirst(f, "write", "write")
Send(f) == TryFirst(f, "send", "write")
Sendto(f) == TryFirst(f, "sendto", "sendto")
Writev(f) == TryFirst(f, "writev", "once")

Slice(c, k) == [i \in 1..k |-> c.wrote + i]
Pushes(fd, c) == {k \in 1..(WriteLen - c.wrote) : sock[fd] = "up" /\ k <= room[fd]}
Taken(c, k) == [c EXCEPT !.wrote = @ + k, !.taken = @ \o Slice(c, k)]

PollsAgain(f, c, label) == PollEnter(f, c, Timed(c.fd, "out"), label) /\ UNCHANGED disturbed

(* write and send poll and try again until all is written: the first        *)
(* failure only makes them poll, a later one ends the call.                 *)
WriteTry(f) ==
  /\ At(f, "write")
  /\ LET c == call[f]  full == Pushes(c.fd, c) = {} IN
     \/ \E k \in Pushes(c.fd, c) :
          LET d == [Taken(c, k) EXCEPT !.n = 1] IN
          /\ room' = [room EXCEPT ![c.fd] = @ - k]
          /\ IF d.wrote < WriteLen THEN PollsAgain(f, d, "write")
             ELSE Go(f, "wrote", d) /\ UNCHANGED <<reg, loops, disturbed>>
     \/ /\ full /\ c.n = 0
        /\ PollsAgain(f, [c EXCEPT !.n = 1], "write")
        /\ UNCHANGED room
     \/ /\ full /\ c.n = 1
        /\ Go(f, "wrote", c)
        /\ UNCHANGED <<room, reg, loops, disturbed>>
  /\ UNCHANGED <<sock, input, nonblock, contexts, calls, asked>>
Wrote(f) ==
  /\ At(f, "wrote") /\ Return(f)
  /\ UNCHANGED <<kernel, contexts, reg, loops, calls, asked>>

(* sendto polls after a first failure only; writev1 never polls.            *)
WriteOnce(f) ==
  /\ pc[f] \in {"sendto", "once"} /\ Runs(f)
  /\ LET c == call[f] IN
     \/ /\ \E k \in Pushes(c.fd, c) : room' = [room EXCEPT ![c.fd] = @ - k]
        /\ Return(f) /\ UNCHANGED <<reg, loops>>
     \/ /\ Pushes(c.fd, c) = {} /\ UNCHANGED room
        /\ IF pc[f] = "sendto" THEN PollsAgain(f, c, "once")
           ELSE Return(f) /\ UNCHANGED <<reg, loops>>
  /\ UNCHANGED <<sock, input, nonblock, contexts, calls, asked>>

-----------------------------------------------------------------------------
(* connect: start it, poll up to three times, and ask for its outcome when  *)
(* POLLOUT is among the events.  A poll that ran out returns events nobody  *)
(* has written, so POLLOUT may or may not be among them.                    *)
SoError_Unread(fd) == 0
SoError(fd) == IF sock[fd] = "failed" THEN 1 ELSE 0

Connect(f) ==
  /\ \E fd \in Fds :
       /\ Starts(f, "connect", fd, "out")
       /\ sock' = [sock EXCEPT ![fd] = "pending"]
       /\ IF IsNonblock(fd)
          THEN Go(f, "refused", For(fd, "out")) /\ Keep(f) /\ UNCHANGED reg
          ELSE PollEnter(f, [For(fd, "out") EXCEPT !.n = 1], TRUE, "connect")
  /\ UNCHANGED <<input, room, nonblock, contexts, asked>>

Connecting(f) ==
  /\ At(f, "connect")
  /\ LET c == call[f] IN
     \/ /\ c.raised = {} /\ c.n < 3
        /\ PollEnter(f, [c EXCEPT !.n = @ + 1], TRUE, "connect")
     \/ /\ c.raised # {} \/ c.n = 3
        /\ Go(f, IF SoError(c.fd) = 0 THEN "connected" ELSE "refused", c)
        /\ UNCHANGED <<reg, loops>>
     \/ /\ c.raised = {} /\ c.n = 3
        /\ Go(f, "refused", c)
        /\ UNCHANGED <<reg, loops>>
  /\ UNCHANGED <<kernel, contexts, calls, asked, disturbed>>
Connected(f) ==
  /\ pc[f] \in {"connected", "refused"} /\ Runs(f) /\ Return(f)
  /\ UNCHANGED <<kernel, contexts, reg, loops, calls, asked>>

(* poll of the user, on one descriptor or more, twice the same one merged.  *)
Poll(f) ==
  /\ Begins(f, "poll")
  /\ \E fds \in SUBSET {fd \in Fds : sock[fd] \in {"up", "listen"}}, timed \in BOOLEAN :
       LET on == {<<fd, "in">> : fd \in fds} IN
       /\ fds # {} /\ Cardinality(fds) <= 2
       /\ Disturb(f, on)
       /\ PollEnter(f, [NoCall EXCEPT !.on = on], timed, "idle")
  /\ UNCHANGED <<kernel, contexts, asked>>

-----------------------------------------------------------------------------
(* The other end of the sockets.                                            *)
Arrive(fd) ==
  /\ sock[fd] \in {"up", "listen"} /\ ~input[fd]
  /\ input' = [input EXCEPT ![fd] = TRUE]
  /\ UNCHANGED <<sock, room, nonblock, contexts, reg, loops, pc, call, calls, asked, disturbed>>
Drain(fd) ==
  /\ sock[fd] = "up" /\ room[fd] < Room
  /\ room' = [room EXCEPT ![fd] = @ + 1]
  /\ UNCHANGED <<sock, input, nonblock, contexts, reg, loops, pc, call, calls, asked, disturbed>>
Answer(fd) ==
  /\ sock[fd] = "pending"
  /\ \/ sock' = [sock EXCEPT ![fd] = "up"] /\ room' = [room EXCEPT ![fd] = Room]
     \/ sock' = [sock EXCEPT ![fd] = "failed"] /\ UNCHANGED room
  /\ UNCHANGED <<input, nonblock, contexts, reg, loops, pc, call, calls, asked, disturbed>>

Hook(f) ==
  \/ Socket(f) \/ Setup(f) \/ Fcntl(f) \/ Setsockopt(f) \/ Close(f) \/ RawClose(f)
  \/ Read(f) \/ Readv(f) \/ Recv(f) \/ Recvfrom(f) \/ Accept(f) \/ ReadTry(f) \/ AcceptTry(f)
  \/ Write(f) \/ Send(f) \/ Sendto(f) \/ Writev(f) \/ WriteTry(f) \/ WriteOnce(f) \/ Wrote(f)
  \/ Connect(f) \/ Connecting(f) \/ Connected(f) \/ Poll(f) \/ PollExit(f)

Next ==
  \/ \E t \in Threads : Collect(t) \/ ResumeNext(t)
  \/ \E f \in Fibers : Hook(f)
  \/ \E fd \in Fds : Arrive(fd) \/ Drain(fd) \/ Answer(fd)

(* A thread goes round its loop for ever, and a fiber that runs in a hook   *)
(* goes on.  Nobody has to call a hook, nothing is assumed of the network.  *)
Proceed(t) == ResumeNext(t) \/ (\E f \in Fibers : cur[t] = f /\ pc[f] # "idle" /\ Hook(f))
Fairness == \A t \in Threads : WF_vars(Collect(t)) /\ WF_vars(Proceed(t))

Spec == Init /\ [][Next]_vars /\ Fairness

-----------------------------------------------------------------------------
(* Every variable stays in its range; no send buffer is overfilled.         *)
TypeOK ==
  /\ sock \in [Fds -> {"closed", "raw", "new", "listen", "pending", "up", "failed"}]
  /\ room \in [Fds -> 0..Room] /\ input \in [Fds -> BOOLEAN]
  /\ reg \in [Threads -> [Fds -> Fibers \cup {NoOne}]]
  /\ cur \in [Threads -> Fibers \cup {NoOne}]
  /\ \A f \in Fibers : calls[f] \in 0..Len(Script[f]) /\ call[f].fd \in Fds \cup {0}

(* An epoll instance never keeps a poll item whose fiber has left           *)
(* co_poll_inner: the item lives on that fiber's stack.                     *)
NoDanglingRegistration ==
  \A t \in Threads, fd \in Fds :
    reg[t][fd] # NoOne =>
      LET f == reg[t][fd] IN
      /\ host[f] = t /\ Parked(f)
      /\ \E p \in call[f].on : p[1] = fd

(* Each poller is in the active list once at most, and nobody is resumed    *)
(* from it who is not in co_poll_inner: an event takes the poller out of    *)
(* the wheel, so that its timer does not resume it a second time.           *)
ActiveIsExact ==
  \A t \in Threads :
    /\ IsInjective(active[t])
    /\ \A i \in 1..Len(active[t]) : Parked(active[t][i]) /\ active[t][i] # cur[t]

(* A parked fiber that shares its descriptors with nobody is known to epoll *)
(* for every one of them; the errors of EPOLL_CTL_ADD may be ignored then.  *)
WaiterIsArmed ==
  \A f \in Fibers : Parked(f) /\ f \notin disturbed =>
    \A p \in call[f].on : reg[host[f]][p[1]] = f

(* What epoll and the loop know of pollers is exact at every step: types,   *)
(* registrations, and the list of those to be resumed.                      *)
PollersAreExact == TypeOK /\ NoDanglingRegistration /\ ActiveIsExact /\ WaiterIsArmed

(* A hook that waited for input finds it when it tries, unless its poll ran *)
(* out: read and accept have no second try, so EAGAIN would reach a user    *)
(* who asked for a blocking descriptor.                                     *)
BlockingCallHasData ==
  \A f \in Fibers :
    /\ pc[f] \in {"read", "accept"} /\ call[f].then = pc[f] /\ f \notin disturbed
    /\ ~(call[f].timed /\ call[f].raised = {})
    => input[call[f].fd]

(* write returns the number of bytes the kernel took, they are the first    *)
(* bytes of the buffer in their order, and it stops short only when a poll  *)
(* ran out.                                                                 *)
WriteIsWhole ==
  \A f \in Fibers : pc[f] = "wrote" =>
    LET c == call[f] IN
    /\ c.taken = [i \in 1..c.wrote |-> i]
    /\ c.wrote < WriteLen => f \in disturbed \/ (c.timed /\ c.raised = {})

(* connect reports success only for a connection that is up, unless all its *)
(* polls ran out (it reads events nobody has written then).                 *)
ConnectIsHonest ==
  \A f \in Fibers : pc[f] = "connected" =>
    \/ sock[call[f].fd] = "up" \/ f \in disturbed
    \/ call[f].raised = {} /\ call[f].n = 3

(* What a hook tells its caller after having waited is what the kernel did. *)
HooksAreHonest == BlockingCallHasData /\ WriteIsWhole /\ ConnectIsHonest

(* The context of an open descriptor tells what its own user asked for, not *)
(* the user of an earlier file with that number, and the kernel's flag is   *)
(* always non-blocking.                                                     *)
ContextBelongsToFile ==
  \A fd \in Usable \ misused : ~Closing(fd) =>
    /\ nonblock[fd]
    /\ IsNonblock(fd) = askedNonblock[fd]
    /\ <<Timed(fd, "in"), Timed(fd, "out")>> = askedTimed[fd]

(* A parked fiber is resumed once one of its descriptors is ready.          *)
PollerIsResumed ==
  \A f \in Fibers :
    Parked(f) /\ (\E p \in call[f].on : Ready(p[1], p[2])) ~> ~Parked(f) \/ f \in disturbed
=============================================================================
