--------------------------- MODULE FiberPoll_proofs ---------------------------
(***************************************************************************)
(* Proofs about FiberPoll: what epoll and the loop know of the fibers that *)
(* wait in a system call hook, what the hooks tell their callers, and the  *)
(* contexts of the descriptors, for any number of fibers, threads and      *)
(* descriptors.                                                            *)
(***************************************************************************)
EXTENDS FiberPoll, SequenceTheorems, FiniteSetTheorems, TLAPS

-----------------------------------------------------------------------------
(* The inductive invariant *)

(* The labels of a fiber: outside the hooks, parked in co_poll_inner, or in *)
(* a hook on a new or dying descriptor, on input, or on output.             *)
FileLabels == {"setupNew", "setupAccepted", "closing"}
InLabels == {"read", "accept"}
ConnectLabels == {"connect", "connected", "refused"}
OutLabels == {"write", "wrote", "sendto", "once"} \cup ConnectLabels
Labels == {"idle", "parked"} \cup FileLabels \cup InLabels \cup OutLabels

(* The hook a fiber is in, parked or not. *)
Where(l, c) == IF l = "parked" THEN c.then ELSE l

(* What a fiber at label l may have in its locals c. *)
Calls == [fd : Fds \cup {0}, on : SUBSET (Fds \X {"in", "out"}), timed : BOOLEAN,
          raised : SUBSET (Fds \X {"in", "out"}), then : Labels,
          wrote : 0..WriteLen, taken : Seq(Nat), n : 0..3]
Call(c) == c \in Calls /\ c.raised \subseteq c.on /\ c.taken = [i \in 1..c.wrote |-> i]
Shape(l, c) ==
  /\ l = "idle" => c = NoCall
  /\ l \in FileLabels => c.fd \in Fds /\ c.on = {}
  /\ l = "parked" => c.then \in {"idle", "read", "accept", "write", "once", "connect"}
  /\ l = "parked" /\ c.then = "idle" => \A p \in c.on : p[2] = "in"
  /\ Where(l, c) \in InLabels => c.fd \in Fds /\ c.on = {<<c.fd, "in">>}
  /\ Where(l, c) \in OutLabels => c.fd \in Fds /\ c.on = {<<c.fd, "out">>}
  /\ l \in InLabels => c.then \in {"idle", l}
  /\ Where(l, c) = "write" => c.wrote < WriteLen /\ c.n \in {0, 1} /\ (l = "parked" => c.n = 1)

KernelTypes ==
  /\ sock \in [Fds -> {"closed", "raw", "new", "listen", "pending", "up", "failed"}]
  /\ room \in [Fds -> 0..Room] /\ input \in [Fds -> BOOLEAN]
ContextTypes ==
  /\ nonblock \in [Fds -> BOOLEAN] /\ fresh \in [Fds -> BOOLEAN]
  /\ userNonblock \in [Fds -> BOOLEAN] /\ rdTimed \in [Fds -> BOOLEAN] /\ wrTimed \in [Fds -> BOOLEAN]
  /\ askedNonblock \in [Fds -> BOOLEAN] /\ askedTimed \in [Fds -> BOOLEAN \X BOOLEAN]
  /\ misused \subseteq Fds
LoopTypes ==
  /\ reg \in [Threads -> [Fds -> Fibers \cup {NoOne}]]
  /\ active \in [Threads -> Seq(Fibers)] /\ cur \in [Threads -> Fibers \cup {NoOne}]
CallTypes ==
  /\ pc \in [Fibers -> Labels] /\ disturbed \subseteq Fibers
  /\ call = [h \in Fibers |-> call[h]] /\ \A f \in Fibers : Call(call[f]) /\ Shape(pc[f], call[f])
FewCalls == calls \in [Fibers -> Nat] /\ \A f \in Fibers : calls[f] <= Len(Script[f])
Types == KernelTypes /\ ContextTypes /\ LoopTypes /\ CallTypes /\ FewCalls

(* The loop of each thread: who is in the active list or runs lives on the  *)
(* thread, and a fiber inside a hook runs unless it is parked.              *)
Loops ==
  /\ \A t \in Threads : cur[t] # NoOne => host[cur[t]] = t
  /\ \A t \in Threads : \A i \in 1..Len(active[t]) : host[active[t][i]] = t
  /\ \A f \in Fibers : pc[f] \notin {"idle", "parked"} => Runs(f)

(* A fiber is resumed from a poll because of an event or of a timer. *)
Answered(c) == c.raised # {} \/ c.timed
Resumed ==
  /\ \A f \in Fibers : Parked(f) /\ Runs(f) => Answered(call[f])
  /\ \A t \in Threads : \A i \in 1..Len(active[t]) : Answered(call[active[t][i]])
  /\ \A f \in Fibers : pc[f] \in InLabels /\ call[f].then = pc[f] => Answered(call[f])
  /\ \A f \in Fibers : pc[f] = "write" /\ call[f].n = 1 => Answered(call[f])

LoopInv == Loops /\ ActiveIsExact /\ NoDanglingRegistration /\ Resumed

(* Two hooks that can take each other's registration or data are known.     *)
RivalsAreDisturbed ==
  \A f, g \in Fibers : \A p \in call[f].on, q \in call[g].on :
    f # g /\ p[1] = q[1] /\ (p[2] = q[2] \/ host[f] = host[g]) => f \in disturbed

(* One fiber opens a descriptor, one fiber closes it. *)
OneOpens ==
  /\ \A f \in Fibers : pc[f] \in {"setupNew", "setupAccepted"} => sock[call[f].fd] = "raw"
  /\ \A f \in Fibers : pc[f] = "closing" => call[f].fd \in Usable
  /\ \A f, g \in Fibers :
       pc[f] \in FileLabels /\ pc[g] \in FileLabels /\ call[f].fd = call[g].fd => f = g

(* The socket of an undisturbed hook is the one it began with, and an event *)
(* raised for it still holds.                                               *)
States(l, w) ==
  IF w = "in" THEN {"up", "listen"}
  ELSE IF l \in ConnectLabels THEN {"pending", "up", "failed"} ELSE {"up"}
KeepsItsFile(f) ==
  \A p \in call[f].on :
    /\ sock[p[1]] \in States(Where(pc[f], call[f]), p[2])
    /\ pc[f] # "wrote" /\ p \in call[f].raised => Ready(p[1], p[2])
FilesAreKept == \A f \in Fibers \ disturbed : KeepsItsFile(f)

FilesInv == RivalsAreDisturbed /\ OneOpens /\ FilesAreKept

(* A context outside the life of a file remembers no timer. *)
ContextsAreClean ==
  \A fd \in Fds :
    /\ fd \notin misused /\ (fd \notin Usable \/ Closing(fd)) => ~Timed(fd, "in") /\ ~Timed(fd, "out")
    /\ sock[fd] = "raw" => ~nonblock[fd] /\ ~askedNonblock[fd] /\ askedTimed[fd] = <<FALSE, FALSE>>

ContextsInv == ContextsAreClean /\ ContextBelongsToFile
HooksInv == WaiterIsArmed /\ WriteIsWhole /\ ConnectIsHonest
IInv == Types /\ LoopInv /\ FilesInv /\ HooksInv /\ ContextsInv
-----------------------------------------------------------------------------
(* The locals of a hook and the variables they live in *)

(* A fiber that may begin a hook or go on with the one it is in.            *)
CanGo(f) ==
  /\ pc[f] # "parked"
  /\ Runs(f) \/ (pc[f] = "idle" /\ Free(host[f]) /\ active[host[f]] = <<>>)

(* What a step of f does to the call of f and of every other fiber. *)
LEMMA GoDoes ==
  ASSUME Types, NEW f \in Fibers, NEW l \in Labels, NEW c, Go(f, l, c)
  PROVE  /\ pc'[f] = l /\ call'[f] = c
         /\ \A g \in Fibers \ {f} : pc'[g] = pc[g] /\ call'[g] = call[g]
         /\ pc' \in [Fibers -> Labels] /\ call' = [h \in Fibers |-> call'[h]]
         /\ Call(c) /\ Shape(l, c) => \A g \in Fibers : Call(call'[g]) /\ Shape(pc'[g], call'[g])
<1>1. pc' = [pc EXCEPT ![f] = l] /\ call' = [call EXCEPT ![f] = c]
  BY DEF Go
<1>2. pc \in [Fibers -> Labels] /\ call = [h \in Fibers |-> call[h]]
      /\ \A g \in Fibers : Call(call[g]) /\ Shape(pc[g], call[g])
  BY DEF Types, LoopTypes, CallTypes
<1>3. /\ pc'[f] = l /\ call'[f] = c
      /\ \A g \in Fibers \ {f} : pc'[g] = pc[g] /\ call'[g] = call[g]
      /\ pc' \in [Fibers -> Labels] /\ call' = [h \in Fibers |-> call'[h]]
  BY <1>1, <1>2
<1>4. ASSUME Call(c), Shape(l, c), NEW g \in Fibers
      PROVE  Call(call'[g]) /\ Shape(pc'[g], call'[g])
  BY <1>2, <1>3, <1>4
<1>. QED  BY <1>3, <1>4

(* The parts of a call. *)
LEMMA CallHas ==
  ASSUME Types, NEW f \in Fibers
  PROVE  /\ call[f].fd \in Fds \cup {0} /\ call[f].on \subseteq Fds \X {"in", "out"}
         /\ call[f].raised \subseteq call[f].on /\ call[f].timed \in BOOLEAN
         /\ call[f].then \in Labels /\ call[f].n \in 0..3 /\ call[f].wrote \in 0..WriteLen
         /\ pc[f] \in Labels
         /\ \A p \in call[f].on : p[1] \in Fds /\ p[2] \in {"in", "out"} /\ p = <<p[1], p[2]>>
<1>1. Call(call[f]) /\ pc[f] \in Labels
  BY DEF Types, LoopTypes, CallTypes
<1>2. /\ call[f].fd \in Fds \cup {0} /\ call[f].on \subseteq Fds \X {"in", "out"}
      /\ call[f].raised \subseteq call[f].on /\ call[f].timed \in BOOLEAN
      /\ call[f].then \in Labels /\ call[f].n \in 0..3 /\ call[f].wrote \in 0..WriteLen
  BY <1>1 DEF Call, Calls
<1>. QED  BY <1>1, <1>2

(* Outside the hooks there is no call. *)
LEMMA NoCallIs ==
  /\ Call(NoCall) /\ Shape("idle", NoCall) /\ NoCall.on = {} /\ NoCall.raised = {}
  /\ NoCall.then = "idle" /\ NoCall.wrote = 0 /\ NoCall.n = 0 /\ NoCall.fd = 0
<1>1. WriteLen \in Nat /\ <<>> = [i \in 1..0 |-> i] /\ <<>> \in Seq(Nat)
  BY PollAssumption
<1>2. /\ NoCall.on = {} /\ NoCall.raised = {} /\ NoCall.then = "idle" /\ NoCall.wrote = 0
      /\ NoCall.n = 0 /\ NoCall.fd = 0 /\ NoCall.taken = <<>>
  BY DEF NoCall
<1>3. NoCall \in Calls
  BY <1>1 DEF NoCall, Calls, Labels
<1>4. Shape("idle", NoCall)
  BY DEF Shape, Where, FileLabels, InLabels, OutLabels, ConnectLabels
<1>. QED  BY <1>1, <1>2, <1>3, <1>4 DEF Call

(* A hook on one side of a descriptor, and on a new or dying one. *)
LEMMA ForIs ==
  ASSUME NEW fd \in Fds, NEW w \in {"in", "out"}
  PROVE  LET c == For(fd, w) IN
         /\ Call(c) /\ c.fd = fd /\ c.on = {<<fd, w>>} /\ c.raised = {} /\ c.then = "idle"
         /\ c.wrote = 0 /\ c.n = 0
<1> DEFINE c == For(fd, w)
<1>1. /\ c.fd = fd /\ c.on = {<<fd, w>>} /\ c.raised = {} /\ c.then = "idle"
      /\ c.wrote = 0 /\ c.n = 0 /\ c.taken = NoCall.taken
  BY DEF For, NoCall
<1>2. c \in Calls
  <2>1. {<<fd, w>>} \in SUBSET (Fds \X {"in", "out"})
    OBVIOUS
  <2>. QED  BY <2>1, NoCallIs DEF For, Call, Calls
<1>. QED  BY <1>1, <1>2, NoCallIs DEF Call

LEMMA PollIs ==
  ASSUME NEW on \in SUBSET (Fds \X {"in", "out"})
  PROVE  LET c == [NoCall EXCEPT !.on = on] IN
         Call(c) /\ c.fd = 0 /\ c.on = on /\ c.raised = {} /\ c.then = "idle" /\ c.wrote = 0
<1> DEFINE c == [NoCall EXCEPT !.on = on]
<1>1. /\ c.on = on /\ c.fd = 0 /\ c.raised = {} /\ c.then = "idle"
      /\ c.wrote = 0 /\ c.taken = NoCall.taken
  BY DEF NoCall
<1>2. c \in Calls
  BY NoCallIs DEF Call, Calls
<1>. QED  BY <1>1, <1>2, NoCallIs DEF Call

LEMMA OnIs ==
  ASSUME NEW fd \in Fds
  PROVE  LET c == On(fd) IN
         Call(c) /\ c.fd = fd /\ c.on = {} /\ c.raised = {} /\ c.then = "idle"
<1> DEFINE c == On(fd)
<1>1. /\ c.fd = fd /\ c.on = {} /\ c.raised = {} /\ c.then = "idle"
      /\ c.wrote = 0 /\ c.taken = NoCall.taken
  BY DEF On, NoCall
<1>2. c \in Calls
  BY NoCallIs DEF On, Call, Calls
<1>. QED  BY <1>1, <1>2, NoCallIs DEF Call

(* The locals of a hook that enters the poll. *)
Polling(c, timed, then) == [c EXCEPT !.timed = timed, !.raised = {}, !.then = then]
LEMMA PollOf ==
  ASSUME NEW c, Call(c), NEW timed \in BOOLEAN, NEW then \in Labels
  PROVE  LET d == Polling(c, timed, then) IN
         /\ Call(d) /\ d.on = c.on /\ d.raised = {} /\ d.then = then /\ d.timed = timed
         /\ d.fd = c.fd /\ d.wrote = c.wrote /\ d.n = c.n /\ d.taken = c.taken
<1> DEFINE d == Polling(c, timed, then)
<1>1. /\ d.on = c.on /\ d.raised = {} /\ d.then = then /\ d.timed = timed
      /\ d.fd = c.fd /\ d.wrote = c.wrote /\ d.n = c.n /\ d.taken = c.taken
  BY DEF Call, Calls, Polling
<1>2. d \in Calls
  BY DEF Call, Calls, Polling
<1>. QED  BY <1>1, <1>2 DEF Call

-----------------------------------------------------------------------------
(* What epoll and the loop know of pollers *)

(* A fiber that can go on is the one that runs, or nobody is in a hook; it  *)
(* is in no list and in no epoll instance.                                  *)
LEMMA CanGoIs ==
  ASSUME Types, Loops, ActiveIsExact, NoDanglingRegistration, NEW f \in Fibers, CanGo(f)
  PROVE  /\ \A g \in Fibers \ {f} : host[g] = host[f] => pc[g] \in {"idle", "parked"} /\ ~(Parked(g) /\ Runs(g))
         /\ \A t \in Threads, fd \in Fds : reg[t][fd] # f
         /\ \A t \in Threads : \A i \in 1..Len(active[t]) : active[t][i] # f
<1>1. host[f] \in Threads /\ NoOne \notin Fibers
  BY PollAssumption
<1>2. ASSUME NEW g \in Fibers \ {f}, host[g] = host[f]
      PROVE  pc[g] \in {"idle", "parked"} /\ ~(Parked(g) /\ Runs(g))
  <2>1. CASE Runs(f)
    BY <1>2, <2>1 DEF Loops, Runs
  <2>2. CASE Free(host[f])
    BY <1>2, <2>2 DEF Loops, Runs, Free, Parked
  <2>. QED  BY <2>1, <2>2 DEF CanGo
<1>3. \A t \in Threads, fd \in Fds : reg[t][fd] # f
  BY <1>1 DEF NoDanglingRegistration, CanGo, Parked
<1>4. \A t \in Threads : \A i \in 1..Len(active[t]) : active[t][i] # f
  BY DEF ActiveIsExact, CanGo, Parked
<1>. QED  BY <1>2, <1>3, <1>4

(* A hook that begins or goes on, and does not poll. *)
LEMMA StaysInLoop ==
  ASSUME Types, LoopInv, NEW f \in Fibers, NEW l \in Labels \ {"parked"}, NEW c,
         CanGo(f), Go(f, l, c), Keep(f),
         reg' \in [Threads -> [Fds -> Fibers \cup {NoOne}]],
         \A t \in Threads, fd \in Fds : reg'[t][fd] \in {reg[t][fd], NoOne},
         l \in InLabels /\ c.then = l => Answered(c),
         l = "write" /\ c.n = 1 => Answered(c)
  PROVE  LoopInv'
<1>0. /\ Loops /\ ActiveIsExact /\ NoDanglingRegistration /\ Resumed
      /\ host[f] \in Threads /\ NoOne \notin Fibers
      /\ cur \in [Threads -> Fibers \cup {NoOne}] /\ active \in [Threads -> Seq(Fibers)]
  BY PollAssumption DEF LoopInv, Types, LoopTypes, CallTypes
<1>1. /\ pc'[f] = l /\ call'[f] = c
      /\ \A g \in Fibers \ {f} : pc'[g] = pc[g] /\ call'[g] = call[g]
  BY GoDoes
<1>2. /\ cur'[host[f]] = f /\ \A t \in Threads \ {host[f]} : cur'[t] = cur[t]
      /\ active' = active /\ pc[f] # "parked"
  BY <1>0 DEF Keep, CanGo
<1>3. /\ \A g \in Fibers \ {f} :
           host[g] = host[f] => pc[g] \in {"idle", "parked"} /\ ~(Parked(g) /\ Runs(g))
      /\ \A t \in Threads, fd \in Fds : reg[t][fd] # f
      /\ \A t \in Threads : \A i \in 1..Len(active[t]) : active[t][i] # f
  BY <1>0, CanGoIs
<1>4. \A t \in Threads : \A i \in 1..Len(active[t]) : active[t][i] \in Fibers
  BY <1>0
<1>5. Loops'
  <2>1. \A t \in Threads : cur'[t] # NoOne => host[cur'[t]] = t
    BY <1>0, <1>2 DEF Loops
  <2>2. \A t \in Threads : \A i \in 1..Len(active'[t]) : host[active'[t][i]] = t
    BY <1>0, <1>2 DEF Loops
  <2>3. ASSUME NEW g \in Fibers, pc'[g] \notin {"idle", "parked"}
        PROVE  cur'[host[g]] = g
    <3>1. host[g] \in Threads
      BY PollAssumption
    <3>2. CASE g = f
      BY <1>2, <3>2
    <3>3. CASE g # f
      BY <1>0, <1>1, <1>2, <1>3, <2>3, <3>1, <3>3 DEF Loops, Runs
    <3>. QED  BY <3>2, <3>3
  <2>. QED  BY <2>1, <2>2, <2>3 DEF Loops, Runs
<1>6. ActiveIsExact'
  <2>1. ASSUME NEW t \in Threads, NEW i \in 1..Len(active[t])
        PROVE  Parked(active[t][i])' /\ active[t][i] # cur'[t]
    <3>1. active[t][i] \in Fibers /\ active[t][i] # f
      BY <1>3, <1>4
    <3>2. pc[active[t][i]] = "parked" /\ active[t][i] # cur[t]
      BY <1>0 DEF ActiveIsExact, Parked
    <3>. QED  BY <1>1, <1>2, <3>1, <3>2 DEF Parked
  <2>. QED  BY <1>0, <1>2, <2>1 DEF ActiveIsExact
<1>7. NoDanglingRegistration'
  <2> SUFFICES ASSUME NEW t \in Threads, NEW fd \in Fds, reg'[t][fd] # NoOne
               PROVE  LET g == reg'[t][fd] IN
                      /\ host[g] = t /\ pc'[g] = "parked"
                      /\ \E p \in call'[g].on : p[1] = fd
    BY DEF NoDanglingRegistration, Parked
  <2>1. reg'[t][fd] = reg[t][fd] /\ reg[t][fd] \in Fibers \ {f}
    BY <1>3 DEF Types, LoopTypes, CallTypes
  <2>2. /\ host[reg[t][fd]] = t /\ pc[reg[t][fd]] = "parked"
        /\ \E p \in call[reg[t][fd]].on : p[1] = fd
    BY <1>0, <2>1 DEF NoDanglingRegistration, Parked
  <2>. QED  BY <1>1, <2>1, <2>2
<1>8. Resumed'
  <2>1. ASSUME NEW g \in Fibers, Parked(g)', Runs(g)'
        PROVE  Answered(call'[g])
    <3>1. g # f /\ host[g] \in Threads /\ cur'[host[g]] = g /\ pc[g] = "parked"
      BY <1>1, <2>1, PollAssumption DEF Parked, Runs
    <3>2. host[g] # host[f]
      BY <1>2, <3>1
    <3>. QED  BY <1>0, <1>1, <1>2, <3>1, <3>2 DEF Resumed, Parked, Runs
  <2>2. ASSUME NEW t \in Threads, NEW i \in 1..Len(active'[t])
        PROVE  Answered(call'[active'[t][i]])
    <3>1. active'[t][i] = active[t][i] /\ i \in 1..Len(active[t])
      BY <1>2
    <3>2. active[t][i] \in Fibers \ {f} /\ Answered(call[active[t][i]])
      BY <1>0, <1>3, <1>4, <3>1 DEF Resumed
    <3>. QED  BY <1>1, <3>1, <3>2
  <2>3. ASSUME NEW g \in Fibers, pc'[g] \in InLabels, call'[g].then = pc'[g]
        PROVE  Answered(call'[g])
    BY <1>0, <1>1, <2>3 DEF Resumed
  <2>4. ASSUME NEW g \in Fibers, pc'[g] = "write", call'[g].n = 1
        PROVE  Answered(call'[g])
    BY <1>0, <1>1, <2>4 DEF Resumed
  <2>. QED  BY <2>1, <2>2, <2>3, <2>4 DEF Resumed
<1>. QED  BY <1>5, <1>6, <1>7, <1>8 DEF LoopInv

(* The registrations of a fiber that enters the poll. *)
LEMMA RegisteredIs ==
  ASSUME Types, NEW f \in Fibers, NEW on \in SUBSET (Fds \X {"in", "out"}),
         reg' = [reg EXCEPT ![host[f]] = Registered(f, on)]
  PROVE  /\ reg' \in [Threads -> [Fds -> Fibers \cup {NoOne}]]
         /\ \A t \in Threads \ {host[f]} : reg'[t] = reg[t]
         /\ \A fd \in Fds : reg'[host[f]][fd] = IF fd \in Adds(f, on) THEN f ELSE reg[host[f]][fd]
<1>1. host[f] \in Threads /\ reg \in [Threads -> [Fds -> Fibers \cup {NoOne}]]
  BY PollAssumption DEF Types, LoopTypes, CallTypes
<1>2. Registered(f, on) \in [Fds -> Fibers \cup {NoOne}]
  BY <1>1 DEF Registered
<1>3. reg'[host[f]] = Registered(f, on)
  BY <1>1
<1>. QED  BY <1>1, <1>2, <1>3 DEF Registered

(* A hook that polls. *)
LEMMA EntersPoll ==
  ASSUME Types, LoopInv, NEW f \in Fibers, NEW c, Call(c),
         CanGo(f), Go(f, "parked", c), Leave(f),
         reg' = [reg EXCEPT ![host[f]] = Registered(f, c.on)]
  PROVE  LoopInv'
<1>0. /\ Loops /\ ActiveIsExact /\ NoDanglingRegistration /\ Resumed
      /\ host[f] \in Threads /\ NoOne \notin Fibers /\ "parked" \in Labels
      /\ cur \in [Threads -> Fibers \cup {NoOne}] /\ active \in [Threads -> Seq(Fibers)]
      /\ c.on \in SUBSET (Fds \X {"in", "out"})
  BY PollAssumption DEF LoopInv, Types, LoopTypes, CallTypes, Labels, Call, Calls
<1>1. /\ pc'[f] = "parked" /\ call'[f] = c
      /\ \A g \in Fibers \ {f} : pc'[g] = pc[g] /\ call'[g] = call[g]
  BY <1>0, GoDoes
<1>2. /\ cur'[host[f]] = NoOne /\ \A t \in Threads \ {host[f]} : cur'[t] = cur[t]
      /\ active' = active /\ pc[f] # "parked"
  BY <1>0 DEF Leave, CanGo
<1>3. /\ \A g \in Fibers \ {f} :
           host[g] = host[f] => pc[g] \in {"idle", "parked"} /\ ~(Parked(g) /\ Runs(g))
      /\ \A t \in Threads, fd \in Fds : reg[t][fd] # f
      /\ \A t \in Threads : \A i \in 1..Len(active[t]) : active[t][i] # f
  BY <1>0, CanGoIs
<1>4. \A t \in Threads : \A i \in 1..Len(active[t]) : active[t][i] \in Fibers
  BY <1>0
<1>9. /\ reg' \in [Threads -> [Fds -> Fibers \cup {NoOne}]]
      /\ \A t \in Threads \ {host[f]} : reg'[t] = reg[t]
      /\ \A fd \in Fds : reg'[host[f]][fd] = IF fd \in Adds(f, c.on) THEN f ELSE reg[host[f]][fd]
  BY <1>0, RegisteredIs
<1>5. Loops'
  <2>1. \A t \in Threads : cur'[t] # NoOne => host[cur'[t]] = t
    BY <1>0, <1>2 DEF Loops
  <2>2. \A t \in Threads : \A i \in 1..Len(active'[t]) : host[active'[t][i]] = t
    BY <1>0, <1>2 DEF Loops
  <2>3. ASSUME NEW g \in Fibers, pc'[g] \notin {"idle", "parked"}
        PROVE  cur'[host[g]] = g
    <3>1. host[g] \in Threads /\ g # f /\ pc[g] = pc'[g]
      BY <1>1, <2>3, PollAssumption
    <3>. QED  BY <1>0, <1>2, <1>3, <2>3, <3>1 DEF Loops, Runs
  <2>. QED  BY <2>1, <2>2, <2>3 DEF Loops, Runs
<1>6. ActiveIsExact'
  <2>1. ASSUME NEW t \in Threads, NEW i \in 1..Len(active[t])
        PROVE  Parked(active[t][i])' /\ active[t][i] # cur'[t]
    <3>1. active[t][i] \in Fibers /\ active[t][i] # f
      BY <1>3, <1>4
    <3>2. pc[active[t][i]] = "parked" /\ active[t][i] # cur[t]
      BY <1>0 DEF ActiveIsExact, Parked
    <3>. QED  BY <1>0, <1>1, <1>2, <3>1, <3>2 DEF Parked
  <2>. QED  BY <1>0, <1>2, <2>1 DEF ActiveIsExact
<1>7. NoDanglingRegistration'
  <2> SUFFICES ASSUME NEW t \in Threads, NEW fd \in Fds, reg'[t][fd] # NoOne
               PROVE  LET g == reg'[t][fd] IN
                      /\ host[g] = t /\ pc'[g] = "parked"
                      /\ \E p \in call'[g].on : p[1] = fd
    BY DEF NoDanglingRegistration, Parked
  <2>1. CASE t = host[f] /\ fd \in Adds(f, c.on)
    <3>1. reg'[t][fd] = f /\ \E p \in c.on : p[1] = fd
      BY <1>9, <2>1 DEF Adds
    <3>. QED  BY <1>1, <2>1, <3>1 DEF Parked
  <2>2. CASE ~(t = host[f] /\ fd \in Adds(f, c.on))
    <3>1. reg'[t][fd] = reg[t][fd]
      BY <1>9, <2>2
    <3>2. reg[t][fd] \in Fibers \ {f} /\ reg[t][fd] # NoOne
      BY <1>3, <3>1 DEF Types, LoopTypes, CallTypes
    <3>3. /\ host[reg[t][fd]] = t /\ pc[reg[t][fd]] = "parked"
          /\ \E p \in call[reg[t][fd]].on : p[1] = fd
      BY <1>0, <3>2 DEF NoDanglingRegistration, Parked
    <3>. QED  BY <1>1, <3>1, <3>2, <3>3
  <2>. QED  BY <2>1, <2>2
<1>8. Resumed'
  <2>1. ASSUME NEW g \in Fibers, Parked(g)', Runs(g)'
        PROVE  Answered(call'[g])
    <3>1. host[g] \in Threads /\ cur'[host[g]] = g /\ host[g] # host[f] /\ g # f
      BY <1>0, <1>2, <2>1, PollAssumption DEF Runs
    <3>2. pc[g] = "parked" /\ call'[g] = call[g] /\ cur[host[g]] = g
      BY <1>1, <1>2, <2>1, <3>1 DEF Parked
    <3>3. Answered(call[g])
      BY <1>0, <3>2 DEF Resumed, Parked, Runs
    <3>. QED  BY <3>2, <3>3
  <2>2. ASSUME NEW t \in Threads, NEW i \in 1..Len(active'[t])
        PROVE  Answered(call'[active'[t][i]])
    <3>1. active'[t][i] = active[t][i] /\ i \in 1..Len(active[t])
      BY <1>2
    <3>2. active[t][i] \in Fibers \ {f} /\ Answered(call[active[t][i]])
      BY <1>0, <1>3, <1>4, <3>1 DEF Resumed
    <3>. QED  BY <1>1, <3>1, <3>2
  <2>3. ASSUME NEW g \in Fibers, pc'[g] \in InLabels, call'[g].then = pc'[g]
        PROVE  Answered(call'[g])
    BY <1>0, <1>1, <2>3 DEF Resumed, InLabels
  <2>4. ASSUME NEW g \in Fibers, pc'[g] = "write", call'[g].n = 1
        PROVE  Answered(call'[g])
    BY <1>0, <1>1, <2>4 DEF Resumed
  <2>. QED  BY <2>1, <2>2, <2>3, <2>4 DEF Resumed
<1>. QED  BY <1>5, <1>6, <1>7, <1>8 DEF LoopInv

(* The end of a poll: the fiber goes on and nobody knows it any more. *)
LEMMA LeavesPoll ==
  ASSUME Types, LoopInv, NEW f \in Fibers, PollExit(f)
  PROVE  LoopInv'
<1> DEFINE l == call[f].then
           c == IF l = "idle" THEN NoCall ELSE call[f]
<1>0. /\ Loops /\ ActiveIsExact /\ NoDanglingRegistration /\ Resumed
      /\ host[f] \in Threads /\ NoOne \notin Fibers
      /\ cur \in [Threads -> Fibers \cup {NoOne}] /\ active \in [Threads -> Seq(Fibers)]
      /\ reg \in [Threads -> [Fds -> Fibers \cup {NoOne}]]
      /\ pc[f] = "parked" /\ Runs(f) /\ active' = active /\ cur' = cur
  BY PollAssumption DEF LoopInv, Types, LoopTypes, CallTypes, PollExit, At, loops
<1>1. l \in {"idle", "read", "accept", "write", "once", "connect"} /\ Answered(call[f])
  BY <1>0 DEF Types, LoopTypes, CallTypes, Shape, Resumed, Parked
<1>2. Go(f, l, c) /\ l \in Labels \ {"parked"}
  BY <1>1 DEF PollExit, Return, Labels, FileLabels, InLabels, OutLabels, ConnectLabels
<1>3. /\ pc'[f] = l /\ call'[f] = c
      /\ \A g \in Fibers \ {f} : pc'[g] = pc[g] /\ call'[g] = call[g]
  BY <1>2, GoDoes
<1>4. \A t \in Threads : \A i \in 1..Len(active[t]) :
        active[t][i] \in Fibers /\ active[t][i] # f /\ pc[active[t][i]] = "parked"
  BY <1>0 DEF Loops, ActiveIsExact, Runs, Parked
<1>5. /\ reg' \in [Threads -> [Fds -> Fibers \cup {NoOne}]]
      /\ \A t \in Threads \ {host[f]} : reg'[t] = reg[t]
      /\ \A fd \in Fds : reg'[host[f]][fd] =
           IF \E p \in call[f].on : p[1] = fd THEN NoOne ELSE reg[host[f]][fd]
  <2>1. Unregistered(f) \in [Fds -> Fibers \cup {NoOne}]
    BY <1>0 DEF Unregistered
  <2>2. reg' = [reg EXCEPT ![host[f]] = Unregistered(f)]
    BY DEF PollExit
  <2>3. reg'[host[f]] = Unregistered(f)
    BY <1>0, <2>2
  <2>. QED  BY <1>0, <2>1, <2>2, <2>3 DEF Unregistered
<1>6. Loops'
  <2>1. ASSUME NEW g \in Fibers, pc'[g] \notin {"idle", "parked"}
        PROVE  cur'[host[g]] = g
    BY <1>0, <1>3, <2>1 DEF Loops, Runs
  <2>. QED  BY <1>0, <2>1 DEF Loops, Runs
<1>7. ActiveIsExact'
  <2>1. ASSUME NEW t \in Threads, NEW i \in 1..Len(active[t])
        PROVE  Parked(active[t][i])' /\ active[t][i] # cur'[t]
    BY <1>0, <1>3, <1>4 DEF ActiveIsExact, Parked
  <2>. QED  BY <1>0, <2>1 DEF ActiveIsExact
<1>8. NoDanglingRegistration'
  <2> SUFFICES ASSUME NEW t \in Threads, NEW fd \in Fds, reg'[t][fd] # NoOne
               PROVE  LET g == reg'[t][fd] IN
                      /\ host[g] = t /\ pc'[g] = "parked"
                      /\ \E p \in call'[g].on : p[1] = fd
    BY DEF NoDanglingRegistration, Parked
  <2>1. reg'[t][fd] = reg[t][fd] /\ reg[t][fd] \in Fibers /\ reg[t][fd] # NoOne
    BY <1>0, <1>5
  <2>2. /\ host[reg[t][fd]] = t /\ pc[reg[t][fd]] = "parked"
        /\ \E p \in call[reg[t][fd]].on : p[1] = fd
    BY <1>0, <2>1 DEF NoDanglingRegistration, Parked
  <2>3. reg[t][fd] # f
    BY <1>5, <2>1, <2>2
  <2>. QED  BY <1>3, <2>1, <2>2, <2>3
<1>9. Resumed'
  <2>1. ASSUME NEW g \in Fibers, Parked(g)', Runs(g)'
        PROVE  Answered(call'[g])
    <3>1. g # f
      BY <1>2, <1>3, <2>1 DEF Parked
    <3>. QED  BY <1>0, <1>3, <2>1, <3>1 DEF Resumed, Parked, Runs
  <2>2. ASSUME NEW t \in Threads, NEW i \in 1..Len(active'[t])
        PROVE  Answered(call'[active'[t][i]])
    BY <1>0, <1>3, <1>4 DEF Resumed
  <2>3. ASSUME NEW g \in Fibers, pc'[g] \in InLabels, call'[g].then = pc'[g]
        PROVE  Answered(call'[g])
    <3>1. CASE g = f
      BY <1>1, <1>3, <2>3, <3>1 DEF InLabels
    <3>2. CASE g # f
      BY <1>0, <1>3, <2>3, <3>2 DEF Resumed
    <3>. QED  BY <3>1, <3>2
  <2>4. ASSUME NEW g \in Fibers, pc'[g] = "write", call'[g].n = 1
        PROVE  Answered(call'[g])
    <3>1. CASE g = f
      BY <1>1, <1>3, <2>4, <3>1
    <3>2. CASE g # f
      BY <1>0, <1>3, <2>4, <3>2 DEF Resumed
    <3>. QED  BY <3>1, <3>2
  <2>. QED  BY <2>1, <2>2, <2>3, <2>4 DEF Resumed
<1>. QED  BY <1>6, <1>7, <1>8, <1>9 DEF LoopInv

(* The members of a set in some order, and two such lists one after the     *)
(* other.                                                                   *)
LEMMA ListOf ==
  ASSUME NEW S, IsFiniteSet(S), NEW s \in SetToSeqs(S)
  PROVE  /\ s \in Seq(S) /\ \A i, j \in 1..Len(s) : s[i] = s[j] => i = j
<1>1. Cardinality(S) \in Nat
  BY FS_CardinalityType
<1>2. s \in [1..Cardinality(S) -> S] /\ \A i, j \in 1..Cardinality(S) : i # j => s[i] # s[j]
  BY DEF SetToSeqs
<1>3. s \in Seq(S) /\ Len(s) = Cardinality(S)
  BY <1>1, <1>2
<1>. QED  BY <1>2, <1>3

LEMMA TwoLists ==
  ASSUME NEW S, NEW T, S \cap T = {}, NEW a \in Seq(S), NEW b \in Seq(T),
         \A i, j \in 1..Len(a) : a[i] = a[j] => i = j,
         \A i, j \in 1..Len(b) : b[i] = b[j] => i = j
  PROVE  /\ a \o b \in Seq(S \cup T)
         /\ \A i, j \in 1..Len(a \o b) : (a \o b)[i] = (a \o b)[j] => i = j
<1> DEFINE s == a \o b
<1>1. /\ Len(a) \in Nat /\ Len(b) \in Nat /\ Len(s) = Len(a) + Len(b)
      /\ \A i \in 1..Len(s) : s[i] = IF i <= Len(a) THEN a[i] ELSE b[i - Len(a)]
      /\ s \in Seq(S \cup T)
  OBVIOUS
<1>2. \A i \in 1..Len(a) : a[i] \in S
  OBVIOUS
<1>3. \A i \in 1..Len(b) : b[i] \in T
  OBVIOUS
<1> HIDE DEF s
<1>4. ASSUME NEW i \in 1..Len(s), NEW j \in 1..Len(s), s[i] = s[j]
      PROVE  i = j
  <2>1. CASE i <= Len(a) /\ j <= Len(a)
    BY <1>1, <1>4, <2>1
  <2>2. CASE i > Len(a) /\ j > Len(a)
    <3>1. s[i] = b[i - Len(a)] /\ s[j] = b[j - Len(a)]
      BY <1>1, <2>2
    <3>2. i - Len(a) \in 1..Len(b) /\ j - Len(a) \in 1..Len(b)
      BY <1>1, <2>2
    <3>3. i - Len(a) = j - Len(a)
      BY <1>4, <3>1, <3>2
    <3>. QED  BY <1>1, <3>3
  <2>3. CASE i <= Len(a) /\ j > Len(a)
    <3>1. s[i] = a[i] /\ s[j] = b[j - Len(a)] /\ i \in 1..Len(a) /\ j - Len(a) \in 1..Len(b)
      BY <1>1, <2>3
    <3>. QED  BY <1>2, <1>3, <1>4, <3>1
  <2>4. CASE i > Len(a) /\ j <= Len(a)
    <3>1. s[j] = a[j] /\ s[i] = b[i - Len(a)] /\ j \in 1..Len(a) /\ i - Len(a) \in 1..Len(b)
      BY <1>1, <2>4
    <3>. QED  BY <1>2, <1>3, <1>4, <3>1
  <2>. QED  BY <1>1, <2>1, <2>2, <2>3, <2>4
<1>. QED  BY <1>1, <1>4 DEF s

(* The collecting part of the loop. *)
LEMMA CollectKeeps ==
  ASSUME Types, LoopInv, NEW t \in Threads, Collect(t)
  PROVE  /\ LoopInv'
         /\ pc' = pc /\ call' = [h \in Fibers |-> call'[h]]
         /\ \A g \in Fibers :
              \/ call'[g] = call[g]
              \/ /\ Parked(g) /\ call'[g] = [call[g] EXCEPT !.raised = Events(t, g)]
                 /\ Events(t, g) # {} /\ host[g] = t
         /\ active' \in [Threads -> Seq(Fibers)] /\ cur' \in [Threads -> Fibers \cup {NoOne}]
<1>0. /\ Loops /\ ActiveIsExact /\ NoDanglingRegistration /\ Resumed
      /\ NoOne \notin Fibers /\ IsFiniteSet(Fibers)
      /\ cur \in [Threads -> Fibers \cup {NoOne}] /\ active \in [Threads -> Seq(Fibers)]
      /\ Free(t) /\ active[t] = <<>> /\ cur' = [cur EXCEPT ![t] = NoOne]
      /\ pc' = pc /\ reg' = reg
  BY PollAssumption DEF LoopInv, Types, LoopTypes, CallTypes, Collect
<1>1. PICK expired \in SUBSET Due(t) :
      \E first \in SetToSeqs(Woken(t)), last \in SetToSeqs(expired) :
        active' = [active EXCEPT ![t] = first \o last]
  BY DEF Collect
<1>2. PICK first \in SetToSeqs(Woken(t)), last \in SetToSeqs(expired) :
        active' = [active EXCEPT ![t] = first \o last]
  BY <1>1
<1> DEFINE s == first \o last
<1>3. /\ Woken(t) \cap expired = {} /\ Woken(t) \subseteq Fibers /\ expired \subseteq Fibers
      /\ IsFiniteSet(Woken(t)) /\ IsFiniteSet(expired)
  <2>1. Woken(t) \cap expired = {} /\ Woken(t) \subseteq Fibers /\ expired \subseteq Fibers
    BY DEF Woken, Due, MayExpire
  <2>. QED  BY <1>0, <2>1, FS_Subset
<1>4. /\ s \in Seq(Woken(t) \cup expired)
      /\ \A i, j \in 1..Len(s) : s[i] = s[j] => i = j
  <2>1. /\ first \in Seq(Woken(t)) /\ \A i, j \in 1..Len(first) : first[i] = first[j] => i = j
        /\ last \in Seq(expired) /\ \A i, j \in 1..Len(last) : last[i] = last[j] => i = j
    BY <1>3, ListOf
  <2>. QED  BY ONLY <1>3, <2>1, TwoLists
<1> HIDE DEF s
<1>5. /\ active'[t] = s /\ \A u \in Threads \ {t} : active'[u] = active[u]
      /\ cur'[t] = NoOne /\ \A u \in Threads \ {t} : cur'[u] = cur[u]
      /\ \A i \in 1..Len(s) : s[i] \in Woken(t) \cup expired
  BY <1>0, <1>2, <1>4 DEF s
<1>6. \A i \in 1..Len(s) : s[i] \in Fibers /\ Parked(s[i]) /\ host[s[i]] = t
  BY <1>3, <1>5 DEF Woken, Due, MayExpire
<1>7. /\ \A g \in Fibers : call'[g] =
           IF g \in Woken(t) THEN [call[g] EXCEPT !.raised = Events(t, g)] ELSE call[g]
      /\ call' = [h \in Fibers |-> call'[h]]
  BY DEF Collect
<1>8. \A g \in Fibers : call'[g].then = call[g].then /\ call'[g].on = call[g].on
                        /\ call'[g].timed = call[g].timed /\ call'[g].n = call[g].n
                        /\ call'[g].raised = IF g \in Woken(t) THEN Events(t, g) ELSE call[g].raised
  <2> SUFFICES ASSUME NEW g \in Fibers
               PROVE  call'[g].then = call[g].then /\ call'[g].on = call[g].on
                      /\ call'[g].timed = call[g].timed /\ call'[g].n = call[g].n
                      /\ call'[g].raised = IF g \in Woken(t) THEN Events(t, g) ELSE call[g].raised
    OBVIOUS
  <2>1. call[g] \in Calls
    BY DEF Types, LoopTypes, CallTypes, Call
  <2>. QED  BY <1>7, <2>1 DEF Calls
<1>9. \A g \in Fibers : Answered(call[g]) => Answered(call'[g])
  BY <1>8 DEF Answered, Woken
<1>10. Loops'
  <2>1. ASSUME NEW g \in Fibers, pc[g] \notin {"idle", "parked"}
        PROVE  cur'[host[g]] = g
    <3>1. cur[host[g]] = g /\ host[g] \in Threads
      BY <1>0, <2>1, PollAssumption DEF Loops, Runs
    <3>2. host[g] # t
      BY <1>0, <2>1, <3>1 DEF Free
    <3>. QED  BY <1>5, <3>1, <3>2
  <2>2. \A u \in Threads : cur'[u] # NoOne => host[cur'[u]] = u
    BY <1>0, <1>5 DEF Loops
  <2>3. \A u \in Threads : \A i \in 1..Len(active'[u]) : host[active'[u][i]] = u
    BY <1>0, <1>5, <1>6 DEF Loops
  <2>. QED  BY <1>0, <2>1, <2>2, <2>3 DEF Loops, Runs
<1>11. ActiveIsExact'
  <2> SUFFICES ASSUME NEW u \in Threads
               PROVE  /\ \A i, j \in 1..Len(active'[u]) : active'[u][i] = active'[u][j] => i = j
                      /\ \A i \in 1..Len(active'[u]) :
                           pc'[active'[u][i]] = "parked" /\ active'[u][i] # cur'[u]
                      /\ active'[u] \in Seq(Fibers)
    <3>1. \A u \in Threads : active'[u] \in Seq(Fibers) => DOMAIN active'[u] = 1..Len(active'[u])
      OBVIOUS
    <3>. QED  BY <3>1 DEF ActiveIsExact, IsInjective, Parked
  <2>1. CASE u = t
    BY <1>0, <1>3, <1>4, <1>5, <1>6, <2>1 DEF Parked
  <2>2. CASE u # t
    BY <1>0, <1>5, <2>2 DEF ActiveIsExact, IsInjective, Parked
  <2>. QED  BY <2>1, <2>2
<1>12. NoDanglingRegistration'
  <2> SUFFICES ASSUME NEW u \in Threads, NEW fd \in Fds, reg[u][fd] # NoOne
               PROVE  LET g == reg[u][fd] IN
                      /\ host[g] = u /\ pc[g] = "parked"
                      /\ \E p \in call'[g].on : p[1] = fd
    BY <1>0 DEF NoDanglingRegistration, Parked
  <2>1. reg[u][fd] \in Fibers
    BY DEF Types, LoopTypes, CallTypes
  <2>2. /\ host[reg[u][fd]] = u /\ pc[reg[u][fd]] = "parked"
        /\ \E p \in call[reg[u][fd]].on : p[1] = fd
    BY <1>0, <2>1 DEF NoDanglingRegistration, Parked
  <2>3. call'[reg[u][fd]].on = call[reg[u][fd]].on
    BY <1>8, <2>1
  <2>. QED  BY <2>2, <2>3
<1>13. Resumed'
  <2>1. ASSUME NEW g \in Fibers, pc[g] = "parked", cur'[host[g]] = g
        PROVE  Answered(call'[g])
    <3>1. host[g] \in Threads
      BY PollAssumption
    <3>. QED  BY <1>0, <1>5, <1>9, <2>1, <3>1 DEF Resumed, Parked, Runs
  <2>2. ASSUME NEW u \in Threads, NEW i \in 1..Len(active'[u])
        PROVE  Answered(call'[active'[u][i]])
    <3>1. CASE u = t
      <4>1. active'[u][i] = s[i] /\ i \in 1..Len(s) /\ s[i] \in Fibers
        BY <1>5, <1>6, <3>1
      <4>2. s[i] \in Woken(t) \/ s[i] \in MayExpire(t)
        BY <1>5, <4>1 DEF Due
      <4>. QED  BY <1>8, <4>1, <4>2 DEF Answered, Woken, MayExpire
    <3>2. CASE u # t
      <4>1. active'[u] = active[u] /\ i \in 1..Len(active[u]) /\ active[u][i] \in Fibers
        BY <1>0, <1>5, <3>2
      <4>2. Answered(call[active[u][i]])
        BY <1>0, <4>1 DEF Resumed
      <4>. QED  BY <1>9, <4>1, <4>2
    <3>. QED  BY <3>1, <3>2
  <2>3. ASSUME NEW g \in Fibers, pc[g] \in InLabels, call'[g].then = pc[g]
        PROVE  Answered(call'[g])
    BY <1>0, <1>8, <1>9, <2>3 DEF Resumed
  <2>4. ASSUME NEW g \in Fibers, pc[g] = "write", call'[g].n = 1
        PROVE  Answered(call'[g])
    BY <1>0, <1>8, <1>9, <2>4 DEF Resumed
  <2>. QED  BY <1>0, <2>1, <2>2, <2>3, <2>4 DEF Resumed, Parked, Runs
<1>14. LoopInv'
  BY <1>10, <1>11, <1>12, <1>13 DEF LoopInv
<1>15. active' \in [Threads -> Seq(Fibers)] /\ cur' \in [Threads -> Fibers \cup {NoOne}]
  BY <1>0, <1>2, <1>3, <1>4 DEF s
<1>16. \A g \in Fibers :
         \/ call'[g] = call[g]
         \/ /\ Parked(g) /\ call'[g] = [call[g] EXCEPT !.raised = Events(t, g)]
            /\ Events(t, g) # {} /\ host[g] = t
  BY <1>7 DEF Woken
<1>. QED  BY <1>0, <1>7, <1>14, <1>15, <1>16

(* The loop resumes the first of the active list. *)
LEMMA ResumeKeeps ==
  ASSUME Types, LoopInv, NEW t \in Threads, ResumeNext(t)
  PROVE  /\ LoopInv'
         /\ active' \in [Threads -> Seq(Fibers)] /\ cur' \in [Threads -> Fibers \cup {NoOne}]
<1>0. /\ Loops /\ ActiveIsExact /\ NoDanglingRegistration /\ Resumed
      /\ NoOne \notin Fibers
      /\ cur \in [Threads -> Fibers \cup {NoOne}] /\ active \in [Threads -> Seq(Fibers)]
      /\ Free(t) /\ active[t] # <<>> /\ pc' = pc /\ call' = call /\ reg' = reg
      /\ cur' = [cur EXCEPT ![t] = Head(active[t])] /\ active' = [active EXCEPT ![t] = Tail(@)]
  BY PollAssumption DEF LoopInv, Types, LoopTypes, CallTypes, ResumeNext
<1> DEFINE s == active[t]
<1>1. s \in Seq(Fibers) /\ s # <<>>
  BY <1>0
<1>2. /\ Len(s) \in Nat /\ 1 \in 1..Len(s) /\ Head(s) = s[1] /\ Tail(s) \in Seq(Fibers)
      /\ \A i \in 1..Len(Tail(s)) : i + 1 \in 1..Len(s) /\ Tail(s)[i] = s[i + 1]
      /\ Head(s) \in Fibers /\ DOMAIN s = 1..Len(s)
  BY ONLY <1>1
<1> HIDE DEF s
<1>3. /\ \A i, j \in 1..Len(s) : s[i] = s[j] => i = j
      /\ \A i \in 1..Len(s) : pc[s[i]] = "parked" /\ host[s[i]] = t /\ Answered(call[s[i]])
  <2>1. \A i, j \in 1..Len(s) : s[i] = s[j] => i = j
    <3>1. IsInjective(s)
      BY <1>0 DEF ActiveIsExact, s
    <3>. QED  BY <1>2, <3>1 DEF IsInjective
  <2>2. \A i \in 1..Len(s) : pc[s[i]] = "parked"
    BY <1>0 DEF ActiveIsExact, Parked, s
  <2>3. \A i \in 1..Len(s) : host[s[i]] = t /\ Answered(call[s[i]])
    BY <1>0 DEF Loops, Resumed, s
  <2>. QED  BY <2>1, <2>2, <2>3
<1>4. /\ active'[t] = Tail(s) /\ \A u \in Threads \ {t} : active'[u] = active[u]
      /\ cur'[t] = s[1] /\ \A u \in Threads \ {t} : cur'[u] = cur[u]
      /\ active' \in [Threads -> Seq(Fibers)] /\ cur' \in [Threads -> Fibers \cup {NoOne}]
  BY <1>0, <1>2 DEF s
<1>5. Loops'
  <2>1. ASSUME NEW g \in Fibers, pc[g] \notin {"idle", "parked"}
        PROVE  cur'[host[g]] = g
    <3>1. cur[host[g]] = g /\ host[g] \in Threads
      BY <1>0, <2>1, PollAssumption DEF Loops, Runs
    <3>2. host[g] # t
      BY <1>0, <2>1, <3>1 DEF Free
    <3>. QED  BY <1>4, <3>1, <3>2
  <2>2. \A u \in Threads : cur'[u] # NoOne => host[cur'[u]] = u
    BY <1>0, <1>2, <1>3, <1>4 DEF Loops
  <2>3. \A u \in Threads : \A i \in 1..Len(active'[u]) : host[active'[u][i]] = u
    BY <1>0, <1>2, <1>3, <1>4 DEF Loops
  <2>. QED  BY <1>0, <2>1, <2>2, <2>3 DEF Loops, Runs
<1>6. ActiveIsExact'
  <2> SUFFICES ASSUME NEW u \in Threads
               PROVE  /\ \A i, j \in 1..Len(active'[u]) : active'[u][i] = active'[u][j] => i = j
                      /\ \A i \in 1..Len(active'[u]) :
                           pc'[active'[u][i]] = "parked" /\ active'[u][i] # cur'[u]
    <3>1. \A u \in Threads : DOMAIN active'[u] = 1..Len(active'[u])
      BY <1>4
    <3>. QED  BY <3>1 DEF ActiveIsExact, IsInjective, Parked
  <2>1. CASE u = t
    <3>1. ASSUME NEW i \in 1..Len(Tail(s)), NEW j \in 1..Len(Tail(s)), Tail(s)[i] = Tail(s)[j]
          PROVE  i = j
      <4>1. i + 1 = j + 1
        BY <1>2, <1>3, <3>1
      <4>. QED  BY <4>1
    <3>2. ASSUME NEW i \in 1..Len(Tail(s))
          PROVE  pc'[Tail(s)[i]] = "parked" /\ Tail(s)[i] # s[1]
      <4>1. i + 1 # 1
        OBVIOUS
      <4>. QED  BY <1>0, <1>2, <1>3, <4>1
    <3>3. active'[u] = Tail(s) /\ cur'[u] = s[1]
      BY <1>4, <2>1
    <3>4. \A i, j \in 1..Len(Tail(s)) : Tail(s)[i] = Tail(s)[j] => i = j
      BY <3>1
    <3>5. \A i \in 1..Len(Tail(s)) : pc'[Tail(s)[i]] = "parked" /\ Tail(s)[i] # s[1]
      BY <3>2
    <3>. QED  BY ONLY <3>3, <3>4, <3>5, SMTT(30)
  <2>2. CASE u # t
    <3>1. DOMAIN active[u] = 1..Len(active[u])
      BY <1>0
    <3>2. active'[u] = active[u] /\ cur'[u] = cur[u]
      BY <1>4, <2>2
    <3>3. /\ \A i, j \in 1..Len(active[u]) : active[u][i] = active[u][j] => i = j
          /\ \A i \in 1..Len(active[u]) : pc[active[u][i]] = "parked" /\ active[u][i] # cur[u]
      BY <1>0, <3>1 DEF ActiveIsExact, IsInjective, Parked
    <3>. QED  BY <1>0, <3>2, <3>3
  <2>. QED  BY <2>1, <2>2
<1>7. NoDanglingRegistration'
  BY <1>0 DEF NoDanglingRegistration, Parked
<1>8. Resumed'
  <2>1. ASSUME NEW g \in Fibers, pc[g] = "parked", cur'[host[g]] = g
        PROVE  Answered(call'[g])
    <3>1. host[g] \in Threads
      BY PollAssumption
    <3>. QED  BY <1>0, <1>2, <1>3, <1>4, <2>1, <3>1 DEF Resumed, Parked, Runs
  <2>2. ASSUME NEW u \in Threads, NEW i \in 1..Len(active'[u])
        PROVE  Answered(call'[active'[u][i]])
    BY <1>0, <1>2, <1>3, <1>4 DEF Resumed
  <2>. QED  BY <1>0, <2>1, <2>2 DEF Resumed, Parked, Runs
<1>. QED  BY <1>4, <1>5, <1>6, <1>7, <1>8 DEF LoopInv

-----------------------------------------------------------------------------
(* Hooks on one descriptor, and the state of its socket *)

LEMMA RivalsKeep ==
  ASSUME Types, RivalsAreDisturbed, NEW f \in Fibers, NEW l \in Labels, NEW c, Go(f, l, c),
         c.on \subseteq call[f].on, disturbed \ {f} \subseteq disturbed',
         c.on # {} /\ f \in disturbed => f \in disturbed'
  PROVE  RivalsAreDisturbed'
<1>1. /\ call'[f] = c /\ \A g \in Fibers \ {f} : call'[g] = call[g]
  BY GoDoes
<1> SUFFICES ASSUME NEW g \in Fibers, NEW h \in Fibers, NEW p \in call'[g].on, NEW q \in call'[h].on,
                    g # h, p[1] = q[1], p[2] = q[2] \/ host[g] = host[h]
             PROVE  g \in disturbed'
  BY DEF RivalsAreDisturbed
<1>2. p \in call[g].on /\ q \in call[h].on
  BY <1>1
<1>3. g \in disturbed
  BY <1>2 DEF RivalsAreDisturbed
<1>. QED  BY <1>1, <1>3

LEMMA RivalsStart ==
  ASSUME Types, RivalsAreDisturbed, NEW f \in Fibers, NEW l \in Labels, NEW c, Go(f, l, c),
         Disturb(f, c.on)
  PROVE  /\ RivalsAreDisturbed' /\ disturbed \subseteq disturbed' /\ disturbed' \subseteq Fibers
<1>0. disturbed' = disturbed \cup Rivals(f, c.on) \cup (IF Rivals(f, c.on) = {} THEN {} ELSE {f})
  BY DEF Disturb
<1>1. /\ call'[f] = c /\ \A g \in Fibers \ {f} : call'[g] = call[g]
  BY GoDoes
<1>2. disturbed \subseteq disturbed' /\ disturbed' \subseteq Fibers
  BY <1>0 DEF Types, CallTypes, Rivals
<1>3. ASSUME NEW g \in Fibers \ {f}, NEW p \in c.on, NEW q \in call[g].on,
             p[1] = q[1], p[2] = q[2] \/ host[f] = host[g]
      PROVE  g \in disturbed' /\ f \in disturbed'
  <2>1. pc[g] # "idle"
    BY <1>3, NoCallIs DEF Types, CallTypes, Shape
  <2>2. g \in Rivals(f, c.on)
    BY <1>3, <2>1 DEF Rivals
  <2>. QED  BY <1>0, <2>2
<1>4. ASSUME NEW g \in Fibers, NEW h \in Fibers, NEW p \in call'[g].on, NEW q \in call'[h].on,
             g # h, p[1] = q[1], p[2] = q[2] \/ host[g] = host[h]
      PROVE  g \in disturbed'
  <2>1. CASE g = f
    BY <1>1, <1>3, <1>4, <2>1
  <2>2. CASE h = f
    BY <1>1, <1>3, <1>4, <2>2
  <2>3. CASE g # f /\ h # f
    BY <1>1, <1>2, <1>4, <2>3 DEF RivalsAreDisturbed
  <2>. QED  BY <2>1, <2>2, <2>3
<1>. QED  BY <1>2, <1>4 DEF RivalsAreDisturbed

(* The descriptors that are being opened, and those in use, are the same.   *)
SameFiles ==
  /\ Usable' = Usable
  /\ \A fd \in Fds : sock'[fd] = "raw" <=> sock[fd] = "raw"

LEMMA OpensKeep ==
  ASSUME Types, OneOpens, NEW f \in Fibers, NEW l \in Labels \ FileLabels, NEW c, Go(f, l, c),
         SameFiles
  PROVE  OneOpens'
<1>1. /\ pc'[f] = l /\ call'[f] = c
      /\ \A g \in Fibers \ {f} : pc'[g] = pc[g] /\ call'[g] = call[g]
  BY GoDoes
<1>2. ASSUME NEW g \in Fibers, pc'[g] \in FileLabels
      PROVE  g # f /\ pc[g] = pc'[g] /\ call[g] = call'[g] /\ call[g].fd \in Fds
  BY <1>1, <1>2 DEF Types, CallTypes, Shape
<1>3. ASSUME NEW g \in Fibers, pc'[g] \in {"setupNew", "setupAccepted"}
      PROVE  sock'[call'[g].fd] = "raw"
  BY <1>2, <1>3 DEF OneOpens, SameFiles, FileLabels
<1>4. ASSUME NEW g \in Fibers, pc'[g] = "closing"
      PROVE  call'[g].fd \in Usable'
  BY <1>2, <1>4 DEF OneOpens, SameFiles, FileLabels
<1>5. ASSUME NEW g \in Fibers, NEW h \in Fibers,
             pc'[g] \in FileLabels, pc'[h] \in FileLabels, call'[g].fd = call'[h].fd
      PROVE  g = h
  BY <1>2, <1>5 DEF OneOpens
<1>. QED  BY <1>3, <1>4, <1>5 DEF OneOpens

(* A step of f leaves alone the sockets of every hook that it does not      *)
(* disturb, but for the outcome of a connection.                            *)
SparesFile(g) ==
  /\ g \notin disturbed
  /\ \A p \in call[g].on :
       /\ \/ sock'[p[1]] = sock[p[1]]
          \/ sock[p[1]] = "pending" /\ sock'[p[1]] \in {"up", "failed"}
       /\ Ready(p[1], p[2]) => Ready(p[1], p[2])'
Spares(f) == \A g \in Fibers \ {f} : g \notin disturbed' => SparesFile(g)

LEMMA FileIsSpared ==
  ASSUME Types, FilesAreKept, WriteIsWhole, ConnectIsHonest, NEW g \in Fibers,
         pc'[g] = pc[g], call'[g] = call[g], g \notin disturbed' => SparesFile(g)
  PROVE  /\ g \notin disturbed' => KeepsItsFile(g)'
         /\ pc'[g] = "wrote" /\ call'[g].wrote < WriteLen =>
              g \in disturbed' \/ (call'[g].timed /\ call'[g].raised = {})
         /\ pc'[g] = "connected" =>
              \/ sock'[call'[g].fd] = "up" \/ g \in disturbed'
              \/ call'[g].raised = {} /\ call'[g].n = 3
<1>1. ASSUME g \notin disturbed'
      PROVE  KeepsItsFile(g)'
  <2> SUFFICES ASSUME NEW p \in call[g].on
               PROVE  /\ sock'[p[1]] \in States(Where(pc[g], call[g]), p[2])
                      /\ pc[g] # "wrote" /\ p \in call[g].raised => Ready(p[1], p[2])'
    BY DEF KeepsItsFile
  <2>1. KeepsItsFile(g) /\ SparesFile(g)
    BY <1>1 DEF FilesAreKept, SparesFile
  <2>2. /\ sock[p[1]] \in States(Where(pc[g], call[g]), p[2])
        /\ pc[g] # "wrote" /\ p \in call[g].raised => Ready(p[1], p[2])
    BY <2>1 DEF KeepsItsFile
  <2>3. /\ \/ sock'[p[1]] = sock[p[1]]
           \/ sock[p[1]] = "pending" /\ sock'[p[1]] \in {"up", "failed"}
        /\ Ready(p[1], p[2]) => Ready(p[1], p[2])'
    BY <2>1 DEF SparesFile
  <2>. QED  BY <2>2, <2>3 DEF States
<1>2. ASSUME pc'[g] = "wrote", call'[g].wrote < WriteLen, g \notin disturbed'
      PROVE  call'[g].timed /\ call'[g].raised = {}
  BY <1>2 DEF WriteIsWhole, SparesFile
<1>3. ASSUME pc'[g] = "connected", g \notin disturbed', ~(call'[g].raised = {} /\ call'[g].n = 3)
      PROVE  sock'[call'[g].fd] = "up"
  <2>1. call[g].on = {<<call[g].fd, "out">>}
    BY <1>3 DEF Types, CallTypes, Shape, Where, OutLabels, ConnectLabels
  <2>2. SparesFile(g) /\ sock[call[g].fd] = "up"
    BY <1>3 DEF ConnectIsHonest, SparesFile
  <2>3. \/ sock'[call[g].fd] = sock[call[g].fd]
        \/ sock[call[g].fd] = "pending" /\ sock'[call[g].fd] \in {"up", "failed"}
    BY <2>1, <2>2 DEF SparesFile
  <2>. QED  BY <2>2, <2>3
<1>. QED  BY <1>1, <1>2, <1>3

(* What a fiber at l with the locals c may have, in the new state. *)
Honest(f, l, c) ==
  /\ l = "wrote" /\ c.wrote < WriteLen => f \in disturbed' \/ (c.timed /\ c.raised = {})
  /\ l = "connected" =>
       sock'[c.fd] = "up" \/ f \in disturbed' \/ (c.raised = {} /\ c.n = 3)
HasFile(f, l, c) ==
  f \notin disturbed' =>
    \A p \in c.on :
      /\ sock'[p[1]] \in States(Where(l, c), p[2])
      /\ l # "wrote" /\ p \in c.raised => Ready(p[1], p[2])'

LEMMA FilesKeep ==
  ASSUME Types, FilesAreKept, WriteIsWhole, ConnectIsHonest,
         NEW f \in Fibers, NEW l \in Labels, NEW c, Call(c), Go(f, l, c),
         Spares(f), HasFile(f, l, c), Honest(f, l, c)
  PROVE  FilesAreKept' /\ WriteIsWhole' /\ ConnectIsHonest'
<1>1. /\ pc'[f] = l /\ call'[f] = c
      /\ \A g \in Fibers \ {f} : pc'[g] = pc[g] /\ call'[g] = call[g]
  BY GoDoes
<1>2. ASSUME NEW g \in Fibers
      PROVE  /\ g \notin disturbed' => KeepsItsFile(g)'
             /\ pc'[g] = "wrote" /\ call'[g].wrote < WriteLen =>
                  g \in disturbed' \/ (call'[g].timed /\ call'[g].raised = {})
             /\ pc'[g] = "connected" =>
                  \/ sock'[call'[g].fd] = "up" \/ g \in disturbed'
                  \/ call'[g].raised = {} /\ call'[g].n = 3
  <2>1. CASE g = f
    <3>1. g \notin disturbed' => KeepsItsFile(g)'
      BY <1>1, <2>1 DEF HasFile, KeepsItsFile
    <3>. QED  BY <1>1, <2>1, <3>1 DEF Honest
  <2>2. CASE g # f
    <3>1. pc'[g] = pc[g] /\ call'[g] = call[g] /\ (g \notin disturbed' => SparesFile(g))
      BY <1>1, <2>2 DEF Spares
    <3>. QED  BY <3>1, FileIsSpared
  <2>. QED  BY <2>1, <2>2
<1>3. \A g \in Fibers : call'[g].taken = [i \in 1..call'[g].wrote |-> i]
  BY <1>1 DEF Types, CallTypes, Call
<1>. QED  BY <1>2, <1>3 DEF FilesAreKept, WriteIsWhole, ConnectIsHonest

(* A waiter stays armed while a fiber that does not wait does anything but  *)
(* close a descriptor.                                                      *)
LEMMA ArmedKeeps ==
  ASSUME Types, WaiterIsArmed, NEW f \in Fibers, NEW l \in Labels \ {"parked"}, NEW c,
         Go(f, l, c), reg' = reg, disturbed \ {f} \subseteq disturbed'
  PROVE  WaiterIsArmed'
<1>1. /\ pc'[f] = l /\ call'[f] = c
      /\ \A g \in Fibers \ {f} : pc'[g] = pc[g] /\ call'[g] = call[g]
  BY GoDoes
<1>. QED  BY <1>1 DEF WaiterIsArmed, Parked

(* A fiber that starts to wait is armed: nobody of its thread waits on its  *)
(* descriptors, or it would be a rival.                                     *)
LEMMA ArmedEnters ==
  ASSUME Types, WaiterIsArmed, NoDanglingRegistration, NEW f \in Fibers, NEW c, Call(c),
         pc[f] # "parked", Go(f, "parked", c), disturbed \subseteq disturbed', RivalsAreDisturbed',
         reg' = [reg EXCEPT ![host[f]] = Registered(f, c.on)],
         f \notin disturbed' => \A p \in c.on : Open(p[1])
  PROVE  WaiterIsArmed'
<1>0. "parked" \in Labels /\ c.on \in SUBSET (Fds \X {"in", "out"}) /\ host[f] \in Threads
  BY PollAssumption DEF Labels, Call, Calls
<1>1. /\ pc'[f] = "parked" /\ call'[f] = c
      /\ \A g \in Fibers \ {f} : pc'[g] = pc[g] /\ call'[g] = call[g]
  BY <1>0, GoDoes
<1>2. /\ \A t \in Threads \ {host[f]} : reg'[t] = reg[t]
      /\ \A fd \in Fds : reg'[host[f]][fd] = IF fd \in Adds(f, c.on) THEN f ELSE reg[host[f]][fd]
  BY <1>0, RegisteredIs
<1> SUFFICES ASSUME NEW g \in Fibers, pc'[g] = "parked", g \notin disturbed', NEW p \in call'[g].on
             PROVE  reg'[host[g]][p[1]] = g
  BY DEF WaiterIsArmed, Parked
<1>3. CASE g = f
  <2>1. p \in c.on /\ p[1] \in Fds /\ Open(p[1])
    BY <1>0, <1>1, <1>3
  <2>2. ASSUME reg[host[f]][p[1]] # NoOne
        PROVE  FALSE
    <3> DEFINE h == reg[host[f]][p[1]]
    <3>1. h \in Fibers
      BY <1>0, <2>1, <2>2 DEF Types, LoopTypes
    <3>2. host[h] = host[f] /\ pc[h] = "parked" /\ \E q \in call[h].on : q[1] = p[1]
      BY <1>0, <2>1, <2>2 DEF NoDanglingRegistration, Parked
    <3> HIDE DEF h
    <3>3. h # f
      BY <3>2
    <3>4. PICK q \in call'[h].on : q[1] = p[1]
      BY <1>1, <3>1, <3>2, <3>3
    <3>. QED  BY <1>1, <1>3, <2>1, <3>1, <3>2, <3>3, <3>4 DEF RivalsAreDisturbed
  <2>3. p[1] \in Adds(f, c.on)
    BY <2>1, <2>2 DEF Adds
  <2>. QED  BY <1>2, <1>3, <2>1, <2>3
<1>4. CASE g # f
  <2>1. pc[g] = "parked" /\ p \in call[g].on /\ g \notin disturbed /\ p[1] \in Fds
    BY <1>1, <1>4, CallHas
  <2>2. reg[host[g]][p[1]] = g /\ host[g] \in Threads /\ NoOne \notin Fibers
    BY <2>1, PollAssumption DEF WaiterIsArmed, Parked
  <2>3. host[g] = host[f] => p[1] \notin Adds(f, c.on)
    BY <2>2 DEF Adds
  <2>. QED  BY <1>0, <1>2, <2>1, <2>2, <2>3
<1>. QED  BY <1>3, <1>4

(* The end of a poll takes away what its rivals have registered, no more.   *)
LEMMA ArmedLeaves ==
  ASSUME Types, WaiterIsArmed, RivalsAreDisturbed, NEW f \in Fibers, NEW l \in Labels \ {"parked"},
         NEW c, Go(f, l, c), disturbed \ {f} \subseteq disturbed',
         reg' = [reg EXCEPT ![host[f]] = Unregistered(f)]
  PROVE  WaiterIsArmed'
<1>0. host[f] \in Threads /\ reg \in [Threads -> [Fds -> Fibers \cup {NoOne}]]
  BY PollAssumption DEF Types, LoopTypes
<1>1. /\ pc'[f] = l /\ call'[f] = c
      /\ \A g \in Fibers \ {f} : pc'[g] = pc[g] /\ call'[g] = call[g]
  BY GoDoes
<1>2. reg'[host[f]] = Unregistered(f) /\ \A t \in Threads \ {host[f]} : reg'[t] = reg[t]
  BY <1>0
<1> SUFFICES ASSUME NEW g \in Fibers, pc'[g] = "parked", g \notin disturbed', NEW p \in call'[g].on
             PROVE  reg'[host[g]][p[1]] = g
  BY DEF WaiterIsArmed, Parked
<1>3. g # f /\ pc[g] = "parked" /\ p \in call[g].on /\ g \notin disturbed
  BY <1>1
<1>4. reg[host[g]][p[1]] = g /\ host[g] \in Threads /\ p[1] \in Fds
  BY <1>3, CallHas, PollAssumption DEF WaiterIsArmed, Parked
<1>5. CASE host[g] # host[f]
  BY <1>2, <1>4, <1>5
<1>6. CASE host[g] = host[f]
  <2>1. \A q \in call[f].on : q[1] # p[1]
    BY <1>3, <1>6 DEF RivalsAreDisturbed
  <2>2. Unregistered(f)[p[1]] = reg[host[f]][p[1]]
    BY <1>4, <2>1 DEF Unregistered
  <2>. QED  BY <1>2, <1>4, <1>6, <2>2
<1>. QED  BY <1>5, <1>6

-----------------------------------------------------------------------------
(* The context of a descriptor, and the steps that leave it alone *)

LEMMA ContextsKeep ==
  ASSUME Types, ContextsInv, UNCHANGED <<nonblock, contexts, asked>>, SameFiles,
         \A fd \in Fds : Closing(fd)' <=> Closing(fd)
  PROVE  ContextTypes' /\ ContextsInv'
<1>1. /\ UNCHANGED <<nonblock, fresh, userNonblock, rdTimed, wrTimed, askedNonblock, askedTimed, misused>>
      /\ Usable' = Usable /\ \A fd \in Fds : sock'[fd] = "raw" <=> sock[fd] = "raw"
  BY DEF contexts, asked, SameFiles
<1>2. ContextTypes'
  BY <1>1 DEF Types, ContextTypes
<1>3. /\ \A fd : Timed(fd, "in")' = Timed(fd, "in") /\ Timed(fd, "out")' = Timed(fd, "out")
      /\ \A fd : IsNonblock(fd)' = IsNonblock(fd)
  BY <1>1 DEF Timed, IsNonblock
<1>4. Usable \subseteq Fds
  BY DEF Usable
<1>5. ContextsAreClean'
  BY <1>1, <1>3 DEF ContextsInv, ContextsAreClean
<1>6. ContextBelongsToFile'
  BY <1>1, <1>3, <1>4 DEF ContextsInv, ContextBelongsToFile
<1>. QED  BY <1>2, <1>5, <1>6 DEF ContextsInv

LEMMA ClosingKeeps ==
  ASSUME Types, NEW f \in Fibers, NEW l \in Labels, NEW c, Go(f, l, c),
         pc[f] # "closing", l # "closing"
  PROVE  \A fd \in Fds : Closing(fd)' <=> Closing(fd)
<1>1. /\ pc'[f] = l /\ call'[f] = c
      /\ \A g \in Fibers \ {f} : pc'[g] = pc[g] /\ call'[g] = call[g]
  BY GoDoes
<1>. QED  BY <1>1 DEF Closing

(* A hook begins or goes on without a poll. *)
LEMMA GoesOn ==
  ASSUME IInv, NEW f \in Fibers, NEW l \in Labels \ ({"parked"} \cup FileLabels),
         NEW c, Call(c), Shape(l, c),
         CanGo(f), pc[f] \notin FileLabels, Go(f, l, c), Keep(f), reg' = reg,
         UNCHANGED <<nonblock, contexts, asked>>, KernelTypes', FewCalls',
         disturbed' \subseteq Fibers, disturbed \ {f} \subseteq disturbed', RivalsAreDisturbed',
         SameFiles, Spares(f), HasFile(f, l, c), Honest(f, l, c),
         l \in InLabels /\ c.then = l => Answered(c),
         l = "write" /\ c.n = 1 => Answered(c)
  PROVE  IInv'
<1>0. /\ Types /\ LoopInv /\ FilesInv /\ HooksInv /\ ContextsInv
      /\ l \in Labels /\ l \in Labels \ {"parked"} /\ l \in Labels \ FileLabels
      /\ l # "closing" /\ pc[f] # "closing" /\ host[f] \in Threads
  BY PollAssumption DEF IInv, FileLabels
<1>1. CallTypes'
  BY <1>0, GoDoes DEF CallTypes
<1>2. LoopTypes'
  BY <1>0 DEF Types, LoopTypes, Keep
<1>3. ContextTypes' /\ ContextsInv'
  BY <1>0, ContextsKeep, ClosingKeeps
<1>4. LoopInv'
  <2>1. reg' \in [Threads -> [Fds -> Fibers \cup {NoOne}]]
    BY <1>2 DEF LoopTypes
  <2>. QED  BY <1>0, <2>1, StaysInLoop
<1>5. FilesAreKept' /\ WriteIsWhole' /\ ConnectIsHonest'
  BY <1>0, FilesKeep DEF FilesInv, HooksInv
<1>6. OneOpens'
  BY <1>0, OpensKeep DEF FilesInv
<1>7. WaiterIsArmed'
  BY <1>0, ArmedKeeps DEF HooksInv
<1>. QED  BY <1>1, <1>2, <1>3, <1>4, <1>5, <1>6, <1>7 DEF IInv, Types, FilesInv, HooksInv

(* A hook polls. *)
LEMMA GoesToPoll ==
  ASSUME IInv, NEW f \in Fibers, NEW c, Call(c), Shape("parked", c), c.raised = {},
         CanGo(f), pc[f] \notin FileLabels, Go(f, "parked", c), Leave(f),
         reg' = [reg EXCEPT ![host[f]] = Registered(f, c.on)],
         UNCHANGED <<nonblock, contexts, asked>>, KernelTypes', FewCalls',
         disturbed' \subseteq Fibers, disturbed \subseteq disturbed', RivalsAreDisturbed',
         SameFiles, Spares(f), HasFile(f, "parked", c)
  PROVE  IInv'
<1>0. /\ Types /\ LoopInv /\ FilesInv /\ HooksInv /\ ContextsInv
      /\ "parked" \in Labels /\ "parked" \in Labels \ FileLabels
      /\ "parked" # "closing" /\ pc[f] # "closing" /\ host[f] \in Threads
      /\ pc[f] # "parked" /\ c.on \in SUBSET (Fds \X {"in", "out"})
  BY PollAssumption DEF IInv, FileLabels, Labels, CanGo, Call, Calls
<1>1. CallTypes'
  BY <1>0, GoDoes DEF CallTypes
<1>2. LoopTypes'
  <2>1. reg' \in [Threads -> [Fds -> Fibers \cup {NoOne}]]
    BY <1>0, RegisteredIs
  <2>. QED  BY <1>0, <2>1 DEF Types, LoopTypes, Leave
<1>3. ContextTypes' /\ ContextsInv'
  BY <1>0, ContextsKeep, ClosingKeeps
<1>4. LoopInv'
  BY <1>0, EntersPoll
<1>5. FilesAreKept' /\ WriteIsWhole' /\ ConnectIsHonest'
  <2>1. Honest(f, "parked", c)
    BY DEF Honest
  <2>. QED  BY <1>0, <2>1, FilesKeep DEF FilesInv, HooksInv
<1>6. OneOpens'
  BY <1>0, OpensKeep DEF FilesInv
<1>7. WaiterIsArmed'
  <2>1. f \notin disturbed' => \A p \in c.on : Open(p[1])
    <3> SUFFICES ASSUME f \notin disturbed', NEW p \in c.on
                 PROVE  Open(p[1])
      OBVIOUS
    <3>1. p[1] \in Fds
      BY <1>0
    <3>2. sock'[p[1]] \in {"up", "listen", "pending", "failed"}
      BY DEF HasFile, States
    <3>3. p[1] \in Usable
      BY <3>1, <3>2 DEF SameFiles, Usable
    <3>. QED  BY <3>3 DEF Usable, Open
  <2>2. WaiterIsArmed /\ NoDanglingRegistration
    BY <1>0 DEF HooksInv, LoopInv
  <2>. QED  BY <1>0, <2>1, <2>2, ArmedEnters
<1>. QED  BY <1>1, <1>2, <1>3, <1>4, <1>5, <1>6, <1>7 DEF IInv, Types, FilesInv, HooksInv

-----------------------------------------------------------------------------
(* The hooks that wait *)

(* A hook that begins is counted, by a fiber that can go on. *)
LEMMA BeginsDoes ==
  ASSUME Types, NEW f \in Fibers, NEW op, Begins(f, op)
  PROVE  CanGo(f) /\ pc[f] = "idle" /\ FewCalls' /\ call[f] = NoCall
<1>1. CanGo(f) /\ pc[f] = "idle"
  BY DEF Begins, CanGo
<1>2. calls' = [calls EXCEPT ![f] = @ + 1] /\ calls[f] < Len(Script[f])
  BY DEF Begins
<1>3. calls \in [Fibers -> Nat] /\ \A g \in Fibers : calls[g] <= Len(Script[g])
  BY DEF Types, FewCalls
<1>4. \A g \in Fibers : Len(Script[g]) \in Nat
  BY PollAssumption
<1>5. FewCalls'
  BY <1>2, <1>3, <1>4 DEF FewCalls
<1>6. call[f] = NoCall
  BY <1>1 DEF Types, CallTypes, Shape
<1>. QED  BY <1>1, <1>5, <1>6

(* A step that leaves the sockets alone spares everybody. *)
LEMMA KernelSpares ==
  ASSUME Types, NEW f \in Fibers, UNCHANGED kernel, disturbed \ {f} \subseteq disturbed'
  PROVE  KernelTypes' /\ SameFiles /\ Spares(f)
<1>1. sock' = sock /\ input' = input /\ room' = room
  BY DEF kernel
<1>2. KernelTypes'
  BY <1>1 DEF Types, KernelTypes
<1>3. SameFiles
  BY <1>1 DEF SameFiles, Usable
<1>4. Spares(f)
  BY <1>1 DEF Spares, SparesFile, Ready
<1>. QED  BY <1>2, <1>3, <1>4

LEMMA PollFirstKeeps ==
  ASSUME IInv, NEW f \in Fibers, NEW op, NEW try, PollFirst(f, op, try),
         \/ op \in {"read", "readv", "recv", "recvfrom"} /\ try = "read"
         \/ op = "accept" /\ try = "accept"
  PROVE  IInv'
<1>0. Types /\ RivalsAreDisturbed /\ UNCHANGED kernel
  BY DEF IInv, FilesInv, PollFirst
<1>1. PICK fd \in Fds :
        /\ Starts(f, op, fd, "in")
        /\ IF IsNonblock(fd)
           THEN Go(f, try, For(fd, "in")) /\ Keep(f) /\ UNCHANGED reg
           ELSE PollEnter(f, For(fd, "in"), Timed(fd, "in"), try)
  BY DEF PollFirst
<1> DEFINE c == For(fd, "in")
<1>2. /\ CanGo(f) /\ pc[f] = "idle" /\ FewCalls' /\ pc[f] \notin FileLabels
      /\ Disturb(f, {<<fd, "in">>}) /\ sock[fd] \in {"up", "listen"}
  BY <1>0, <1>1, BeginsDoes DEF Starts, FileLabels
<1>3. /\ Call(c) /\ c.fd = fd /\ c.on = {<<fd, "in">>} /\ c.raised = {} /\ c.then = "idle"
      /\ c.wrote = 0 /\ c.n = 0
  BY ForIs
<1> HIDE DEF c
<1>4. UNCHANGED <<nonblock, contexts, asked>>
  BY DEF PollFirst, kernel
<1>5. sock' = sock
  BY <1>0 DEF kernel
<1>6. CASE IsNonblock(fd)
  <2>1. Go(f, try, c) /\ Keep(f) /\ reg' = reg
    BY <1>1, <1>6 DEF c
  <2>2. /\ try \in Labels \ ({"parked"} \cup FileLabels) /\ try \in Labels /\ try # "wrote"
        /\ Shape(try, c)
    BY <1>3 DEF Labels, FileLabels, InLabels, OutLabels, ConnectLabels, Shape, Where
  <2>3. RivalsAreDisturbed' /\ disturbed \subseteq disturbed' /\ disturbed' \subseteq Fibers
    BY <1>0, <1>2, <1>3, <2>1, <2>2, RivalsStart
  <2>4. KernelTypes' /\ SameFiles /\ Spares(f)
    BY <1>0, <2>3, KernelSpares
  <2>5. HasFile(f, try, c) /\ Honest(f, try, c)
    BY <1>2, <1>3, <1>5 DEF HasFile, Honest, States
  <2>6. /\ try \in InLabels /\ c.then = try => Answered(c)
        /\ try = "write" /\ c.n = 1 => Answered(c)
    BY <1>3 DEF InLabels
  <2>. QED  BY <1>2, <1>3, <1>4, <2>1, <2>2, <2>3, <2>4, <2>5, <2>6, GoesOn
<1>7. CASE ~IsNonblock(fd)
  <2> DEFINE d == Polling(c, Timed(fd, "in"), try)
  <2>1. /\ Go(f, "parked", d) /\ Leave(f)
        /\ reg' = [reg EXCEPT ![host[f]] = Registered(f, c.on)]
    BY <1>1, <1>7 DEF c, PollEnter, Polling
  <2>2. Timed(fd, "in") \in BOOLEAN /\ try \in Labels /\ "parked" \in Labels
    BY <1>0 DEF Timed, Types, ContextTypes, Labels, InLabels
  <2>3. /\ Call(d) /\ d.on = {<<fd, "in">>} /\ d.raised = {} /\ d.then = try /\ d.fd = fd
        /\ d.on = c.on
    <3>1. Call(c)
      BY <1>3
    <3>2. Call(d) /\ d.on = c.on /\ d.raised = {} /\ d.then = try /\ d.fd = c.fd
      BY ONLY <2>2, <3>1, PollOf
    <3>. QED  BY <1>3, <3>2
  <2> HIDE DEF d
  <2>4. Shape("parked", d)
    BY <2>3 DEF Labels, FileLabels, InLabels, OutLabels, ConnectLabels, Shape, Where
  <2>5. RivalsAreDisturbed' /\ disturbed \subseteq disturbed' /\ disturbed' \subseteq Fibers
    BY <1>0, <1>2, <2>1, <2>2, <2>3, RivalsStart
  <2>6. KernelTypes' /\ SameFiles /\ Spares(f)
    BY <1>0, <2>5, KernelSpares
  <2>7. HasFile(f, "parked", d)
    BY <1>2, <2>3, <1>5 DEF HasFile, States
  <2>8. reg' = [reg EXCEPT ![host[f]] = Registered(f, d.on)]
    BY <2>1, <2>3
  <2>. QED  BY <1>2, <1>4, <2>1, <2>3, <2>4, <2>5, <2>6, <2>7, <2>8, GoesToPoll
<1>. QED  BY <1>6, <1>7

LEMMA TryFirstKeeps ==
  ASSUME IInv, NEW f \in Fibers, NEW op, NEW try, TryFirst(f, op, try),
         op \in {"write", "send", "sendto", "writev"}, try \in {"write", "sendto", "once"}
  PROVE  IInv'
<1>0. Types /\ RivalsAreDisturbed /\ UNCHANGED kernel
  BY DEF IInv, FilesInv, TryFirst
<1>1. PICK fd \in Fds :
        /\ Starts(f, op, fd, "out")
        /\ Go(f, IF IsNonblock(fd) THEN "once" ELSE try, For(fd, "out"))
  BY DEF TryFirst
<1> DEFINE c == For(fd, "out")
           l == IF IsNonblock(fd) THEN "once" ELSE try
<1>2. /\ CanGo(f) /\ pc[f] = "idle" /\ FewCalls' /\ pc[f] \notin FileLabels
      /\ Disturb(f, {<<fd, "out">>}) /\ sock[fd] = "up"
  BY <1>0, <1>1, BeginsDoes DEF Starts, FileLabels
<1>3. /\ Call(c) /\ c.fd = fd /\ c.on = {<<fd, "out">>} /\ c.raised = {} /\ c.then = "idle"
      /\ c.wrote = 0 /\ c.n = 0
  BY ForIs
<1>4. Go(f, l, c) /\ Keep(f) /\ reg' = reg /\ UNCHANGED <<nonblock, contexts, asked>> /\ sock' = sock
  BY <1>1 DEF TryFirst, kernel
<1>5. l \in {"write", "sendto", "once"}
  OBVIOUS
<1> HIDE DEF c, l
<1>6. /\ l \in Labels \ ({"parked"} \cup FileLabels) /\ l \in Labels /\ l \notin InLabels
      /\ Shape(l, c)
  BY <1>3, <1>5, PollAssumption
     DEF Labels, FileLabels, InLabels, OutLabels, ConnectLabels, Shape, Where
<1>7. RivalsAreDisturbed' /\ disturbed \subseteq disturbed' /\ disturbed' \subseteq Fibers
  BY <1>0, <1>2, <1>3, <1>4, <1>6, RivalsStart
<1>8. KernelTypes' /\ SameFiles /\ Spares(f)
  BY <1>0, <1>7, KernelSpares
<1>9. HasFile(f, l, c) /\ Honest(f, l, c)
  BY <1>2, <1>3, <1>4, <1>5 DEF HasFile, Honest, States, Where, ConnectLabels
<1>. QED  BY <1>2, <1>3, <1>4, <1>6, <1>7, <1>8, <1>9, GoesOn

(* connect changes a socket that no undisturbed hook is on. *)
LEMMA ConnectKeeps ==
  ASSUME IInv, NEW f \in Fibers, Connect(f)
  PROVE  IInv'
<1>0. Types /\ RivalsAreDisturbed /\ FilesAreKept
  BY DEF IInv, FilesInv
<1>1. PICK fd \in Fds :
        /\ Starts(f, "connect", fd, "out")
        /\ sock' = [sock EXCEPT ![fd] = "pending"]
        /\ IF IsNonblock(fd)
           THEN Go(f, "refused", For(fd, "out")) /\ Keep(f) /\ UNCHANGED reg
           ELSE PollEnter(f, [For(fd, "out") EXCEPT !.n = 1], TRUE, "connect")
  BY DEF Connect
<1> DEFINE c == For(fd, "out")
<1>2. /\ CanGo(f) /\ pc[f] = "idle" /\ FewCalls' /\ pc[f] \notin FileLabels
      /\ Disturb(f, {<<fd, "out">>}) /\ sock[fd] = "new"
  BY <1>0, <1>1, BeginsDoes DEF Starts, FileLabels
<1>3. /\ Call(c) /\ c.fd = fd /\ c.on = {<<fd, "out">>} /\ c.raised = {} /\ c.then = "idle"
      /\ c.wrote = 0 /\ c.n = 0
  BY ForIs
<1> HIDE DEF c
<1>4. UNCHANGED <<nonblock, contexts, asked>> /\ input' = input /\ room' = room
  BY DEF Connect
<1>5. /\ sock'[fd] = "pending" /\ \A k \in Fds \ {fd} : sock'[k] = sock[k]
      /\ sock' \in [Fds -> {"closed", "raw", "new", "listen", "pending", "up", "failed"}]
  BY <1>0, <1>1 DEF Types, KernelTypes
<1>6. KernelTypes' /\ SameFiles
  BY <1>0, <1>2, <1>4, <1>5 DEF Types, KernelTypes, SameFiles, Usable
<1>7. ASSUME disturbed \subseteq disturbed'
      PROVE  Spares(f)
  <2> SUFFICES ASSUME NEW g \in Fibers \ {f}, g \notin disturbed'
               PROVE  SparesFile(g)
    BY DEF Spares
  <2>1. KeepsItsFile(g) /\ g \notin disturbed
    BY <1>0, <1>7 DEF FilesAreKept
  <2>2. ASSUME NEW p \in call[g].on
        PROVE  p[1] # fd /\ p[1] \in Fds
    BY <1>0, <1>2, <2>1, CallHas DEF KeepsItsFile, States
  <2>. QED  BY <1>4, <1>5, <2>1, <2>2 DEF SparesFile, Ready
<1>8. CASE IsNonblock(fd)
  <2>1. Go(f, "refused", c) /\ Keep(f) /\ reg' = reg
    BY <1>1, <1>8 DEF c
  <2>2. /\ "refused" \in Labels \ ({"parked"} \cup FileLabels) /\ "refused" \in Labels
        /\ "refused" \notin InLabels /\ Shape("refused", c)
    BY <1>3 DEF Labels, FileLabels, InLabels, OutLabels, ConnectLabels, Shape, Where
  <2>3. RivalsAreDisturbed' /\ disturbed \subseteq disturbed' /\ disturbed' \subseteq Fibers
    BY <1>0, <1>2, <1>3, <2>1, <2>2, RivalsStart
  <2>4. Spares(f)
    BY <1>7, <2>3
  <2>5. HasFile(f, "refused", c) /\ Honest(f, "refused", c)
    BY <1>3, <1>5 DEF HasFile, Honest, States, Where, ConnectLabels
  <2>. QED  BY <1>2, <1>3, <1>4, <1>6, <2>1, <2>2, <2>3, <2>4, <2>5, GoesOn
<1>9. CASE ~IsNonblock(fd)
  <2> DEFINE c1 == [c EXCEPT !.n = 1]
             d == Polling(c1, TRUE, "connect")
  <2>1. /\ Go(f, "parked", d) /\ Leave(f)
        /\ reg' = [reg EXCEPT ![host[f]] = Registered(f, c1.on)]
    BY <1>1, <1>9 DEF c, PollEnter, Polling
  <2>2. "connect" \in Labels /\ "parked" \in Labels
    BY DEF Labels, OutLabels, ConnectLabels
  <2>3. Call(c1) /\ c1.on = c.on /\ c1.fd = c.fd /\ c1.n = 1
    BY <1>3 DEF Call, Calls
  <2> HIDE DEF c1
  <2>4. Call(d) /\ d.on = c1.on /\ d.raised = {} /\ d.then = "connect" /\ d.fd = c1.fd
    <3>1. \A t \in BOOLEAN : LET e == Polling(c1, t, "connect") IN
            Call(e) /\ e.on = c1.on /\ e.raised = {} /\ e.then = "connect" /\ e.fd = c1.fd
      BY ONLY <2>2, <2>3, PollOf
    <3>. QED  BY ONLY <3>1
  <2> HIDE DEF d
  <2>5. d.on = {<<fd, "out">>} /\ d.fd = fd /\ reg' = [reg EXCEPT ![host[f]] = Registered(f, d.on)]
    BY <1>3, <2>1, <2>3, <2>4
  <2>6. Shape("parked", d)
    BY <2>4, <2>5 DEF Labels, FileLabels, InLabels, OutLabels, ConnectLabels, Shape, Where
  <2>7. RivalsAreDisturbed' /\ disturbed \subseteq disturbed' /\ disturbed' \subseteq Fibers
    BY <1>0, <1>2, <2>1, <2>2, <2>5, RivalsStart
  <2>8. HasFile(f, "parked", d)
    BY <1>5, <2>4, <2>5 DEF HasFile, States, Where, ConnectLabels
  <2>9. Spares(f)
    BY <1>7, <2>7
  <2>. QED  BY <1>2, <1>4, <1>6, <2>1, <2>4, <2>5, <2>6, <2>7, <2>8, <2>9, GoesToPoll
<1>. QED  BY <1>8, <1>9

LEMMA PollKeeps ==
  ASSUME IInv, NEW f \in Fibers, Poll(f)
  PROVE  IInv'
<1>0. Types /\ RivalsAreDisturbed /\ UNCHANGED kernel
  BY DEF IInv, FilesInv, Poll
<1>1. PICK fds \in SUBSET {fd \in Fds : sock[fd] \in {"up", "listen"}}, timed \in BOOLEAN :
        LET on == {<<fd, "in">> : fd \in fds} IN
        /\ Disturb(f, on)
        /\ PollEnter(f, [NoCall EXCEPT !.on = on], timed, "idle")
  BY DEF Poll
<1> DEFINE on == {<<fd, "in">> : fd \in fds}
           c == [NoCall EXCEPT !.on = on]
           d == Polling(c, timed, "idle")
<1>2. CanGo(f) /\ pc[f] = "idle" /\ FewCalls' /\ pc[f] \notin FileLabels
  BY <1>0, BeginsDoes DEF Poll, FileLabels
<1>3. /\ on \in SUBSET (Fds \X {"in", "out"})
      /\ \A p \in on : p[2] = "in" /\ sock[p[1]] \in {"up", "listen"}
  OBVIOUS
<1>4. /\ Go(f, "parked", d) /\ Leave(f) /\ Disturb(f, on)
      /\ reg' = [reg EXCEPT ![host[f]] = Registered(f, c.on)]
  BY <1>1 DEF PollEnter, Polling
<1>5. UNCHANGED <<nonblock, contexts, asked>> /\ sock' = sock
  BY DEF Poll, kernel
<1> HIDE DEF on
<1>6. Call(c) /\ c.on = on /\ c.fd = 0
  BY <1>3, PollIs
<1> HIDE DEF c
<1>7. Call(d) /\ d.on = c.on /\ d.raised = {} /\ d.then = "idle" /\ d.fd = c.fd
  <2>1. "idle" \in Labels /\ timed \in BOOLEAN
    BY DEF Labels
  <2>. QED  BY ONLY <1>6, <2>1, PollOf
<1> HIDE DEF d
<1>8. /\ d.on = on /\ "parked" \in Labels
      /\ reg' = [reg EXCEPT ![host[f]] = Registered(f, d.on)]
  BY <1>4, <1>6, <1>7 DEF Labels
<1>9. Shape("parked", d)
  BY <1>3, <1>7, <1>8 DEF Labels, FileLabels, InLabels, OutLabels, ConnectLabels, Shape, Where
<1>10. RivalsAreDisturbed' /\ disturbed \subseteq disturbed' /\ disturbed' \subseteq Fibers
  BY <1>0, <1>4, <1>8, RivalsStart
<1>11. KernelTypes' /\ SameFiles /\ Spares(f)
  BY <1>0, <1>10, KernelSpares
<1>12. HasFile(f, "parked", d)
  BY <1>3, <1>5, <1>7, <1>8 DEF HasFile, States
<1>. QED  BY <1>2, <1>4, <1>5, <1>7, <1>8, <1>9, <1>10, <1>11, <1>12, GoesToPoll

-----------------------------------------------------------------------------
(* The hooks that go on *)

(* A running fiber that is not parked can go on, and stays the one that     *)
(* runs.                                                                    *)
LEMMA RunningGoesOn ==
  ASSUME Types, NEW f \in Fibers, Runs(f), pc[f] # "parked"
  PROVE  CanGo(f) /\ (UNCHANGED loops => Keep(f))
<1>1. host[f] \in Threads /\ cur \in [Threads -> Fibers \cup {NoOne}] /\ cur[host[f]] = f
  BY PollAssumption DEF Types, LoopTypes, Runs
<1>2. cur = [cur EXCEPT ![host[f]] = f]
  BY <1>1
<1>3. UNCHANGED loops => cur' = cur /\ active' = active
  BY DEF loops
<1>. QED  BY <1>2, <1>3 DEF CanGo, Keep

(* The hook of an undisturbed fiber has its side of a descriptor for itself. *)
LEMMA RivalsSpare ==
  ASSUME RivalsAreDisturbed, NEW f \in Fibers, NEW g \in Fibers \ {f}, g \notin disturbed,
         NEW p \in call[g].on
  PROVE  p \notin call[f].on
BY DEF RivalsAreDisturbed

(* A hook returns. *)
LEMMA Returns ==
  ASSUME IInv, NEW f \in Fibers, Runs(f), pc[f] # "parked", pc[f] \notin FileLabels,
         Return(f), UNCHANGED <<nonblock, contexts, reg, loops, calls, asked>>,
         KernelTypes', SameFiles, Spares(f)
  PROVE  IInv'
<1>0. Types /\ RivalsAreDisturbed /\ CanGo(f) /\ Keep(f) /\ reg' = reg
      /\ UNCHANGED <<nonblock, contexts, asked>>
  BY RunningGoesOn DEF IInv, FilesInv
<1>1. /\ "idle" \in Labels \ ({"parked"} \cup FileLabels) /\ "idle" \in Labels
      /\ "idle" \notin InLabels
  BY DEF Labels, FileLabels, InLabels
<1>2. Call(NoCall) /\ Shape("idle", NoCall) /\ NoCall.on = {}
  BY NoCallIs
<1>3. Go(f, "idle", NoCall) /\ disturbed' = disturbed \ {f}
  BY DEF Return
<1>4. disturbed' \subseteq Fibers /\ disturbed \ {f} \subseteq disturbed' /\ FewCalls'
  BY <1>0, <1>3 DEF Types, CallTypes, FewCalls
<1>5. RivalsAreDisturbed'
  BY <1>0, <1>1, <1>2, <1>3, <1>4, RivalsKeep
<1>6. HasFile(f, "idle", NoCall) /\ Honest(f, "idle", NoCall)
  BY <1>2 DEF HasFile, Honest
<1>. QED  BY <1>0, <1>1, <1>2, <1>3, <1>4, <1>5, <1>6, GoesOn

LEMMA ReadTryKeeps ==
  ASSUME IInv, NEW f \in Fibers, ReadTry(f)
  PROVE  IInv'
<1>0. Types /\ RivalsAreDisturbed /\ Runs(f) /\ pc[f] = "read" /\ Return(f)
      /\ UNCHANGED <<nonblock, contexts, reg, loops, calls, asked>>
      /\ input' = [input EXCEPT ![call[f].fd] = FALSE] /\ sock' = sock /\ room' = room
  BY DEF IInv, FilesInv, ReadTry, At
<1>1. call[f].fd \in Fds /\ call[f].on = {<<call[f].fd, "in">>}
  BY <1>0 DEF Types, CallTypes, Shape, Where, InLabels
<1>2. KernelTypes' /\ SameFiles
  BY <1>0 DEF Types, KernelTypes, SameFiles, Usable
<1>3. Spares(f)
  <2> SUFFICES ASSUME NEW g \in Fibers \ {f}, g \notin disturbed'
               PROVE  SparesFile(g)
    BY DEF Spares
  <2>1. g \notin disturbed
    BY <1>0 DEF Return
  <2>2. ASSUME NEW p \in call[g].on
        PROVE  p[1] \in Fds /\ ~(p[1] = call[f].fd /\ p[2] = "in")
    BY <1>0, <1>1, <2>1, CallHas, RivalsSpare
  <2>3. ASSUME NEW p \in call[g].on, Ready(p[1], p[2])
        PROVE  Ready(p[1], p[2])'
    BY <1>0, <1>1, <2>2, <2>3 DEF Ready, Types, KernelTypes
  <2>. QED  BY <1>0, <2>1, <2>3 DEF SparesFile
<1>4. pc[f] \notin FileLabels
  BY <1>0 DEF FileLabels
<1>. QED  BY <1>0, <1>2, <1>3, <1>4, Returns

(* The counters of a call. *)
LEMMA CountersAre ==
  ASSUME NEW c \in Calls, NEW w \in 0..WriteLen, NEW s \in Seq(Nat), NEW n \in 0..3
  PROVE  /\ [c EXCEPT !.wrote = w, !.taken = s, !.n = n] \in Calls
         /\ [c EXCEPT !.n = n] \in Calls
BY DEF Calls

(* The first bytes and those that follow them are the first bytes again. *)
LEMMA NextBytes ==
  ASSUME NEW w \in Nat, NEW k \in Nat, NEW a \in Seq(Nat), NEW b \in Seq(Nat),
         Len(a) = w, Len(b) = k, \A i \in 1..w : a[i] = i, \A i \in 1..k : b[i] = w + i
  PROVE  a \o b = [i \in 1..(w + k) |-> i] /\ a \o b \in Seq(Nat)
<1> DEFINE s == a \o b
<1>1. /\ s \in Seq(Nat) /\ Len(s) = w + k
      /\ \A i \in 1..(w + k) : s[i] = IF i <= w THEN a[i] ELSE b[i - w]
  <2>1. s \in Seq(Nat) /\ Len(s) = Len(a) + Len(b)
    BY ONLY a \in Seq(Nat), b \in Seq(Nat)
  <2>2. \A i \in 1..(Len(a) + Len(b)) : s[i] = IF i <= Len(a) THEN a[i] ELSE b[i - Len(a)]
    BY ONLY a \in Seq(Nat), b \in Seq(Nat)
  <2>. QED  BY ONLY <2>1, <2>2, Len(a) = w, Len(b) = k
<1> HIDE DEF s
<1>2. ASSUME NEW i \in 1..(w + k)
      PROVE  s[i] = i
  <2>1. CASE i <= w
    BY <1>1, <2>1
  <2>2. CASE i > w
    <3>1. i - w \in 1..k /\ w + (i - w) = i
      BY <2>2
    <3>2. b[i - w] = w + (i - w)
      BY <3>1
    <3>. QED  BY <1>1, <2>2, <3>1, <3>2
  <2>. QED  BY <2>1, <2>2
<1>3. s = [i \in 1..(w + k) |-> s[i]]
  BY <1>1
<1>. QED  BY <1>1, <1>2, <1>3 DEF s

(* What a write takes are the next bytes of the buffer. *)
LEMMA TakenIs ==
  ASSUME NEW c, Call(c), NEW k \in 1..(WriteLen - c.wrote)
  PROVE  LET d == [Taken(c, k) EXCEPT !.n = 1] IN
         /\ Call(d) /\ d.fd = c.fd /\ d.on = c.on /\ d.raised = c.raised /\ d.then = c.then
         /\ d.timed = c.timed /\ d.wrote = c.wrote + k /\ d.n = 1
<1> DEFINE d == [Taken(c, k) EXCEPT !.n = 1]
           w == c.wrote
           s == c.taken \o Slice(c, k)
<1>1. c \in Calls /\ c.taken = [i \in 1..w |-> i] /\ w \in 0..WriteLen /\ WriteLen \in Nat
      /\ c.raised \subseteq c.on /\ k \in Nat /\ w + k \in 0..WriteLen /\ w \in Nat
  BY PollAssumption DEF Call, Calls
<1>2. /\ d.fd = c.fd /\ d.on = c.on /\ d.raised = c.raised /\ d.then = c.then
      /\ d.timed = c.timed /\ d.wrote = w + k /\ d.n = 1 /\ d.taken = s
  BY <1>1 DEF Taken, Calls
<1>3. s = [i \in 1..(w + k) |-> i] /\ s \in Seq(Nat)
  <2>1. /\ c.taken \in Seq(Nat) /\ Len(c.taken) = w /\ \A i \in 1..w : c.taken[i] = i
    BY <1>1 DEF Calls
  <2>2. /\ Slice(c, k) \in Seq(Nat) /\ Len(Slice(c, k)) = k
        /\ \A i \in 1..k : Slice(c, k)[i] = w + i
    BY <1>1 DEF Slice
  <2>. QED  BY ONLY <1>1, <2>1, <2>2, NextBytes
<1>4. d \in Calls
  <2> HIDE DEF s
  <2>1. [Taken(c, k) EXCEPT !.n = 1] = [c EXCEPT !.wrote = w + k, !.taken = s, !.n = 1]
    BY DEF Taken, s, Calls
  <2>2. [c EXCEPT !.wrote = w + k, !.taken = s, !.n = 1] \in Calls
    <3>1. c \in Calls /\ w + k \in 0..WriteLen /\ s \in Seq(Nat) /\ 1 \in 0..3
      BY <1>1, <1>3
    <3>. QED  BY ONLY <3>1, CountersAre
  <2>. QED  BY <2>1, <2>2
<1>. QED  BY <1>1, <1>2, <1>3, <1>4 DEF Call

(* A hook that writes spares everybody: nobody undisturbed waits for room   *)
(* on the same descriptor.                                                  *)
LEMMA WritesSpare ==
  ASSUME Types, RivalsAreDisturbed, NEW f \in Fibers, NEW k \in Nat,
         call[f].fd \in Fds, call[f].on = {<<call[f].fd, "out">>}, k <= room[call[f].fd],
         room' = [room EXCEPT ![call[f].fd] = @ - k], sock' = sock, input' = input,
         disturbed \ {f} \subseteq disturbed'
  PROVE  KernelTypes' /\ SameFiles /\ Spares(f)
<1>1. KernelTypes' /\ SameFiles
  BY PollAssumption DEF Types, KernelTypes, SameFiles, Usable
<1>2. Spares(f)
  <2> SUFFICES ASSUME NEW g \in Fibers \ {f}, g \notin disturbed'
               PROVE  SparesFile(g)
    BY DEF Spares
  <2>1. g \notin disturbed
    OBVIOUS
  <2>2. ASSUME NEW p \in call[g].on
        PROVE  p[1] \in Fds /\ ~(p[1] = call[f].fd /\ p[2] = "out")
    BY <2>1, CallHas, RivalsSpare
  <2>3. ASSUME NEW p \in call[g].on, Ready(p[1], p[2])
        PROVE  Ready(p[1], p[2])'
    BY <2>2, <2>3 DEF Ready, Types, KernelTypes
  <2>. QED  BY <2>1, <2>3 DEF SparesFile
<1>. QED  BY <1>1, <1>2

(* A hook on output polls again, or for the first time. *)
LEMMA PollsAgainKeeps ==
  ASSUME IInv, NEW f \in Fibers, NEW c, Call(c), NEW l,
         Runs(f), pc[f] \in {"write", "sendto", "connect"}, c.fd = call[f].fd, c.on = call[f].on,
         NEW timed \in BOOLEAN, PollEnter(f, c, timed, l),
         \/ pc[f] = "write" /\ l = "write" /\ c.wrote < WriteLen /\ c.n = 1
         \/ pc[f] = "sendto" /\ l = "once"
         \/ pc[f] = "connect" /\ l = "connect",
         UNCHANGED <<nonblock, contexts, calls, asked, disturbed>>,
         KernelTypes', SameFiles, Spares(f), sock' = sock
  PROVE  IInv'
<1> DEFINE d == Polling(c, timed, l)
<1>0. /\ Types /\ RivalsAreDisturbed /\ FilesAreKept /\ CanGo(f)
      /\ UNCHANGED <<nonblock, contexts, asked>> /\ disturbed' = disturbed
      /\ pc[f] \notin FileLabels /\ "parked" \in Labels /\ l \in Labels
  BY RunningGoesOn DEF IInv, FilesInv, FileLabels, Labels, OutLabels, ConnectLabels
<1>1. call[f].fd \in Fds /\ call[f].on = {<<call[f].fd, "out">>}
  BY <1>0 DEF Types, CallTypes, Shape, Where, OutLabels, ConnectLabels
<1>2. /\ Go(f, "parked", d) /\ Leave(f)
      /\ reg' = [reg EXCEPT ![host[f]] = Registered(f, c.on)]
  BY DEF PollEnter, Polling
<1>3. /\ Call(d) /\ d.on = c.on /\ d.raised = {} /\ d.then = l /\ d.fd = c.fd
      /\ d.wrote = c.wrote /\ d.n = c.n
  BY ONLY <1>0, Call(c), timed \in BOOLEAN, PollOf
<1> HIDE DEF d
<1>4. /\ d.fd \in Fds /\ d.on = {<<d.fd, "out">>} /\ d.on = call[f].on
      /\ reg' = [reg EXCEPT ![host[f]] = Registered(f, d.on)]
  BY <1>1, <1>2, <1>3
<1>5. Shape("parked", d)
  BY <1>3, <1>4 DEF Labels, FileLabels, InLabels, OutLabels, ConnectLabels, Shape, Where
<1>6. RivalsAreDisturbed' /\ disturbed' \subseteq Fibers /\ FewCalls'
  <2>1. RivalsAreDisturbed'
    BY <1>0, <1>2, <1>4, RivalsKeep
  <2>. QED  BY <1>0, <2>1 DEF Types, CallTypes, FewCalls
<1>7. HasFile(f, "parked", d)
  <2> SUFFICES ASSUME f \notin disturbed
               PROVE  sock[d.fd] \in States(l, "out")
    BY <1>0, <1>3, <1>4 DEF HasFile, Where
  <2>1. sock[d.fd] \in States(pc[f], "out")
    <3>1. KeepsItsFile(f) /\ <<d.fd, "out">> \in call[f].on /\ pc[f] # "parked"
      BY <1>0, <1>4 DEF FilesAreKept
    <3>2. sock[<<d.fd, "out">>[1]] \in States(Where(pc[f], call[f]), <<d.fd, "out">>[2])
      BY <3>1 DEF KeepsItsFile
    <3>. QED  BY <3>1, <3>2 DEF Where
  <2>. QED  BY <2>1 DEF States, ConnectLabels
<1>. QED  BY <1>0, <1>2, <1>3, <1>4, <1>5, <1>6, <1>7, GoesToPoll

LEMMA WriteTryKeeps ==
  ASSUME IInv, NEW f \in Fibers, WriteTry(f)
  PROVE  IInv'
<1> DEFINE c == call[f]
           fd == c.fd
<1>0. /\ Types /\ RivalsAreDisturbed /\ FilesAreKept /\ Resumed /\ Runs(f) /\ pc[f] = "write"
      /\ CanGo(f) /\ pc[f] \notin FileLabels
      /\ UNCHANGED <<sock, input, nonblock, contexts, calls, asked>>
  BY RunningGoesOn DEF IInv, FilesInv, LoopInv, WriteTry, At, FileLabels
<1>1. /\ Call(c) /\ fd \in Fds /\ c.on = {<<fd, "out">>} /\ c.wrote < WriteLen /\ c.n \in {0, 1}
      /\ c.raised \subseteq c.on /\ c.wrote \in Nat /\ Timed(fd, "out") \in BOOLEAN
  BY <1>0 DEF Types, CallTypes, ContextTypes, Shape, Where, OutLabels, ConnectLabels, Call, Calls, Timed
<1>2. f \notin disturbed => sock[fd] = "up" /\ (c.raised # {} => Ready(fd, "out"))
  <2> SUFFICES ASSUME f \notin disturbed
               PROVE  sock[fd] = "up" /\ (c.raised # {} => Ready(fd, "out"))
    OBVIOUS
  <2>1. KeepsItsFile(f) /\ <<fd, "out">> \in call[f].on
    BY <1>0, <1>1 DEF FilesAreKept
  <2>2. /\ sock[<<fd, "out">>[1]] \in States(Where("write", c), <<fd, "out">>[2])
        /\ <<fd, "out">> \in c.raised => Ready(<<fd, "out">>[1], <<fd, "out">>[2])
    BY <1>0, <2>1 DEF KeepsItsFile
  <2>. QED  BY <1>1, <2>2 DEF States, Where, ConnectLabels
<1>3. ASSUME NEW k \in Pushes(fd, c), room' = [room EXCEPT ![fd] = @ - k],
             LET d == [Taken(c, k) EXCEPT !.n = 1] IN
             IF d.wrote < WriteLen THEN PollsAgain(f, d, "write")
             ELSE Go(f, "wrote", d) /\ UNCHANGED <<reg, loops, disturbed>>
      PROVE  IInv'
  <2> DEFINE d == [Taken(c, k) EXCEPT !.n = 1]
  <2>1. k \in 1..(WriteLen - c.wrote) /\ k <= room[fd]
    BY DEF Pushes
  <2>2. /\ Call(d) /\ d.fd = fd /\ d.on = c.on /\ d.raised = c.raised
        /\ d.timed = c.timed /\ d.wrote = c.wrote + k /\ d.n = 1
    BY <1>1, <2>1, TakenIs
  <2>3. d.wrote < WriteLen => PollsAgain(f, d, "write")
    BY <1>3
  <2>4. ~(d.wrote < WriteLen) => Go(f, "wrote", d) /\ UNCHANGED <<reg, loops, disturbed>>
    BY <1>3
  <2> HIDE DEF d
  <2>5. disturbed' = disturbed
    BY <2>3, <2>4 DEF PollsAgain
  <2>6. KernelTypes' /\ SameFiles /\ Spares(f)
    <3>1. k \in Nat /\ fd \in Fds /\ call[f].on = {<<fd, "out">>}
      BY <1>1, <2>1
    <3>. QED  BY <1>0, <1>3, <2>1, <2>5, <3>1, WritesSpare
  <2>7. CASE d.wrote < WriteLen
    <3>1. PollEnter(f, d, Timed(fd, "out"), "write")
      BY <2>2, <2>3, <2>7 DEF PollsAgain
    <3>2. UNCHANGED <<nonblock, contexts, calls, asked, disturbed>>
      BY <1>0, <2>5
    <3>3. d.fd = call[f].fd /\ d.on = call[f].on /\ d.wrote < WriteLen /\ d.n = 1 /\ Call(d)
      BY <2>2, <2>7
    <3>4. Timed(fd, "out") \in BOOLEAN /\ Runs(f) /\ pc[f] = "write" /\ sock' = sock
      BY <1>0, <1>1
    <3>. QED  BY <2>6, <3>1, <3>2, <3>3, <3>4, PollsAgainKeeps
  <2>8. CASE ~(d.wrote < WriteLen)
    <3>1. Go(f, "wrote", d) /\ reg' = reg /\ Keep(f) /\ FewCalls'
      BY <1>0, <2>4, <2>8, RunningGoesOn DEF Types, FewCalls
    <3>2. /\ "wrote" \in Labels \ ({"parked"} \cup FileLabels) /\ "wrote" \in Labels
          /\ "wrote" \notin InLabels
      BY DEF Labels, FileLabels, InLabels, OutLabels
    <3>3. Shape("wrote", d)
      BY <1>1, <2>2 DEF Labels, FileLabels, InLabels, OutLabels, ConnectLabels, Shape, Where
    <3>4. RivalsAreDisturbed' /\ disturbed' \subseteq Fibers /\ disturbed \ {f} \subseteq disturbed'
      <4>1. RivalsAreDisturbed'
        BY <1>0, <2>2, <2>5, <3>1, <3>2, RivalsKeep
      <4>. QED  BY <1>0, <2>5, <4>1 DEF Types, CallTypes
    <3>5. HasFile(f, "wrote", d) /\ Honest(f, "wrote", d)
      BY <1>0, <1>1, <1>2, <2>2, <2>5, <2>8 DEF HasFile, Honest, States, Where, ConnectLabels
    <3>6. UNCHANGED <<nonblock, contexts, asked>>
      BY <1>0
    <3>. QED  BY <1>0, <2>2, <2>6, <3>1, <3>2, <3>3, <3>4, <3>5, <3>6, GoesOn
  <2>. QED  BY <2>7, <2>8
<1>4. ASSUME UNCHANGED room, UNCHANGED disturbed
      PROVE  KernelTypes' /\ SameFiles /\ Spares(f)
  <2>1. UNCHANGED kernel /\ disturbed \ {f} \subseteq disturbed'
    BY <1>0, <1>4 DEF kernel
  <2>2. Types /\ f \in Fibers
    BY <1>0
  <2>. QED  BY ONLY <2>1, <2>2, KernelSpares
<1>5. ASSUME c.n = 0, PollsAgain(f, [c EXCEPT !.n = 1], "write"), UNCHANGED room
      PROVE  IInv'
  <2> DEFINE d == [c EXCEPT !.n = 1]
  <2>1. Call(d) /\ d.fd = fd /\ d.on = c.on /\ d.wrote = c.wrote /\ d.n = 1
    <3>1. /\ c \in Calls /\ 1 \in 0..3 /\ c.raised \subseteq c.on /\ c.wrote \in 0..WriteLen
          /\ c.taken = [i \in 1..c.wrote |-> i] /\ c.taken \in Seq(Nat)
      BY <1>1 DEF Call, Calls
    <3>2. d \in Calls
      BY <3>1, CountersAre
    <3>3. /\ d.fd = c.fd /\ d.on = c.on /\ d.raised = c.raised /\ d.taken = c.taken
          /\ d.wrote = c.wrote /\ d.n = 1
      BY <3>1 DEF Calls
    <3>. QED  BY <3>1, <3>2, <3>3 DEF Call
  <2>2. PollEnter(f, d, Timed(d.fd, "out"), "write") /\ disturbed' = disturbed
    BY <1>5 DEF PollsAgain
  <2> HIDE DEF d
  <2>3. PollEnter(f, d, Timed(fd, "out"), "write")
    BY <2>1, <2>2
  <2>4. UNCHANGED <<nonblock, contexts, calls, asked, disturbed>>
    BY <1>0, <2>2
  <2>5. KernelTypes' /\ SameFiles /\ Spares(f)
    BY <1>4, <1>5, <2>2
  <2>6. d.fd = call[f].fd /\ d.on = call[f].on /\ d.wrote < WriteLen /\ d.n = 1 /\ Call(d)
    BY <1>1, <2>1
  <2>7. Timed(fd, "out") \in BOOLEAN /\ Runs(f) /\ pc[f] = "write" /\ sock' = sock
    BY <1>0, <1>1
  <2>. QED  BY <2>3, <2>4, <2>5, <2>6, <2>7, PollsAgainKeeps
<1>6. ASSUME Pushes(fd, c) = {}, c.n = 1, Go(f, "wrote", c), UNCHANGED <<room, reg, loops, disturbed>>
      PROVE  IInv'
  <2>1. reg' = reg /\ Keep(f) /\ FewCalls' /\ UNCHANGED <<nonblock, contexts, asked>>
    BY <1>0, <1>6, RunningGoesOn DEF Types, FewCalls
  <2>2. /\ "wrote" \in Labels \ ({"parked"} \cup FileLabels) /\ "wrote" \in Labels
        /\ "wrote" \notin InLabels
    BY DEF Labels, FileLabels, InLabels, OutLabels
  <2>3. Shape("wrote", c)
    BY <1>1 DEF Labels, FileLabels, InLabels, OutLabels, ConnectLabels, Shape, Where
  <2>4. RivalsAreDisturbed' /\ disturbed' \subseteq Fibers /\ disturbed \ {f} \subseteq disturbed'
    <3>1. RivalsAreDisturbed'
      BY <1>0, <1>6, <2>2, RivalsKeep
    <3>. QED  BY <1>0, <1>6, <3>1 DEF Types, CallTypes
  <2>5. f \notin disturbed => c.timed /\ c.raised = {}
    <3> SUFFICES ASSUME f \notin disturbed PROVE c.timed /\ c.raised = {}
      OBVIOUS
    <3>1. Answered(c)
      BY <1>0, <1>6 DEF Resumed
    <3>2. ASSUME c.raised # {}
          PROVE  FALSE
      <4>1. sock[fd] = "up" /\ Ready(fd, "out")
        BY <1>2, <3>2
      <4>2. room[fd] > 0 /\ room[fd] \in 0..Room /\ Room \in Nat /\ WriteLen \in Nat
        BY <1>0, <1>1, <4>1, PollAssumption DEF Ready, Types, KernelTypes
      <4>3. 1 \in Pushes(fd, c)
        BY <1>1, <4>1, <4>2 DEF Pushes
      <4>. QED  BY <1>6, <4>3
    <3>. QED  BY <3>1, <3>2 DEF Answered
  <2>6. HasFile(f, "wrote", c) /\ Honest(f, "wrote", c)
    BY <1>0, <1>1, <1>2, <1>6, <2>5 DEF HasFile, Honest, States, Where, ConnectLabels
  <2>7. KernelTypes' /\ SameFiles /\ Spares(f)
    BY <1>4, <1>6
  <2>. QED  BY <1>0, <1>1, <1>6, <2>1, <2>2, <2>3, <2>4, <2>6, <2>7, GoesOn
<1>. QED  BY <1>3, <1>5, <1>6 DEF WriteTry

LEMMA WriteOnceKeeps ==
  ASSUME IInv, NEW f \in Fibers, WriteOnce(f)
  PROVE  IInv'
<1> DEFINE c == call[f]
           fd == c.fd
<1>0. /\ Types /\ RivalsAreDisturbed /\ Runs(f) /\ pc[f] \in {"sendto", "once"}
      /\ pc[f] \notin FileLabels /\ pc[f] # "parked"
      /\ UNCHANGED <<sock, input, nonblock, contexts, calls, asked>>
  BY DEF IInv, FilesInv, WriteOnce, FileLabels
<1>1. /\ Call(c) /\ fd \in Fds /\ c.on = {<<fd, "out">>} /\ Timed(fd, "out") \in BOOLEAN
  BY <1>0 DEF Types, CallTypes, ContextTypes, Shape, Where, OutLabels, ConnectLabels, Call, Calls, Timed
<1>2. ASSUME NEW k \in Pushes(fd, c), room' = [room EXCEPT ![fd] = @ - k],
             Return(f), UNCHANGED <<reg, loops>>
      PROVE  IInv'
  <2>1. k \in Nat /\ k <= room[fd] /\ disturbed \ {f} \subseteq disturbed'
    BY <1>1, <1>2 DEF Pushes, Call, Calls, Return
  <2>2. KernelTypes' /\ SameFiles /\ Spares(f)
    BY <1>0, <1>1, <1>2, <2>1, WritesSpare
  <2>. QED  BY <1>0, <1>2, <2>2, Returns
<1>3. ASSUME UNCHANGED room, disturbed \ {f} \subseteq disturbed'
      PROVE  KernelTypes' /\ SameFiles /\ Spares(f)
  <2>1. UNCHANGED kernel
    BY <1>0, <1>3 DEF kernel
  <2>. QED  BY <1>0, <1>3, <2>1, KernelSpares
<1>4. ASSUME UNCHANGED room, Return(f), UNCHANGED <<reg, loops>>
      PROVE  IInv'
  <2>1. KernelTypes' /\ SameFiles /\ Spares(f)
    BY <1>3, <1>4 DEF Return
  <2>. QED  BY <1>0, <1>4, <2>1, Returns
<1>5. ASSUME UNCHANGED room, pc[f] = "sendto", PollsAgain(f, c, "once")
      PROVE  IInv'
  <2>1. PollEnter(f, c, Timed(fd, "out"), "once") /\ disturbed' = disturbed
    BY <1>5 DEF PollsAgain
  <2>2. KernelTypes' /\ SameFiles /\ Spares(f)
    BY <1>3, <1>5, <2>1
  <2>3. Timed(fd, "out") \in BOOLEAN /\ Runs(f) /\ pc[f] = "sendto" /\ sock' = sock /\ Call(c)
    BY <1>0, <1>1, <1>5
  <2>4. UNCHANGED <<nonblock, contexts, calls, asked, disturbed>>
    BY <1>0, <2>1
  <2>. QED  BY <2>1, <2>2, <2>3, <2>4, PollsAgainKeeps
<1>. QED  BY <1>2, <1>4, <1>5 DEF WriteOnce

(* write and connect report their outcome. *)
LEMMA ReportKeeps ==
  ASSUME IInv, NEW f \in Fibers, Wrote(f) \/ Connected(f)
  PROVE  IInv'
<1>0. /\ Types /\ Runs(f) /\ pc[f] \in {"wrote", "connected", "refused"} /\ Return(f)
      /\ pc[f] \notin FileLabels /\ pc[f] # "parked"
      /\ UNCHANGED kernel /\ UNCHANGED <<nonblock, contexts, reg, loops, calls, asked>>
  BY DEF IInv, Wrote, Connected, At, FileLabels, kernel
<1>1. KernelTypes' /\ SameFiles /\ Spares(f)
  BY <1>0, KernelSpares DEF Return
<1>. QED  BY <1>0, <1>1, Returns

LEMMA ConnectingKeeps ==
  ASSUME IInv, NEW f \in Fibers, Connecting(f)
  PROVE  IInv'
<1> DEFINE c == call[f]
           fd == c.fd
<1>0. /\ Types /\ RivalsAreDisturbed /\ FilesAreKept /\ Runs(f) /\ pc[f] = "connect"
      /\ CanGo(f) /\ pc[f] \notin FileLabels /\ UNCHANGED kernel /\ sock' = sock
      /\ UNCHANGED <<nonblock, contexts, calls, asked, disturbed>>
      /\ UNCHANGED <<nonblock, contexts, asked>>
  BY RunningGoesOn DEF IInv, FilesInv, Connecting, At, FileLabels, kernel
<1>1. /\ Call(c) /\ fd \in Fds /\ c.on = {<<fd, "out">>} /\ c.raised \subseteq c.on /\ c.n \in 0..3
  BY <1>0 DEF Types, CallTypes, Shape, Where, OutLabels, ConnectLabels, Call, Calls
<1>2. KernelTypes' /\ SameFiles /\ Spares(f)
  BY <1>0, KernelSpares
<1>3. ASSUME c.n < 3, PollEnter(f, [c EXCEPT !.n = @ + 1], TRUE, "connect")
      PROVE  IInv'
  <2> DEFINE d == [c EXCEPT !.n = @ + 1]
  <2>1. Call(d) /\ d.fd = fd /\ d.on = c.on
    <3>1. c \in Calls /\ c.n + 1 \in 0..3 /\ c.raised \subseteq c.on
          /\ c.taken = [i \in 1..c.wrote |-> i] /\ c.wrote \in 0..WriteLen /\ c.taken \in Seq(Nat)
      BY <1>1, <1>3 DEF Call, Calls
    <3>2. d \in Calls
      BY <3>1, CountersAre
    <3>3. /\ d.fd = c.fd /\ d.on = c.on /\ d.raised = c.raised /\ d.taken = c.taken
          /\ d.wrote = c.wrote
      BY <3>1 DEF Calls
    <3>. QED  BY <3>1, <3>2, <3>3 DEF Call
  <2>2. \E t \in BOOLEAN : PollEnter(f, d, t, "connect")
    BY <1>3
  <2> HIDE DEF d
  <2>3. PICK t \in BOOLEAN : PollEnter(f, d, t, "connect")
    BY <2>2
  <2>4. d.fd = call[f].fd /\ d.on = call[f].on /\ Call(d)
    BY <1>1, <2>1
  <2>5. Runs(f) /\ pc[f] = "connect" /\ sock' = sock /\ KernelTypes' /\ SameFiles /\ Spares(f)
    BY <1>0, <1>2 DEF kernel
  <2>6. UNCHANGED <<nonblock, contexts, calls, asked, disturbed>>
    BY <1>0
  <2>. QED  BY <2>3, <2>4, <2>5, <2>6, PollsAgainKeeps
<1>4. ASSUME NEW l \in {"connected", "refused"}, Go(f, l, c), UNCHANGED <<reg, loops>>,
             l = "connected" => (c.raised # {} \/ c.n = 3) /\ SoError(fd) = 0
      PROVE  IInv'
  <2>1. reg' = reg /\ Keep(f) /\ FewCalls'
    BY <1>0, <1>4, RunningGoesOn DEF Types, FewCalls
  <2>2. /\ l \in Labels \ ({"parked"} \cup FileLabels) /\ l \in Labels /\ l \notin InLabels
        /\ l # "write"
    BY DEF Labels, FileLabels, InLabels, OutLabels, ConnectLabels
  <2>3. Shape(l, c)
    BY <1>1 DEF Labels, FileLabels, InLabels, OutLabels, ConnectLabels, Shape, Where
  <2>4. RivalsAreDisturbed' /\ disturbed' \subseteq Fibers /\ disturbed \ {f} \subseteq disturbed'
    <3>1. RivalsAreDisturbed'
      BY <1>0, <1>4, <2>2, RivalsKeep
    <3>. QED  BY <1>0, <3>1 DEF Types, CallTypes
  <2>5. f \notin disturbed =>
          sock[fd] \in {"pending", "up", "failed"} /\ (c.raised # {} => Ready(fd, "out"))
    <3> SUFFICES ASSUME f \notin disturbed
                 PROVE  sock[fd] \in {"pending", "up", "failed"} /\ (c.raised # {} => Ready(fd, "out"))
      OBVIOUS
    <3>1. KeepsItsFile(f) /\ <<fd, "out">> \in call[f].on
      BY <1>0, <1>1 DEF FilesAreKept
    <3>2. /\ sock[<<fd, "out">>[1]] \in States(Where("connect", c), <<fd, "out">>[2])
          /\ <<fd, "out">> \in c.raised => Ready(<<fd, "out">>[1], <<fd, "out">>[2])
      BY <1>0, <3>1 DEF KeepsItsFile
    <3>. QED  BY <1>1, <3>2 DEF States, Where, ConnectLabels
  <2>6. HasFile(f, l, c)
    <3> SUFFICES ASSUME f \notin disturbed, NEW p \in c.on
                 PROVE  /\ sock[p[1]] \in {"pending", "up", "failed"} /\ p[2] = "out"
                        /\ p \in c.raised => Ready(p[1], p[2])'
      BY <1>0 DEF HasFile, States, Where, ConnectLabels
    <3>. QED  BY <1>0, <1>1, <2>5 DEF Ready, kernel
  <2>7. Honest(f, l, c)
    BY <1>0, <1>1, <1>4, <2>5 DEF Honest, SoError, Ready
  <2>. QED  BY <1>0, <1>1, <1>2, <1>4, <2>1, <2>2, <2>3, <2>4, <2>6, <2>7, GoesOn
<1>5. ASSUME c.raised # {} \/ c.n = 3, UNCHANGED <<reg, loops>>,
             Go(f, IF SoError(fd) = 0 THEN "connected" ELSE "refused", c)
      PROVE  IInv'
  <2>1. CASE SoError(fd) = 0
    BY <1>4, <1>5, <2>1
  <2>2. CASE SoError(fd) # 0
    BY <1>4, <1>5, <2>2
  <2>. QED  BY <2>1, <2>2
<1>6. ASSUME Go(f, "refused", c), UNCHANGED <<reg, loops>>
      PROVE  IInv'
  BY <1>4, <1>6
<1>. QED  BY <1>3, <1>5, <1>6 DEF Connecting

LEMMA PollExitKeeps ==
  ASSUME IInv, NEW f \in Fibers, PollExit(f)
  PROVE  IInv'
<1> DEFINE l == call[f].then
           c == IF l = "idle" THEN NoCall ELSE call[f]
<1>0. /\ Types /\ LoopInv /\ RivalsAreDisturbed /\ OneOpens /\ FilesAreKept /\ HooksInv /\ ContextsInv
      /\ pc[f] = "parked" /\ UNCHANGED kernel /\ loops' = loops /\ calls' = calls
      /\ UNCHANGED <<nonblock, contexts, asked>>
      /\ reg' = [reg EXCEPT ![host[f]] = Unregistered(f)]
  BY DEF IInv, FilesInv, PollExit, At, kernel
<1>1. l \in {"idle", "read", "accept", "write", "once", "connect"}
  BY <1>0 DEF Types, CallTypes, Shape
<1>2. /\ l \in Labels \ FileLabels /\ l \in Labels \ {"parked"} /\ l \in Labels /\ l # "closing"
      /\ Go(f, l, c) /\ disturbed' = IF l = "idle" THEN disturbed \ {f} ELSE disturbed
  BY <1>1 DEF PollExit, Return, Labels, FileLabels, InLabels, OutLabels, ConnectLabels
<1>3. Call(call[f]) /\ Shape("parked", call[f])
  BY <1>0 DEF Types, CallTypes
<1>4. Call(c) /\ Shape(l, c) /\ c.on \subseteq call[f].on /\ (l = "idle" => c.on = {})
  <2>1. CASE l = "idle"
    BY <2>1, NoCallIs
  <2>2. CASE l # "idle"
    BY <1>1, <1>3, <2>2
       DEF Shape, Where, FileLabels, InLabels, OutLabels, ConnectLabels
  <2>. QED  BY <2>1, <2>2
<1>5. LoopInv'
  BY <1>0, LeavesPoll
<1>6. /\ disturbed \ {f} \subseteq disturbed' /\ disturbed' \subseteq Fibers
      /\ (c.on # {} /\ f \in disturbed => f \in disturbed')
  BY <1>0, <1>2, <1>4 DEF Types, CallTypes
<1>7. HasFile(f, l, c) /\ Honest(f, l, c)
  <2>1. ASSUME f \notin disturbed', NEW p \in c.on
        PROVE  /\ sock[p[1]] \in States(l, p[2])
               /\ p \in c.raised => Ready(p[1], p[2])
    <3>1. l # "idle" /\ c = call[f] /\ f \notin disturbed
      BY <1>2, <1>4, <2>1
    <3>2. KeepsItsFile(f)
      BY <1>0, <3>1 DEF FilesAreKept
    <3>. QED  BY <1>0, <2>1, <3>1, <3>2 DEF KeepsItsFile, Where
  <2>2. Where(l, c) = l
    BY <1>2 DEF Where
  <2>. QED  BY <1>0, <1>1, <2>1, <2>2 DEF HasFile, Honest, kernel, Ready
<1> HIDE DEF l, c
<1>8. KernelTypes' /\ SameFiles /\ Spares(f)
  BY <1>0, <1>6, KernelSpares
<1>9. RivalsAreDisturbed'
  BY <1>0, <1>2, <1>4, <1>6, RivalsKeep
<1>10. OneOpens'
  BY <1>0, <1>2, <1>8, OpensKeep
<1>11. FilesAreKept' /\ WriteIsWhole' /\ ConnectIsHonest'
  BY <1>0, <1>2, <1>4, <1>7, <1>8, FilesKeep DEF HooksInv
<1>12. WaiterIsArmed'
  BY <1>0, <1>2, <1>6, ArmedLeaves DEF HooksInv
<1>13. ContextTypes' /\ ContextsInv'
  <2>1. \A fd \in Fds : Closing(fd)' <=> Closing(fd)
    BY <1>0, <1>2, ClosingKeeps
  <2>. QED  BY <1>0, <1>8, <2>1, ContextsKeep
<1>14. CallTypes' /\ FewCalls'
  BY <1>0, <1>2, <1>4, <1>6, GoDoes DEF CallTypes, Types, FewCalls
<1>15. LoopTypes'
  <2>1. host[f] \in Threads /\ Unregistered(f) \in [Fds -> Fibers \cup {NoOne}]
    BY <1>0, PollAssumption DEF Unregistered, Types, LoopTypes
  <2>. QED  BY <1>0, <2>1 DEF Types, LoopTypes, loops
<1>. QED
  BY <1>5, <1>8, <1>9, <1>10, <1>11, <1>12, <1>13, <1>14, <1>15 DEF IInv, Types, FilesInv, HooksInv

-----------------------------------------------------------------------------
(* The loop and the other ends *)

LEMMA CollectingKeeps ==
  ASSUME IInv, NEW t \in Threads, Collect(t)
  PROVE  IInv'
<1>0. /\ Types /\ LoopInv /\ RivalsAreDisturbed /\ OneOpens /\ FilesAreKept /\ HooksInv /\ ContextsInv
      /\ UNCHANGED <<kernel, contexts, reg, pc, calls, asked, disturbed>>
  BY DEF IInv, FilesInv, Collect
<1>1. /\ LoopInv'
      /\ pc' = pc /\ call' = [h \in Fibers |-> call'[h]]
      /\ \A g \in Fibers :
           \/ call'[g] = call[g]
           \/ /\ Parked(g) /\ call'[g] = [call[g] EXCEPT !.raised = Events(t, g)]
              /\ Events(t, g) # {} /\ host[g] = t
      /\ active' \in [Threads -> Seq(Fibers)] /\ cur' \in [Threads -> Fibers \cup {NoOne}]
  BY <1>0, CollectKeeps
<1>2. ASSUME NEW g \in Fibers
      PROVE  /\ Call(call'[g]) /\ call'[g].on = call[g].on /\ call'[g].fd = call[g].fd
             /\ call'[g].then = call[g].then /\ call'[g].n = call[g].n
             /\ call'[g].wrote = call[g].wrote
             /\ pc[g] # "parked" => call'[g] = call[g]
             /\ \/ call'[g] = call[g]
                \/ pc[g] = "parked" /\ call'[g].raised = Events(t, g)
  <2>1. Call(call[g])
    BY <1>0 DEF Types, CallTypes
  <2>2. CASE call'[g] = call[g]
    BY <2>1, <2>2
  <2>3. CASE Parked(g) /\ call'[g] = [call[g] EXCEPT !.raised = Events(t, g)]
    <3>1. Events(t, g) \in SUBSET (Fds \X {"in", "out"}) /\ Events(t, g) \subseteq call[g].on
      BY <2>1 DEF Events, Call, Calls
    <3>2. call'[g] \in Calls
      BY <2>1, <2>3, <3>1 DEF Call, Calls
    <3>3. /\ call'[g].on = call[g].on /\ call'[g].fd = call[g].fd
          /\ call'[g].then = call[g].then /\ call'[g].n = call[g].n
          /\ call'[g].wrote = call[g].wrote /\ call'[g].taken = call[g].taken
          /\ call'[g].raised = Events(t, g)
      BY <2>1, <2>3 DEF Call, Calls
    <3>. QED  BY <2>1, <2>3, <3>1, <3>2, <3>3 DEF Call, Parked
  <2>. QED  BY <1>1, <2>2, <2>3
<1>3. CallTypes'
  <2>1. ASSUME NEW g \in Fibers
        PROVE  Shape(pc[g], call'[g])
    <3>1. CASE pc[g] # "parked"
      BY <1>0, <1>2, <3>1 DEF Types, CallTypes
    <3>2. CASE pc[g] = "parked"
      BY <1>0, <1>2, <3>2 DEF Types, CallTypes, Shape, Where, FileLabels, InLabels
    <3>. QED  BY <3>1, <3>2
  <2>. QED  BY <1>0, <1>1, <1>2, <2>1 DEF Types, CallTypes
<1>4. KernelTypes' /\ ContextTypes' /\ FewCalls' /\ LoopTypes'
  BY <1>0, <1>1
     DEF Types, KernelTypes, ContextTypes, FewCalls, LoopTypes, kernel, contexts, asked
<1>5. RivalsAreDisturbed'
  BY <1>0, <1>2 DEF RivalsAreDisturbed
<1>6. OneOpens'
  BY <1>0, <1>2 DEF OneOpens, Usable, kernel
<1>7. FilesAreKept'
  <2> SUFFICES ASSUME NEW g \in Fibers \ disturbed, NEW p \in call[g].on
               PROVE  /\ sock[p[1]] \in States(Where(pc[g], call'[g]), p[2])
                      /\ pc[g] # "wrote" /\ p \in call'[g].raised => Ready(p[1], p[2])
    BY <1>0, <1>2 DEF FilesAreKept, KeepsItsFile, kernel, Ready
  <2>1. Where(pc[g], call'[g]) = Where(pc[g], call[g]) /\ KeepsItsFile(g)
    BY <1>0, <1>2 DEF Where, FilesAreKept
  <2>2. pc[g] # "wrote" /\ p \in call'[g].raised => Ready(p[1], p[2])
    BY <1>2, <2>1 DEF KeepsItsFile, Events
  <2>. QED  BY <2>1, <2>2 DEF KeepsItsFile
<1>8. HooksInv'
  <2>1. WaiterIsArmed'
    BY <1>0, <1>2 DEF HooksInv, WaiterIsArmed, Parked
  <2>2. WriteIsWhole'
    BY <1>0, <1>2 DEF HooksInv, WriteIsWhole
  <2>3. ConnectIsHonest'
    BY <1>0, <1>2 DEF HooksInv, ConnectIsHonest, kernel
  <2>. QED  BY <2>1, <2>2, <2>3 DEF HooksInv
<1>9. ContextsInv'
  <2>1. SameFiles
    BY <1>0 DEF SameFiles, Usable, kernel
  <2>2. \A fd \in Fds : Closing(fd)' <=> Closing(fd)
    BY <1>0, <1>2 DEF Closing
  <2>3. UNCHANGED <<nonblock, contexts, asked>>
    BY <1>0 DEF kernel
  <2>. QED  BY <1>0, <2>1, <2>2, <2>3, ContextsKeep
<1>. QED  BY <1>1, <1>3, <1>4, <1>5, <1>6, <1>7, <1>8, <1>9 DEF IInv, Types, FilesInv

(* Steps that leave every hook where it is. *)
LEMMA HooksStay ==
  ASSUME IInv, UNCHANGED <<pc, call, reg, calls, disturbed>>, UNCHANGED <<nonblock, contexts, asked>>,
         KernelTypes', LoopTypes', LoopInv', SameFiles,
         \A g \in Fibers : g \notin disturbed' => SparesFile(g)
  PROVE  IInv'
<1>0. /\ Types /\ RivalsAreDisturbed /\ OneOpens /\ FilesAreKept /\ HooksInv /\ ContextsInv
  BY DEF IInv, FilesInv
<1>1. CallTypes' /\ FewCalls'
  BY <1>0 DEF Types, CallTypes, FewCalls
<1>2. ContextTypes' /\ ContextsInv'
  <2>1. \A fd \in Fds : Closing(fd)' <=> Closing(fd)
    BY DEF Closing
  <2>. QED  BY <1>0, <2>1, ContextsKeep
<1>3. RivalsAreDisturbed'
  BY <1>0 DEF RivalsAreDisturbed
<1>4. OneOpens'
  BY <1>0 DEF OneOpens, SameFiles, Types, CallTypes, Shape, FileLabels
<1>5. FilesAreKept' /\ WriteIsWhole' /\ ConnectIsHonest'
  <2>1. ASSUME NEW g \in Fibers
        PROVE  /\ g \notin disturbed' => KeepsItsFile(g)'
               /\ pc'[g] = "wrote" /\ call'[g].wrote < WriteLen =>
                    g \in disturbed' \/ (call'[g].timed /\ call'[g].raised = {})
               /\ pc'[g] = "connected" =>
                    \/ sock'[call'[g].fd] = "up" \/ g \in disturbed'
                    \/ call'[g].raised = {} /\ call'[g].n = 3
    BY <1>0, FileIsSpared DEF HooksInv
  <2>2. \A g \in Fibers : call'[g].taken = [i \in 1..call'[g].wrote |-> i]
    BY <1>1 DEF CallTypes, Call
  <2>. QED  BY <2>1, <2>2 DEF FilesAreKept, WriteIsWhole, ConnectIsHonest
<1>6. WaiterIsArmed'
  BY <1>0 DEF HooksInv, WaiterIsArmed, Parked
<1>. QED  BY <1>1, <1>2, <1>3, <1>4, <1>5, <1>6 DEF IInv, Types, FilesInv, HooksInv

LEMMA ResumingKeeps ==
  ASSUME IInv, NEW t \in Threads, ResumeNext(t)
  PROVE  IInv'
<1>0. /\ Types /\ LoopInv
      /\ UNCHANGED <<kernel, contexts, reg, pc, call, calls, asked, disturbed>>
  BY DEF IInv, ResumeNext
<1>1. LoopInv' /\ LoopTypes'
  BY <1>0, ResumeKeeps DEF Types, LoopTypes
<1>2. KernelTypes' /\ SameFiles /\ \A g \in Fibers : g \notin disturbed' => SparesFile(g)
  BY <1>0 DEF Types, KernelTypes, SameFiles, Usable, SparesFile, Ready, kernel
<1>3. UNCHANGED <<nonblock, contexts, asked>>
  BY <1>0 DEF kernel
<1>. QED  BY <1>0, <1>1, <1>2, <1>3, HooksStay

(* What the network does to a socket takes nothing from anybody. *)
LEMMA NetworkKeeps ==
  ASSUME IInv, NEW fd \in Fds, Arrive(fd) \/ Drain(fd) \/ Answer(fd)
  PROVE  IInv'
<1>0. /\ Types /\ LoopInv
      /\ UNCHANGED <<nonblock, contexts, reg, loops, pc, call, calls, asked, disturbed>>
  BY DEF IInv, Arrive, Drain, Answer
<1>1. Room \in Nat \ {0} /\ room[fd] \in 0..Room
  BY <1>0, PollAssumption DEF Types, KernelTypes
<1>2. /\ KernelTypes' /\ SameFiles
      /\ \A k \in Fds, w \in {"in", "out"} : Ready(k, w) => Ready(k, w)'
      /\ \A k \in Fds : \/ sock'[k] = sock[k]
                        \/ sock[k] = "pending" /\ sock'[k] \in {"up", "failed"}
  <2>1. CASE Arrive(fd)
    BY <1>0, <2>1 DEF Arrive, Types, KernelTypes, SameFiles, Usable, Ready
  <2>2. CASE Drain(fd)
    <3>1. /\ sock' = sock /\ input' = input /\ room' = [room EXCEPT ![fd] = @ + 1]
          /\ room[fd] + 1 \in 0..Room /\ room[fd] + 1 > 0
      BY <1>1, <2>2 DEF Drain
    <3>. QED  BY <1>0, <1>1, <3>1 DEF Types, KernelTypes, SameFiles, Usable, Ready
  <2>3. CASE Answer(fd)
    <3>1. /\ sock[fd] = "pending" /\ input' = input
          /\ \/ sock' = [sock EXCEPT ![fd] = "up"] /\ room' = [room EXCEPT ![fd] = Room]
             \/ sock' = [sock EXCEPT ![fd] = "failed"] /\ room' = room
      BY <2>3 DEF Answer
    <3>. QED  BY <1>0, <1>1, <3>1 DEF Types, KernelTypes, SameFiles, Usable, Ready
  <2>. QED  BY <2>1, <2>2, <2>3
<1>3. ASSUME NEW g \in Fibers, g \notin disturbed'
      PROVE  SparesFile(g)
  BY <1>0, <1>2, <1>3, CallHas DEF SparesFile
<1>4. LoopInv' /\ LoopTypes'
  BY <1>0 DEF LoopInv, Loops, ActiveIsExact, NoDanglingRegistration, Resumed, Parked, Runs,
              Types, LoopTypes, loops
<1>5. UNCHANGED <<nonblock, contexts, asked>> /\ UNCHANGED <<pc, call, reg, calls, disturbed>>
  BY <1>0
<1>. QED  BY <1>2, <1>3, <1>4, <1>5, HooksStay

-----------------------------------------------------------------------------
(* The hooks on new and dying descriptors, and on contexts *)

(* What is known of the context of one descriptor. *)
CleanContext(fd) ==
  /\ fd \notin misused /\ (fd \notin Usable \/ Closing(fd)) => ~Timed(fd, "in") /\ ~Timed(fd, "out")
  /\ sock[fd] = "raw" => ~nonblock[fd] /\ ~askedNonblock[fd] /\ askedTimed[fd] = <<FALSE, FALSE>>
TrueContext(fd) ==
  fd \in Usable \ misused /\ ~Closing(fd) =>
    /\ nonblock[fd]
    /\ IsNonblock(fd) = askedNonblock[fd]
    /\ <<Timed(fd, "in"), Timed(fd, "out")>> = askedTimed[fd]

LEMMA ContextsAre ==
  /\ ContextsInv <=> \A fd \in Fds : CleanContext(fd) /\ TrueContext(fd)
  /\ ContextsInv' <=> \A fd \in Fds : CleanContext(fd)' /\ TrueContext(fd)'
<1>1. ContextsInv <=> \A fd \in Fds : CleanContext(fd) /\ TrueContext(fd)
  <2>1. Usable \subseteq Fds
    BY DEF Usable
  <2>. QED  BY <2>1 DEF ContextsInv, ContextsAreClean, ContextBelongsToFile, CleanContext, TrueContext
<1>2. ContextsInv' <=> \A fd \in Fds : CleanContext(fd)' /\ TrueContext(fd)'
  <2>1. (Usable \subseteq Fds)'
    BY DEF Usable
  <2>. QED  BY <2>1 DEF ContextsInv, ContextsAreClean, ContextBelongsToFile, CleanContext, TrueContext
<1>. QED  BY <1>1, <1>2

(* The context of a descriptor that a step does not touch. *)
LEMMA ContextStays ==
  ASSUME NEW k \in Fds, CleanContext(k), TrueContext(k),
         sock'[k] = sock[k], nonblock'[k] = nonblock[k], fresh'[k] = fresh[k],
         userNonblock'[k] = userNonblock[k], rdTimed'[k] = rdTimed[k], wrTimed'[k] = wrTimed[k],
         askedNonblock'[k] = askedNonblock[k], askedTimed'[k] = askedTimed[k],
         k \in misused' <=> k \in misused, Closing(k)' <=> Closing(k)
  PROVE  CleanContext(k)' /\ TrueContext(k)'
<1>1. /\ Timed(k, "in")' <=> Timed(k, "in")
      /\ Timed(k, "out")' <=> Timed(k, "out")
      /\ Timed(k, "in")' = Timed(k, "in") /\ Timed(k, "out")' = Timed(k, "out")
      /\ IsNonblock(k)' = IsNonblock(k)
  BY DEF Timed, IsNonblock
<1>2. k \in Usable' <=> k \in Usable
  BY DEF Usable
<1>3. CleanContext(k)'
  BY <1>1, <1>2 DEF CleanContext
<1>4. TrueContext(k)'
  BY <1>1, <1>2 DEF TrueContext
<1>. QED  BY <1>3, <1>4

(* The kernel opens a descriptor that was closed: nobody undisturbed has a  *)
(* hook on it, and nobody opens or closes it.                               *)
LEMMA RawOpenKeeps ==
  ASSUME IInv, NEW f \in Fibers, NEW fd \in Fds, NEW l \in {"setupNew", "setupAccepted"},
         NEW left \in [Fds -> BOOLEAN],
         CanGo(f), pc[f] \notin FileLabels, Lowest(fd), RawOpen(f, fd, l, left), Keep(f),
         reg' = reg, UNCHANGED <<contexts, misused>>, FewCalls',
         disturbed' \subseteq Fibers, disturbed \ {f} \subseteq disturbed',
         \A g \in Fibers \ {f} : g \notin disturbed =>
           \A p \in call[g].on : p[2] = "in" => left[p[1]] = input[p[1]]
  PROVE  IInv'
<1> DEFINE c == On(fd)
<1>0. /\ Types /\ LoopInv /\ RivalsAreDisturbed /\ OneOpens /\ FilesAreKept /\ HooksInv /\ ContextsInv
      /\ sock[fd] = "closed" /\ Go(f, l, c)
  BY DEF IInv, FilesInv, RawOpen, Lowest, Open
<1>1. Call(c) /\ c.fd = fd /\ c.on = {} /\ c.raised = {} /\ c.then = "idle"
  BY OnIs
<1> HIDE DEF c
<1>2. /\ l \in Labels /\ l \in Labels \ {"parked"} /\ l \in FileLabels /\ l # "closing"
      /\ l \notin InLabels /\ l # "write" /\ pc[f] # "closing" /\ l # "wrote" /\ l # "connected"
      /\ Shape(l, c)
  BY <1>1 DEF Labels, FileLabels, InLabels, OutLabels, ConnectLabels, Shape, Where
<1>3. /\ sock'[fd] = "raw" /\ \A k \in Fds \ {fd} : sock'[k] = sock[k]
      /\ ~nonblock'[fd] /\ \A k \in Fds \ {fd} : nonblock'[k] = nonblock[k]
      /\ ~input'[fd] /\ \A k \in Fds \ {fd} : input'[k] = left[k]
      /\ \A k \in Fds \ {fd} : room'[k] = room[k]
      /\ ~askedNonblock'[fd] /\ \A k \in Fds \ {fd} : askedNonblock'[k] = askedNonblock[k]
      /\ askedTimed'[fd] = <<FALSE, FALSE>> /\ \A k \in Fds \ {fd} : askedTimed'[k] = askedTimed[k]
      /\ UNCHANGED <<fresh, userNonblock, rdTimed, wrTimed, misused>>
  BY <1>0 DEF RawOpen, Types, KernelTypes, ContextTypes, contexts
<1>4. KernelTypes' /\ ContextTypes'
  <2>1. 0 \in 0..Room
    BY PollAssumption
  <2>. QED  BY <1>0, <2>1 DEF RawOpen, Types, KernelTypes, ContextTypes, contexts
<1>5. /\ pc'[f] = l /\ call'[f] = c
      /\ \A g \in Fibers \ {f} : pc'[g] = pc[g] /\ call'[g] = call[g]
  BY <1>0, <1>2, GoDoes
<1>6. CallTypes' /\ LoopTypes'
  BY <1>0, <1>1, <1>2, GoDoes DEF CallTypes, Types, LoopTypes, Keep
<1>7. LoopInv'
  <2>1. reg' \in [Threads -> [Fds -> Fibers \cup {NoOne}]]
    BY <1>6 DEF LoopTypes
  <2>. QED  BY <1>0, <1>2, <2>1, StaysInLoop
<1>8. RivalsAreDisturbed'
  BY <1>0, <1>1, <1>2, RivalsKeep
<1>9. OneOpens'
  <2>1. ASSUME NEW g \in Fibers \ {f}, pc'[g] \in FileLabels
        PROVE  /\ pc[g] \in FileLabels /\ pc'[g] = pc[g] /\ call'[g] = call[g]
               /\ call[g].fd \in Fds \ {fd}
    <3>1. pc[g] \in FileLabels /\ pc'[g] = pc[g] /\ call'[g] = call[g]
      BY <1>5, <2>1
    <3>2. call[g].fd \in Fds /\ sock[call[g].fd] # "closed"
      BY <1>0, <3>1 DEF Types, CallTypes, Shape, OneOpens, Usable, FileLabels
    <3>. QED  BY <1>0, <3>1, <3>2
  <2>2. ASSUME NEW g \in Fibers, pc'[g] \in {"setupNew", "setupAccepted"}
        PROVE  sock'[call'[g].fd] = "raw"
    <3>1. CASE g = f
      BY <1>1, <1>3, <1>5, <3>1
    <3>2. CASE g # f
      BY <1>0, <1>3, <2>1, <2>2, <3>2 DEF OneOpens, FileLabels
    <3>. QED  BY <3>1, <3>2
  <2>3. ASSUME NEW g \in Fibers, pc'[g] = "closing"
        PROVE  call'[g].fd \in Usable'
    <3>1. g # f
      BY <1>2, <1>5, <2>3
    <3>2. call[g].fd \in Usable /\ call[g].fd \in Fds \ {fd} /\ call'[g] = call[g]
      BY <1>0, <2>1, <2>3, <3>1 DEF OneOpens, FileLabels
    <3>. QED  BY <1>3, <3>2 DEF Usable
  <2>4. ASSUME NEW g \in Fibers, NEW h \in Fibers,
               pc'[g] \in FileLabels, pc'[h] \in FileLabels, call'[g].fd = call'[h].fd
        PROVE  g = h
    <3>1. CASE g # f /\ h # f
      BY <1>0, <2>1, <2>4, <3>1 DEF OneOpens
    <3>2. CASE g = f \/ h = f
      BY <1>1, <1>5, <2>1, <2>4, <3>2
    <3>. QED  BY <3>1, <3>2
  <2>. QED  BY <2>2, <2>3, <2>4 DEF OneOpens
<1>10. Spares(f)
  <2> SUFFICES ASSUME NEW g \in Fibers \ {f}, g \notin disturbed'
               PROVE  SparesFile(g)
    BY DEF Spares
  <2>1. g \notin disturbed /\ KeepsItsFile(g)
    BY <1>0 DEF FilesAreKept
  <2>2. ASSUME NEW p \in call[g].on
        PROVE  /\ sock'[p[1]] = sock[p[1]]
               /\ Ready(p[1], p[2]) => Ready(p[1], p[2])'
    <3>1. p[1] \in Fds \ {fd}
      BY <1>0, <2>1, CallHas DEF KeepsItsFile, States
    <3>2. p[2] = "in" => input'[p[1]] = input[p[1]]
      BY <1>3, <2>1, <3>1
    <3>. QED  BY <1>3, <3>1, <3>2 DEF Ready
  <2>. QED  BY <2>1, <2>2 DEF SparesFile
<1>11. HasFile(f, l, c) /\ Honest(f, l, c)
  BY <1>1, <1>2 DEF HasFile, Honest
<1>12. FilesAreKept' /\ WriteIsWhole' /\ ConnectIsHonest'
  BY <1>0, <1>1, <1>2, <1>10, <1>11, FilesKeep DEF HooksInv
<1>13. WaiterIsArmed'
  BY <1>0, <1>2, ArmedKeeps DEF HooksInv
<1>14. ContextsInv'
  <2> SUFFICES ASSUME NEW k \in Fds
               PROVE  CleanContext(k)' /\ TrueContext(k)'
    BY ContextsAre
  <2>0. CleanContext(k) /\ TrueContext(k)
    BY <1>0, ContextsAre
  <2>1. CASE k # fd
    <3>1. Closing(k)' <=> Closing(k)
      BY <1>0, <1>2, ClosingKeeps
    <3>. QED  BY <1>3, <2>0, <2>1, <3>1, ContextStays
  <2>2. CASE k = fd
    <3>1. k \notin Usable /\ k \notin Usable'
      BY <1>0, <1>3, <2>2 DEF Usable
    <3>2. k \notin misused => ~Timed(k, "in") /\ ~Timed(k, "out")
      BY <2>0, <3>1 DEF CleanContext
    <3>3. Timed(k, "in")' = Timed(k, "in") /\ Timed(k, "out")' = Timed(k, "out")
      BY <1>3 DEF Timed
    <3>4. CleanContext(k)'
      BY <1>3, <2>2, <3>2, <3>3 DEF CleanContext
    <3>5. TrueContext(k)'
      BY <3>1 DEF TrueContext
    <3>. QED  BY <3>4, <3>5
  <2>. QED  BY <2>1, <2>2
<1>. QED
  BY <1>4, <1>6, <1>7, <1>8, <1>9, <1>12, <1>13, <1>14 DEF IInv, Types, FilesInv, HooksInv

LEMMA SocketKeeps ==
  ASSUME IInv, NEW f \in Fibers, Socket(f)
  PROVE  IInv'
<1>0. Types /\ UNCHANGED <<contexts, reg, misused, disturbed>> /\ Keep(f)
  BY DEF IInv, Socket
<1>1. PICK fd \in Fds : Lowest(fd) /\ RawOpen(f, fd, "setupNew", input)
  BY DEF Socket
<1>2. CanGo(f) /\ FewCalls' /\ pc[f] \notin FileLabels
  BY <1>0, BeginsDoes DEF Socket, FileLabels
<1>3. /\ input \in [Fds -> BOOLEAN] /\ reg' = reg /\ UNCHANGED <<contexts, misused>>
      /\ disturbed' \subseteq Fibers /\ disturbed \ {f} \subseteq disturbed'
  BY <1>0 DEF Types, KernelTypes, CallTypes
<1>. QED  BY <1>0, <1>1, <1>2, <1>3, RawOpenKeeps

LEMMA AcceptTryKeeps ==
  ASSUME IInv, NEW f \in Fibers, AcceptTry(f)
  PROVE  IInv'
<1> DEFINE fd == call[f].fd
           left == [input EXCEPT ![fd] = FALSE]
<1>0. /\ Types /\ RivalsAreDisturbed /\ Runs(f) /\ pc[f] = "accept"
      /\ pc[f] \notin FileLabels /\ pc[f] # "parked" /\ CanGo(f)
  BY RunningGoesOn DEF IInv, FilesInv, AcceptTry, At, FileLabels
<1>1. fd \in Fds /\ call[f].on = {<<fd, "in">>}
  BY <1>0 DEF Types, CallTypes, Shape, Where, InLabels
<1>2. CASE /\ \E new \in Fds : Lowest(new) /\ RawOpen(f, new, "setupAccepted", left)
           /\ disturbed' = disturbed \ {f}
           /\ UNCHANGED <<contexts, reg, loops, calls, misused>>
  <2>1. PICK new \in Fds : Lowest(new) /\ RawOpen(f, new, "setupAccepted", left)
    BY <1>2
  <2>2. left \in [Fds -> BOOLEAN] /\ \A k \in Fds \ {fd} : left[k] = input[k]
    BY <1>0, <1>1 DEF Types, KernelTypes
  <2> HIDE DEF left
  <2>3. /\ Keep(f) /\ reg' = reg /\ UNCHANGED <<contexts, misused>> /\ FewCalls'
        /\ disturbed' \subseteq Fibers /\ disturbed \ {f} \subseteq disturbed'
    BY <1>0, <1>2, RunningGoesOn DEF Types, CallTypes, FewCalls
  <2>4. ASSUME NEW g \in Fibers \ {f}, g \notin disturbed, NEW p \in call[g].on, p[2] = "in"
        PROVE  left[p[1]] = input[p[1]]
    <3>1. p \notin call[f].on /\ p[1] \in Fds /\ p = <<p[1], p[2]>>
      BY <1>0, <2>4, CallHas, RivalsSpare
    <3>. QED  BY <1>1, <2>2, <2>4, <3>1
  <2>. QED  BY <1>0, <2>1, <2>2, <2>3, <2>4, RawOpenKeeps
<1>3. CASE Return(f) /\ UNCHANGED <<kernel, contexts, reg, loops, calls, asked>>
  <2>1. UNCHANGED kernel /\ disturbed \ {f} \subseteq disturbed'
        /\ UNCHANGED <<nonblock, contexts, reg, loops, calls, asked>>
    BY <1>3 DEF kernel, Return
  <2>2. KernelTypes' /\ SameFiles /\ Spares(f)
    BY <1>0, <2>1, KernelSpares
  <2>. QED  BY <1>0, <1>3, <2>1, <2>2, Returns
<1>. QED  BY <1>2, <1>3 DEF AcceptTry

(* The descriptor is made non-blocking, its context forgets the last one. *)
LEMMA SetupKeeps ==
  ASSUME IInv, NEW f \in Fibers, Setup(f)
  PROVE  IInv'
<1> DEFINE fd == call[f].fd
<1>0. /\ Types /\ LoopInv /\ RivalsAreDisturbed /\ OneOpens /\ FilesAreKept /\ HooksInv /\ ContextsInv
      /\ Runs(f) /\ pc[f] \in {"setupNew", "setupAccepted"} /\ pc[f] \in FileLabels
      /\ pc[f] # "closing" /\ CanGo(f) /\ Keep(f) /\ reg' = reg
      /\ Go(f, "idle", NoCall) /\ disturbed' = disturbed \ {f}
      /\ UNCHANGED <<input, reg, loops, calls, asked>>
  BY RunningGoesOn DEF IInv, FilesInv, Setup, FileLabels, Return
<1>1. fd \in Fds /\ sock[fd] = "raw"
  BY <1>0 DEF Types, CallTypes, Shape, OneOpens
<1>2. /\ SetFlags(fd, nonblock[fd])
      /\ \E s \in {"new", "up"} : sock' = [sock EXCEPT ![fd] = s]
      /\ \E r \in 0..Room : room' = [room EXCEPT ![fd] = r]
  <2>1. 0 \in 0..Room /\ Room \in 0..Room
    BY PollAssumption
  <2>. QED  BY <2>1 DEF Setup
<1> HIDE DEF fd
<1>3. /\ sock'[fd] \in {"new", "up"} /\ \A k \in Fds \ {fd} : sock'[k] = sock[k]
      /\ \A k \in Fds \ {fd} : room'[k] = room[k]
      /\ nonblock'[fd] /\ \A k \in Fds \ {fd} : nonblock'[k] = nonblock[k]
      /\ ~fresh'[fd] /\ \A k \in Fds \ {fd} : fresh'[k] = fresh[k]
      /\ userNonblock'[fd] = nonblock[fd]
      /\ \A k \in Fds \ {fd} : userNonblock'[k] = userNonblock[k]
      /\ rdTimed'[fd] = Timed(fd, "in") /\ \A k \in Fds \ {fd} : rdTimed'[k] = rdTimed[k]
      /\ wrTimed'[fd] = Timed(fd, "out") /\ \A k \in Fds \ {fd} : wrTimed'[k] = wrTimed[k]
      /\ UNCHANGED <<askedNonblock, askedTimed, misused>> /\ input' = input
  BY <1>0, <1>1, <1>2 DEF Types, KernelTypes, ContextTypes, SetFlags, KernelFlag, asked
<1>4. KernelTypes'
  BY <1>0, <1>1, <1>2 DEF Types, KernelTypes
<1>5. ContextTypes'
  <2>1. Timed(fd, "in") \in BOOLEAN /\ Timed(fd, "out") \in BOOLEAN /\ nonblock[fd] \in BOOLEAN
    BY <1>0, <1>1 DEF Types, ContextTypes, Timed
  <2>. QED  BY <1>0, <1>1, <1>2, <2>1 DEF Types, ContextTypes, SetFlags, KernelFlag, asked
<1>6. /\ "idle" \in Labels /\ "idle" \in Labels \ {"parked"} /\ "idle" \notin FileLabels
      /\ "idle" \notin InLabels
      /\ Call(NoCall) /\ Shape("idle", NoCall) /\ NoCall.on = {}
  BY NoCallIs DEF Labels, FileLabels, InLabels
<1>7. /\ pc'[f] = "idle" /\ call'[f] = NoCall
      /\ \A g \in Fibers \ {f} : pc'[g] = pc[g] /\ call'[g] = call[g]
  BY <1>0, <1>6, GoDoes
<1>8. CallTypes' /\ LoopTypes' /\ FewCalls'
  BY <1>0, <1>6, GoDoes DEF CallTypes, Types, LoopTypes, FewCalls, loops
<1>9. LoopInv'
  <2>1. reg' \in [Threads -> [Fds -> Fibers \cup {NoOne}]]
    BY <1>8 DEF LoopTypes
  <2>. QED  BY <1>0, <1>6, <2>1, StaysInLoop
<1>10. RivalsAreDisturbed'
  BY <1>0, <1>6, RivalsKeep
<1>11. OneOpens'
  <2>1. ASSUME NEW g \in Fibers, pc'[g] \in FileLabels
        PROVE  /\ g # f /\ pc[g] \in FileLabels /\ pc'[g] = pc[g] /\ call'[g] = call[g]
               /\ call[g].fd \in Fds \ {fd}
    <3>1. g # f /\ pc[g] \in FileLabels /\ pc'[g] = pc[g] /\ call'[g] = call[g]
      BY <1>6, <1>7, <2>1
    <3>2. call[g].fd \in Fds /\ call[g].fd # fd
      BY <1>0, <3>1 DEF Types, CallTypes, Shape, OneOpens, fd
    <3>. QED  BY <3>1, <3>2
  <2>2. ASSUME NEW g \in Fibers, pc'[g] \in {"setupNew", "setupAccepted"}
        PROVE  sock'[call'[g].fd] = "raw"
    BY <1>0, <1>3, <2>1, <2>2 DEF OneOpens, FileLabels
  <2>3. ASSUME NEW g \in Fibers, pc'[g] = "closing"
        PROVE  call'[g].fd \in Usable'
    BY <1>0, <1>3, <2>1, <2>3 DEF OneOpens, FileLabels, Usable
  <2>4. ASSUME NEW g \in Fibers, NEW h \in Fibers,
               pc'[g] \in FileLabels, pc'[h] \in FileLabels, call'[g].fd = call'[h].fd
        PROVE  g = h
    BY <1>0, <2>1, <2>4 DEF OneOpens
  <2>. QED  BY <2>2, <2>3, <2>4 DEF OneOpens
<1>12. Spares(f)
  <2> SUFFICES ASSUME NEW g \in Fibers \ {f}, g \notin disturbed'
               PROVE  SparesFile(g)
    BY DEF Spares
  <2>1. g \notin disturbed /\ KeepsItsFile(g)
    BY <1>0 DEF FilesAreKept
  <2>2. ASSUME NEW p \in call[g].on
        PROVE  /\ sock'[p[1]] = sock[p[1]]
               /\ Ready(p[1], p[2]) => Ready(p[1], p[2])'
    <3>1. p[1] \in Fds \ {fd}
      BY <1>0, <1>1, <2>1, CallHas DEF KeepsItsFile, States
    <3>. QED  BY <1>3, <3>1 DEF Ready
  <2>. QED  BY <2>1, <2>2 DEF SparesFile
<1>13. HasFile(f, "idle", NoCall) /\ Honest(f, "idle", NoCall)
  BY <1>6 DEF HasFile, Honest
<1>14. FilesAreKept' /\ WriteIsWhole' /\ ConnectIsHonest'
  BY <1>0, <1>6, <1>12, <1>13, FilesKeep DEF HooksInv
<1>15. WaiterIsArmed'
  <2>1. disturbed \ {f} \subseteq disturbed' /\ WaiterIsArmed
    BY <1>0 DEF HooksInv
  <2>. QED  BY <1>0, <1>6, <2>1, ArmedKeeps
<1>16. ContextsInv'
  <2> SUFFICES ASSUME NEW k \in Fds
               PROVE  CleanContext(k)' /\ TrueContext(k)'
    BY ContextsAre
  <2>0. CleanContext(k) /\ TrueContext(k)
    BY <1>0, ContextsAre
  <2>3. Closing(k)' <=> Closing(k)
    BY <1>0, <1>6, ClosingKeeps
  <2>1. CASE k # fd
    BY <1>3, <2>0, <2>1, <2>3, ContextStays
  <2>2. CASE k = fd
    <3>1. k \notin Usable /\ k \in Usable' /\ sock'[k] # "raw"
      BY <1>1, <1>3, <2>2 DEF Usable
    <3>2. ~Closing(k)'
      BY <1>0, <2>3, <3>1 DEF Closing, OneOpens
    <3>3. /\ k \notin misused => ~Timed(k, "in") /\ ~Timed(k, "out")
          /\ ~nonblock[k] /\ ~askedNonblock[k] /\ askedTimed[k] = <<FALSE, FALSE>>
      BY <1>1, <2>0, <2>2, <3>1 DEF CleanContext
    <3>4. /\ Timed(k, "in")' = Timed(k, "in") /\ Timed(k, "out")' = Timed(k, "out")
          /\ IsNonblock(k)' = nonblock[k]
      BY <1>0, <1>1, <1>3, <1>5, <2>2 DEF Timed, IsNonblock, Types, ContextTypes
    <3>5. CleanContext(k)'
      BY <3>1, <3>2 DEF CleanContext
    <3>6. ASSUME k \notin misused
          PROVE  /\ IsNonblock(k)' = askedNonblock'[k]
                 /\ <<Timed(k, "in")', Timed(k, "out")'>> = askedTimed'[k]
      <4>1. Timed(k, "in") = FALSE /\ Timed(k, "out") = FALSE
        BY <3>3, <3>6, <1>0, <1>1, <2>2 DEF Timed, Types, ContextTypes
      <4>2. nonblock[k] = FALSE /\ askedNonblock[k] = FALSE
        BY <3>3, <1>0, <1>1, <2>2 DEF Types, ContextTypes
      <4>. QED  BY <1>3, <3>3, <3>4, <4>1, <4>2
    <3>7. TrueContext(k)'
      BY <1>3, <2>2, <3>6 DEF TrueContext
    <3>. QED  BY <3>5, <3>7
  <2>. QED  BY <2>1, <2>2
<1>. QED
  BY <1>4, <1>5, <1>8, <1>9, <1>10, <1>11, <1>14, <1>15, <1>16 DEF IInv, Types, FilesInv, HooksInv

(* Calls that change the context of a descriptor and nothing else. *)
LEMMA OptionsKeep ==
  ASSUME IInv, NEW f \in Fibers, CanGo(f), pc[f] = "idle", call[f] = NoCall, Keep(f), FewCalls',
         UNCHANGED <<sock, input, room, reg, pc, call, disturbed>>, ContextTypes', ContextsInv'
  PROVE  IInv'
<1>0. /\ Types /\ LoopInv /\ RivalsAreDisturbed /\ OneOpens /\ FilesAreKept /\ HooksInv /\ ContextsInv
      /\ Go(f, "idle", NoCall) /\ disturbed' = disturbed /\ reg' = reg
  <2>1. /\ Types /\ LoopInv /\ RivalsAreDisturbed /\ OneOpens /\ FilesAreKept /\ HooksInv /\ ContextsInv
    BY DEF IInv, FilesInv
  <2>2. pc = [pc EXCEPT ![f] = "idle"] /\ call = [call EXCEPT ![f] = NoCall]
    <3>1. pc \in [Fibers -> Labels]
      BY <2>1 DEF Types, CallTypes
    <3>2. call = [call EXCEPT ![f] = call[f]]
      BY <2>1 DEF Types, CallTypes
    <3>. QED  BY <3>1, <3>2
  <2>. QED  BY <2>1, <2>2 DEF Go
<1>1. /\ "idle" \in Labels /\ "idle" \in Labels \ {"parked"} /\ "idle" \notin FileLabels
      /\ "idle" \notin InLabels
      /\ Call(NoCall) /\ Shape("idle", NoCall) /\ NoCall.on = {}
  BY NoCallIs DEF Labels, FileLabels, InLabels
<1>2. KernelTypes' /\ SameFiles /\ Spares(f)
  BY <1>0 DEF Types, KernelTypes, SameFiles, Usable, Spares, SparesFile, Ready
<1>3. CallTypes' /\ LoopTypes'
  BY <1>0, <1>1, GoDoes DEF CallTypes, Types, LoopTypes, Keep
<1>4. LoopInv'
  <2>1. reg' \in [Threads -> [Fds -> Fibers \cup {NoOne}]]
    BY <1>3 DEF LoopTypes
  <2>. QED  BY <1>0, <1>1, <2>1, StaysInLoop
<1>5. RivalsAreDisturbed' /\ OneOpens' /\ WaiterIsArmed'
  BY <1>0 DEF RivalsAreDisturbed, OneOpens, Usable, HooksInv, WaiterIsArmed, Parked
<1>6. HasFile(f, "idle", NoCall) /\ Honest(f, "idle", NoCall)
  BY <1>1 DEF HasFile, Honest
<1>7. FilesAreKept' /\ WriteIsWhole' /\ ConnectIsHonest'
  BY <1>0, <1>1, <1>2, <1>6, FilesKeep DEF HooksInv
<1>. QED  BY <1>2, <1>3, <1>4, <1>5, <1>7 DEF IInv, Types, FilesInv, HooksInv

LEMMA FcntlKeeps ==
  ASSUME IInv, NEW f \in Fibers, Fcntl(f)
  PROVE  IInv'
<1>0. /\ Types /\ ContextsInv /\ Keep(f)
      /\ UNCHANGED <<sock, input, room, reg, pc, call, askedTimed, misused, disturbed>>
      /\ CanGo(f) /\ pc[f] = "idle" /\ FewCalls' /\ call[f] = NoCall
  BY BeginsDoes DEF IInv, Fcntl
<1>1. PICK fd \in Usable, param \in BOOLEAN :
        SetFlags(fd, param) /\ askedNonblock' = [askedNonblock EXCEPT ![fd] = param]
  BY DEF Fcntl
<1>2. fd \in Fds /\ sock[fd] # "raw" /\ Timed(fd, "in") \in BOOLEAN /\ Timed(fd, "out") \in BOOLEAN
  BY <1>0 DEF Usable, Types, ContextTypes, Timed
<1>3. /\ nonblock'[fd] /\ \A k \in Fds \ {fd} : nonblock'[k] = nonblock[k]
      /\ ~fresh'[fd] /\ \A k \in Fds \ {fd} : fresh'[k] = fresh[k]
      /\ userNonblock'[fd] = param
      /\ \A k \in Fds \ {fd} : userNonblock'[k] = userNonblock[k]
      /\ rdTimed'[fd] = Timed(fd, "in") /\ \A k \in Fds \ {fd} : rdTimed'[k] = rdTimed[k]
      /\ wrTimed'[fd] = Timed(fd, "out") /\ \A k \in Fds \ {fd} : wrTimed'[k] = wrTimed[k]
      /\ askedNonblock'[fd] = param
      /\ \A k \in Fds \ {fd} : askedNonblock'[k] = askedNonblock[k]
  BY <1>0, <1>1, <1>2 DEF Types, ContextTypes, SetFlags, KernelFlag
<1>4. ContextTypes'
  BY <1>0, <1>1, <1>2 DEF Types, ContextTypes, SetFlags, KernelFlag
<1>5. ContextsInv'
  <2> SUFFICES ASSUME NEW k \in Fds
               PROVE  CleanContext(k)' /\ TrueContext(k)'
    BY ContextsAre
  <2>0. CleanContext(k) /\ TrueContext(k) /\ (Closing(k)' <=> Closing(k))
    BY <1>0, ContextsAre DEF Closing
  <2>1. CASE k # fd
    BY <1>0, <1>3, <2>0, <2>1, ContextStays
  <2>2. CASE k = fd
    <3>1. /\ Timed(k, "in")' = Timed(k, "in") /\ Timed(k, "out")' = Timed(k, "out")
          /\ IsNonblock(k)' = param
      BY <1>2, <1>3, <2>2 DEF Timed, IsNonblock
    <3>2. k \in Usable /\ k \in Usable' /\ sock'[k] # "raw"
      BY <1>0, <1>2, <2>2 DEF Usable
    <3>3. CleanContext(k)'
      BY <1>0, <2>0, <3>1, <3>2 DEF CleanContext
    <3>4. TrueContext(k)'
      BY <1>0, <1>3, <2>0, <2>2, <3>1, <3>2 DEF TrueContext
    <3>. QED  BY <3>3, <3>4
  <2>. QED  BY <2>1, <2>2
<1>. QED  BY <1>0, <1>4, <1>5, OptionsKeep

LEMMA SetsockoptKeeps ==
  ASSUME IInv, NEW f \in Fibers, Setsockopt(f)
  PROVE  IInv'
<1>0. /\ Types /\ ContextsInv /\ Keep(f)
      /\ UNCHANGED <<kernel, reg, pc, call, askedNonblock, disturbed>>
      /\ CanGo(f) /\ pc[f] = "idle" /\ FewCalls' /\ call[f] = NoCall
  BY BeginsDoes DEF IInv, Setsockopt
<1>1. PICK fd \in Usable, timed \in BOOLEAN, w \in {"in", "out"} :
       /\ fresh' = [fresh EXCEPT ![fd] = FALSE]
       /\ userNonblock' = [userNonblock EXCEPT ![fd] = IsNonblock(fd)]
       /\ rdTimed' = [rdTimed EXCEPT ![fd] = IF w = "in" THEN timed ELSE Timed(fd, "in")]
       /\ wrTimed' = [wrTimed EXCEPT ![fd] = IF w = "out" THEN timed ELSE Timed(fd, "out")]
       /\ askedTimed' = [askedTimed EXCEPT ![fd] = <<rdTimed'[fd], wrTimed'[fd]>>]
       /\ misused' = IF Closing(fd) THEN misused \cup {fd} ELSE misused
  BY DEF Setsockopt
<1>2. /\ fd \in Fds /\ sock[fd] # "raw" /\ Timed(fd, "in") \in BOOLEAN
      /\ Timed(fd, "out") \in BOOLEAN /\ IsNonblock(fd) \in BOOLEAN
  BY <1>0 DEF Usable, Types, ContextTypes, Timed, IsNonblock
<1>3. UNCHANGED <<sock, input, room, nonblock, reg, pc, call, askedNonblock, disturbed>>
  BY <1>0 DEF kernel
<1>4. ContextTypes'
  <2>1. rdTimed'[fd] \in BOOLEAN /\ wrTimed'[fd] \in BOOLEAN
    BY <1>0, <1>1, <1>2 DEF Types, ContextTypes
  <2>. QED  BY <1>0, <1>1, <1>2, <1>3, <2>1 DEF Types, ContextTypes
<1>5. /\ ~fresh'[fd] /\ \A k \in Fds \ {fd} : fresh'[k] = fresh[k]
      /\ userNonblock'[fd] = IsNonblock(fd)
      /\ \A k \in Fds \ {fd} : userNonblock'[k] = userNonblock[k]
      /\ \A k \in Fds \ {fd} : rdTimed'[k] = rdTimed[k]
      /\ \A k \in Fds \ {fd} : wrTimed'[k] = wrTimed[k]
      /\ askedTimed'[fd] = <<rdTimed'[fd], wrTimed'[fd]>>
      /\ \A k \in Fds \ {fd} : askedTimed'[k] = askedTimed[k] /\ (k \in misused' <=> k \in misused)
      /\ fd \in misused' <=> (fd \in misused \/ Closing(fd))
  BY <1>0, <1>1, <1>2 DEF Types, ContextTypes
<1>6. ContextsInv'
  <2> SUFFICES ASSUME NEW k \in Fds
               PROVE  CleanContext(k)' /\ TrueContext(k)'
    BY ContextsAre
  <2>0. CleanContext(k) /\ TrueContext(k) /\ (Closing(k)' <=> Closing(k))
    BY <1>0, ContextsAre DEF Closing
  <2>1. CASE k # fd
    BY <1>3, <1>5, <2>0, <2>1, ContextStays
  <2>2. CASE k = fd
    <3>1. /\ Timed(k, "in")' = rdTimed'[k] /\ Timed(k, "out")' = wrTimed'[k]
          /\ IsNonblock(k)' = IsNonblock(k)
      BY <1>2, <1>4, <1>5, <2>2 DEF Timed, IsNonblock, ContextTypes
    <3>2. k \in Usable /\ k \in Usable' /\ sock'[k] # "raw"
      BY <1>2, <1>3, <2>2 DEF Usable
    <3>3. CleanContext(k)'
      BY <1>5, <2>0, <2>2, <3>2 DEF CleanContext
    <3>4. TrueContext(k)'
      BY <1>3, <1>5, <2>0, <2>2, <3>1, <3>2 DEF TrueContext
    <3>. QED  BY <3>3, <3>4
  <2>. QED  BY <2>1, <2>2
<1>. QED  BY <1>0, <1>3, <1>4, <1>6, OptionsKeep

(* The first step of a close drops the context. *)
LEMMA CloseKeeps ==
  ASSUME IInv, NEW f \in Fibers, Close(f)
  PROVE  IInv'
<1>0. /\ Types /\ LoopInv /\ RivalsAreDisturbed /\ OneOpens /\ FilesAreKept /\ HooksInv /\ ContextsInv
      /\ UNCHANGED <<kernel, userNonblock, rdTimed, wrTimed, reg, askedNonblock, askedTimed, disturbed>>
      /\ CanGo(f) /\ pc[f] = "idle" /\ FewCalls' /\ Keep(f)
  BY BeginsDoes DEF IInv, FilesInv, Close
<1>1. PICK fd \in Usable : /\ ~Closing(fd) /\ DelContext(fd)
                           /\ Go(f, "closing", On(fd))
                           /\ misused' = misused \ {fd}
  BY DEF Close
<1> DEFINE c == On(fd)
<1>2. fd \in Fds /\ sock[fd] # "raw" /\ Go(f, "closing", c)
  BY <1>1 DEF Usable
<1>3. Call(c) /\ c.fd = fd /\ c.on = {} /\ c.raised = {} /\ c.then = "idle"
  BY <1>2, OnIs
<1> HIDE DEF c
<1>4. /\ "closing" \in Labels /\ "closing" \in Labels \ {"parked"} /\ "closing" \notin InLabels
      /\ "closing" \in FileLabels /\ Shape("closing", c)
  BY <1>2, <1>3 DEF Labels, FileLabels, InLabels, OutLabels, ConnectLabels, Shape, Where
<1>5. /\ pc'[f] = "closing" /\ call'[f] = c
      /\ \A g \in Fibers \ {f} : pc'[g] = pc[g] /\ call'[g] = call[g]
  BY <1>0, <1>2, <1>4, GoDoes
<1>6. UNCHANGED kernel /\ disturbed' = disturbed /\ UNCHANGED <<sock, nonblock>> /\ reg' = reg
      /\ disturbed \ {f} \subseteq disturbed'
  BY <1>0 DEF kernel
<1>7. KernelTypes' /\ SameFiles /\ Spares(f)
  BY <1>0, <1>6, KernelSpares
<1>8. ContextTypes'
  BY <1>0, <1>1, <1>6 DEF Types, ContextTypes, DelContext
<1>9. CallTypes' /\ LoopTypes'
  BY <1>0, <1>2, <1>3, <1>4, GoDoes DEF CallTypes, Types, LoopTypes, Keep
<1>10. LoopInv'
  <2>1. reg' \in [Threads -> [Fds -> Fibers \cup {NoOne}]]
    BY <1>9 DEF LoopTypes
  <2>. QED  BY <1>0, <1>2, <1>4, <1>6, <2>1, StaysInLoop
<1>11. RivalsAreDisturbed' /\ WaiterIsArmed'
  <2>1. RivalsAreDisturbed'
    BY <1>0, <1>2, <1>3, <1>4, <1>6, RivalsKeep
  <2>2. WaiterIsArmed'
    BY <1>0, <1>2, <1>4, <1>6, ArmedKeeps DEF HooksInv
  <2>. QED  BY <2>1, <2>2
<1>12. OneOpens'
  <2>1. ASSUME NEW g \in Fibers \ {f}, pc'[g] \in FileLabels
        PROVE  /\ pc[g] \in FileLabels /\ pc'[g] = pc[g] /\ call'[g] = call[g]
               /\ call[g].fd # fd
    <3>1. pc[g] \in FileLabels /\ pc'[g] = pc[g] /\ call'[g] = call[g]
      BY <1>5, <2>1
    <3>2. CASE pc[g] = "closing"
      BY <1>1, <3>1, <3>2 DEF Closing
    <3>3. CASE pc[g] # "closing"
      BY <1>0, <1>2, <3>1, <3>3 DEF OneOpens, FileLabels
    <3>. QED  BY <3>1, <3>2, <3>3
  <2>2. ASSUME NEW g \in Fibers, pc'[g] \in {"setupNew", "setupAccepted"}
        PROVE  sock'[call'[g].fd] = "raw"
    BY <1>0, <1>5, <1>6, <2>2 DEF OneOpens
  <2>3. ASSUME NEW g \in Fibers, pc'[g] = "closing"
        PROVE  call'[g].fd \in Usable'
    <3>1. CASE g = f
      BY <1>1, <1>3, <1>5, <1>7, <3>1 DEF SameFiles
    <3>2. CASE g # f
      BY <1>0, <1>5, <1>7, <2>3, <3>2 DEF OneOpens, SameFiles
    <3>. QED  BY <3>1, <3>2
  <2>4. ASSUME NEW g \in Fibers, NEW h \in Fibers,
               pc'[g] \in FileLabels, pc'[h] \in FileLabels, call'[g].fd = call'[h].fd
        PROVE  g = h
    <3>1. CASE g # f /\ h # f
      BY <1>0, <2>1, <2>4, <3>1 DEF OneOpens
    <3>2. CASE g = f \/ h = f
      BY <1>3, <1>5, <2>1, <2>4, <3>2
    <3>. QED  BY <3>1, <3>2
  <2>. QED  BY <2>2, <2>3, <2>4 DEF OneOpens
<1>13. FilesAreKept' /\ WriteIsWhole' /\ ConnectIsHonest'
  <2>1. HasFile(f, "closing", c) /\ Honest(f, "closing", c)
    BY <1>3 DEF HasFile, Honest
  <2>. QED  BY <1>0, <1>2, <1>3, <1>4, <1>7, <2>1, FilesKeep DEF HooksInv
<1>14. ContextsInv'
  <2> SUFFICES ASSUME NEW k \in Fds
               PROVE  CleanContext(k)' /\ TrueContext(k)'
    BY ContextsAre
  <2>0. CleanContext(k) /\ TrueContext(k)
    BY <1>0, ContextsAre
  <2>1. CASE k # fd
    <3>1. Closing(k)' <=> Closing(k)
      BY <1>0, <1>3, <1>5, <2>1 DEF Closing
    <3>2. fresh'[k] = fresh[k] /\ (k \in misused' <=> k \in misused)
      BY <1>0, <1>1, <2>1 DEF Types, ContextTypes, DelContext
    <3>. QED  BY <1>0, <1>6, <2>0, <3>1, <3>2, ContextStays
  <2>2. CASE k = fd
    <3>1. Closing(k)' /\ sock'[k] # "raw"
      BY <1>2, <1>3, <1>5, <1>6, <2>2 DEF Closing
    <3>2. fresh'[k]
      BY <1>0, <1>1, <1>2, <2>2 DEF Types, ContextTypes, DelContext
    <3>3. ~Timed(k, "in")' /\ ~Timed(k, "out")'
      BY <3>2 DEF Timed
    <3>4. CleanContext(k)'
      BY <3>1, <3>3 DEF CleanContext
    <3>5. TrueContext(k)'
      BY <3>1 DEF TrueContext
    <3>. QED  BY <3>4, <3>5
  <2>. QED  BY <2>1, <2>2
<1>. QED
  BY <1>0, <1>7, <1>8, <1>9, <1>10, <1>11, <1>12, <1>13, <1>14 DEF IInv, Types, FilesInv, HooksInv

(* The second step closes the descriptor under whoever waits on it, and     *)
(* takes it out of every epoll instance.                                    *)
LEMMA RawCloseKeeps ==
  ASSUME IInv, NEW f \in Fibers, RawClose(f)
  PROVE  IInv'
<1> DEFINE fd == call[f].fd
<1>0. /\ Types /\ LoopInv /\ RivalsAreDisturbed /\ OneOpens /\ FilesAreKept /\ HooksInv /\ ContextsInv
      /\ Runs(f) /\ pc[f] = "closing" /\ pc[f] \in FileLabels /\ CanGo(f) /\ Keep(f)
      /\ Go(f, "idle", NoCall)
      /\ UNCHANGED <<nonblock, contexts, loops, calls, asked>>
  BY RunningGoesOn DEF IInv, FilesInv, RawClose, At, FileLabels
<1>1. fd \in Fds /\ fd \in Usable
  BY <1>0 DEF Types, CallTypes, Shape, OneOpens
<1>2. /\ sock' = [sock EXCEPT ![fd] = "closed"]
      /\ input' = [input EXCEPT ![fd] = FALSE] /\ room' = [room EXCEPT ![fd] = 0]
      /\ reg' = [t \in Threads |-> [reg[t] EXCEPT ![fd] = NoOne]]
      /\ disturbed' = disturbed \cup {g \in Fibers \ {f} : Uses(g, fd)}
  BY DEF RawClose
<1> HIDE DEF fd
<1>3. /\ sock'[fd] = "closed" /\ \A k \in Fds \ {fd} : sock'[k] = sock[k]
      /\ \A k \in Fds \ {fd} : input'[k] = input[k] /\ room'[k] = room[k]
      /\ \A t \in Threads : \A k \in Fds \ {fd} : reg'[t][k] = reg[t][k]
      /\ UNCHANGED <<fresh, userNonblock, rdTimed, wrTimed, askedNonblock, askedTimed, misused>>
      /\ nonblock' = nonblock
  BY <1>0, <1>1, <1>2 DEF Types, KernelTypes, LoopTypes, contexts, asked
<1>4. KernelTypes' /\ ContextTypes'
  <2>1. 0 \in 0..Room
    BY PollAssumption
  <2>. QED  BY <1>0, <1>1, <1>2, <1>3, <2>1 DEF Types, KernelTypes, ContextTypes
<1>5. /\ reg' \in [Threads -> [Fds -> Fibers \cup {NoOne}]]
      /\ \A t \in Threads, k \in Fds : reg'[t][k] \in {reg[t][k], NoOne}
  BY <1>0, <1>1, <1>2 DEF Types, LoopTypes
<1>6. /\ "idle" \in Labels /\ "idle" \in Labels \ {"parked"} /\ "idle" \notin FileLabels
      /\ "idle" \notin InLabels
      /\ Call(NoCall) /\ Shape("idle", NoCall) /\ NoCall.on = {}
  BY NoCallIs DEF Labels, FileLabels, InLabels
<1>7. /\ pc'[f] = "idle" /\ call'[f] = NoCall
      /\ \A g \in Fibers \ {f} : pc'[g] = pc[g] /\ call'[g] = call[g]
  BY <1>0, <1>6, GoDoes
<1>8. disturbed \ {f} \subseteq disturbed' /\ disturbed' \subseteq Fibers
  BY <1>0, <1>2 DEF Types, CallTypes
<1>9. CallTypes' /\ LoopTypes' /\ FewCalls'
  BY <1>0, <1>5, <1>6, <1>8, GoDoes DEF CallTypes, Types, LoopTypes, FewCalls, loops
<1>10. LoopInv'
  BY <1>0, <1>5, <1>6, StaysInLoop
<1>11. RivalsAreDisturbed'
  BY <1>0, <1>6, <1>8, RivalsKeep
<1>12. OneOpens'
  <2>1. ASSUME NEW g \in Fibers, pc'[g] \in FileLabels
        PROVE  /\ g # f /\ pc[g] \in FileLabels /\ pc'[g] = pc[g] /\ call'[g] = call[g]
               /\ call[g].fd \in Fds \ {fd}
    <3>1. g # f /\ pc[g] \in FileLabels /\ pc'[g] = pc[g] /\ call'[g] = call[g]
      BY <1>6, <1>7, <2>1
    <3>2. call[g].fd \in Fds /\ call[g].fd # fd
      BY <1>0, <3>1 DEF Types, CallTypes, Shape, OneOpens, fd
    <3>. QED  BY <3>1, <3>2
  <2>2. ASSUME NEW g \in Fibers, pc'[g] \in {"setupNew", "setupAccepted"}
        PROVE  sock'[call'[g].fd] = "raw"
    BY <1>0, <1>3, <2>1, <2>2 DEF OneOpens, FileLabels
  <2>3. ASSUME NEW g \in Fibers, pc'[g] = "closing"
        PROVE  call'[g].fd \in Usable'
    BY <1>0, <1>3, <2>1, <2>3 DEF OneOpens, FileLabels, Usable
  <2>4. ASSUME NEW g \in Fibers, NEW h \in Fibers,
               pc'[g] \in FileLabels, pc'[h] \in FileLabels, call'[g].fd = call'[h].fd
        PROVE  g = h
    BY <1>0, <2>1, <2>4 DEF OneOpens
  <2>. QED  BY <2>2, <2>3, <2>4 DEF OneOpens
<1>13. ASSUME NEW g \in Fibers \ {f}, g \notin disturbed', NEW p \in call[g].on
       PROVE  g \notin disturbed /\ p[1] \in Fds \ {fd}
  <2>1. g \notin disturbed /\ ~Uses(g, fd)
    BY <1>2, <1>13
  <2>2. pc[g] # "idle"
    BY <1>0, <1>13, NoCallIs DEF Types, CallTypes, Shape
  <2>. QED  BY <1>0, <2>1, <2>2, CallHas DEF Uses
<1>14. Spares(f)
  <2> SUFFICES ASSUME NEW g \in Fibers \ {f}, g \notin disturbed'
               PROVE  SparesFile(g)
    BY DEF Spares
  <2>1. g \notin disturbed
    BY <1>2
  <2>2. ASSUME NEW p \in call[g].on
        PROVE  /\ sock'[p[1]] = sock[p[1]]
               /\ Ready(p[1], p[2]) => Ready(p[1], p[2])'
    BY <1>3, <1>13 DEF Ready
  <2>. QED  BY <2>1, <2>2 DEF SparesFile
<1>15. FilesAreKept' /\ WriteIsWhole' /\ ConnectIsHonest'
  <2>1. HasFile(f, "idle", NoCall) /\ Honest(f, "idle", NoCall)
    BY <1>6 DEF HasFile, Honest
  <2>. QED  BY <1>0, <1>6, <1>14, <2>1, FilesKeep DEF HooksInv
<1>16. WaiterIsArmed'
  <2> SUFFICES ASSUME NEW g \in Fibers, pc'[g] = "parked", g \notin disturbed', NEW p \in call'[g].on
               PROVE  reg'[host[g]][p[1]] = g
    BY DEF WaiterIsArmed, Parked
  <2>1. g # f /\ pc[g] = "parked" /\ p \in call[g].on /\ host[g] \in Threads
    BY <1>7, PollAssumption
  <2>2. g \notin disturbed /\ p[1] \in Fds \ {fd}
    BY <1>13, <2>1
  <2>3. reg[host[g]][p[1]] = g
    BY <1>0, <2>1, <2>2 DEF HooksInv, WaiterIsArmed, Parked
  <2>. QED  BY <1>3, <2>1, <2>2, <2>3
<1>17. ContextsInv'
  <2> SUFFICES ASSUME NEW k \in Fds
               PROVE  CleanContext(k)' /\ TrueContext(k)'
    BY ContextsAre
  <2>0. CleanContext(k) /\ TrueContext(k)
    BY <1>0, ContextsAre
  <2>1. CASE k # fd
    <3>1. Closing(k)' <=> Closing(k)
      BY <1>0, <1>7, <2>1 DEF Closing, fd
    <3>. QED  BY <1>3, <2>0, <2>1, <3>1, ContextStays
  <2>2. CASE k = fd
    <3>1. Closing(k) /\ sock'[k] # "raw" /\ k \notin Usable'
      BY <1>0, <1>3, <2>2 DEF Closing, fd, Usable
    <3>2. k \notin misused => ~Timed(k, "in") /\ ~Timed(k, "out")
      BY <2>0, <3>1 DEF CleanContext
    <3>3. Timed(k, "in")' = Timed(k, "in") /\ Timed(k, "out")' = Timed(k, "out")
      BY <1>3 DEF Timed
    <3>4. CleanContext(k)'
      BY <1>3, <3>1, <3>2, <3>3 DEF CleanContext
    <3>5. TrueContext(k)'
      BY <3>1 DEF TrueContext
    <3>. QED  BY <3>4, <3>5
  <2>. QED  BY <2>1, <2>2
<1>. QED
  BY <1>4, <1>9, <1>10, <1>11, <1>12, <1>15, <1>16, <1>17 DEF IInv, Types, FilesInv, HooksInv

-----------------------------------------------------------------------------
(* The invariant *)

LEMMA IInvInit == Init => IInv
<1> SUFFICES ASSUME Init PROVE IInv
  OBVIOUS
<1>1. Room \in Nat \ {0} /\ NoOne \notin Fibers /\ Start \in [Fds -> {"closed", "new", "up", "listen"}]
  BY PollAssumption
<1>2. /\ \A f \in Fibers : pc[f] = "idle" /\ call[f] = NoCall /\ calls[f] = 0
      /\ \A t \in Threads : cur[t] = NoOne /\ active[t] = <<>>
      /\ \A t \in Threads, fd \in Fds : reg[t][fd] = NoOne
      /\ \A fd \in Fds : /\ sock[fd] = Start[fd] /\ nonblock[fd] = (Start[fd] # "closed")
                         /\ fresh[fd] = (Start[fd] = "closed")
                         /\ userNonblock[fd] = FALSE /\ rdTimed[fd] = FALSE /\ wrTimed[fd] = FALSE
                         /\ askedNonblock[fd] = FALSE /\ askedTimed[fd] = <<FALSE, FALSE>>
      /\ misused = {} /\ disturbed = {}
  BY DEF Init
<1>3. Call(NoCall) /\ Shape("idle", NoCall) /\ NoCall.on = {} /\ NoCall.raised = {}
  BY NoCallIs
<1>4. Types
  <2>1. KernelTypes
    BY <1>1 DEF Init, KernelTypes
  <2>2. ContextTypes
    BY DEF Init, ContextTypes
  <2>3. LoopTypes
    BY DEF Init, LoopTypes
  <2>4. CallTypes
    BY <1>2, <1>3 DEF Init, CallTypes, Labels
  <2>5. FewCalls
    BY <1>2, PollAssumption DEF Init, FewCalls
  <2>. QED  BY <2>1, <2>2, <2>3, <2>4, <2>5 DEF Types
<1>5. LoopInv
  <2>1. Loops
    BY <1>2 DEF Loops
  <2>2. ActiveIsExact
    BY <1>2 DEF ActiveIsExact, IsInjective
  <2>3. NoDanglingRegistration
    BY <1>2 DEF NoDanglingRegistration
  <2>4. Resumed
    BY <1>2 DEF Resumed, Parked, InLabels
  <2>. QED  BY <2>1, <2>2, <2>3, <2>4 DEF LoopInv
<1>6. FilesInv
  BY <1>2, <1>3 DEF FilesInv, RivalsAreDisturbed, OneOpens, FilesAreKept, KeepsItsFile, FileLabels
<1>7. HooksInv
  BY <1>2 DEF HooksInv, WaiterIsArmed, WriteIsWhole, ConnectIsHonest, Parked
<1>8. ContextsInv
  <2> SUFFICES ASSUME NEW fd \in Fds
               PROVE  CleanContext(fd) /\ TrueContext(fd)
    BY ContextsAre
  <2>1. Timed(fd, "in") = FALSE /\ Timed(fd, "out") = FALSE /\ IsNonblock(fd) = FALSE
    BY <1>2 DEF Timed, IsNonblock
  <2>. QED  BY <1>1, <1>2, <2>1 DEF CleanContext, TrueContext, Usable
<1>. QED  BY <1>4, <1>5, <1>6, <1>7, <1>8 DEF IInv

LEMMA HookKeeps ==
  ASSUME IInv, NEW f \in Fibers, Hook(f)
  PROVE  IInv'
<1>1. CASE \/ Socket(f) \/ Setup(f) \/ Fcntl(f) \/ Setsockopt(f) \/ Close(f) \/ RawClose(f)
  BY <1>1, SocketKeeps, SetupKeeps, FcntlKeeps, SetsockoptKeeps, CloseKeeps, RawCloseKeeps
<1>2. CASE Read(f) \/ Readv(f) \/ Recv(f) \/ Recvfrom(f)
  BY <1>2, PollFirstKeeps DEF Read, Readv, Recv, Recvfrom
<1>3. CASE Accept(f)
  BY <1>3, PollFirstKeeps DEF Accept
<1>4. CASE ReadTry(f) \/ AcceptTry(f)
  BY <1>4, ReadTryKeeps, AcceptTryKeeps
<1>5. CASE Write(f) \/ Send(f) \/ Sendto(f) \/ Writev(f)
  BY <1>5, TryFirstKeeps DEF Write, Send, Sendto, Writev
<1>6. CASE WriteTry(f) \/ WriteOnce(f) \/ Wrote(f)
  BY <1>6, WriteTryKeeps, WriteOnceKeeps, ReportKeeps
<1>7. CASE Connect(f) \/ Connecting(f) \/ Connected(f)
  BY <1>7, ConnectKeeps, ConnectingKeeps, ReportKeeps
<1>8. CASE Poll(f) \/ PollExit(f)
  BY <1>8, PollKeeps, PollExitKeeps
<1>. QED  BY <1>1, <1>2, <1>3, <1>4, <1>5, <1>6, <1>7, <1>8 DEF Hook

LEMMA IInvStep == IInv /\ [Next]_vars => IInv'
<1> SUFFICES ASSUME IInv, [Next]_vars PROVE IInv'
  OBVIOUS
<1>1. ASSUME NEW t \in Threads, Collect(t) \/ ResumeNext(t) PROVE IInv'
  BY <1>1, CollectingKeeps, ResumingKeeps
<1>2. ASSUME NEW f \in Fibers, Hook(f) PROVE IInv'
  BY <1>2, HookKeeps
<1>3. ASSUME NEW fd \in Fds, Arrive(fd) \/ Drain(fd) \/ Answer(fd) PROVE IInv'
  BY <1>3, NetworkKeeps
<1>4. CASE UNCHANGED vars
  <2>1. /\ UNCHANGED <<pc, call, reg, calls, disturbed>> /\ UNCHANGED kernel /\ loops' = loops
        /\ UNCHANGED <<nonblock, contexts, asked>>
    BY <1>4 DEF vars, kernel
  <2>2. Types /\ LoopInv
    BY DEF IInv
  <2>3. KernelTypes' /\ SameFiles /\ \A g \in Fibers : g \notin disturbed' => SparesFile(g)
    BY <2>1, <2>2 DEF Types, KernelTypes, SameFiles, Usable, SparesFile, Ready, kernel
  <2>4. LoopInv' /\ LoopTypes'
    BY <2>1, <2>2
       DEF LoopInv, Loops, ActiveIsExact, NoDanglingRegistration, Resumed, Parked, Runs,
           Types, LoopTypes, loops
  <2>. QED  BY <2>1, <2>3, <2>4, HooksStay
<1>. QED  BY <1>1, <1>2, <1>3, <1>4 DEF Next

LEMMA Invariance == Spec => []IInv
<1>. QED  BY IInvInit, IInvStep, PTL DEF Spec

-----------------------------------------------------------------------------
(* The theorems *)

(* What epoll and the loop know of the pollers (PollersAreExact): no poll   *)
(* item outlives its fiber's wait, nobody is in the active list twice or    *)
(* without waiting, and a waiter that shares its descriptors with nobody is *)
(* registered for all of them.                                              *)
THEOREM PollersAreKnown == Spec => []PollersAreExact
<1>1. IInv => PollersAreExact
  <2> SUFFICES ASSUME IInv PROVE PollersAreExact
    OBVIOUS
  <2>1. Types /\ NoDanglingRegistration /\ ActiveIsExact /\ WaiterIsArmed
    BY DEF IInv, LoopInv, HooksInv
  <2>2. ASSUME NEW f \in Fibers
        PROVE  calls[f] \in 0..Len(Script[f]) /\ call[f].fd \in Fds \cup {0}
    <3>1. calls[f] \in Nat /\ calls[f] <= Len(Script[f]) /\ Len(Script[f]) \in Nat
      BY <2>1, PollAssumption DEF Types, FewCalls
    <3>. QED  BY <2>1, <3>1, CallHas
  <2>3. TypeOK
    BY <2>1, <2>2 DEF TypeOK, Types, KernelTypes, LoopTypes
  <2>. QED  BY <2>1, <2>3 DEF PollersAreExact
<1>. QED  BY <1>1, Invariance, PTL

(* What the hooks tell their callers (HooksAreHonest): a blocking read or   *)
(* accept that an event resumed finds its input, write counts exactly the   *)
(* bytes taken and stops short only after a time-out, and connect reports   *)
(* success for a connection that is up.                                     *)
THEOREM HooksTellTheTruth == Spec => []HooksAreHonest
<1>1. IInv => HooksAreHonest
  <2> SUFFICES ASSUME IInv PROVE HooksAreHonest
    OBVIOUS
  <2>1. Types /\ Resumed /\ FilesAreKept /\ WriteIsWhole /\ ConnectIsHonest
    BY DEF IInv, LoopInv, FilesInv, HooksInv
  <2>2. ASSUME NEW f \in Fibers, pc[f] \in InLabels, call[f].then = pc[f], f \notin disturbed,
               ~(call[f].timed /\ call[f].raised = {})
        PROVE  input[call[f].fd]
    <3> DEFINE fd == call[f].fd
    <3>1. fd \in Fds /\ call[f].on = {<<fd, "in">>} /\ call[f].raised \subseteq call[f].on
      BY <2>1, <2>2, CallHas DEF Types, CallTypes, Shape, Where, InLabels
    <3>2. <<fd, "in">> \in call[f].raised
      BY <2>1, <2>2, <3>1 DEF Resumed, Answered
    <3>3. /\ sock[<<fd, "in">>[1]] \in States(Where(pc[f], call[f]), <<fd, "in">>[2])
          /\ Ready(<<fd, "in">>[1], <<fd, "in">>[2])
      BY <2>1, <2>2, <3>1, <3>2 DEF FilesAreKept, KeepsItsFile, InLabels
    <3>. QED  BY <3>3 DEF Ready, States
  <2>3. BlockingCallHasData
    BY <2>2 DEF BlockingCallHasData, InLabels
  <2>. QED  BY <2>1, <2>3 DEF HooksAreHonest
<1>. QED  BY <1>1, Invariance, PTL

(* The context of a descriptor in use is the one its own user set up        *)
(* (ContextBelongsToFile), however often the number has been closed and     *)
(* opened again.                                                            *)
THEOREM ContextsFollowFiles == Spec => []ContextBelongsToFile
<1>1. IInv => ContextBelongsToFile
  BY DEF IInv, ContextsInv
<1>. QED  BY <1>1, Invariance, PTL
=============================================================================
