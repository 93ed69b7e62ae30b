---------------------------- MODULE HttpBackend ----------------------------
(***************************************************************************)
(* SqlConnPool and HttpRequest::UserVerify, with the log they write to.    *)
(* Connections are numbers, 0 is the null pointer that Init queues when    *)
(* mysql_real_connect fails.  The database is external: a query succeeds   *)
(* or fails.                                                               *)
(***************************************************************************)
EXTENDS HttpLog

CONSTANTS PoolSize,
          MaxRequests   \* bound: verifications of each worker

ASSUME PoolAssumption == PoolSize \in Nat \ {0} /\ MaxRequests \in [Workers -> Nat]

Conns == 1 .. PoolSize

VARIABLES
  connQue, sem,         \* the queue and the semaphore of the pool
  sql,                  \* of each worker
  served,               \* calls of UserVerify so far
  aborted,              \* the process has died: in assert(sql), or in fflush
  alive,                \* connections that Init could open
  again                 \* history: how often line 248 freed a connection

poolVars == <<connQue, sem, sql, served, aborted, alive, again>>
vars == <<logVars, poolVars>>

(* SqlConnPool::Init *)
Init ==
  /\ LogInit
  /\ alive \in SUBSET Conns
  /\ connQue = [i \in Conns |-> IF i \in alive THEN i ELSE 0]
  /\ sem = PoolSize
  /\ sql = [w \in Workers |-> 0]
  /\ served = [w \in Workers |-> 0]
  /\ aborted = FALSE
  /\ again = [c \in Conns |-> 0]

(* All of the log but the program counters and the main thread.             *)
logState == <<queueVars, mtx, fileVars, today, main, logHistory>>

-----------------------------------------------------------------------------
(* UserVerify logs the call first.                                          *)
UserVerify(w) ==
  /\ main = "running" /\ At(w, "idle") /\ served[w] < MaxRequests[w]
  /\ served' = [served EXCEPT ![w] = @ + 1]
  /\ CallsLog(w, "get")
  /\ UNCHANGED <<logState, connQue, sem, sql, aborted, alive, again>>

(* GetConn: the queue is looked at without the lock; an empty one is logged *)
(* and answered with a null pointer.                                        *)
GetConn(w) ==
  /\ At(w, "get")
  /\ \/ connQue = <<>> /\ CallsLog(w, "guard") /\ sql' = [sql EXCEPT ![w] = 0]
     \/ connQue # <<>> /\ GoesTo(w, "semwait") /\ UNCHANGED <<sql, ret, day>>
  /\ UNCHANGED <<logState, connQue, sem, served, aborted, alive, again>>

SemWait(w) ==
  /\ At(w, "semwait") /\ sem > 0
  /\ sem' = sem - 1 /\ GoesTo(w, "pop")
  /\ UNCHANGED <<logState, ret, day, connQue, sql, served, aborted, alive, again>>

PopConn(w) ==
  /\ At(w, "pop")
  /\ sql' = [sql EXCEPT ![w] = Head(connQue)]
  /\ connQue' = Tail(connQue)
  /\ GoesTo(w, "guard")
  /\ UNCHANGED <<logState, ret, day, sem, served, aborted, alive, again>>

(* FreeConn: push and post under the lock.                                  *)
Freed_NoPost(c) == connQue' = Append(connQue, c) /\ UNCHANGED sem
Freed(c) == connQue' = Append(connQue, c) /\ sem' = sem + 1

(* ~SqlConnRAII: the guard has no name, so it goes at the end of its own    *)
(* statement, freeing nothing for a null pointer; then assert(sql).         *)
DropGuard(w) ==
  /\ At(w, "guard") /\ GoesTo(w, "query") /\ aborted' = (sql[w] = 0)
  /\ IF sql[w] # 0 THEN Freed(sql[w]) ELSE UNCHANGED <<connQue, sem>>
  /\ UNCHANGED <<logState, ret, day, sql, served, alive, again>>

(* The queries use the connection; a failed SELECT returns at once, any     *)
(* other way the connection is freed, once more, at the end.                *)
Query(w) ==
  /\ At(w, "query")
  /\ \/ GoesTo(w, "free") /\ UNCHANGED sql
     \/ GoesTo(w, "idle") /\ sql' = [sql EXCEPT ![w] = 0]
  /\ UNCHANGED <<logState, ret, day, connQue, sem, served, aborted, alive, again>>

FreeAtEnd(w) ==
  /\ At(w, "free") /\ GoesTo(w, "idle")
  /\ Freed(sql[w])
  /\ again' = [again EXCEPT ![sql[w]] = @ + 1]
  /\ sql' = [sql EXCEPT ![w] = 0]
  /\ UNCHANGED <<logState, ret, day, served, aborted, alive>>

(* The process ends when its workers have: ~SqlConnPool, then ~Log.         *)
ClosePool ==
  /\ main = "running" /\ main' = "drain"
  /\ \A w \in Workers : At(w, "idle") /\ served[w] = MaxRequests[w]
  /\ connQue' = <<>>
  /\ UNCHANGED <<queueVars, mtx, fileVars, today, threads, logHistory, sem, sql, served, aborted, alive, again>>

(* What flush() does with a closed FILE is undefined: it goes on (Flush),   *)
(* or the process dies.                                                     *)
FlushClosed(w) ==
  /\ At(w, "flush") /\ ~isOpen /\ aborted' = TRUE
  /\ UNCHANGED <<logVars, connQue, sem, sql, served, alive, again>>

-----------------------------------------------------------------------------
WorkerStep(w) ==
  \/ LogStep(w) /\ UNCHANGED poolVars
  \/ FlushClosed(w)
  \/ GetConn(w) \/ SemWait(w) \/ PopConn(w) \/ DropGuard(w) \/ Query(w) \/ FreeAtEnd(w)

Next ==
  /\ ~aborted
  /\ \/ \E w \in Workers : UserVerify(w) \/ WorkerStep(w)
     \/ (WriterStep \/ MainStep \/ Midnight) /\ UNCHANGED poolVars
     \/ ClosePool

(* Every thread runs.  A worker at a lock or at the semaphore gets it in    *)
(* turn: others take them for a bounded number of lines and requests.       *)
Spec ==
  /\ Init /\ [][Next]_vars
  /\ \A w \in Workers : WF_vars(~aborted /\ WorkerStep(w))
  /\ WF_vars(~aborted /\ WriterStep /\ UNCHANGED poolVars)
  /\ WF_vars(~aborted /\ MainStep /\ UNCHANGED poolVars)

-----------------------------------------------------------------------------
(* Types, who holds Log::mtx_, and that the log's file is open but for the  *)
(* instant in which a worker changes it.                                    *)
TypeOK ==
  /\ LogTypeOK
  /\ connQue \in Seq(0 .. PoolSize) /\ sem \in Nat
  /\ sql \in [Workers -> 0 .. PoolSize]
  /\ \A w \in Workers : served[w] \in 0 .. MaxRequests[w]

(* GetConn tests the queue, waits for a permit and pops in three steps; the *)
(* permits still match what is queued, so pop never meets an empty queue.   *)
PermitsMatchQueue ==
  main = "running" => sem + Cardinality({w \in Workers : At(w, "pop")}) = Len(connQue)

(* Every connection is in the queue, or popped by a guard that still lives: *)
(* once, and one more time for each verification that freed it a second     *)
(* time (httprequest.cpp:248).  None leaks when a query fails.              *)
Copies(c) == Cardinality({i \in DOMAIN connQue : connQue[i] = c})
Guarded(c) == Cardinality({w \in Workers : At(w, "guard") /\ sql[w] = c})

ConnectionsAreAccounted ==
  main = "running" => \A c \in alive : Copies(c) + Guarded(c) = 1 + again[c]

(* What the pool keeps at every step: types, permits for what is queued,    *)
(* and each connection in as many places as it was freed to.                *)
PoolInv == TypeOK /\ PermitsMatchQueue /\ ConnectionsAreAccounted

(* A verification ends, or the process dies (assert(sql), fflush): no       *)
(* worker waits for ever for a permit, the log's lock or room in the deque. *)
RequestEnds == \A w \in Workers : ~At(w, "idle") ~> (At(w, "idle") \/ aborted)

(* Requests end, and so does the process. *)
BackendEnds == RequestEnds /\ ShutdownEnds
=============================================================================
