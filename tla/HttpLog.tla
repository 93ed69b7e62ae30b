------------------------------ MODULE HttpLog ------------------------------
(***************************************************************************)
(* Log and its BlockDeque: worker threads write lines through the LOG_BASE *)
(* macro, a writer thread takes them from the deque and puts them in the   *)
(* file, and ~Log ends the writer.  A line is its serial number; what it   *)
(* says and the names of the files are left out.                           *)
(*                                                                         *)
(* Sections under the deque's own mutex are one step.  Log::mtx_ is held   *)
(* over several, by a worker or by the writer.                             *)
(***************************************************************************)
EXTENDS Integers, Sequences, FiniteSets

CONSTANTS Workers,
          Capacity,     \* of the deque
          MaxLines,     \* MAX_LINES, lines per file
          Days,         \* bound: number of the last day
          NoOne

ASSUME LogAssumption ==
  /\ Capacity \in Nat \ {0} /\ MaxLines \in Nat \ {0} /\ Days \in Nat \ {0}
  /\ NoOne \notin Workers /\ IsFiniteSet(Workers)

VARIABLES
  deq, isClose,         \* BlockDeque
  writer,               \* AsyncWrite_: pop, waiting, woken, put, ended
  hand,                 \* the line the writer has popped
  mtx,                  \* who holds Log::mtx_
  file,                 \* lines put so far, over all files
  isOpen,               \* fp_ is an open file
  lineCount, toDay,     \* read and written outside the lock, too
  today,
  pc, ret, day,         \* of each worker: step inside LOG_BASE, where to go
                        \* on, the day when write() read the clock
  main,                 \* running, drain, close, join, finished
  serial, overlapped, lateClose,     \* history
  began, sinceOpen      \* history: Len(file) when fp_ was opened, and how many
                        \* lines write() has accepted since

queueVars == <<deq, isClose, writer, hand>>
fileVars == <<file, isOpen, lineCount, toDay, began, sinceOpen>>
logHistory == <<serial, overlapped, lateClose>>
threads == <<pc, ret, day>>
logVars == <<queueVars, mtx, fileVars, today, threads, main, logHistory>>

LogInit ==
  /\ deq = <<>> /\ isClose = FALSE /\ writer = "pop" /\ hand = <<>>
  /\ mtx = NoOne
  /\ file = <<>> /\ isOpen = TRUE /\ lineCount = 0 /\ toDay = 1 /\ today = 1
  /\ pc = [w \in Workers |-> "idle"] /\ ret = [w \in Workers |-> "idle"]
  /\ day = [w \in Workers |-> 1]
  /\ main = "running"
  /\ serial = 0 /\ began = 0 /\ sinceOpen = 0 /\ overlapped = FALSE /\ lateClose = FALSE

GoesTo(w, label) == pc' = [pc EXCEPT ![w] = label]
At(w, label) == pc[w] = label

(* notify_one or notify_all on condConsumer_, which only the writer uses.   *)
NotifyConsumer == IF writer = "waiting" THEN "woken" ELSE writer

InWrite(w) == pc[w] \in {"rotate", "reopen", "open", "write", "push"}

-----------------------------------------------------------------------------
(* LOG_BASE calls Log::write, which reads the clock.  The test for a new    *)
(* file reads toDay_ and lineCount_ without the lock.                       *)
CallsLog(w, then) ==
  /\ GoesTo(w, "test")
  /\ ret' = [ret EXCEPT ![w] = then] /\ day' = [day EXCEPT ![w] = today]

RotationDue_OffByOne(w) ==
  toDay # day[w] \/ (lineCount # 0 /\ lineCount % (MaxLines + 1) = 0)
RotationDue(w) ==
  toDay # day[w] \/ (lineCount # 0 /\ lineCount % MaxLines = 0)

WriteTest(w) ==
  /\ At(w, "test")
  /\ GoesTo(w, IF RotationDue(w) THEN "rotate" ELSE "write")
  /\ overlapped' = (overlapped \/ \E u \in Workers \ {w} : InWrite(u))
  /\ UNCHANGED <<queueVars, mtx, fileVars, today, ret, day, main, serial, lateClose>>

(* The lock is taken and dropped again before the new name is made.         *)
Rotate(w) ==
  /\ At(w, "rotate") /\ mtx = NoOne
  /\ toDay' = day[w]
  /\ lineCount' = IF toDay # day[w] THEN 0 ELSE lineCount
  /\ GoesTo(w, "reopen")
  /\ UNCHANGED <<queueVars, mtx, file, isOpen, began, sinceOpen, today, ret, day, main, logHistory>>

(* flush, fclose, fopen under the lock.                                     *)
CloseFile(w) ==
  /\ At(w, "reopen") /\ mtx = NoOne
  /\ mtx' = w /\ isOpen' = FALSE
  /\ writer' = NotifyConsumer
  /\ GoesTo(w, "open")
  /\ UNCHANGED <<deq, isClose, hand, file, lineCount, toDay, began, sinceOpen, today, ret, day, main,
                 logHistory>>
OpenFile(w) ==
  /\ At(w, "open")
  /\ mtx' = NoOne /\ isOpen' = TRUE /\ began' = Len(file) /\ sinceOpen' = 0
  /\ GoesTo(w, "write")
  /\ UNCHANGED <<queueVars, file, lineCount, toDay, today, ret, day, main, logHistory>>

(* The line is queued, or put in the file at once when the deque is full.   *)
Queues_Always == TRUE
Queues == Len(deq) < Capacity

WriteLine(w) ==
  /\ At(w, "write") /\ mtx = NoOne
  /\ lineCount' = lineCount + 1
  /\ serial' = serial + 1 /\ sinceOpen' = sinceOpen + 1
  /\ \/ /\ Queues
        /\ mtx' = w /\ GoesTo(w, "push")
        /\ UNCHANGED file
     \/ /\ ~Queues
        /\ file' = Append(file, [n |-> serial + 1, direct |-> TRUE])
        /\ GoesTo(w, "flush") /\ UNCHANGED mtx
  /\ UNCHANGED <<queueVars, isOpen, toDay, began, today, ret, day, main, overlapped, lateClose>>

(* BlockDeque::push_back, with Log::mtx_ held: it would wait while full.    *)
Pushed(q, line) == Append(q, line)

PushBack(w) ==
  /\ At(w, "push") /\ Len(deq) < Capacity
  /\ deq' = Pushed(deq, [n |-> serial, direct |-> FALSE])
  /\ writer' = NotifyConsumer
  /\ mtx' = NoOne
  /\ GoesTo(w, "flush")
  /\ UNCHANGED <<isClose, hand, fileVars, today, ret, day, main, logHistory>>

(* LOG_BASE ends with flush(), without the lock: fflush may find fp_ closed *)
(* by another worker.  This is the outcome in which it does no harm.        *)
(* write() is over and with it the time it had read.                        *)
Flush(w) ==
  /\ At(w, "flush")
  /\ writer' = NotifyConsumer
  /\ GoesTo(w, ret[w])
  /\ day' = [day EXCEPT ![w] = 1]
  /\ UNCHANGED <<deq, isClose, hand, mtx, fileVars, today, ret, main, logHistory>>

LogStep(w) ==
  WriteTest(w) \/ Rotate(w) \/ CloseFile(w) \/ OpenFile(w) \/ WriteLine(w) \/ PushBack(w) \/ Flush(w)

-----------------------------------------------------------------------------
(* BlockDeque::pop.  The close flag is looked at after a wait only.         *)
Pop ==
  /\ \/ writer = "pop"
     \/ writer = "woken" /\ ~isClose
  /\ \/ deq = <<>> /\ writer' = "waiting" /\ UNCHANGED <<deq, hand>>
     \/ /\ deq # <<>> /\ writer' = "put"
        /\ hand' = <<Head(deq)>> /\ deq' = Tail(deq)
  /\ UNCHANGED <<isClose, mtx, fileVars, today, threads, main, logHistory>>
PopRefused ==
  /\ writer = "woken" /\ isClose /\ writer' = "ended"
  /\ UNCHANGED <<deq, isClose, hand, mtx, fileVars, today, threads, main, logHistory>>

(* AsyncWrite_ puts the line under the lock, in the file that is open now.  *)
Put ==
  /\ writer = "put" /\ mtx = NoOne
  /\ file' = file \o hand /\ hand' = <<>>
  /\ writer' = "pop"
  /\ UNCHANGED <<deq, isClose, mtx, isOpen, lineCount, toDay, began, sinceOpen, today, threads, main,
                 logHistory>>

WriterStep == Pop \/ PopRefused \/ Put

-----------------------------------------------------------------------------
(* ~Log: wait until the deque is seen empty, Close, join, fclose.           *)
SeenEmpty_Unchecked == TRUE
SeenEmpty == deq = <<>>

Drain ==
  /\ main = "drain"
  /\ \/ SeenEmpty /\ main' = "close" /\ UNCHANGED writer
     \/ ~SeenEmpty /\ writer' = NotifyConsumer /\ UNCHANGED main
  /\ UNCHANGED <<deq, isClose, hand, mtx, fileVars, today, threads, logHistory>>

Close ==
  /\ main = "close" /\ main' = "join"
  /\ deq' = <<>> /\ isClose' = TRUE
  /\ writer' = NotifyConsumer
  /\ lateClose' = (writer \in {"pop", "put"})
  /\ UNCHANGED <<hand, mtx, fileVars, today, threads, serial, overlapped>>

Joined_NoWait == TRUE
Joined == writer = "ended"
Join ==
  /\ main = "join" /\ Joined /\ mtx = NoOne
  /\ main' = "finished" /\ isOpen' = FALSE
  /\ UNCHANGED <<queueVars, mtx, file, lineCount, toDay, began, sinceOpen, today, threads, logHistory>>

MainStep == Drain \/ Close \/ Join

Midnight ==
  /\ main = "running" /\ today < Days /\ today' = today + 1
  /\ UNCHANGED <<queueVars, mtx, fileVars, threads, main, logHistory>>

-----------------------------------------------------------------------------
LogTypeOK ==
  /\ Len(deq) <= Capacity /\ Len(hand) = (IF writer = "put" THEN 1 ELSE 0)
  /\ writer \in {"pop", "waiting", "woken", "put", "ended"}
  /\ mtx \in Workers \cup {NoOne}
  /\ \A w \in Workers : (pc[w] \in {"open", "push"}) = (mtx = w)
  /\ lineCount \in Nat /\ toDay \in 1 .. today /\ today \in 1 .. Days
  /\ isOpen = (main # "finished" /\ \A w \in Workers : ~At(w, "open"))

Pushing == {w \in Workers : At(w, "push")}
Stored == file \o hand \o deq
Serials == {Stored[i].n : i \in DOMAIN Stored}

(* No line is lost or written twice: each line that write() accepted is in  *)
(* the file, in the writer's hand, in the deque, or about to be pushed.     *)
(* ~Log keeps that: when it closes the deque nothing is left in it.         *)
LinesAreConserved ==
  /\ Len(Stored) + Cardinality(Pushing) = serial
  /\ Serials \cup (IF Pushing = {} THEN {} ELSE {serial}) = 1 .. serial

(* Lines are in the file in the order of the write() calls, except that a   *)
(* line which found the deque full overtakes the ones in it.                *)
OrderKept ==
  \A i, j \in DOMAIN Stored :
    (i < j /\ Stored[i].n > Stored[j].n) => Stored[i].direct

(* The file gets every line, in order. *)
LinesAreKept == LinesAreConserved /\ OrderKept

(* A file gets at most MaxLines lines more than were queued when it was     *)
(* opened: the count is of write() calls (log.cpp:126), but the writer puts *)
(* a queued line in whatever file is open by then (log.cpp:183), so the     *)
(* deque and the writer's hand go over to the next file.  The exception is  *)
(* two threads inside write() at once: the test is made without the lock    *)
(* (log.cpp:99), so they can step over the multiple of MaxLines together.   *)
LinesInFile == Len(file) - began
Carried == serial - sinceOpen - began
RotatesOnTime ==
  /\ ~overlapped => LinesInFile <= MaxLines + Carried
  /\ Carried <= Capacity + 1

(* No line is put in a file while another worker has it closed to open the  *)
(* next one, nor after ~Log has closed the last: the two threads that put   *)
(* lines do so under the lock, and ~Log waits for the writer.               *)
LinesGoToOpenFile == [][file' # file => isOpen]_file

(* What the log promises of each file: the lines that belong in it, and     *)
(* none when it is not open.                                                *)
FilesAreRight == []RotatesOnTime /\ LinesGoToOpenFile

(* The destructor ends.  It can hang only if Close came while the writer    *)
(* was between two pops: pop waits before it looks at the flag              *)
(* (blockqueue.h:155).                                                      *)
ShutdownEnds == (main = "join") ~> (main = "finished" \/ lateClose)
=============================================================================
