---------------------------- MODULE HttpServers ----------------------------
(***************************************************************************)
(* The two HTTP servers of the repository in front of the same client,     *)
(* which is connected to one of them, and what the client may rely on.     *)
(***************************************************************************)
EXTENDS HttpConnection, HttpParse

vars == <<clientVars, connVars, parseVars>>

(* The server that is not asked stays in one initial state.                 *)
Init ==
  /\ server \in {"stackful", "stackless"}
  /\ ClientInit /\ ConnInit /\ ParseInit
  /\ server = "stackful" => ~junk
  /\ server = "stackless" => iov[2].len = 0

ServerStep ==
  \/ server = "stackful" /\ ConnStep /\ UNCHANGED parseVars
  \/ server = "stackless" /\ HandlerStep /\ UNCHANGED connVars

(* The client sends and leaves while its connection is there.               *)
Connected == fd = "mine" /\ phase # "crashed"
ClientStep ==
  \/ (Send /\ Connected) \/ Receive \/ (Leave /\ Connected)

Next ==
  \/ ServerStep
  \/ ClientStep /\ UNCHANGED <<connVars, parseVars>>
  \/ NumberReused /\ UNCHANGED parseVars

(* Neither a thread that runs fibers nor the event loop stops on its own,   *)
(* and a client that is there reads.                                        *)
Spec ==
  /\ Init /\ [][Next]_vars
  /\ WF_vars(ServerStep)
  /\ WF_vars(Receive /\ UNCHANGED <<connVars, parseVars>>)

-----------------------------------------------------------------------------
TypeOK ==
  /\ phase \in {"init", "read", "process", "parse", "respond", "write", "again", "close",
                "destroy", "done", "spin", "crashed"}
  /\ stage \in {"read", "process", "parse", "write", "overrun"}
  /\ armed \in {"any", "in", "out", "none"}
  /\ fd \in {"mine", "free", "other", "stolen"} /\ userCount \in 0 .. 2
  /\ Len(outq) <= Window /\ sent \in 0 .. Len(Stream)
  /\ \A k \in 1 .. 2 : iov[k].len \in 0 .. HeadLen + FileLen + 1
  /\ scan.checked <= ReadBufferSize /\ Len(rbuf) = ReadBufferSize

CursorsAreInside(b) == b.readPos <= b.writePos /\ b.writePos <= Len(b.cells)

(* The read buffer holds the end of what was read, in order: growing it,    *)
(* moving it to the front and reading past its room lose nothing; and no    *)
(* cursor leaves its buffer.                                                *)
BufferHoldsInput ==
  /\ CursorsAreInside(readBuff) /\ CursorsAreInside(writeBuff)
  /\ server = "stackful" =>
       LET taken == SubSeq(Stream, 1, sent - Len(inq))
           held == Readable(readBuff)
       IN held = SubSeq(taken, Len(taken) - Len(held) + 1, Len(taken))

(* Responses reach the client whole and in order, however little the socket *)
(* takes at a time: what was received, what is in the socket and what the   *)
(* two vectors still describe make up the responses begun so far.           *)
ResponsesAreWhole ==
  (server = "stackful" /\ ~gone) =>
    got \o outq \o Unsent =
      FlattenSeq([n \in DOMAIN answers |-> [i \in 1 .. answers[n].size |-> Part(n, i, answers[n].size)]])

(* Types, and bytes in both directions: none lost, doubled or misplaced     *)
(* between the socket, the two buffers and the two vectors.                 *)
BytesAreKept == TypeOK /\ BufferHoldsInput /\ ResponsesAreWhole

Excused == disturbed \/ idled \/ junk

(* A client that sends a request in one piece and waits for the response is *)
(* answered once per request, in order, for the method and the connection   *)
(* header it sent.  The exceptions are the code's: a body that does not end *)
(* a line stays in the buffer (httprequest.cpp:61), becomes part of the     *)
(* next request's method and, when the client pauses for the read timeout,  *)
(* is answered as a request of its own (idled); and the stackless server    *)
(* sends what it found in write_buf_ before any request (junk).  Such a     *)
(* client overruns read_buf_ (async_read.cc:45) with one request that is as *)
(* long as the array, never with several short ones.                        *)
TooLong == \E i \in DOMAIN script : Len(Text[script[i]]) >= ReadBufferSize
AnswersFit ==
  /\ ~Excused /\ stage = "overrun" => TooLong
  /\ ~Excused /\ stage # "overrun" =>
       /\ Len(answers) <= Whole
       /\ \A i \in DOMAIN answers :
            /\ answers[i].n = i
            /\ answers[i].keep = KeepsAlive(script[i])
            /\ \/ answers[i].method = MethodOf(script[i])
               \/ server = "stackful" /\ i > 1 /\ HasBody(script[i - 1])

(* The destructor closes a connection that was closed before: the count of  *)
(* users stays exact, and the number of the socket, which may belong to the *)
(* next connection by then, is not closed again.                            *)
ClosedOnce ==
  /\ fd # "stolen"
  /\ userCount = (IF isClose THEN 0 ELSE 1) + (IF fd = "other" THEN 1 ELSE 0)

(* A file is mapped at most once at a time and no mapping outlives the      *)
(* connection, except those of files that AddContent_ mistakes for a failed *)
(* mapping.                                                                 *)
FilesAreUnmapped ==
  /\ maps = leaked + (IF mmFile THEN 1 ELSE 0)
  /\ phase = "done" => ~mmFile

(* A connection gives back what it took, once.                              *)
ResourcesAreReleased == ClosedOnce /\ FilesAreUnmapped

(* A request sent so is answered in full, unless the client leaves, the     *)
(* process crashed, read_buf_ was overrun, AsyncWrite forgot a rest         *)
(* (async_write.cc:43), or the response has no file and iov_[1] a length    *)
(* that nobody wrote: then the connection is closed, kept alive or not, or  *)
(* the fiber spins (httpconn.cc:68).                                        *)
StaleVector == iovCnt = 1 /\ iov[2].len > 0
Hopeless == Excused \/ gone \/ short \/ phase = "crashed" \/ stage = "overrun" \/ StaleVector
RequestIsAnswered ==
  (Answered < Whole) ~> (Answered >= Whole \/ Hopeless)

(* The fiber of a connection whose client has left ends.                    *)
ConnectionEnds ==
  (server = "stackful" /\ gone) ~> (phase \in {"done", "crashed", "spin"})

(* A client that stays is served, the connection of one that leaves ends.   *)
ClientIsServed == RequestIsAnswered /\ ConnectionEnds
=============================================================================
