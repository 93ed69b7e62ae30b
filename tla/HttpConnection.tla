--------------------------- MODULE HttpConnection ---------------------------
(***************************************************************************)
(* A connection of the stackful HTTP server: HttpConn with its buffers,    *)
(* HttpRequest::parse one line per step, HttpResponse and its mapped file, *)
(* and the fiber that runs the keep-alive loop of test_fiber_http_server.  *)
(*                                                                         *)
(* What a request says is abstracted to its method and to whether the      *)
(* connection stays; forms and users are in HttpBackend.  Files differ in  *)
(* what AddContent_ meets: Files.                                          *)
(***************************************************************************)
EXTENDS HttpClient, HttpBuffer

CONSTANTS HeadLen, FileLen,     \* parts of the head, and of a file
          Files                 \* of "file", "missing", "marked", "empty"
ASSUME ConnectionAssumption ==
  /\ HeadLen \in Nat \ {0} /\ FileLen \in Nat \ {0}
  /\ Files \subseteq {"file", "missing", "marked", "empty"}

VARIABLES
  phase,                \* of the fiber
  readBuff, writeBuff,
  iov, iovCnt,          \* iov_[0], iov_[1] and how many of them writev1 gets
  request,              \* state_, method_, keep-alive header, parse's result
  mmFile, maps, leaked, \* a file is mapped; mappings alive; those nobody holds
  isClose, fd,          \* fd: mine, free, other (reused), stolen
  userCount,
  idled                 \* history: the read timed out while input was left over

httpVars == <<readBuff, writeBuff, iov, iovCnt, request, mmFile, maps, leaked,
              isClose, fd, userCount, idled>>
connVars == <<phase, httpVars>>

EmptyRequest == [state |-> "REQUEST_LINE", method |-> "none", keep |-> FALSE]

(* The constructor leaves iov_ as it finds the stack.                       *)
ConnInit ==
  /\ phase = "init"
  /\ readBuff = NewBuffer("zero") /\ writeBuff = NewBuffer(Part(0, 0, 1))
  /\ \E stale \in {0, 1} : iov = <<[base |-> 0, len |-> 0], [base |-> 0, len |-> stale]>>
  /\ iovCnt = 0 /\ request = EmptyRequest
  /\ mmFile = FALSE /\ maps = 0 /\ leaked = 0
  /\ isClose = TRUE /\ fd = "mine" /\ userCount = 0
  /\ idled = FALSE

Accepted ==
  /\ phase = "init" /\ phase' = "read"
  /\ userCount' = userCount + 1 /\ isClose' = FALSE
  /\ readBuff' = RetrieveAll(readBuff) /\ writeBuff' = RetrieveAll(writeBuff)
  /\ UNCHANGED <<clientVars, iov, iovCnt, request, mmFile, maps, leaked, fd, idled>>

-----------------------------------------------------------------------------
(* readv1 waits for input until the read timeout of the socket; at the end  *)
(* of the client's data it returns 0 and the connection is closed.          *)
ReadSome ==
  /\ phase = "read" /\ inq # <<>>
  /\ readBuff' = ReadInto(readBuff, inq) /\ inq' = <<>>
  /\ phase' = "process"
  /\ UNCHANGED <<server, script, sent, outq, got, gone, answers, cuts, disturbed,
                 writeBuff, iov, iovCnt, request, mmFile, maps, leaked, isClose, fd, userCount, idled>>
AfterEof == "close"

ReadEof ==
  /\ phase = "read" /\ inq = <<>> /\ gone
  /\ phase' = AfterEof
  /\ UNCHANGED <<clientVars, httpVars>>
ReadTimeout ==
  /\ phase = "read" /\ inq = <<>> /\ ~gone
  /\ phase' = "process"
  /\ idled' = (idled \/ Readable(readBuff) # <<>>)
  /\ UNCHANGED <<clientVars, readBuff, writeBuff, iov, iovCnt, request, mmFile, maps, leaked,
                 isClose, fd, userCount>>

(* process() begins with request_.Init().                                   *)
Cleared_KeepsHeader == [EmptyRequest EXCEPT !.keep = request.keep]
Cleared == EmptyRequest

Process ==
  /\ phase = "process"
  /\ request' = Cleared
  /\ phase' = IF Readable(readBuff) = <<>> THEN "read" ELSE "parse"
  /\ UNCHANGED <<clientVars, readBuff, writeBuff, iov, iovCnt, mmFile, maps, leaked,
                 isClose, fd, userCount, idled>>

-----------------------------------------------------------------------------
(* The next line: up to the first "\r\n", or all that is there.             *)
LineLen ==
  LET s == Readable(readBuff)
      ends == {i \in 1 .. Len(s) - 1 : s[i] = "r" /\ s[i + 1] = "l"}
  IN IF ends = {} THEN Len(s) ELSE Min(ends) - 1
Line == SubSeq(Readable(readBuff), 1, LineLen)
LineIsOpen == LineLen = Len(Readable(readBuff))

Blank == {"GET", "POST", "url", "alive", "len"}     \* tokens with a blank in them
Colon == {"alive", "len"}                           \* with a colon

(* The regular expressions of ParseRequestLine_ and ParseHeader_.  What     *)
(* stands before the method, with no blank between, is part of it.          *)
MethodAt(line) ==
  {i \in 1 .. Len(line) - 1 :
     /\ line[i] \in {"GET", "POST"} /\ line[i + 1] = "url"
     /\ \A j \in DOMAIN line \ {i, i + 1} : line[j] \notin Blank}
IsHeader(line) ==
  \E i \in DOMAIN line :
    /\ line[i] \in Colon /\ \A j \in 1 .. i - 1 : line[j] \notin Colon
    /\ \A j \in i + 1 .. Len(line) : line[j] \notin {"r", "l"}

(* At most two bytes are left, this line included.                          *)
NothingFollows ==
  LET s == Readable(readBuff) IN Len(s) <= 2 /\ \A i \in DOMAIN s : s[i] \in {"r", "l"}

ParsedLine ==
  CASE request.state = "REQUEST_LINE" ->
         [request EXCEPT !.state = "HEADERS",
                         !.method = IF 1 \in MethodAt(Line) THEN Line[1] ELSE "other"]
    [] request.state = "HEADERS" ->
         [request EXCEPT !.keep = @ \/ Line = <<"Con", "alive">>,
                         !.state = IF NothingFollows THEN "FINISH"
                                   ELSE IF IsHeader(Line) THEN @ ELSE "BODY"]
    [] request.state = "BODY" -> [request EXCEPT !.state = "FINISH"]

(* parse: the loop ends at FINISH, at the end of the input, at a line that  *)
(* has no end yet, which stays in the buffer, and at a bad request line.    *)
ParseEnds ==
  /\ phase = "parse"
  /\ Readable(readBuff) = <<>> \/ request.state = "FINISH"
  /\ phase' = "respond"
  /\ UNCHANGED <<clientVars, httpVars>>
BadRequestLine ==
  /\ phase = "parse" /\ Readable(readBuff) # <<>>
  /\ request.state = "REQUEST_LINE" /\ MethodAt(Line) = {}
  /\ phase' = "respond"
  /\ UNCHANGED <<clientVars, httpVars>>
ParseOneLine ==
  /\ phase = "parse" /\ Readable(readBuff) # <<>> /\ request.state # "FINISH"
  /\ request.state = "REQUEST_LINE" => MethodAt(Line) # {}
  /\ request' = ParsedLine
  /\ \/ LineIsOpen /\ phase' = "respond" /\ UNCHANGED readBuff
     \/ ~LineIsOpen /\ readBuff' = Retrieve(readBuff, LineLen + 2) /\ UNCHANGED phase
  /\ UNCHANGED <<clientVars, writeBuff, iov, iovCnt, mmFile, maps, leaked, isClose, fd, userCount, idled>>

-----------------------------------------------------------------------------
(* HttpResponse::Init, MakeResponse and the rest of process().  A file that *)
(* cannot be opened is replaced by a page in the head; one that begins with *)
(* the bytes of -1 too, and its mapping and descriptor are forgotten; the   *)
(* mapping of an empty one fails, and reading its first word ends the       *)
(* process.  The status and the path of an error page are left out.         *)
Unmapped == IF mmFile THEN maps - 1 ELSE maps

Respond ==
  /\ phase = "respond"
  /\ \E file \in Files \ {"empty"} :
       LET n == Len(answers) + 1
           head == IF file = "file" THEN HeadLen ELSE HeadLen + 1
           size == IF file = "file" THEN HeadLen + FileLen ELSE head
           buff == AppendTo(writeBuff, [i \in 1 .. head |-> Part(n, i, size)])
       IN /\ answers' = Append(answers, [n |-> n, size |-> size, method |-> request.method,
                                         keep |-> request.keep])
          /\ writeBuff' = buff
          /\ iov' = <<[base |-> buff.readPos, len |-> Len(Readable(buff))],
                      IF file = "file" THEN [base |-> 0, len |-> FileLen] ELSE iov[2]>>
          /\ iovCnt' = IF file = "file" THEN 2 ELSE 1
          /\ mmFile' = (file = "file")
          /\ maps' = Unmapped + IF file = "missing" THEN 0 ELSE 1
          /\ leaked' = leaked + IF file = "marked" THEN 1 ELSE 0
  /\ phase' = "write"
  /\ UNCHANGED <<server, script, sent, inq, outq, got, gone, cuts, disturbed,
                 readBuff, request, isClose, fd, userCount, idled>>
MapFails ==
  /\ phase = "respond" /\ "empty" \in Files
  /\ phase' = "crashed"
  /\ UNCHANGED <<clientVars, httpVars>>

-----------------------------------------------------------------------------
(* What writev1 is given, and what write() does with the count it returns.  *)
FileParts ==
  [j \in 1 .. iov[2].len |-> Part(Len(answers), HeadLen + iov[2].base + j, HeadLen + FileLen)]
Unsent ==
  SubSeq(writeBuff.cells, iov[1].base + 1, iov[1].base + iov[1].len)
    \o IF iovCnt = 2 THEN FileParts ELSE <<>>

Moved(v, len) == [base |-> v.base + len, len |-> v.len - len]
AfterWrite_WholeHead(len) ==
  IF len > iov[1].len
    THEN /\ iov' = <<[iov[1] EXCEPT !.len = 0], Moved(iov[2], len - iov[1].len)>>
         /\ writeBuff' = IF iov[1].len # 0 THEN RetrieveAll(writeBuff) ELSE writeBuff
    ELSE /\ iov' = <<[iov[1] EXCEPT !.len = @ - len], iov[2]>>
         /\ writeBuff' = Retrieve(writeBuff, len)
AfterWrite(len) ==
  IF len > iov[1].len
    THEN /\ iov' = <<[iov[1] EXCEPT !.len = 0], Moved(iov[2], len - iov[1].len)>>
         /\ writeBuff' = IF iov[1].len # 0 THEN RetrieveAll(writeBuff) ELSE writeBuff
    ELSE /\ iov' = <<Moved(iov[1], len), iov[2]>>
         /\ writeBuff' = Retrieve(writeBuff, len)

ToWriteBytes(v) == v[1].len + v[2].len

(* writev1 does not wait: with no room it fails with EAGAIN, and the fiber  *)
(* tries again at once.  That step changes nothing and is left out.         *)
WriteSome ==
  /\ phase = "write"
  /\ \E len \in 1 .. Len(Unsent) :
       /\ IF gone THEN len = Len(Unsent) ELSE len <= Room
       /\ outq' = IF gone THEN outq ELSE outq \o SubSeq(Unsent, 1, len)
       /\ AfterWrite(len)
  /\ phase' = IF ToWriteBytes(iov') # 0 THEN "write" ELSE "again"
  /\ UNCHANGED <<server, script, sent, inq, got, gone, answers, cuts, disturbed,
                 readBuff, iovCnt, request, mmFile, maps, leaked, isClose, fd, userCount, idled>>

(* The client is gone: an error, or the signal that ends the process.       *)
WriteFails ==
  /\ phase = "write" /\ gone /\ Unsent # <<>>
  /\ phase' \in {"close", "crashed"}
  /\ UNCHANGED <<clientVars, httpVars>>

(* Nothing to write, yet iov_[1] has a stale length: writev1 returns 0 and  *)
(* errno is that of some earlier call.  With EAGAIN the loop never ends.    *)
WriteNothing ==
  /\ phase = "write" /\ Unsent = <<>>
  /\ phase' \in {"close", "spin"}
  /\ UNCHANGED <<clientVars, httpVars>>

KeepOrClose ==
  /\ phase = "again"
  /\ phase' = IF request.keep THEN "read" ELSE "close"
  /\ UNCHANGED <<clientVars, httpVars>>

(* Close(), called by the fiber and again by the destructor.                *)
MustClose_Always == TRUE
MustClose == ~isClose

Close ==
  /\ phase \in {"close", "destroy"}
  /\ maps' = Unmapped /\ mmFile' = FALSE
  /\ \/ /\ MustClose
        /\ isClose' = TRUE /\ userCount' = userCount - 1
        /\ fd' = IF fd = "other" THEN "stolen" ELSE "free"
     \/ ~MustClose /\ UNCHANGED <<isClose, userCount, fd>>
  /\ phase' = IF phase = "close" THEN "destroy" ELSE "done"
  /\ UNCHANGED <<clientVars, readBuff, writeBuff, iov, iovCnt, request, leaked, idled>>

(* The number of the closed socket goes to the next connection, before the  *)
(* destructor runs.                                                         *)
NumberReused ==
  /\ phase = "destroy" /\ fd = "free"
  /\ fd' = "other" /\ userCount' = userCount + 1
  /\ UNCHANGED <<clientVars, phase, readBuff, writeBuff, iov, iovCnt, request, mmFile, maps, leaked,
                 isClose, idled>>

ConnStep ==
  \/ Accepted \/ ReadSome \/ ReadEof \/ ReadTimeout \/ Process
  \/ ParseEnds \/ BadRequestLine \/ ParseOneLine \/ Respond \/ MapFails
  \/ WriteSome \/ WriteFails \/ WriteNothing \/ KeepOrClose \/ Close
=============================================================================
