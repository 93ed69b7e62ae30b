----------------------------- MODULE HttpParse -----------------------------
(***************************************************************************)
(* pio::HttpConn and its handler on the stackless scheduler               *)
(* (test_async_task_http_parse.cc): read into the front of read_buf_,      *)
(* parse one line per step, write write_buf_ up to its first NUL, forget.  *)
(*                                                                         *)
(* CoServer models how the scheduler resumes the handler; here an          *)
(* asynchronous operation is one step, taken when its event is there.      *)
(* Tokens stand for bytes, and a response is two parts.                    *)
(***************************************************************************)
EXTENDS HttpClient

CONSTANTS ReadBufferSize, ReplyLen
ASSUME ParseAssumption == ReadBufferSize \in Nat \ {0} /\ ReplyLen \in Nat \ {0}

VARIABLES
  stage,                \* read, process, parse, write, overrun
  rbuf, wbuf,           \* read_buf_; write_buf_ up to its NUL
  scan,                 \* the members that init() resets, and line_status
  armed,                \* what the socket is registered for: any, in, out, none
  junk,                 \* history: the arrays were not empty when constructed
  short                 \* history: a response was written in part

parseVars == <<stage, rbuf, wbuf, scan, armed, junk, short>>

ScanInit == [checked |-> 0, start |-> 0, readIdx |-> 0, state |-> "requestline",
             method |-> "GET", length |-> 0, linger |-> FALSE, status |-> "ok"]

(* Nobody initialises the two arrays.                                       *)
ParseInit ==
  /\ stage = "read" /\ armed = "any"
  /\ junk \in BOOLEAN
  /\ wbuf = IF junk THEN <<Part(0, 0, 1)>> ELSE <<>>
  /\ rbuf = [i \in 1 .. ReadBufferSize |-> IF junk /\ i < ReadBufferSize THEN "junk" ELSE "nul"]
  /\ scan = ScanInit /\ short = FALSE

-----------------------------------------------------------------------------
(* AsyncRead reads until the socket is empty and adds no NUL.  The socket   *)
(* is writable when it is registered, so the first call returns at once,    *)
(* with or without input.                                                   *)
Refilled == [i \in DOMAIN rbuf |-> IF i \in DOMAIN inq THEN inq[i] ELSE rbuf[i]]

Reads(label) ==
  /\ stage = "read" /\ stage' = label
  /\ armed = "any" \/ (armed = "in" /\ inq # <<>> /\ ~gone)
  /\ inq' = <<>> /\ armed' = "out"
  /\ UNCHANGED <<server, script, sent, outq, got, gone, answers, cuts, disturbed, wbuf, scan, junk, short>>

AsyncRead ==
  /\ Len(inq) < ReadBufferSize
  /\ Reads("process") /\ rbuf' = Refilled

(* It does not know how long the array is.  Input as long as the array      *)
(* leaves it without an end, longer input goes on into write_buf_, the      *)
(* members and what follows: what the handler does then is undefined, and   *)
(* the model ends for it here.                                              *)
Overrun ==
  /\ Len(inq) >= ReadBufferSize
  /\ Reads("overrun") /\ UNCHANGED rbuf

(* A hang-up is no error to the handler: it goes on, and nobody arms the    *)
(* one-shot registration again.                                             *)
Hangup ==
  /\ gone
  /\ \/ stage = "read" /\ armed = "in" /\ stage' = "process" /\ UNCHANGED scan
     \/ stage = "write" /\ armed = "out" /\ stage' = "read" /\ scan' = ScanInit
  /\ armed' = "none"
  /\ UNCHANGED <<clientVars, rbuf, wbuf, junk, short>>

(* Process: read_idx_ = strlen(read_buf_)                                   *)
Strlen(cells) == Min({i \in DOMAIN cells : cells[i] = "nul"}) - 1
BeginProcess ==
  /\ stage = "process" /\ stage' = "parse"
  /\ scan' = [scan EXCEPT !.readIdx = Strlen(rbuf), !.status = "ok"]
  /\ UNCHANGED <<clientVars, rbuf, wbuf, armed, junk, short>>

-----------------------------------------------------------------------------
(* ParseLine: the first character that may end a line, and what follows it. *)
FirstEnd ==
  LET ends == {i \in scan.checked .. scan.readIdx - 1 : rbuf[i + 1] \in {"r", "l"}}
  IN IF ends = {} THEN scan.readIdx ELSE Min(ends)
LineStatus ==
  CASE FirstEnd >= scan.readIdx - 1 /\ (FirstEnd = scan.readIdx \/ rbuf[FirstEnd + 1] = "r") -> "open"
    [] rbuf[FirstEnd + 1] = "r" /\ rbuf[FirstEnd + 2] = "l" -> "ok"
    [] OTHER -> "bad"
LineText == SubSeq(rbuf, scan.start + 1, FirstEnd)

ParseHeaders(s, text) ==
  CASE text = <<"Con", "alive">> -> [s EXCEPT !.linger = TRUE]
    [] text = <<"len">> -> [s EXCEPT !.length = 1]
    [] OTHER -> s

(* ProcessRead's result, and ProcessWrite: the answer replaces write_buf_,  *)
(* NO_REQUEST leaves it as it is.                                           *)
Reply == [i \in 1 .. ReplyLen |-> Part(Len(answers) + 1, i, ReplyLen)]
NoRequest == stage' = "write" /\ UNCHANGED wbuf
Replied == stage' = "write" /\ wbuf' = Reply

ReadLine ==
  /\ stage = "parse"
  /\ scan.state # "content" \/ scan.status # "ok"
  /\ LET next == [scan EXCEPT !.checked = FirstEnd + 2, !.start = FirstEnd + 2, !.status = "ok"]
     IN \/ /\ LineStatus # "ok"
           /\ NoRequest /\ UNCHANGED <<rbuf, scan>>
        \/ /\ LineStatus = "ok"
           /\ rbuf' = [rbuf EXCEPT ![FirstEnd + 1] = "nul", ![FirstEnd + 2] = "nul"]
           /\ \/ /\ scan.state = "requestline"
                 /\ LineText \in {<<"GET", "url">>, <<"POST", "url">>}
                 /\ scan' = [next EXCEPT !.state = "header", !.method = LineText[1]]
                 /\ UNCHANGED <<stage, wbuf>>
              \/ /\ scan.state = "requestline"
                 /\ LineText \notin {<<"GET", "url">>, <<"POST", "url">>}
                 /\ scan' = next /\ Replied
              \/ /\ scan.state = "header" /\ LineText # <<>>
                 /\ scan' = ParseHeaders(next, LineText)
                 /\ UNCHANGED <<stage, wbuf>>
              \/ /\ scan.state = "header" /\ LineText = <<>> /\ scan.length = 0
                 /\ scan' = next /\ Replied
              \/ /\ scan.state = "header" /\ LineText = <<>> /\ scan.length # 0
                 /\ scan' = [next EXCEPT !.state = "content"]
                 /\ UNCHANGED <<stage, wbuf>>
  /\ UNCHANGED <<clientVars, armed, junk, short>>

(* ParseContent ends the body with a NUL, which may fall on the first       *)
(* character of a request sent ahead.                                       *)
ContentIsThere_OffByOne == scan.readIdx > scan.length + scan.checked
ContentIsThere == scan.readIdx >= scan.length + scan.checked
ReadContent ==
  /\ stage = "parse" /\ scan.state = "content" /\ scan.status = "ok"
  /\ \/ /\ ContentIsThere /\ Replied /\ UNCHANGED scan
        /\ rbuf' = [rbuf EXCEPT ![scan.checked + scan.length + 1] = "nul"]
     \/ /\ ~ContentIsThere /\ scan' = [scan EXCEPT !.status = "open"]
        /\ UNCHANGED <<stage, wbuf, rbuf>>
  /\ UNCHANGED <<clientVars, armed, junk, short>>

-----------------------------------------------------------------------------
(* AsyncWrite writes what the socket takes and forgets the rest; init().    *)
AsyncWrite ==
  /\ stage = "write" /\ armed = "out" /\ ~gone /\ Room > 0
  /\ LET k == Min({Len(wbuf), Room})
     IN /\ outq' = outq \o SubSeq(wbuf, 1, k)
        /\ short' = (short \/ k < Len(wbuf))
  /\ answers' = IF wbuf = <<>> THEN answers
                ELSE Append(answers, [n |-> wbuf[1].n, size |-> Len(wbuf), method |-> scan.method,
                                      keep |-> scan.linger])
  /\ scan' = ScanInit /\ armed' = "in" /\ stage' = "read"
  /\ UNCHANGED <<server, script, sent, inq, got, gone, cuts, disturbed, rbuf, wbuf, junk>>

HandlerStep ==
  AsyncRead \/ Overrun \/ Hangup \/ BeginProcess \/ ReadLine \/ ReadContent \/ AsyncWrite
=============================================================================
