----------------------------- MODULE HttpClient -----------------------------
(***************************************************************************)
(* What the two HTTP servers of the repository talk to: one client that    *)
(* sends the requests of a script over one connection, and the socket      *)
(* between them.  All of it is external.                                   *)
(*                                                                         *)
(* The text of a request is a sequence of tokens: "GET" and "POST" are the *)
(* method with its blank, "url" is the rest of the request line, "Con" and *)
(* "alive" the two halves of the header Connection: keep-alive, "len" is   *)
(* Content-length, "body" a form without blanks, "r" and "l" are the two   *)
(* characters that end a line.  TCP may cut the text anywhere.             *)
(***************************************************************************)
EXTENDS Integers, Sequences, FiniteSets, SequencesExt

CONSTANTS Scripts,      \* bound: the sequences of requests a client may send
          MaxCuts,      \* bound: requests that reach the server in pieces
          Window        \* bound: parts of a response the socket holds
ASSUME ClientAssumption ==
  Scripts \subseteq Seq({"plain", "keep", "form"}) /\ MaxCuts \in Nat /\ Window \in Nat \ {0}

VARIABLES
  server,               \* which server the client is connected to
  script, sent,         \* the requests; tokens sent so far
  inq, outq,            \* the socket, in both directions
  got,                  \* what the client has received
  gone,                 \* the client has closed its end
  answers,              \* history: the responses a server began to write
  cuts,                 \* history: sends that ended inside a request
  disturbed             \* history: there was one, or a request did not wait

clientVars == <<server, script, sent, inq, outq, got, gone, answers, cuts, disturbed>>

Text == [plain |-> <<"GET", "url", "r", "l", "r", "l">>,
         keep  |-> <<"GET", "url", "r", "l", "Con", "alive", "r", "l", "r", "l">>,
         form  |-> <<"POST", "url", "r", "l", "Con", "alive", "r", "l", "len", "r", "l",
                     "r", "l", "body">>]
MethodOf(kind) == IF kind = "form" THEN "POST" ELSE "GET"
KeepsAlive(kind) == kind # "plain"
HasBody(kind) == kind = "form"

Stream == FlattenSeq([i \in DOMAIN script |-> Text[script[i]]])
EndOf(i) == Len(FlattenSeq([j \in 1 .. i |-> Text[script[j]]]))
RequestEnds == {EndOf(i) : i \in DOMAIN script}
Whole == Cardinality({e \in RequestEnds : e <= sent})

(* Part i of the n-th response, which has size parts.                       *)
Part(n, i, size) == [n |-> n, i |-> i, last |-> i = size]
Answered == Cardinality({j \in DOMAIN got : got[j].last})

ClientInit ==
  /\ script \in Scripts
  /\ sent = 0 /\ inq = <<>> /\ outq = <<>> /\ got = <<>>
  /\ gone = FALSE /\ answers = <<>> /\ cuts = 0 /\ disturbed = FALSE

Send ==
  /\ ~gone
  /\ \E upTo \in sent + 1 .. Len(Stream) :
       /\ upTo \in RequestEnds \/ cuts < MaxCuts
       /\ cuts' = IF upTo \in RequestEnds THEN cuts ELSE cuts + 1
       /\ sent' = upTo /\ inq' = inq \o SubSeq(Stream, sent + 1, upTo)
       /\ disturbed' = (disturbed \/ Answered < Whole \/ upTo # EndOf(Whole + 1))
  /\ UNCHANGED <<server, script, outq, got, gone, answers>>

Receive ==
  /\ ~gone /\ outq # <<>>
  /\ got' = got \o outq /\ outq' = <<>>
  /\ UNCHANGED <<server, script, sent, inq, gone, answers, cuts, disturbed>>

Leave ==
  /\ ~gone /\ gone' = TRUE /\ outq' = <<>>
  /\ UNCHANGED <<server, script, sent, inq, got, answers, cuts, disturbed>>

Room == Window - Len(outq)
=============================================================================
