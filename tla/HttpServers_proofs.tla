------------------------- MODULE HttpServers_proofs -------------------------
(***************************************************************************)
(* For every script, buffer size, response length and set of files there   *)
(* may be: a connection of the stackful server is closed once and keeps no *)
(* file mapped, although Close is called twice and decides by isClose_     *)
(* alone; and the bytes of a connection keep their order in both           *)
(* directions, through the two buffers and the two vectors.                *)
(*                                                                         *)
(* And of both servers: a client that sends a request in one piece when    *)
(* the one before it is answered, is answered once per request, in order,  *)
(* for the method and the connection header it sent (RequestsAreAnswered). *)
(* RequestsFit follows each kind of request through both parsers line by   *)
(* line.  That the stackless one never clears read_buf_ is harmless only   *)
(* because the cells at which strlen may stop (Marks) are NUL again after  *)
(* every request, each of which has put NULs over its line ends.  A client *)
(* that keeps the rules overruns the array only with one request that is   *)
(* as long as the array (OverrunsFit).                                     *)
(*                                                                         *)
(* Nothing of this recurses over the data: the invariants compare          *)
(* sequences position by position.  FlattenSeq, of which the responses are *)
(* made up, is handled by its recursive equation (Flattens), for which     *)
(* induction over the numbers is derived from NatLessThanWellFounded.      *)
(***************************************************************************)
EXTENDS HttpServers, SequenceTheorems, FiniteSetTheorems, WellFoundedInduction, TLAPS

(*-------------------------- What is given back --------------------------*)
Phases ==
  {"init", "read", "process", "parse", "respond", "write", "again", "close",
   "destroy", "done", "spin", "crashed"}
Over == {"destroy", "done"}

(* isClose_ is right before the first Close and after it, and the number is *)
(* this connection's own exactly until then.                                *)
CloseFollowsPhase ==
  /\ phase \in Phases
  /\ isClose \in BOOLEAN
  /\ isClose <=> (phase \in {"init"} \cup Over)
  /\ phase \notin Over => fd = "mine"
  /\ phase \in Over => fd \in {"free", "other"}
  /\ userCount = (IF isClose THEN 0 ELSE 1) + (IF fd = "other" THEN 1 ELSE 0)

MappingsAreHeld ==
  /\ leaked \in Nat /\ maps \in Nat /\ mmFile \in BOOLEAN
  /\ maps = leaked + (IF mmFile THEN 1 ELSE 0)
  /\ phase = "done" => ~mmFile

IInv == CloseFollowsPhase /\ MappingsAreHeld

closing == <<phase, isClose, fd, userCount, mmFile, maps, leaked>>

(* Everything the client and the other server do leaves IInv alone.         *)
LEMMA Stutter == IInv /\ UNCHANGED closing => IInv'
  BY DEF IInv, CloseFollowsPhase, MappingsAreHeld, closing

(* Steps of the fiber that only move it to another phase of the open        *)
(* connection.                                                              *)
LEMMA StaysOpen ==
  ASSUME IInv, phase \notin {"init"} \cup Over,
         phase' \in Phases \ ({"init"} \cup Over),
         UNCHANGED <<isClose, fd, userCount, mmFile, maps, leaked>>
  PROVE  IInv'
  BY DEF IInv, CloseFollowsPhase, MappingsAreHeld, Phases, Over

(* The connection has not been counted and maps nothing.                    *)
LEMMA Initially == Init => IInv
<1> SUFFICES ASSUME Init
             PROVE  IInv
  OBVIOUS
<1>1. /\ phase = "init" /\ isClose = TRUE /\ fd = "mine" /\ userCount = 0
      /\ mmFile = FALSE /\ maps = 0 /\ leaked = 0
  BY DEF Init, ConnInit
<1>2. mmFile \in BOOLEAN /\ ~mmFile
  BY <1>1
<1>3. MappingsAreHeld
  BY <1>1, <1>2 DEF MappingsAreHeld
<1>4. CloseFollowsPhase
  BY <1>1 DEF CloseFollowsPhase, Phases, Over
<1>5. QED
  BY <1>3, <1>4 DEF IInv

(* process() maps at most one file, and knows of it or gives it up.         *)
LEMMA ResponsePreserves ==
  ASSUME IInv, Respond
  PROVE  IInv'
<1>1. PICK file \in Files \ {"empty"} :
        /\ phase = "respond" /\ phase' = "write"
        /\ mmFile' = (file = "file")
        /\ maps' = Unmapped + IF file = "missing" THEN 0 ELSE 1
        /\ leaked' = leaked + IF file = "marked" THEN 1 ELSE 0
        /\ UNCHANGED <<isClose, fd, userCount>>
  BY DEF Respond
<1>2. file \in {"file", "missing", "marked"}
  BY ConnectionAssumption
<1>3. Unmapped = leaked
  BY DEF IInv, MappingsAreHeld, Unmapped
<1>4. leaked \in Nat
  BY DEF IInv, MappingsAreHeld
<1>5. MappingsAreHeld'
  <2>1. CASE file = "file"
    <3>1. mmFile' = TRUE
      BY <1>1, <2>1
    <3>2. maps' = leaked + 1 /\ leaked' = leaked
      BY <1>1, <1>3, <1>4, <2>1
    <3>3. QED
      BY <1>1, <1>4, <3>1, <3>2 DEF MappingsAreHeld
  <2>2. CASE file = "missing"
    <3>1. mmFile' = FALSE
      BY <1>1, <2>2
    <3>2. maps' = leaked /\ leaked' = leaked
      BY <1>1, <1>3, <1>4, <2>2
    <3>3. QED
      BY <1>1, <1>4, <3>1, <3>2 DEF MappingsAreHeld
  <2>3. CASE file = "marked"
    <3>1. mmFile' = FALSE
      BY <1>1, <2>3
    <3>2. maps' = leaked + 1 /\ leaked' = leaked + 1
      BY <1>1, <1>3, <1>4, <2>3
    <3>3. QED
      BY <1>1, <1>4, <3>1, <3>2 DEF MappingsAreHeld
  <2>4. QED
    BY <1>2, <2>1, <2>2, <2>3
<1>6. CloseFollowsPhase'
  BY <1>1 DEF IInv, CloseFollowsPhase, Phases, Over
<1>7. QED
  BY <1>5, <1>6 DEF IInv

(* Close(), by the fiber and by the destructor.                             *)
LEMMA ClosePreserves ==
  ASSUME IInv, Close
  PROVE  IInv'
<1>1. MappingsAreHeld'
  <2>1. leaked \in Nat /\ Unmapped = leaked
    BY DEF IInv, MappingsAreHeld, Unmapped
  <2>2. maps' = leaked /\ leaked' = leaked
    BY <2>1 DEF Close
  <2>3. mmFile' \in BOOLEAN /\ ~mmFile'
    BY DEF Close
  <2>4. QED
    BY <2>1, <2>2, <2>3 DEF MappingsAreHeld
<1>2. CASE phase = "close"
  <2>1. ~isClose /\ fd = "mine" /\ userCount = 1
    BY <1>2 DEF IInv, CloseFollowsPhase, Over
  <2>2. isClose' = TRUE /\ userCount' = 0 /\ fd' = "free" /\ phase' = "destroy"
    BY <1>2, <2>1 DEF Close, MustClose
  <2>3. CloseFollowsPhase'
    BY <2>2 DEF CloseFollowsPhase, Phases, Over
  <2>4. QED
    BY <1>1, <2>3 DEF IInv
<1>3. CASE phase = "destroy"
  <2>1. isClose /\ fd \in {"free", "other"}
    BY <1>3 DEF IInv, CloseFollowsPhase, Over
  <2>2. phase' = "done" /\ UNCHANGED <<isClose, userCount, fd>>
    BY <1>3, <2>1 DEF Close, MustClose
  <2>3. CloseFollowsPhase'
    BY <1>3, <2>1, <2>2 DEF IInv, CloseFollowsPhase, Phases, Over
  <2>4. QED
    BY <1>1, <2>3 DEF IInv
<1>4. QED
  BY <1>2, <1>3 DEF Close

(* Every step of the fiber.                                                 *)
LEMMA FiberPreserves ==
  ASSUME IInv, ConnStep
  PROVE  IInv'
<1> USE DEF httpVars, Phases, Over
<1>1. CASE Accepted
  <2>1. fd = "mine" /\ userCount = 0
    BY <1>1 DEF Accepted, IInv, CloseFollowsPhase
  <2>2. phase' = "read" /\ userCount' = 1 /\ fd' = "mine"
    BY <1>1, <2>1 DEF Accepted
  <2>3. isClose' \in BOOLEAN /\ ~isClose'
    BY <1>1 DEF Accepted
  <2>4. CloseFollowsPhase'
    BY <2>2, <2>3 DEF CloseFollowsPhase
  <2>5. MappingsAreHeld'
    BY <1>1 DEF Accepted, IInv, MappingsAreHeld
  <2>6. QED
    BY <2>4, <2>5 DEF IInv
<1>2. CASE ReadSome
  BY <1>2, StaysOpen DEF ReadSome
<1>3. CASE ReadEof
  BY <1>3, StaysOpen DEF ReadEof, AfterEof
<1>4. CASE ReadTimeout
  BY <1>4, StaysOpen DEF ReadTimeout
<1>5. CASE Process
  BY <1>5, StaysOpen DEF Process
<1>6. CASE ParseEnds
  BY <1>6, StaysOpen DEF ParseEnds
<1>7. CASE BadRequestLine
  BY <1>7, StaysOpen DEF BadRequestLine
<1>8. CASE ParseOneLine
  BY <1>8, StaysOpen DEF ParseOneLine
<1>9. CASE Respond
  BY <1>9, ResponsePreserves
<1>10. CASE MapFails
  BY <1>10, StaysOpen DEF MapFails
<1>11. CASE WriteSome
  BY <1>11, StaysOpen DEF WriteSome
<1>12. CASE WriteFails
  BY <1>12, StaysOpen DEF WriteFails
<1>13. CASE WriteNothing
  BY <1>13, StaysOpen DEF WriteNothing
<1>14. CASE KeepOrClose
  BY <1>14, StaysOpen DEF KeepOrClose
<1>15. CASE Close
  BY <1>15, ClosePreserves
<1>16. QED
  BY <1>1, <1>2, <1>3, <1>4, <1>5, <1>6, <1>7, <1>8, <1>9, <1>10, <1>11, <1>12,
     <1>13, <1>14, <1>15 DEF ConnStep

(* Every step of the system.                                                *)
LEMMA StepPreserves == IInv /\ [Next]_vars => IInv'
<1> SUFFICES ASSUME IInv, [Next]_vars
             PROVE  IInv'
  OBVIOUS
<1>1. CASE server = "stackful" /\ ConnStep
  BY <1>1, FiberPreserves
<1>2. CASE UNCHANGED connVars
  BY <1>2, Stutter DEF connVars, httpVars, closing
<1>3. CASE NumberReused
  BY <1>3 DEF NumberReused, IInv, CloseFollowsPhase, MappingsAreHeld, Over
<1>4. QED
  BY <1>1, <1>2, <1>3 DEF Next, ServerStep, vars, connVars

(* IInv holds in every reachable state.                                     *)
THEOREM Invariance == Spec => []IInv
<1>1. QED
  BY Initially, StepPreserves, PTL DEF Spec

(* Close and the destructor close the socket's number once and count the    *)
(* connection out once, also when the number has been given to the next     *)
(* connection between the two; every mapping of a file is held by the       *)
(* response or was given up by AddContent_, and none is held when the       *)
(* connection object is gone (ResourcesAreReleased).                        *)
THEOREM Releases == Spec => []ResourcesAreReleased
<1>1. IInv => ClosedOnce
  BY DEF IInv, CloseFollowsPhase, ClosedOnce, Over
<1>2. IInv => FilesAreUnmapped
  BY DEF IInv, MappingsAreHeld, FilesAreUnmapped
<1>3. IInv => ResourcesAreReleased
  BY <1>1, <1>2 DEF ResourcesAreReleased
<1>4. QED
  BY <1>3, Invariance, PTL

-----------------------------------------------------------------------------
(* Induction                                                                *)

(* A set of numbers has a least one.                                        *)
LEMMA LeastNumber ==
  ASSUME NEW N \in SUBSET Nat, N # {}
  PROVE  \E x \in N : \A y \in N : x <= y
<1>1. PICK R : R = OpToRel(<, Nat)
  OBVIOUS
<1>2. IsWellFoundedOn(R, Nat)
  BY <1>1, NatLessThanWellFounded
<1>3. PICK x \in N : \A y \in N : <<y, x>> \notin R
  BY <1>2, WFMin
<1>4. \A y, z \in Nat : y < z => <<y, z>> \in R
  BY <1>1 DEF OpToRel
<1>5. ASSUME NEW y \in N PROVE x <= y
  <2>1. x \in Nat /\ y \in Nat /\ ~(y < x)
    BY <1>3, <1>4
  <2>. QED  BY <2>1
<1>. QED  BY <1>5

(* What holds of 0, and of n + 1 if it holds of n, holds of all numbers.    *)
LEMMA SetInduction ==
  ASSUME NEW N, 0 \in N, \A n \in Nat : n \in N => n + 1 \in N
  PROVE  Nat \subseteq N
<1>1. SUFFICES ASSUME NEW M, M = {n \in Nat : n \notin N}, M # {} PROVE FALSE
  OBVIOUS
<1>2. PICK x \in M : \A y \in M : x <= y
  BY <1>1, LeastNumber
<1>3. x \in Nat /\ x # 0 /\ x \notin N
  BY <1>1, <1>2
<1>4. x - 1 \in Nat /\ (x - 1) + 1 = x
  BY <1>3
<1>5. x - 1 \in N
  BY <1>1, <1>2, <1>4
<1>. QED  BY <1>3, <1>4, <1>5

-----------------------------------------------------------------------------
(* Putting sequences one after the other                                    *)

(* g holds the values of FlattenSeq for the first m sequences of ss.        *)
Flattens(S, ss, m, g) ==
  /\ g \in [1 .. m -> Seq(S)]
  /\ \A i \in 1 .. m : g[i] = IF i = 1 THEN ss[i] ELSE g[i - 1] \o ss[i]

(* The next value, and the values with it.                                  *)
NextValue(ss, m, g) == IF m = 0 THEN ss[m + 1] ELSE g[m] \o ss[m + 1]
MoreValues(ss, m, g) == [i \in 1 .. m + 1 |-> IF i = m + 1 THEN NextValue(ss, m, g) ELSE g[i]]

(* One more sequence extends the function that flattens the first m.        *)
LEMMA FlattensOneMore ==
  ASSUME NEW S, NEW ss, NEW m \in Nat, NEW g, Flattens(S, ss, m, g), ss[m + 1] \in Seq(S)
  PROVE  Flattens(S, ss, m + 1, MoreValues(ss, m, g))
<1>. DEFINE x == NextValue(ss, m, g)
            h == MoreValues(ss, m, g)
<1>0. x = IF m = 0 THEN ss[m + 1] ELSE g[m] \o ss[m + 1]
  BY DEF NextValue
<1>1. h = [i \in 1 .. m + 1 |-> IF i = m + 1 THEN x ELSE g[i]]
  BY DEF MoreValues
<1>. HIDE DEF x, h
<1>2. x \in Seq(S)
  <2>1. CASE m = 0
    BY <1>0, <2>1
  <2>2. CASE m # 0
    <3>1. g[m] \in Seq(S)
      BY <2>2 DEF Flattens
    <3>2. g[m] \o ss[m + 1] \in Seq(S)
      BY <3>1
    <3>. QED  BY <1>0, <2>2, <3>2
  <2>. QED  BY <2>1, <2>2
<1>3. h \in [1 .. m + 1 -> Seq(S)]
  BY <1>1, <1>2 DEF Flattens
<1>4. ASSUME NEW i \in 1 .. m + 1
      PROVE  h[i] = IF i = 1 THEN ss[i] ELSE h[i - 1] \o ss[i]
  <2>1. CASE i = m + 1
    <3>1. h[i] = x
      BY <1>1, <2>1
    <3>2. CASE m = 0
      BY <1>0, <2>1, <3>1, <3>2
    <3>3. CASE m # 0
      <4>1. h[i - 1] = g[m]
        <5>1. i - 1 = m /\ m \in 1 .. m + 1 /\ m # m + 1
          BY <2>1, <3>3
        <5>. QED  BY <1>1, <5>1
      <4>2. i # 1
        BY <2>1, <3>3
      <4>. QED  BY <1>0, <2>1, <3>1, <3>3, <4>1, <4>2
    <3>. QED  BY <3>2, <3>3
  <2>2. CASE i # m + 1
    <3>1. i \in 1 .. m /\ h[i] = g[i]
      BY <1>1, <2>2
    <3>2. CASE i = 1
      BY <3>1, <3>2 DEF Flattens
    <3>3. CASE i # 1
      <4>1. i - 1 \in 1 .. m + 1 /\ i - 1 # m + 1
        BY <3>1, <3>3
      <4>2. h[i - 1] = g[i - 1]
        BY <1>1, <4>1
      <4>3. g[i] = g[i - 1] \o ss[i]
        BY <3>1, <3>3 DEF Flattens
      <4>. QED  BY <3>1, <3>3, <4>2, <4>3
    <3>. QED  BY <3>2, <3>3
  <2>. QED  BY <2>1, <2>2
<1>5. Flattens(S, ss, m + 1, h)
  BY <1>3, <1>4 DEF Flattens
<1>. QED  BY <1>5 DEF h

(* The recursion of FlattenSeq has a solution.                              *)
LEMMA FlattensExists ==
  ASSUME NEW S, NEW ss \in Seq(Seq(S))
  PROVE  \E g : Flattens(S, ss, Len(ss), g)
<1>1. PICK N : N = {m \in Nat : m <= Len(ss) => \E g : Flattens(S, ss, m, g)}
  OBVIOUS
<1>2. 0 \in N
  <2>1. PICK g : g = [i \in 1 .. 0 |-> <<>>]
    OBVIOUS
  <2>2. Flattens(S, ss, 0, g)
    BY <2>1 DEF Flattens
  <2>. QED  BY <1>1, <2>2
<1>3. ASSUME NEW m \in Nat, m \in N PROVE m + 1 \in N
  <2>1. SUFFICES ASSUME m + 1 <= Len(ss) PROVE \E g : Flattens(S, ss, m + 1, g)
    BY <1>1
  <2>2. \E g : Flattens(S, ss, m, g)
    BY <1>1, <1>3, <2>1
  <2>3. ss[m + 1] \in Seq(S)
    BY <2>1
  <2>. QED  BY <2>2, <2>3, FlattensOneMore
<1>4. Len(ss) \in N
  BY <1>2, <1>3, SetInduction, SMTT(20)
<1>. QED  BY <1>1, <1>4

(* f is what FlattenSeq computes of n sequences.                            *)
FlattenFcn(ss, n, f) == f = [i \in 1 .. n |-> IF i = 1 THEN ss[i] ELSE f[i - 1] \o ss[i]]

(* ... and only one.                                                        *)
LEMMA FlattenUnique ==
  ASSUME NEW S, NEW ss, NEW n \in Nat \ {0}, NEW g, Flattens(S, ss, n, g),
         NEW f, FlattenFcn(ss, n, f)
  PROVE  f[n] = g[n]
<1>1. PICK N : N = {m \in Nat : m \in 1 .. n => f[m] = g[m]}
  OBVIOUS
<1>2. 0 \in N
  BY <1>1
<1>3. \A i \in 1 .. n : f[i] = IF i = 1 THEN ss[i] ELSE f[i - 1] \o ss[i]
  <2>. DEFINE F(i) == IF i = 1 THEN ss[i] ELSE f[i - 1] \o ss[i]
  <2>1. f = [i \in 1 .. n |-> F(i)]
    BY DEF FlattenFcn
  <2>. HIDE DEF F
  <2>2. \A i \in 1 .. n : f[i] = F(i)
    BY <2>1
  <2>. QED  BY <2>2 DEF F
<1>4. \A i \in 1 .. n : g[i] = IF i = 1 THEN ss[i] ELSE g[i - 1] \o ss[i]
  BY DEF Flattens
<1>5. ASSUME NEW m \in Nat, m \in N PROVE m + 1 \in N
  <2>1. SUFFICES ASSUME m + 1 \in 1 .. n PROVE f[m + 1] = g[m + 1]
    BY <1>1
  <2>2. PICK k \in 1 .. n : k = m + 1
    BY <2>1
  <2>3. f[k] = IF k = 1 THEN ss[k] ELSE f[k - 1] \o ss[k]
    BY <1>3
  <2>4. g[k] = IF k = 1 THEN ss[k] ELSE g[k - 1] \o ss[k]
    BY <1>4
  <2>5. k # 1 => k - 1 = m /\ m \in 1 .. n
    BY <2>2
  <2>6. f[k] = g[k]
    BY <1>1, <1>5, <2>3, <2>4, <2>5
  <2>. QED  BY <2>2, <2>6
<1>6. n \in N
  BY <1>2, <1>5, SetInduction
<1>. QED  BY <1>1, <1>6

(* FlattenSeq is the last value of the recursion.                           *)
LEMMA FlattenSteps ==
  ASSUME NEW S, NEW ss, Len(ss) \in Nat \ {0}, NEW g, Flattens(S, ss, Len(ss), g)
  PROVE  FlattenSeq(ss) = g[Len(ss)]
<1>1. PICK n \in Nat \ {0} : n = Len(ss)
  OBVIOUS
<1>2. FlattenFcn(ss, n, g)
  BY <1>1 DEF Flattens, FlattenFcn
<1>3. PICK f : f = CHOOSE h : h = [i \in 1 .. n |-> IF i = 1 THEN ss[i] ELSE h[i - 1] \o ss[i]]
  OBVIOUS
<1>4. FlattenFcn(ss, n, f)
  BY <1>2, <1>3, Zenon DEF FlattenFcn
<1>5. FlattenSeq(ss) = f[n]
  BY <1>1, <1>3 DEF FlattenSeq
<1>. QED  BY <1>1, <1>4, <1>5, FlattenUnique

(* Nothing, one after the other, is nothing.                                *)
LEMMA FlattenNothing == FlattenSeq(<<>>) = <<>>
  BY DEF FlattenSeq

(* FlattenSeq makes a sequence.                                             *)
LEMMA FlattenIsSeq ==
  ASSUME NEW S, NEW ss \in Seq(Seq(S))
  PROVE  FlattenSeq(ss) \in Seq(S)
<1>1. CASE Len(ss) = 0
  <2>1. ss = <<>>
    BY <1>1
  <2>2. FlattenSeq(ss) = <<>>
    BY <2>1, FlattenNothing
  <2>. QED  BY <2>2
<1>2. CASE Len(ss) # 0
  <2>1. Len(ss) \in Nat \ {0}
    BY <1>2
  <2>2. PICK g : Flattens(S, ss, Len(ss), g)
    BY FlattensExists
  <2>3. FlattenSeq(ss) = g[Len(ss)]
    BY <2>1, <2>2, FlattenSteps
  <2>4. Len(ss) \in 1 .. Len(ss)
    BY <2>1
  <2>5. g[Len(ss)] \in Seq(S)
    BY <2>2, <2>4 DEF Flattens
  <2>. QED  BY <2>3, <2>5
<1>. QED  BY <1>1, <1>2

(* One more sequence is added at the end.                                   *)
LEMMA FlattenAppend ==
  ASSUME NEW S, NEW ss \in Seq(Seq(S)), NEW s \in Seq(S)
  PROVE  FlattenSeq(Append(ss, s)) = FlattenSeq(ss) \o s
<1>1. PICK n \in Nat : n = Len(ss)
  OBVIOUS
<1>2. PICK tt : tt = Append(ss, s)
  OBVIOUS
<1>3. Len(tt) = n + 1 /\ tt[n + 1] = s /\ \A i \in 1 .. n : tt[i] = ss[i]
  BY <1>1, <1>2
<1>4. PICK g : Flattens(S, ss, n, g)
  BY <1>1, FlattensExists
<1>5. Flattens(S, tt, n, g)
  BY <1>3, <1>4 DEF Flattens
<1>6. PICK x : x = NextValue(tt, n, g)
  OBVIOUS
<1>7. PICK h : h = MoreValues(tt, n, g)
  OBVIOUS
<1>8. Flattens(S, tt, n + 1, h) /\ h[n + 1] = x
  <2>1. tt[n + 1] \in Seq(S)
    BY <1>3
  <2>2. Flattens(S, tt, n + 1, h)
    BY <1>5, <1>7, <2>1, FlattensOneMore
  <2>3. h[n + 1] = x
    BY <1>6, <1>7 DEF MoreValues
  <2>. QED  BY <2>2, <2>3
<1>9. FlattenSeq(tt) = x
  <2>1. Len(tt) \in Nat \ {0}
    BY <1>3
  <2>2. FlattenSeq(tt) = h[Len(tt)]
    BY <1>3, <1>8, <2>1, FlattenSteps
  <2>. QED  BY <1>3, <1>8, <2>2
<1>10. CASE n = 0
  <2>0. Len(ss) = 0
    BY <1>1, <1>10
  <2>1. ss = <<>>
    BY <2>0
  <2>2. FlattenSeq(ss) = <<>>
    BY <2>1, FlattenNothing
  <2>. QED  BY <1>2, <1>3, <1>6, <1>9, <1>10, <2>2 DEF NextValue
<1>11. CASE n # 0
  <2>1. FlattenSeq(ss) = g[n]
    BY <1>1, <1>4, <1>11, FlattenSteps
  <2>. QED  BY <1>2, <1>3, <1>6, <1>9, <1>11, <2>1 DEF NextValue
<1>. QED  BY <1>10, <1>11

-----------------------------------------------------------------------------
(* The rest of two sequences from a place in the first.                     *)
LEMMA RestOfFirst ==
  ASSUME NEW S, NEW u \in Seq(S), NEW t \in Seq(S), NEW len \in 0 .. Len(u)
  PROVE  SubSeq(u \o t, len + 1, Len(u \o t)) = SubSeq(u, len + 1, Len(u)) \o t
<1>. DEFINE a == SubSeq(u \o t, len + 1, Len(u \o t))
            d == SubSeq(u, len + 1, Len(u))
<1>1. /\ u \o t \in Seq(S) /\ Len(u \o t) = Len(u) + Len(t)
      /\ \A i \in 1 .. Len(u) + Len(t) :
            (u \o t)[i] = IF i <= Len(u) THEN u[i] ELSE t[i - Len(u)]
  BY ConcatProperties
<1>2. /\ a \in Seq(S) /\ Len(a) = Len(u) + Len(t) - len
      /\ \A i \in 1 .. Len(u) + Len(t) - len :
            a[i] = IF i + len <= Len(u) THEN u[i + len] ELSE t[i + len - Len(u)]
  BY <1>1
<1>3. /\ d \in Seq(S) /\ Len(d) = Len(u) - len
      /\ \A i \in 1 .. Len(u) - len : d[i] = u[i + len]
  OBVIOUS
<1>. HIDE DEF a, d
<1>4. /\ d \o t \in Seq(S) /\ Len(d \o t) = Len(d) + Len(t)
      /\ \A i \in 1 .. Len(d) + Len(t) :
            (d \o t)[i] = IF i <= Len(d) THEN d[i] ELSE t[i - Len(d)]
  BY <1>3, ConcatProperties
<1>5. Len(a) = Len(d \o t) /\ \A i \in 1 .. Len(a) : a[i] = (d \o t)[i]
  BY <1>2, <1>3, <1>4
<1>. QED  BY <1>2, <1>4, <1>5, SeqEqual DEF a, d

(* The rest of two sequences from a place in the second.                    *)
LEMMA RestOfSecond ==
  ASSUME NEW S, NEW u \in Seq(S), NEW t \in Seq(S), NEW len \in 0 .. Len(t)
  PROVE  SubSeq(u \o t, Len(u) + len + 1, Len(u \o t)) = SubSeq(t, len + 1, Len(t))
<1>. DEFINE a == SubSeq(u \o t, Len(u) + len + 1, Len(u \o t))
            d == SubSeq(t, len + 1, Len(t))
<1>1. /\ u \o t \in Seq(S) /\ Len(u \o t) = Len(u) + Len(t)
      /\ \A i \in 1 .. Len(u) + Len(t) :
            (u \o t)[i] = IF i <= Len(u) THEN u[i] ELSE t[i - Len(u)]
  BY ConcatProperties
<1>2. /\ a \in Seq(S) /\ Len(a) = Len(t) - len
      /\ \A i \in 1 .. Len(t) - len : a[i] = t[i + len]
  BY <1>1
<1>3. /\ d \in Seq(S) /\ Len(d) = Len(t) - len
      /\ \A i \in 1 .. Len(t) - len : d[i] = t[i + len]
  OBVIOUS
<1>. HIDE DEF a, d
<1>5. Len(a) = Len(d) /\ \A i \in 1 .. Len(a) : a[i] = d[i]
  BY <1>2, <1>3
<1>. QED  BY <1>2, <1>3, <1>5, SeqEqual DEF a, d

-----------------------------------------------------------------------------
(* Buffers                                                                  *)

(* A buffer of cells of T whose cursors are where they belong.              *)
Buffers(T) ==
  {b \in [cells : Seq(T), readPos : Nat, writePos : Nat, zero : T] : CursorsAreInside(b)}

(* The zero of a buffer, n times.                                           *)
LEMMA ZerosAreCells ==
  ASSUME NEW T, NEW z \in T, NEW n \in Nat
  PROVE  Zeros(n, z) \in Seq(T) /\ Len(Zeros(n, z)) = n
  BY DEF Zeros

(* What is readable are the cells between the cursors.                      *)
LEMMA ReadableIs ==
  ASSUME NEW T, NEW b \in Buffers(T)
  PROVE  /\ Readable(b) \in Seq(T) /\ Len(Readable(b)) = b.writePos - b.readPos
         /\ \A i \in 1 .. b.writePos - b.readPos : Readable(b)[i] = b.cells[b.readPos + i]
  BY DEF Buffers, CursorsAreInside, Readable

(* A new buffer has nothing to read.                                        *)
LEMMA NewBufferIs ==
  ASSUME NEW T, NEW z \in T
  PROVE  NewBuffer(z) \in Buffers(T) /\ Readable(NewBuffer(z)) = <<>>
<1>1. Zeros(InitBuffSize, z) \in Seq(T)
  BY ZerosAreCells, BufferAssumption
<1>2. NewBuffer(z) \in Buffers(T)
  BY <1>1 DEF NewBuffer, Buffers, CursorsAreInside
<1>3. Len(Readable(NewBuffer(z))) = 0
  BY <1>2, ReadableIs DEF NewBuffer
<1>. QED  BY <1>2, <1>3, ReadableIs

(* Retrieve drops what was taken, RetrieveAll everything.                   *)
LEMMA RetrieveDrops ==
  ASSUME NEW T, NEW b \in Buffers(T), NEW len \in 0 .. Len(Readable(b))
  PROVE  /\ Retrieve(b, len) \in Buffers(T)
         /\ Readable(Retrieve(b, len)) = SubSeq(Readable(b), len + 1, Len(Readable(b)))
         /\ Retrieve(b, len).readPos = b.readPos + len
<1>. DEFINE c == Retrieve(b, len)
<1>1. c \in Buffers(T) /\ c.cells = b.cells /\ c.readPos = b.readPos + len /\ c.writePos = b.writePos
  BY ReadableIs DEF Retrieve, Buffers, CursorsAreInside
<1>2. /\ Readable(b) \in Seq(T) /\ Len(Readable(b)) = b.writePos - b.readPos
      /\ \A i \in 1 .. b.writePos - b.readPos : Readable(b)[i] = b.cells[b.readPos + i]
  BY ReadableIs
<1>. HIDE DEF c
<1>3. /\ Readable(c) \in Seq(T) /\ Len(Readable(c)) = c.writePos - c.readPos
      /\ \A i \in 1 .. c.writePos - c.readPos : Readable(c)[i] = c.cells[c.readPos + i]
  BY <1>1, ReadableIs
<1>. DEFINE d == SubSeq(Readable(b), len + 1, Len(Readable(b)))
<1>4. /\ d \in Seq(T) /\ Len(d) = Len(Readable(b)) - len
      /\ \A i \in 1 .. Len(Readable(b)) - len : d[i] = Readable(b)[i + len]
  BY <1>2
<1>. HIDE DEF d
<1>5. b.readPos \in Nat /\ b.writePos \in Nat /\ len \in Nat /\ len <= Len(Readable(b))
  BY <1>2 DEF Buffers
<1>6. Len(Readable(c)) = Len(d)
  BY <1>1, <1>2, <1>3, <1>4, <1>5
<1>7. ASSUME NEW i \in 1 .. Len(d) PROVE Readable(c)[i] = d[i]
  <2>1. Readable(c)[i] = b.cells[b.readPos + len + i]
    BY <1>1, <1>2, <1>3, <1>4, <1>5
  <2>2. i + len \in 1 .. b.writePos - b.readPos /\ d[i] = Readable(b)[i + len]
    BY <1>2, <1>4, <1>5
  <2>3. Readable(b)[i + len] = b.cells[b.readPos + (i + len)]
    BY <1>2, <2>2
  <2>4. b.readPos + (i + len) = b.readPos + len + i
    BY <1>5
  <2>. QED  BY <2>1, <2>2, <2>3, <2>4
<1>8. Readable(c) = d
  BY <1>3, <1>4, <1>6, <1>7, SeqEqual
<1>. QED  BY <1>1, <1>8 DEF c, d

(* RetrieveAll leaves nothing to read.                                      *)
LEMMA RetrieveAllEmpties ==
  ASSUME NEW T, NEW b \in Buffers(T)
  PROVE  RetrieveAll(b) \in Buffers(T) /\ Readable(RetrieveAll(b)) = <<>>
<1>1. /\ b.cells \in Seq(T) /\ b.zero \in T /\ Len(b.cells) \in Nat
      /\ b \in [cells : Seq(T), readPos : Nat, writePos : Nat, zero : T]
  BY DEF Buffers
<1>2. Zeros(Len(b.cells), b.zero) \in Seq(T) /\ Len(Zeros(Len(b.cells), b.zero)) = Len(b.cells)
  BY <1>1, ZerosAreCells
<1>3. ASSUME NEW z \in Seq(T)
      PROVE  LET c == [b EXCEPT !.cells = z, !.readPos = 0, !.writePos = 0]
             IN /\ c \in [cells : Seq(T), readPos : Nat, writePos : Nat, zero : T]
                /\ c.cells = z /\ c.readPos = 0 /\ c.writePos = 0
  BY <1>1
<1>4. RetrieveAll(b) \in Buffers(T) /\ RetrieveAll(b).readPos = 0 /\ RetrieveAll(b).writePos = 0
  <2>. DEFINE z == Zeros(Len(b.cells), b.zero)
              c == [b EXCEPT !.cells = z, !.readPos = 0, !.writePos = 0]
  <2>1. RetrieveAll(b) = c
    BY Zenon DEF RetrieveAll
  <2>2. /\ c \in [cells : Seq(T), readPos : Nat, writePos : Nat, zero : T]
        /\ c.cells = z /\ c.readPos = 0 /\ c.writePos = 0
    BY <1>2, <1>3, Zenon
  <2>. HIDE DEF c, z
  <2>3. z \in Seq(T) /\ Len(z) \in Nat
    BY <1>2 DEF z
  <2>4. c \in Buffers(T)
    BY <2>2, <2>3 DEF Buffers, CursorsAreInside
  <2>. QED  BY <2>1, <2>2, <2>4
<1>5. Len(Readable(RetrieveAll(b))) = 0
  BY <1>4, ReadableIs
<1>. QED  BY <1>4, <1>5, ReadableIs

(* Making space keeps what is readable and makes the space.                 *)
LEMMA SpaceIsMade ==
  ASSUME NEW T, NEW b \in Buffers(T), NEW len \in Nat, Writable(b) < len
  PROVE  /\ MakeSpace(b, len) \in Buffers(T)
         /\ Readable(MakeSpace(b, len)) = Readable(b)
         /\ Writable(MakeSpace(b, len)) >= len
<1>1. /\ b.cells \in Seq(T) /\ b.zero \in T /\ Len(b.cells) \in Nat
      /\ b.readPos \in Nat /\ b.writePos \in Nat
      /\ b.readPos <= b.writePos /\ b.writePos <= Len(b.cells)
      /\ b = [cells |-> b.cells, readPos |-> b.readPos, writePos |-> b.writePos, zero |-> b.zero]
  BY DEF Buffers, CursorsAreInside
<1>2. /\ Readable(b) \in Seq(T) /\ Len(Readable(b)) = b.writePos - b.readPos
      /\ \A i \in 1 .. b.writePos - b.readPos : Readable(b)[i] = b.cells[b.readPos + i]
  BY ReadableIs
<1>3. CASE Writable(b) + b.readPos < len
  <2>. DEFINE more == b.writePos + len + 1 - Len(b.cells)
              c == MakeSpace(b, len)
  <2>1. more \in Nat
    BY <1>1, <1>3 DEF Writable
  <2>. HIDE DEF more
  <2>2. Zeros(more, b.zero) \in Seq(T) /\ Len(Zeros(more, b.zero)) = more
    BY <1>1, <2>1, ZerosAreCells
  <2>. DEFINE cells == b.cells \o Zeros(more, b.zero)
  <2>3. /\ cells \in Seq(T) /\ Len(cells) = Len(b.cells) + more
        /\ \A i \in 1 .. Len(b.cells) : cells[i] = b.cells[i]
    BY <1>1, <2>1, <2>2, ConcatProperties
  <2>4. c = [cells |-> cells, readPos |-> b.readPos, writePos |-> b.writePos, zero |-> b.zero]
    BY <1>1, <1>3 DEF MakeSpace, more
  <2>. HIDE DEF cells, c
  <2>5. c \in Buffers(T)
    BY <1>1, <2>1, <2>3, <2>4 DEF Buffers, CursorsAreInside
  <2>6. Writable(c) >= len
    BY <1>1, <2>1, <2>3, <2>4 DEF Writable, more
  <2>7. /\ Readable(c) \in Seq(T) /\ Len(Readable(c)) = b.writePos - b.readPos
        /\ \A i \in 1 .. b.writePos - b.readPos : Readable(c)[i] = cells[b.readPos + i]
    BY <2>4, <2>5, ReadableIs
  <2>8. ASSUME NEW i \in 1 .. b.writePos - b.readPos PROVE Readable(c)[i] = Readable(b)[i]
    <3>1. b.readPos + i \in 1 .. Len(b.cells)
      BY <1>1
    <3>. QED  BY <1>2, <2>3, <2>7, <3>1
  <2>9. Readable(c) = Readable(b)
    BY <1>2, <2>7, <2>8, SeqEqual
  <2>. QED  BY <2>5, <2>6, <2>9 DEF c
<1>4. CASE ~(Writable(b) + b.readPos < len)
  <2>. DEFINE kept == Readable(b)
              rest == SubSeq(b.cells, Len(kept) + 1, Len(b.cells))
              cells == kept \o rest
              c == MakeSpace(b, len)
  <2>1. rest \in Seq(T) /\ Len(rest) = Len(b.cells) - Len(kept)
    BY <1>1, <1>2
  <2>2. c = [cells |-> cells, readPos |-> 0, writePos |-> Len(kept), zero |-> b.zero]
    BY <1>1, <1>4 DEF MakeSpace
  <2>. HIDE DEF rest, kept
  <2>3. /\ cells \in Seq(T) /\ Len(cells) = Len(b.cells)
        /\ \A i \in 1 .. Len(kept) : cells[i] = kept[i]
    <3>1. kept \in Seq(T) /\ Len(kept) \in Nat
      BY <1>2 DEF kept
    <3>2. /\ cells \in Seq(T) /\ Len(cells) = Len(kept) + Len(rest)
          /\ \A i \in 1 .. Len(kept) + Len(rest) :
                cells[i] = IF i <= Len(kept) THEN kept[i] ELSE rest[i - Len(kept)]
      BY <2>1, <3>1, ConcatProperties
    <3>3. Len(rest) \in Nat
      BY <2>1
    <3>. QED  BY <1>1, <2>1, <3>1, <3>2, <3>3
  <2>. HIDE DEF cells, c
  <2>4. Len(kept) = b.writePos - b.readPos
    BY <1>2 DEF kept
  <2>5. c \in Buffers(T)
    BY <1>1, <2>2, <2>3, <2>4 DEF Buffers, CursorsAreInside
  <2>6. Writable(c) >= len
    BY <1>1, <1>4, <2>2, <2>3, <2>4 DEF Writable
  <2>7. /\ Readable(c) \in Seq(T) /\ Len(Readable(c)) = Len(kept)
        /\ \A i \in 1 .. Len(kept) : Readable(c)[i] = cells[i]
    <3>1. /\ Readable(c) \in Seq(T) /\ Len(Readable(c)) = Len(kept) - 0
          /\ \A i \in 1 .. Len(kept) - 0 : Readable(c)[i] = cells[0 + i]
      BY <2>2, <2>5, ReadableIs
    <3>. QED  BY <1>1, <2>4, <3>1
  <2>8. Readable(c) = kept
    BY <1>2, <2>3, <2>7, SeqEqual DEF kept
  <2>. QED  BY <2>5, <2>6, <2>8 DEF c, kept
<1>. QED  BY <1>3, <1>4

(* Appending adds at the end of what is readable.                           *)
LEMMA AppendAdds ==
  ASSUME NEW T, NEW b \in Buffers(T), NEW s \in Seq(T)
  PROVE  /\ AppendTo(b, s) \in Buffers(T)
         /\ Readable(AppendTo(b, s)) = Readable(b) \o s
<1>1. PICK f : f = IF Writable(b) < Len(s) THEN MakeSpace(b, Len(s)) ELSE b
  OBVIOUS
<1>2. Len(s) \in Nat /\ Writable(b) \in Int
  BY DEF Writable, Buffers
<1>3. f \in Buffers(T) /\ Readable(f) = Readable(b) /\ Writable(f) >= Len(s)
  BY <1>1, <1>2, SpaceIsMade
<1>4. /\ f.cells \in Seq(T) /\ f.zero \in T /\ Len(f.cells) \in Nat
      /\ f.readPos \in Nat /\ f.writePos \in Nat
      /\ f.readPos <= f.writePos /\ f.writePos + Len(s) <= Len(f.cells)
      /\ f \in [cells : Seq(T), readPos : Nat, writePos : Nat, zero : T]
  BY <1>2, <1>3 DEF Buffers, CursorsAreInside, Writable
<1>. DEFINE cells == Overlaid(f.cells, f.writePos, s)
            c == AppendTo(b, s)
<1>5. /\ cells \in Seq(T) /\ Len(cells) = Len(f.cells)
      /\ \A i \in 1 .. Len(f.cells) :
            cells[i] = IF i \in f.writePos + 1 .. f.writePos + Len(s) THEN s[i - f.writePos]
                       ELSE f.cells[i]
  <2>1. DOMAIN f.cells = 1 .. Len(f.cells)
    BY <1>4
  <2>2. cells = [i \in 1 .. Len(f.cells) |->
                   IF i \in f.writePos + 1 .. f.writePos + Len(s) THEN s[i - f.writePos]
                   ELSE f.cells[i]]
    BY <2>1 DEF Overlaid
  <2>3. ASSUME NEW i \in 1 .. Len(f.cells)
        PROVE  (IF i \in f.writePos + 1 .. f.writePos + Len(s) THEN s[i - f.writePos]
                ELSE f.cells[i]) \in T
    <3>1. CASE i \in f.writePos + 1 .. f.writePos + Len(s)
      <4>1. i - f.writePos \in 1 .. Len(s)
        BY <1>2, <1>4, <3>1
      <4>. QED  BY <3>1, <4>1
    <3>2. CASE i \notin f.writePos + 1 .. f.writePos + Len(s)
      BY <1>4, <3>2
    <3>. QED  BY <3>1, <3>2
  <2>. QED  BY <1>4, <2>2, <2>3
<1>6. /\ c \in [cells : Seq(T), readPos : Nat, writePos : Nat, zero : T]
      /\ c.cells = cells /\ c.readPos = f.readPos /\ c.writePos = f.writePos + Len(s)
  <2>1. ASSUME NEW z \in Seq(T), NEW n \in Nat
        PROVE  LET d == [f EXCEPT !.cells = z, !.writePos = n]
               IN /\ d \in [cells : Seq(T), readPos : Nat, writePos : Nat, zero : T]
                  /\ d.cells = z /\ d.readPos = f.readPos /\ d.writePos = n
    BY <1>4
  <2>2. c = [f EXCEPT !.cells = cells, !.writePos = f.writePos + Len(s)]
    BY <1>1, Zenon DEF AppendTo
  <2>3. f.writePos + Len(s) \in Nat
    BY <1>2, <1>4
  <2>. HIDE DEF c, cells
  <2>. QED  BY <1>5, <2>1, <2>2, <2>3
<1>. HIDE DEF cells, c
<1>7. c \in Buffers(T)
  BY <1>2, <1>4, <1>5, <1>6 DEF Buffers, CursorsAreInside
<1>8. /\ Readable(c) \in Seq(T) /\ Len(Readable(c)) = c.writePos - c.readPos
      /\ \A i \in 1 .. c.writePos - c.readPos : Readable(c)[i] = c.cells[c.readPos + i]
  BY <1>7, ReadableIs
<1>9. /\ Readable(f) \in Seq(T) /\ Len(Readable(f)) = f.writePos - f.readPos
      /\ \A i \in 1 .. f.writePos - f.readPos : Readable(f)[i] = f.cells[f.readPos + i]
  BY <1>3, ReadableIs
<1>10. /\ Readable(f) \o s \in Seq(T) /\ Len(Readable(f) \o s) = Len(Readable(f)) + Len(s)
       /\ \A i \in 1 .. Len(Readable(f)) + Len(s) :
             (Readable(f) \o s)[i] = IF i <= Len(Readable(f)) THEN Readable(f)[i]
                                     ELSE s[i - Len(Readable(f))]
  BY <1>9, ConcatProperties
<1>11. ASSUME NEW i \in 1 .. Len(Readable(c)) PROVE Readable(c)[i] = (Readable(f) \o s)[i]
  <2>1. PICK k : k = f.readPos + i
    OBVIOUS
  <2>2. i \in 1 .. Len(Readable(f)) + Len(s) /\ k \in 1 .. Len(f.cells)
    BY <1>2, <1>4, <1>6, <1>8, <1>9, <2>1, SMTT(20)
  <2>3. Readable(c)[i] = cells[k]
    BY <1>6, <1>8, <2>1
  <2>4. CASE i <= Len(Readable(f))
    <3>1. k \notin f.writePos + 1 .. f.writePos + Len(s)
      BY <1>2, <1>4, <1>9, <2>1, <2>2, <2>4, SMTT(20)
    <3>2. (Readable(f) \o s)[i] = Readable(f)[i]
      BY <1>10, <2>2, <2>4
    <3>3. i \in 1 .. f.writePos - f.readPos
      BY <1>4, <1>9, <2>2, <2>4
    <3>4. Readable(f)[i] = f.cells[k]
      BY <1>9, <2>1, <3>3
    <3>. QED  BY <1>5, <2>2, <2>3, <3>1, <3>2, <3>4
  <2>5. CASE ~(i <= Len(Readable(f)))
    <3>1. k \in f.writePos + 1 .. f.writePos + Len(s)
      BY <1>2, <1>4, <1>9, <2>1, <2>2, <2>5
    <3>2. (Readable(f) \o s)[i] = s[i - Len(Readable(f))]
      BY <1>10, <2>2, <2>5
    <3>3. k - f.writePos = i - Len(Readable(f))
      BY <1>4, <1>9, <2>1, <2>2
    <3>4. cells[k] = s[k - f.writePos]
      BY <1>5, <2>2, <3>1
    <3>. QED  BY <2>3, <3>2, <3>3, <3>4
  <2>. QED  BY <2>4, <2>5
<1>12. Readable(c) = Readable(f) \o s
  <2>1. Len(Readable(c)) = Len(Readable(f) \o s)
    BY <1>2, <1>4, <1>6, <1>8, <1>9, <1>10, SMTT(20)
  <2>. QED  BY <1>8, <1>10, <1>11, <2>1, SeqEqual
<1>. QED  BY <1>3, <1>7, <1>12 DEF c

(* So does reading, in one piece or two.                                    *)
LEMMA ReadAdds ==
  ASSUME NEW T, NEW b \in Buffers(T), NEW s \in Seq(T)
  PROVE  /\ ReadInto(b, s) \in Buffers(T)
         /\ Readable(ReadInto(b, s)) = Readable(b) \o s
<1>1. CASE Len(s) <= Writable(b)
  BY <1>1, AppendAdds DEF ReadInto
<1>2. CASE ~(Len(s) <= Writable(b))
  <2>. DEFINE room == Writable(b)
              u == SubSeq(s, 1, room)
              v == SubSeq(s, room + 1, Len(s))
              c == AppendTo(b, u)
  <2>1. room \in Nat /\ room <= Len(s)
    BY <1>2 DEF Writable, Buffers, CursorsAreInside
  <2>2. u \in Seq(T) /\ v \in Seq(T)
    BY <2>1
  <2>3. u \o v = s
    <3>1. room \in 1 - 1 .. Len(s) /\ Len(s) \in room .. Len(s) /\ 1 \in 1 .. Len(s) + 1
      BY <2>1
    <3>2. SubSeq(s, 1, room) \o SubSeq(s, room + 1, Len(s)) = SubSeq(s, 1, Len(s))
      BY <3>1, ConcatAdjacentSubSeq
    <3>. QED  BY <3>2, SubSeqFull
  <2>4. ReadInto(b, s) = AppendTo(c, v)
    BY <1>2 DEF ReadInto
  <2>. HIDE DEF u, v, c, room
  <2>5. c \in Buffers(T) /\ Readable(c) = Readable(b) \o u
    BY <2>2, AppendAdds DEF c
  <2>6. AppendTo(c, v) \in Buffers(T) /\ Readable(AppendTo(c, v)) = (Readable(b) \o u) \o v
    BY <2>2, <2>5, AppendAdds
  <2>7. Readable(b) \in Seq(T)
    BY ReadableIs
  <2>8. (Readable(b) \o u) \o v = Readable(b) \o (u \o v)
    BY <2>2, <2>7, ConcatAssociative
  <2>. QED  BY <2>3, <2>4, <2>6, <2>8
<1>. QED  BY <1>1, <1>2

-----------------------------------------------------------------------------
(* The bytes that come in                                                   *)

(* The tokens of a request, and what a fresh cell holds.                    *)
Toks == {"GET", "POST", "url", "r", "l", "Con", "alive", "len", "body", "zero"}

(* What the stackful connection holds; the other server keeps nothing.      *)
Held == IF server = "stackful" THEN Readable(readBuff) ELSE <<>>

(* What is held and what is in the socket is the end of what was sent.      *)
InputIsKept ==
  /\ server \in {"stackful", "stackless"} /\ script \in Scripts /\ sent \in 0 .. Len(Stream)
  /\ inq \in Seq(Toks) /\ readBuff \in Buffers(Toks)
  /\ \E k \in 0 .. sent : Held \o inq = SubSeq(Stream, k + 1, sent)

(* The smallest of some numbers is one of them.                             *)
LEMMA MinIs ==
  ASSUME NEW N \in SUBSET Nat, N # {}
  PROVE  Min(N) \in N /\ \A y \in N : Min(N) <= y
<1>1. \E x \in N : \A y \in N : x <= y
  BY LeastNumber
<1>. QED  BY <1>1 DEF Min

(* Requests are tokens.                                                     *)
LEMMA StreamIsSeq ==
  ASSUME script \in Scripts
  PROVE  Stream \in Seq(Toks)
<1>1. script \in Seq({"plain", "keep", "form"})
  BY ClientAssumption
<1>2. \A kind \in {"plain", "keep", "form"} : Text[kind] \in Seq(Toks)
  <2>1. Text["plain"] \in Seq(Toks)
    BY DEF Text, Toks
  <2>2. Text["keep"] \in Seq(Toks)
    BY DEF Text, Toks
  <2>3. Text["form"] \in Seq(Toks)
    BY DEF Text, Toks
  <2>. QED  BY <2>1, <2>2, <2>3
<1>. DEFINE texts == [i \in DOMAIN script |-> Text[script[i]]]
<1>3. texts = [i \in 1 .. Len(script) |-> Text[script[i]]] /\ Len(script) \in Nat
  BY <1>1
<1>4. \A i \in 1 .. Len(script) : Text[script[i]] \in Seq(Toks)
  BY <1>1, <1>2
<1>5. texts \in Seq(Seq(Toks))
  BY <1>3, <1>4
<1>. QED  BY <1>5, FlattenIsSeq DEF Stream

(* A step that takes len tokens of what is held.                            *)
LEMMA HeldIsTaken ==
  ASSUME InputIsKept, server = "stackful", NEW len \in 0 .. Len(Readable(readBuff)),
         readBuff' \in Buffers(Toks),
         Readable(readBuff)' = SubSeq(Readable(readBuff), len + 1, Len(Readable(readBuff))),
         UNCHANGED <<server, script, sent, inq>>
  PROVE  InputIsKept'
<1>1. /\ Stream \in Seq(Toks) /\ Readable(readBuff) \in Seq(Toks)
      /\ Len(Readable(readBuff)) \in Nat /\ len \in Nat
  BY StreamIsSeq, ReadableIs DEF InputIsKept
<1>2. PICK k \in 0 .. sent : Readable(readBuff) \o inq = SubSeq(Stream, k + 1, sent)
  BY DEF InputIsKept, Held
<1>. DEFINE h == Readable(readBuff)
<1>3. sent \in Nat /\ sent <= Len(Stream) /\ inq \in Seq(Toks)
  BY <1>1 DEF InputIsKept
<1>4. /\ h \o inq \in Seq(Toks) /\ Len(h \o inq) = Len(h) + Len(inq)
  BY <1>1, <1>3, ConcatProperties
<1>5. Len(h) + Len(inq) = sent - k
  BY <1>1, <1>2, <1>3, <1>4, SMTT(20)
<1>6. SubSeq(h \o inq, len + 1, Len(h \o inq)) = SubSeq(h, len + 1, Len(h)) \o inq
  BY <1>1, <1>3, RestOfFirst
<1>7. SubSeq(SubSeq(Stream, k + 1, sent), len + 1, sent - k) = SubSeq(Stream, k + len + 1, sent)
  <2>. DEFINE u == SubSeq(Stream, k + 1, sent)
              v == SubSeq(u, len + 1, sent - k)
              w == SubSeq(Stream, k + len + 1, sent)
  <2>1. len <= sent - k
    BY <1>1, <1>3, <1>5
  <2>2. u \in Seq(Toks) /\ Len(u) = sent - k /\ \A i \in 1 .. sent - k : u[i] = Stream[k + i]
    BY <1>1, <1>3
  <2>. HIDE DEF u
  <2>3. /\ v \in Seq(Toks) /\ Len(v) = sent - k - len
        /\ \A i \in 1 .. sent - k - len : v[i] = Stream[k + (len + i)]
    BY <1>1, <1>3, <2>1, <2>2
  <2>4. /\ w \in Seq(Toks) /\ Len(w) = sent - k - len
        /\ \A i \in 1 .. sent - k - len : w[i] = Stream[k + len + i]
    <3>1. PICK p \in Nat : p = k + len
      BY <1>1
    <3>2. w = SubSeq(Stream, p + 1, sent) /\ p <= sent
      BY <1>1, <1>3, <2>1, <3>1
    <3>. HIDE DEF w
    <3>3. w \in Seq(Toks) /\ Len(w) = sent - p /\ \A i \in 1 .. sent - p : w[i] = Stream[p + i]
      BY <1>1, <1>3, <3>2
    <3>. QED  BY <1>1, <1>3, <3>1, <3>3
  <2>. HIDE DEF v, w
  <2>5. \A i \in 1 .. sent - k - len : v[i] = w[i]
    BY <1>1, <1>3, <2>3, <2>4
  <2>. QED  BY <2>3, <2>4, <2>5, SeqEqual DEF u, v, w
<1>8. Held' \o inq' = SubSeq(Stream', k + len + 1, sent')
  BY <1>2, <1>4, <1>5, <1>6, <1>7 DEF Held, Stream
<1>9. k + len \in 0 .. sent
  BY <1>1, <1>3, <1>5
<1>10. \E j \in 0 .. sent' : Held' \o inq' = SubSeq(Stream', j + 1, sent')
  BY <1>8, <1>9
<1>. QED  BY <1>10 DEF InputIsKept, Stream

(* The client sends: the socket holds more of the stream.                   *)
LEMMA SendKeeps ==
  ASSUME InputIsKept, Send, UNCHANGED readBuff
  PROVE  InputIsKept'
<1>1. Stream \in Seq(Toks) /\ Readable(readBuff) \in Seq(Toks)
  BY StreamIsSeq, ReadableIs DEF InputIsKept
<1>2. PICK k \in 0 .. sent : Held \o inq = SubSeq(Stream, k + 1, sent)
  BY DEF InputIsKept
<1>3. /\ sent \in Nat /\ sent <= Len(Stream) /\ inq \in Seq(Toks)
      /\ Held \in Seq(Toks)
  BY <1>1 DEF InputIsKept, Held
<1>4. PICK upTo \in sent + 1 .. Len(Stream) :
        sent' = upTo /\ inq' = inq \o SubSeq(Stream, sent + 1, upTo)
  BY DEF Send
<1>5. UNCHANGED <<server, script, Stream, Held>>
  BY DEF Send, Stream, Held, Readable
<1>6. SubSeq(Stream, sent + 1, upTo) \in Seq(Toks)
  BY <1>1, <1>3
<1>7. inq' \in Seq(Toks)
  BY <1>3, <1>4, <1>6
<1>8. Held \o inq' = (Held \o inq) \o SubSeq(Stream, sent + 1, upTo)
  <2>. DEFINE more == SubSeq(Stream, sent + 1, upTo)
  <2>. HIDE DEF more
  <2>1. (Held \o inq) \o more = Held \o (inq \o more)
    BY <1>3, <1>6, ConcatAssociative DEF more
  <2>. QED  BY <1>4, <2>1 DEF more
<1>9. SubSeq(Stream, k + 1, sent) \o SubSeq(Stream, sent + 1, upTo) = SubSeq(Stream, k + 1, upTo)
  <2>1. /\ k + 1 \in 1 .. Len(Stream) + 1 /\ sent \in k + 1 - 1 .. Len(Stream)
        /\ upTo \in sent .. Len(Stream)
    BY <1>1, <1>3
  <2>. QED  BY <1>1, <2>1, ConcatAdjacentSubSeq
<1>10. Held' \o inq' = SubSeq(Stream', k + 1, sent')
  BY <1>2, <1>4, <1>5, <1>8, <1>9
<1>11. k \in 0 .. sent' /\ sent' \in 0 .. Len(Stream')
  BY <1>1, <1>3, <1>4, <1>5
<1>. QED  BY <1>5, <1>7, <1>10, <1>11 DEF InputIsKept

(* Steps that leave the input alone.                                        *)
LEMMA InputFrame ==
  ASSUME InputIsKept, UNCHANGED <<server, script, sent, inq, readBuff>>
  PROVE  InputIsKept'
<1>1. UNCHANGED <<Stream, Held>>
  BY DEF Stream, Held, Readable
<1>. QED  BY <1>1 DEF InputIsKept

(* readv1: what was in the socket is in the buffer.                         *)
LEMMA ReadKeeps ==
  ASSUME InputIsKept, server = "stackful", ReadSome
  PROVE  InputIsKept'
<1>1. /\ readBuff' = ReadInto(readBuff, inq) /\ inq' = <<>>
      /\ UNCHANGED <<server, script, sent>>
  BY DEF ReadSome
<1>2. readBuff' \in Buffers(Toks) /\ Readable(readBuff)' = Readable(readBuff) \o inq
  <2>1. /\ ReadInto(readBuff, inq) \in Buffers(Toks)
        /\ Readable(ReadInto(readBuff, inq)) = Readable(readBuff) \o inq
    BY ReadAdds DEF InputIsKept
  <2>2. Readable(readBuff)' = Readable(readBuff')
    BY DEF Readable
  <2>. QED  BY <1>1, <2>1, <2>2
<1>3. Held' \o inq' = Held \o inq
  <2>1. Readable(readBuff) \o inq \in Seq(Toks)
    BY ReadableIs, ConcatProperties DEF InputIsKept
  <2>2. Held' = Readable(readBuff) \o inq /\ Held = Readable(readBuff)
    BY <1>1, <1>2 DEF Held
  <2>. DEFINE h == Readable(readBuff) \o inq
  <2>. HIDE DEF h
  <2>3. h \o <<>> = h
    BY <2>1, ConcatEmptySeq DEF h
  <2>. QED  BY <1>1, <2>2, <2>3 DEF h
<1>4. Stream' = Stream
  BY <1>1 DEF Stream
<1>5. \E k \in 0 .. sent' : Held' \o inq' = SubSeq(Stream', k + 1, sent')
  BY <1>1, <1>3, <1>4 DEF InputIsKept
<1>6. inq' \in Seq(Toks)
  BY <1>1
<1>. QED  BY <1>1, <1>2, <1>4, <1>5, <1>6 DEF InputIsKept

(* The constructor empties the buffer, which loses nothing.                 *)
LEMMA AcceptKeeps ==
  ASSUME InputIsKept, server = "stackful", Accepted
  PROVE  InputIsKept'
<1>1. readBuff' = RetrieveAll(readBuff) /\ UNCHANGED <<server, script, sent, inq>>
  BY DEF Accepted, clientVars
<1>2. RetrieveAll(readBuff) \in Buffers(Toks) /\ Readable(RetrieveAll(readBuff)) = <<>>
  BY RetrieveAllEmpties DEF InputIsKept
<1>3. Readable(readBuff)' = <<>>
  BY <1>1, <1>2 DEF Readable
<1>4. Readable(readBuff) \in Seq(Toks)
  BY ReadableIs DEF InputIsKept
<1>. DEFINE h == Readable(readBuff)
<1>5. Len(h) \in 0 .. Len(h) /\ SubSeq(h, Len(h) + 1, Len(h)) = <<>>
  BY <1>4
<1>. QED  BY <1>1, <1>2, <1>3, <1>5, HeldIsTaken

(* A line that has an end is followed by two bytes more.                    *)
LEMMA LineIsInside ==
  ASSUME readBuff \in Buffers(Toks), ~LineIsOpen
  PROVE  LineLen + 2 \in 0 .. Len(Readable(readBuff))
<1>. DEFINE s == Readable(readBuff)
            ends == {i \in 1 .. Len(s) - 1 : s[i] = "r" /\ s[i + 1] = "l"}
<1>1. Len(s) \in Nat
  BY ReadableIs
<1>2. LineLen = IF ends = {} THEN Len(s) ELSE Min(ends) - 1
  BY DEF LineLen
<1>3. ends # {}
  BY <1>2 DEF LineIsOpen
<1>4. ends \in SUBSET Nat
  BY <1>1
<1>5. Min(ends) \in ends
  BY <1>3, <1>4, MinIs
<1>6. Min(ends) \in 1 .. Len(s) - 1
  BY <1>5
<1>. HIDE DEF ends, s
<1>7. LineLen + 2 \in 0 .. Len(s)
  BY <1>1, <1>2, <1>3, <1>6
<1>. QED  BY <1>7 DEF s

(* A parsed line leaves the buffer from the front.                          *)
LEMMA ParseKeeps ==
  ASSUME InputIsKept, server = "stackful", ParseOneLine
  PROVE  InputIsKept'
<1>1. UNCHANGED <<server, script, sent, inq>>
  BY DEF ParseOneLine, clientVars
<1>2. CASE UNCHANGED readBuff
  BY <1>1, <1>2, InputFrame
<1>3. CASE ~LineIsOpen /\ readBuff' = Retrieve(readBuff, LineLen + 2)
  <2>1. LineLen + 2 \in 0 .. Len(Readable(readBuff))
    BY <1>3, LineIsInside DEF InputIsKept
  <2>2. PICK len \in 0 .. Len(Readable(readBuff)) : len = LineLen + 2
    BY <2>1
  <2>3. /\ Retrieve(readBuff, len) \in Buffers(Toks)
        /\ Readable(Retrieve(readBuff, len)) =
             SubSeq(Readable(readBuff), len + 1, Len(Readable(readBuff)))
    BY RetrieveDrops DEF InputIsKept
  <2>4. Readable(readBuff)' = Readable(readBuff')
    BY DEF Readable
  <2>. QED  BY <1>1, <1>3, <2>2, <2>3, <2>4, HeldIsTaken
<1>. QED  BY <1>2, <1>3 DEF ParseOneLine

(* The other server takes all of the socket.                                *)
LEMMA ArrayReadKeeps ==
  ASSUME InputIsKept, server = "stackless", AsyncRead \/ Overrun, UNCHANGED readBuff
  PROVE  InputIsKept'
<1>1. UNCHANGED <<server, script, sent>> /\ inq' = <<>>
  BY DEF AsyncRead, Overrun, Reads
<1>2. Stream' = Stream /\ Held' = <<>>
  BY <1>1 DEF Stream, Held
<1>3. sent \in 0 .. sent /\ SubSeq(Stream, sent + 1, sent) = <<>>
  <2>1. sent \in Nat
    BY StreamIsSeq DEF InputIsKept
  <2>. QED  BY <2>1, SubSeqEmpty
<1>4. Held' \o inq' = SubSeq(Stream', sent + 1, sent')
  BY <1>1, <1>2, <1>3
<1>5. readBuff' = readBuff /\ sent \in 0 .. sent /\ <<>> \in Seq(Toks)
  BY <1>3
<1>. QED  BY <1>1, <1>2, <1>4, <1>5 DEF InputIsKept

(* Nothing is sent and nothing held.                                        *)
LEMMA InputInitially == Init => InputIsKept
<1>1. SUFFICES ASSUME Init PROVE InputIsKept
  OBVIOUS
<1>2. /\ server \in {"stackful", "stackless"} /\ script \in Scripts /\ sent = 0 /\ inq = <<>>
      /\ readBuff = NewBuffer("zero")
  <2>1. ClientInit /\ ConnInit /\ server \in {"stackful", "stackless"}
    BY <1>1 DEF Init
  <2>2. script \in Scripts /\ sent = 0 /\ inq = <<>>
    BY <2>1 DEF ClientInit
  <2>3. readBuff = NewBuffer("zero")
    BY <2>1 DEF ConnInit
  <2>. QED  BY <2>1, <2>2, <2>3
<1>3. readBuff \in Buffers(Toks) /\ Readable(readBuff) = <<>>
  BY <1>2, NewBufferIs DEF Toks
<1>4. Stream \in Seq(Toks)
  BY <1>2, StreamIsSeq
<1>5. Held \o inq = SubSeq(Stream, 0 + 1, sent)
  <2>1. SubSeq(Stream, 1, 0) = <<>>
    BY SubSeqEmpty
  <2>2. Held = <<>>
    BY <1>3 DEF Held
  <2>. QED  BY <1>2, <2>1, <2>2
<1>6. 0 \in 0 .. sent /\ sent \in 0 .. Len(Stream)
  BY <1>2, <1>4
<1>. QED  BY <1>2, <1>3, <1>5, <1>6 DEF InputIsKept

(* What comes in stays in order, whoever takes the step.                    *)
LEMMA InputStep == InputIsKept /\ [Next]_vars => InputIsKept'
<1> SUFFICES ASSUME InputIsKept, [Next]_vars
             PROVE  InputIsKept'
  OBVIOUS
<1>. USE DEF clientVars, connVars, httpVars
<1>1. CASE server = "stackful" /\ ConnStep
  <2>1. CASE Accepted
    BY <1>1, <2>1, AcceptKeeps
  <2>2. CASE ReadSome
    BY <1>1, <2>2, ReadKeeps
  <2>3. CASE ParseOneLine
    BY <1>1, <2>3, ParseKeeps
  <2>4. CASE ReadEof \/ ReadTimeout \/ Process \/ ParseEnds \/ BadRequestLine \/ Respond \/ MapFails
    BY <2>4, InputFrame DEF ReadEof, ReadTimeout, Process, ParseEnds, BadRequestLine, Respond, MapFails
  <2>5. CASE WriteSome \/ WriteFails \/ WriteNothing \/ KeepOrClose \/ Close
    BY <2>5, InputFrame DEF WriteSome, WriteFails, WriteNothing, KeepOrClose, Close
  <2>. QED  BY <1>1, <2>1, <2>2, <2>3, <2>4, <2>5 DEF ConnStep
<1>2. CASE server = "stackless" /\ HandlerStep /\ UNCHANGED connVars
  <2>1. CASE AsyncRead \/ Overrun
    BY <1>2, <2>1, ArrayReadKeeps
  <2>2. CASE Hangup \/ BeginProcess \/ ReadLine \/ ReadContent \/ AsyncWrite
    BY <1>2, <2>2, InputFrame DEF Hangup, BeginProcess, ReadLine, ReadContent, AsyncWrite
  <2>. QED  BY <1>2, <2>1, <2>2 DEF HandlerStep
<1>3. CASE ClientStep /\ UNCHANGED connVars
  <2>1. CASE Send
    BY <1>3, <2>1, SendKeeps
  <2>2. CASE Receive \/ Leave
    BY <1>3, <2>2, InputFrame DEF Receive, Leave
  <2>. QED  BY <1>3, <2>1, <2>2 DEF ClientStep
<1>4. CASE NumberReused
  BY <1>4, InputFrame DEF NumberReused
<1>5. CASE UNCHANGED vars
  BY <1>5, InputFrame DEF vars
<1>. QED  BY <1>1, <1>2, <1>3, <1>4, <1>5 DEF Next, ServerStep

-----------------------------------------------------------------------------
(* The bytes that go out                                                    *)

(* Parts of responses, the two vectors, and the phases without a            *)
(* response.                                                                *)
Parts == [n : Nat, i : Nat, last : BOOLEAN]
Vectors == [base : Nat, len : Nat]
Idle == {"init", "read", "process", "parse", "respond", "again"}

(* The vectors describe what is readable in the write buffer and the rest   *)
(* of the mapped file.                                                      *)
VectorsDescribe ==
  /\ writeBuff \in Buffers(Parts)
  /\ iov \in [1 .. 2 -> Vectors] /\ iovCnt \in {0, 1, 2}
  /\ iov[1].len = Len(Readable(writeBuff))
  /\ iov[1].len > 0 => iov[1].base = writeBuff.readPos
  /\ iov[1].len <= HeadLen + 1 /\ iov[2].len <= FileLen + 1
  /\ iovCnt = 2 => iov[2].base + iov[2].len = FileLen

(* A response is written out before the next is begun.                      *)
WrittenOut == phase \in Idle => iov[1].len = 0 /\ (iovCnt = 2 => iov[2].len = 0)

(* The responses begun so far.                                              *)
Body(n, size) == [i \in 1 .. size |-> Part(n, i, size)]
Bodies == [n \in DOMAIN answers |-> Body(n, answers[n].size)]

(* Everything that goes out consists of parts of responses.                 *)
Responses ==
  /\ outq \in Seq(Parts) /\ got \in Seq(Parts) /\ wbuf \in Seq(Parts) /\ Len(outq) <= Window
  /\ \E S : answers \in Seq(S)
  /\ \A n \in 1 .. Len(answers) : answers[n].size \in Nat

(* What the client and the socket have and what is unsent make up the       *)
(* responses.                                                               *)
Delivered == (server = "stackful" /\ ~gone) => got \o outq \o Unsent = FlattenSeq(Bodies)

(* The invariant of the way out.                                            *)
OutputIsKept == VectorsDescribe /\ WrittenOut /\ Responses /\ Delivered

-----------------------------------------------------------------------------
(* The parts base + 1 to base + len of the file in the n-th response.       *)
FileRest(n, base, len) == [j \in 1 .. len |-> Part(n, HeadLen + base + j, HeadLen + FileLen)]

(* Such a part of a file has len parts.                                     *)
LEMMA FileRestIs ==
  ASSUME NEW n \in Nat, NEW base \in Nat, NEW len \in Nat
  PROVE  /\ FileRest(n, base, len) \in Seq(Parts) /\ Len(FileRest(n, base, len)) = len
         /\ \A j \in 1 .. len :
              FileRest(n, base, len)[j] = Part(n, HeadLen + base + j, HeadLen + FileLen)
<1>1. \A j \in 1 .. len : Part(n, HeadLen + base + j, HeadLen + FileLen) \in Parts
  BY ConnectionAssumption DEF Part, Parts
<1>. QED  BY <1>1 DEF FileRest

(* What is left of it when d parts are written.                             *)
LEMMA FileRestDrops ==
  ASSUME NEW n \in Nat, NEW base \in Nat, NEW len \in Nat, NEW d \in 0 .. len
  PROVE  SubSeq(FileRest(n, base, len), d + 1, len) = FileRest(n, base + d, len - d)
<1>. DEFINE f == FileRest(n, base, len)
            g == FileRest(n, base + d, len - d)
            s == SubSeq(f, d + 1, len)
<1>1. /\ f \in Seq(Parts) /\ Len(f) = len
      /\ \A j \in 1 .. len : f[j] = Part(n, HeadLen + base + j, HeadLen + FileLen)
  BY FileRestIs
<1>2. /\ g \in Seq(Parts) /\ Len(g) = len - d
      /\ \A j \in 1 .. len - d : g[j] = Part(n, HeadLen + (base + d) + j, HeadLen + FileLen)
  <2>1. base + d \in Nat /\ len - d \in Nat
    OBVIOUS
  <2>. QED  BY <2>1, FileRestIs
<1>. HIDE DEF f, g
<1>3. s \in Seq(Parts) /\ Len(s) = len - d /\ \A j \in 1 .. len - d : s[j] = f[j + d]
  BY <1>1
<1>. HIDE DEF s
<1>4. ASSUME NEW j \in 1 .. len - d PROVE s[j] = g[j]
  <2>1. j + d \in 1 .. len /\ s[j] = f[j + d]
    BY <1>3
  <2>2. f[j + d] = Part(n, HeadLen + base + (j + d), HeadLen + FileLen)
    BY <1>1, <2>1
  <2>3. HeadLen + base + (j + d) = HeadLen + (base + d) + j
    BY ConnectionAssumption
  <2>. QED  BY <1>2, <2>1, <2>2, <2>3
<1>. QED  BY <1>2, <1>3, <1>4, SeqEqual DEF f, g, s

(* A response has size parts.                                               *)
LEMMA BodyIs ==
  ASSUME NEW n \in Nat, NEW size \in Nat
  PROVE  /\ Body(n, size) \in Seq(Parts) /\ Len(Body(n, size)) = size
         /\ \A i \in 1 .. size : Body(n, size)[i] = Part(n, i, size)
<1>1. \A i \in 1 .. size : Part(n, i, size) \in Parts
  BY DEF Part, Parts
<1>. QED  BY <1>1 DEF Body

(* The responses are as many as the answers.                                *)
LEMMA BodiesAreSeqs ==
  ASSUME Responses
  PROVE  Bodies \in Seq(Seq(Parts)) /\ Len(Bodies) = Len(answers) /\ Len(answers) \in Nat
<1>1. DOMAIN answers = 1 .. Len(answers) /\ Len(answers) \in Nat
  BY DEF Responses
<1>2. ASSUME NEW n \in 1 .. Len(answers) PROVE Body(n, answers[n].size) \in Seq(Parts)
  <2>1. n \in Nat /\ answers[n].size \in Nat
    BY <1>1 DEF Responses
  <2>. QED  BY <2>1, BodyIs
<1>3. Bodies = [n \in 1 .. Len(answers) |-> Body(n, answers[n].size)]
  BY <1>1 DEF Bodies
<1>4. Bodies \in [1 .. Len(answers) -> Seq(Parts)]
  BY <1>2, <1>3, SMTT(30)
<1>5. PICK m \in Nat : m = Len(answers)
  BY <1>1
<1>. QED  BY <1>4, <1>5

-----------------------------------------------------------------------------
(* What the second vector describes.                                        *)
RestOfFile == IF iovCnt = 2 THEN FileRest(Len(answers), iov[2].base, iov[2].len) ELSE <<>>

(* The rest of the file is as long as its vector says.                      *)
LEMMA RestIsSeq ==
  ASSUME VectorsDescribe, Len(answers) \in Nat
  PROVE  /\ RestOfFile \in Seq(Parts)
         /\ Len(RestOfFile) = IF iovCnt = 2 THEN iov[2].len ELSE 0
<1>1. iov[2].base \in Nat /\ iov[2].len \in Nat
  BY DEF VectorsDescribe, Vectors
<1>2. CASE iovCnt = 2
  BY <1>1, <1>2, FileRestIs, ZenonT(40) DEF RestOfFile
<1>3. CASE iovCnt # 2
  BY <1>3 DEF RestOfFile
<1>. QED  BY <1>2, <1>3

(* A vector that describes what is readable.                                *)
LEMMA VectorIs ==
  ASSUME NEW b \in Buffers(Parts), NEW v \in Vectors, v.len = Len(Readable(b)),
         v.len > 0 => v.base = b.readPos
  PROVE  SubSeq(b.cells, v.base + 1, v.base + v.len) = Readable(b)
<1>1. /\ Readable(b) \in Seq(Parts) /\ Len(Readable(b)) = b.writePos - b.readPos
      /\ v.base \in Nat /\ v.len \in Nat
  BY ReadableIs DEF Vectors
<1>2. CASE v.len > 0
  <2>1. v.base = b.readPos /\ v.base + v.len = b.writePos
    BY <1>1, <1>2 DEF Buffers
  <2>. QED  BY <2>1 DEF Readable
<1>3. CASE v.len = 0
  <2>1. v.base + v.len < v.base + 1
    BY <1>1, <1>3
  <2>2. SubSeq(b.cells, v.base + 1, v.base + v.len) = <<>>
    BY <1>1, <2>1, SubSeqEmpty
  <2>3. Readable(b) = <<>>
    BY <1>1, <1>3
  <2>. QED  BY <2>2, <2>3
<1>. QED  BY <1>1, <1>2, <1>3

(* What is not sent yet, as the buffer and the file have it.                *)
LEMMA UnsentIs ==
  ASSUME VectorsDescribe
  PROVE  Unsent = Readable(writeBuff) \o RestOfFile
<1>1. SubSeq(writeBuff.cells, iov[1].base + 1, iov[1].base + iov[1].len) = Readable(writeBuff)
  BY VectorIs DEF VectorsDescribe
<1>2. (IF iovCnt = 2 THEN FileParts ELSE <<>>) = RestOfFile
  BY DEF FileParts, RestOfFile, FileRest
<1>. QED  BY <1>1, <1>2 DEF Unsent

(* The same of the next state.                                              *)
LEMMA UnsentIsNext ==
  ASSUME VectorsDescribe'
  PROVE  Unsent' = Readable(writeBuff') \o RestOfFile'
<1>1. Readable(writeBuff)' = Readable(writeBuff')
  BY DEF Readable
<1>2. /\ writeBuff' \in Buffers(Parts) /\ iov'[1] \in Vectors /\ iov'[1].len = Len(Readable(writeBuff'))
      /\ iov'[1].len > 0 => iov'[1].base = writeBuff'.readPos
  BY <1>1 DEF VectorsDescribe
<1>3. SubSeq(writeBuff'.cells, iov'[1].base + 1, iov'[1].base + iov'[1].len) = Readable(writeBuff')
  BY <1>2, VectorIs
<1>4. (IF iovCnt' = 2 THEN FileParts' ELSE <<>>) = RestOfFile'
  BY DEF FileParts, RestOfFile, FileRest
<1>. QED  BY <1>3, <1>4 DEF Unsent

(* Between two responses nothing is unsent.                                 *)
LEMMA IdleMeansSent ==
  ASSUME VectorsDescribe, WrittenOut, phase \in Idle, Len(answers) \in Nat
  PROVE  Readable(writeBuff) = <<>> /\ Unsent = <<>>
<1>1. Readable(writeBuff) \in Seq(Parts) /\ Len(Readable(writeBuff)) = 0
  BY ReadableIs DEF VectorsDescribe, WrittenOut
<1>2. RestOfFile \in Seq(Parts) /\ Len(RestOfFile) = 0
  BY RestIsSeq DEF WrittenOut
<1>3. Readable(writeBuff) = <<>> /\ RestOfFile = <<>>
  BY <1>1, <1>2
<1>. QED  BY <1>3, UnsentIs

-----------------------------------------------------------------------------
(* A vector that a write moved.                                             *)
LEMMA MovedIs ==
  ASSUME NEW v \in Vectors, NEW d \in 0 .. v.len
  PROVE  /\ Moved(v, d) \in Vectors /\ Moved(v, d).base = v.base + d /\ Moved(v, d).len = v.len - d
  BY DEF Moved, Vectors

(* The two vectors as a pair.                                               *)
LEMMA PairIs ==
  ASSUME NEW u \in Vectors, NEW v \in Vectors, iov' = <<u, v>>
  PROVE  iov' \in [1 .. 2 -> Vectors] /\ iov'[1] = u /\ iov'[2] = v
  OBVIOUS

(* What a write that took less than the head leaves.                        *)
LEMMA HeadMoves ==
  ASSUME VectorsDescribe, Len(answers) \in Nat, UNCHANGED <<iovCnt, answers>>,
         NEW len \in Nat, len <= iov[1].len, AfterWrite(len)
  PROVE  VectorsDescribe' /\ Unsent' = SubSeq(Unsent, len + 1, Len(Unsent))
<1>. DEFINE h == Readable(writeBuff)
<1>1. /\ iov' = <<Moved(iov[1], len), iov[2]>> /\ writeBuff' = Retrieve(writeBuff, len)
  BY DEF AfterWrite, VectorsDescribe, Vectors
<1>2. /\ writeBuff \in Buffers(Parts) /\ iov[1] \in Vectors /\ iov[2] \in Vectors
      /\ iov[1].len = Len(h) /\ iov[1].len \in Nat
  BY DEF VectorsDescribe, Vectors
<1>3. /\ writeBuff' \in Buffers(Parts) /\ writeBuff'.readPos = writeBuff.readPos + len
      /\ Readable(writeBuff)' = SubSeq(h, len + 1, Len(h))
  <2>1. len \in 0 .. Len(h)
    BY <1>2
  <2>2. Readable(writeBuff)' = Readable(writeBuff')
    BY DEF Readable
  <2>. HIDE DEF h
  <2>. QED  BY <1>1, <1>2, <2>1, <2>2, RetrieveDrops DEF h
<1>4. /\ iov' \in [1 .. 2 -> Vectors] /\ iov'[2] = iov[2] /\ iov'[1] = Moved(iov[1], len)
      /\ iov'[1].base = iov[1].base + len /\ iov'[1].len = iov[1].len - len
  <2>1. len \in 0 .. iov[1].len
    BY <1>2
  <2>. QED  BY <1>1, <1>2, <2>1, MovedIs, PairIs
<1>5. h \in Seq(Parts)
  BY <1>2, ReadableIs
<1>6. Len(Readable(writeBuff)') = Len(h) - len
  <2>. HIDE DEF h
  <2>. QED  BY <1>2, <1>3, <1>5
<1>7. VectorsDescribe'
  <2>1. iov'[1].len > 0 => iov'[1].base = writeBuff'.readPos
    BY <1>2, <1>3, <1>4 DEF VectorsDescribe
  <2>2. iov'[1].len = Len(Readable(writeBuff))'
    BY <1>2, <1>4, <1>6
  <2>3. iov'[1].len <= HeadLen + 1 /\ iov'[2].len <= FileLen + 1
    BY <1>2, <1>4, ConnectionAssumption DEF VectorsDescribe
  <2>4. iovCnt' \in {0, 1, 2} /\ (iovCnt' = 2 => iov'[2].base + iov'[2].len = FileLen)
    BY <1>4 DEF VectorsDescribe
  <2>. QED  BY <1>3, <1>4, <2>1, <2>2, <2>3, <2>4 DEF VectorsDescribe
<1>8. RestOfFile' = RestOfFile /\ RestOfFile \in Seq(Parts)
  BY <1>4, RestIsSeq DEF RestOfFile
<1>9. Unsent' = SubSeq(h, len + 1, Len(h)) \o RestOfFile
  <2>1. Unsent' = Readable(writeBuff') \o RestOfFile'
    BY <1>7, UnsentIsNext
  <2>2. Readable(writeBuff)' = Readable(writeBuff')
    BY DEF Readable
  <2>. QED  BY <1>3, <1>8, <2>1, <2>2
<1>10. Unsent = h \o RestOfFile
  BY UnsentIs
<1>11. len \in 0 .. Len(h)
  BY <1>2
<1>. HIDE DEF h
<1>12. SubSeq(h \o RestOfFile, len + 1, Len(h \o RestOfFile)) = SubSeq(h, len + 1, Len(h)) \o RestOfFile
  BY <1>5, <1>8, <1>11, RestOfFirst
<1>. QED  BY <1>7, <1>9, <1>10, <1>12

(* What a write that took the head and some of the file leaves.             *)
LEMMA FileMoves ==
  ASSUME VectorsDescribe, Len(answers) \in Nat, UNCHANGED <<iovCnt, answers>>,
         NEW len \in Nat, len > iov[1].len, len <= Len(Unsent), AfterWrite(len)
  PROVE  VectorsDescribe' /\ Unsent' = SubSeq(Unsent, len + 1, Len(Unsent))
<1>. DEFINE h == Readable(writeBuff)
            d == len - iov[1].len
<1>1. /\ iov' = <<[iov[1] EXCEPT !.len = 0], Moved(iov[2], d)>>
      /\ writeBuff' = IF iov[1].len # 0 THEN RetrieveAll(writeBuff) ELSE writeBuff
  BY DEF AfterWrite
<1>2. /\ writeBuff \in Buffers(Parts) /\ iov[1] \in Vectors /\ iov[2] \in Vectors
      /\ iov[1].len = Len(h) /\ iov[1].len \in Nat /\ iov[2].len \in Nat /\ iov[2].base \in Nat
  BY DEF VectorsDescribe, Vectors
<1>3. h \in Seq(Parts)
  BY <1>2, ReadableIs
<1>4. /\ RestOfFile \in Seq(Parts) /\ Len(RestOfFile) = IF iovCnt = 2 THEN iov[2].len ELSE 0
      /\ Unsent = h \o RestOfFile
  BY RestIsSeq, UnsentIs
<1>5. iovCnt = 2 /\ d \in Nat /\ d <= iov[2].len
  <2>. HIDE DEF h
  <2>1. Len(Unsent) = Len(h) + Len(RestOfFile)
    BY <1>3, <1>4, ConcatProperties
  <2>. QED  BY <1>2, <1>4, <2>1
<1>6. writeBuff' \in Buffers(Parts) /\ Readable(writeBuff') = <<>>
  <2>1. CASE iov[1].len # 0
    BY <1>1, <1>2, <2>1, RetrieveAllEmpties
  <2>2. CASE iov[1].len = 0
    <3>1. h = <<>>
      <4>1. Len(h) = 0
        BY <1>2, <2>2, Zenon
      <4>. HIDE DEF h
      <4>. QED  BY <1>3, <4>1
    <3>. QED  BY <1>1, <1>2, <2>2, <3>1
  <2>. QED  BY <2>1, <2>2
<1>. HIDE DEF d
<1>7. /\ iov' \in [1 .. 2 -> Vectors] /\ iov'[1].len = 0
      /\ iov'[2].base = iov[2].base + d /\ iov'[2].len = iov[2].len - d
  <2>1. Moved(iov[2], d) \in Vectors /\ Moved(iov[2], d).base = iov[2].base + d
        /\ Moved(iov[2], d).len = iov[2].len - d
    BY <1>2, <1>5, MovedIs
  <2>2. [iov[1] EXCEPT !.len = 0] \in Vectors /\ [iov[1] EXCEPT !.len = 0].len = 0
    BY <1>2 DEF Vectors
  <2>. QED  BY <1>1, <2>1, <2>2, PairIs
<1>8. VectorsDescribe'
  <2>1. Readable(writeBuff)' = Readable(writeBuff')
    BY DEF Readable
  <2>2. iov'[1].len = Len(Readable(writeBuff)')
    BY <1>6, <1>7, <2>1
  <2>3. iov'[2].len <= FileLen + 1 /\ iov'[1].len <= HeadLen + 1
    BY <1>2, <1>5, <1>7, ConnectionAssumption DEF VectorsDescribe
  <2>4. iov'[2].base + iov'[2].len = FileLen
    BY <1>2, <1>5, <1>7 DEF VectorsDescribe
  <2>5. ~(iov'[1].len > 0) /\ iovCnt' = 2
    BY <1>5, <1>7
  <2>. QED  BY <1>6, <1>7, <2>2, <2>3, <2>4, <2>5 DEF VectorsDescribe
<1>9. RestOfFile = FileRest(Len(answers), iov[2].base, iov[2].len)
  BY <1>5 DEF RestOfFile
<1>10. RestOfFile' = FileRest(Len(answers), iov[2].base + d, iov[2].len - d)
  BY <1>5, <1>7 DEF RestOfFile
<1>11. RestOfFile' = SubSeq(RestOfFile, d + 1, Len(RestOfFile))
  <2>1. Len(RestOfFile) = iov[2].len /\ d \in 0 .. iov[2].len
    BY <1>4, <1>5
  <2>2. SubSeq(FileRest(Len(answers), iov[2].base, iov[2].len), d + 1, iov[2].len) =
          FileRest(Len(answers), iov[2].base + d, iov[2].len - d)
    BY <1>2, <2>1, FileRestDrops, ZenonT(40)
  <2>. QED  BY <1>9, <1>10, <2>1, <2>2
<1>12. RestOfFile' \in Seq(Parts)
  BY <1>4, <1>5, <1>11
<1>13. Unsent' = SubSeq(RestOfFile, d + 1, Len(RestOfFile))
  <2>1. Unsent' = <<>> \o RestOfFile'
    BY <1>6, <1>8, UnsentIsNext
  <2>. QED  BY <1>11, <1>12, <2>1, ConcatEmptySeq
<1>14. len = Len(h) + d
  BY <1>2 DEF d
<1>15. d \in 0 .. Len(RestOfFile)
  BY <1>4, <1>5
<1>. HIDE DEF h
<1>16. SubSeq(h \o RestOfFile, Len(h) + d + 1, Len(h \o RestOfFile)) =
         SubSeq(RestOfFile, d + 1, Len(RestOfFile))
  BY <1>3, <1>4, <1>15, RestOfSecond
<1>. QED  BY <1>4, <1>8, <1>13, <1>14, <1>16

-----------------------------------------------------------------------------
(* Steps that leave the output alone.                                       *)
LEMMA OutputFrame ==
  ASSUME OutputIsKept, phase' \in Idle => phase \in Idle,
         UNCHANGED <<server, outq, got, gone, answers, wbuf, writeBuff, iov, iovCnt>>
  PROVE  OutputIsKept'
<1>1. VectorsDescribe'
  BY DEF OutputIsKept, VectorsDescribe, Readable
<1>2. WrittenOut'
  BY DEF OutputIsKept, WrittenOut
<1>3. Responses'
  BY DEF OutputIsKept, Responses
<1>4. Unsent' = Unsent
  BY DEF Unsent, FileParts
<1>5. Bodies' = Bodies
  BY DEF Bodies
<1>6. Delivered'
  BY <1>4, <1>5 DEF OutputIsKept, Delivered
<1>. QED  BY <1>1, <1>2, <1>3, <1>6 DEF OutputIsKept

(* One more response.                                                       *)
LEMMA AnswersGrow ==
  ASSUME Responses, NEW x, x.size \in Nat, answers' = Append(answers, x)
  PROVE  /\ \E S : answers' \in Seq(S)
         /\ \A n \in 1 .. Len(answers') : answers'[n].size \in Nat
         /\ Len(answers') = Len(answers) + 1
         /\ Bodies' = Append(Bodies, Body(Len(answers) + 1, x.size))
<1>1. PICK S : answers \in Seq(S)
  BY DEF Responses
<1>2. PICK T : T = S \cup {x}
  OBVIOUS
<1>3. answers \in Seq(T) /\ x \in T
  BY <1>1, <1>2, SeqMonotonic
<1>4. /\ answers' \in Seq(T) /\ Len(answers') = Len(answers) + 1 /\ Len(answers) \in Nat
      /\ \A i \in 1 .. Len(answers) : answers'[i] = answers[i]
      /\ answers'[Len(answers) + 1] = x
  BY <1>3, AppendProperties
<1>5. ASSUME NEW n \in 1 .. Len(answers') PROVE answers'[n].size \in Nat
  <2>1. CASE n = Len(answers) + 1
    BY <1>4, <2>1
  <2>2. CASE n # Len(answers) + 1
    <3>1. n \in 1 .. Len(answers)
      BY <1>4, <2>2
    <3>. QED  BY <1>4, <3>1 DEF Responses
  <2>. QED  BY <2>1, <2>2
<1>6. Bodies' = Append(Bodies, Body(Len(answers) + 1, x.size))
  <2>. DEFINE m == Len(answers)
              b == Body(Len(answers) + 1, x.size)
              B == Append(Bodies, b)
  <2>1. Bodies \in Seq(Seq(Parts)) /\ Len(Bodies) = m
    BY BodiesAreSeqs
  <2>2. b \in Seq(Parts)
    <3>1. Len(answers) + 1 \in Nat
      BY <1>4
    <3>. QED  BY <3>1, BodyIs
  <2>3. m \in Nat /\ DOMAIN answers = 1 .. m /\ DOMAIN answers' = 1 .. m + 1
    BY <1>3, <1>4
  <2>4. Bodies' = [n \in 1 .. m + 1 |-> Body(n, answers'[n].size)]
    BY <2>3 DEF Bodies
  <2>5. /\ B \in Seq(Seq(Parts)) /\ Len(B) = m + 1
        /\ \A i \in 1 .. m : B[i] = Bodies[i]
        /\ B[m + 1] = b
    <3>. HIDE DEF b
    <3>. QED  BY <2>1, <2>2, AppendProperties
  <2>6. \A i \in 1 .. m : Bodies[i] = Body(i, answers[i].size)
    BY <2>3 DEF Bodies
  <2>7. ASSUME NEW n \in 1 .. m + 1 PROVE B[n] = Body(n, answers'[n].size)
    <3>1. CASE n = m + 1
      BY <1>4, <2>5, <3>1
    <3>2. CASE n # m + 1
      <4>1. n \in 1 .. m
        BY <2>3, <3>2
      <4>2. B[n] = Bodies[n] /\ Bodies[n] = Body(n, answers[n].size) /\ answers'[n] = answers[n]
        BY <1>4, <2>5, <2>6, <4>1
      <4>. QED  BY <4>2
    <3>. QED  BY <3>1, <3>2
  <2>. HIDE DEF B, b
  <2>8. B = [n \in 1 .. m + 1 |-> B[n]]
    BY <2>3, <2>5
  <2>9. B = [n \in 1 .. m + 1 |-> Body(n, answers'[n].size)]
    BY <2>7, <2>8
  <2>. QED  BY <2>4, <2>9 DEF B, b
<1>. QED  BY <1>4, <1>5, <1>6

-----------------------------------------------------------------------------
(* z is s, of length m, followed by t, of length n.                         *)
Joins(z, s, m, t, n) ==
  \A i \in 1 .. m + n : z[i] = IF i <= m THEN s[i] ELSE t[i - m]

(* l is (a b c) d and r is (a b) c d.                                       *)
Grouped(a, b, c, d, x, y, p, q, l, r, la, lb, lc, ld) ==
  /\ la \in Nat /\ lb \in Nat /\ lc \in Nat /\ ld \in Nat
  /\ Joins(x, b, lb, c, lc) /\ Joins(y, c, lc, d, ld)
  /\ Joins(p, a, la, x, lb + lc) /\ Joins(q, a, la, b, lb)
  /\ Joins(l, p, la + (lb + lc), d, ld) /\ Joins(r, q, la + lb, y, lc + ld)

(* What is taken from the front of one sequence and added to the end of     *)
(* another changes nothing of the whole.                                    *)
LEMMA Regrouped ==
  ASSUME NEW a, NEW b, NEW c, NEW d, NEW x, NEW y, NEW p, NEW q, NEW l, NEW r,
         NEW la, NEW lb, NEW lc, NEW ld,
         Grouped(a, b, c, d, x, y, p, q, l, r, la, lb, lc, ld)
  PROVE  \A i \in 1 .. la + lb + lc + ld : l[i] = r[i]
<1>. SUFFICES ASSUME NEW i \in 1 .. la + lb + lc + ld PROVE l[i] = r[i]
  OBVIOUS
<1>1. CASE i <= la
  <2>1. l[i] = p[i] /\ r[i] = q[i]
    BY <1>1 DEF Grouped, Joins
  <2>2. p[i] = a[i] /\ q[i] = a[i]
    BY <1>1 DEF Grouped, Joins
  <2>. QED  BY <2>1, <2>2
<1>2. CASE i > la /\ i <= la + lb
  <2>1. l[i] = p[i] /\ r[i] = q[i] /\ i - la \in 1 .. lb
    BY <1>2 DEF Grouped, Joins
  <2>2. p[i] = x[i - la] /\ q[i] = b[i - la]
    BY <1>2 DEF Grouped, Joins
  <2>3. x[i - la] = b[i - la]
    BY <2>1 DEF Grouped, Joins
  <2>. QED  BY <2>1, <2>2, <2>3
<1>3. CASE i > la + lb /\ i <= la + lb + lc
  <2>1. l[i] = p[i] /\ r[i] = y[i - (la + lb)]
    BY <1>3 DEF Grouped, Joins
  <2>2. p[i] = x[i - la]
    BY <1>3 DEF Grouped, Joins
  <2>3. PICK j \in lb + 1 .. lb + lc : j = i - la
    BY <1>3 DEF Grouped
  <2>4. x[j] = c[j - lb]
    BY <2>3 DEF Grouped, Joins
  <2>5. PICK k \in 1 .. lc : k = i - (la + lb)
    BY <1>3 DEF Grouped
  <2>6. y[k] = c[k]
    BY <2>5 DEF Grouped, Joins
  <2>7. j - lb = k
    BY <2>3, <2>5 DEF Grouped
  <2>. QED  BY <2>1, <2>2, <2>3, <2>4, <2>5, <2>6, <2>7
<1>4. CASE i > la + lb + lc
  <2>1. l[i] = d[i - (la + (lb + lc))] /\ r[i] = y[i - (la + lb)]
    BY <1>4 DEF Grouped, Joins
  <2>2. PICK k \in lc + 1 .. lc + ld : k = i - (la + lb)
    BY <1>4 DEF Grouped
  <2>3. y[k] = d[k - lc]
    BY <2>2 DEF Grouped, Joins
  <2>4. k - lc = i - (la + (lb + lc))
    BY <2>2 DEF Grouped
  <2>. QED  BY <2>1, <2>2, <2>3, <2>4
<1>. QED  BY <1>1, <1>2, <1>3, <1>4 DEF Grouped

(* Concatenation, as an operator that a proof expands where it needs to.    *)
Cat(s, t) == s \o t

(* What concatenation does, position by position.                           *)
LEMMA ConcatJoins ==
  ASSUME NEW S, NEW s \in Seq(S), NEW t \in Seq(S)
  PROVE  /\ Cat(s, t) \in Seq(S) /\ Len(Cat(s, t)) = Len(s) + Len(t)
         /\ Joins(Cat(s, t), s, Len(s), t, Len(t))
BY ConcatProperties DEF Joins, Cat

(* (a b c) d is (a b) c d.                                                  *)
LEMMA ConcatRegrouped ==
  ASSUME NEW S, NEW a \in Seq(S), NEW b \in Seq(S), NEW c \in Seq(S), NEW d \in Seq(S),
         NEW x, NEW y, NEW p, NEW q, NEW l, NEW r,
         x = Cat(b, c), y = Cat(c, d), p = Cat(a, x), q = Cat(a, b), l = Cat(p, d), r = Cat(q, y)
  PROVE  l = r
<1>1. PICK la, lb, lc, ld : la = Len(a) /\ lb = Len(b) /\ lc = Len(c) /\ ld = Len(d)
  OBVIOUS
<1>2. la \in Nat /\ lb \in Nat /\ lc \in Nat /\ ld \in Nat
  BY <1>1
<1>3. x \in Seq(S) /\ Len(x) = lb + lc /\ Joins(x, b, lb, c, lc)
  BY <1>1, ConcatJoins
<1>4. y \in Seq(S) /\ Len(y) = lc + ld /\ Joins(y, c, lc, d, ld)
  BY <1>1, ConcatJoins
<1>5. p \in Seq(S) /\ Len(p) = la + (lb + lc) /\ Joins(p, a, la, x, lb + lc)
  <2>1. p \in Seq(S) /\ Len(p) = Len(a) + Len(x) /\ Joins(p, a, Len(a), x, Len(x))
    <3>1. x \in Seq(S)
      BY <1>3
    <3>. QED  BY <3>1, ConcatJoins
  <2>. QED  BY <1>1, <1>3, <2>1, Zenon
<1>6. q \in Seq(S) /\ Len(q) = la + lb /\ Joins(q, a, la, b, lb)
  BY <1>1, ConcatJoins
<1>7. l \in Seq(S) /\ Len(l) = (la + (lb + lc)) + ld /\ Joins(l, p, la + (lb + lc), d, ld)
  <2>1. l \in Seq(S) /\ Len(l) = Len(p) + Len(d) /\ Joins(l, p, Len(p), d, Len(d))
    BY <1>5, ConcatJoins
  <2>. QED  BY <1>1, <1>5, <2>1, Zenon
<1>8. r \in Seq(S) /\ Len(r) = (la + lb) + (lc + ld) /\ Joins(r, q, la + lb, y, lc + ld)
  <2>1. r \in Seq(S) /\ Len(r) = Len(q) + Len(y) /\ Joins(r, q, Len(q), y, Len(y))
    <3>1. q \in Seq(S) /\ y \in Seq(S)
      BY <1>4, <1>6
    <3>. QED  BY <3>1, ConcatJoins
  <2>. QED  BY <1>4, <1>6, <2>1, Zenon
<1>9. \A i \in 1 .. la + lb + lc + ld : l[i] = r[i]
  <2>1. Grouped(a, b, c, d, x, y, p, q, l, r, la, lb, lc, ld)
    BY <1>2, <1>3, <1>4, <1>5, <1>6, <1>7, <1>8, Zenon DEF Grouped
  <2>. QED  BY <2>1, Regrouped
<1>10. Len(l) = la + lb + lc + ld /\ Len(r) = la + lb + lc + ld
  BY <1>2, <1>7, <1>8
<1>11. l \in Seq(S) /\ r \in Seq(S) /\ Len(l) = Len(r)
  BY <1>7, <1>8, <1>10
<1>12. \A i \in 1 .. Len(l) : l[i] = r[i]
  BY <1>9, <1>10, Zenon
<1>. QED  BY <1>11, <1>12, SeqEqual

(* The constructor empties the write buffer, which has nothing in it.       *)
LEMMA AcceptSends ==
  ASSUME OutputIsKept, Accepted, UNCHANGED wbuf
  PROVE  OutputIsKept'
<1>1. /\ writeBuff' = RetrieveAll(writeBuff) /\ phase = "init"
      /\ UNCHANGED <<server, outq, got, gone, answers, iov, iovCnt>>
  BY DEF Accepted, clientVars
<1>2. VectorsDescribe /\ WrittenOut /\ Responses /\ Len(answers) \in Nat /\ phase \in Idle
  BY <1>1, BodiesAreSeqs DEF OutputIsKept, Idle
<1>3. writeBuff \in Buffers(Parts) /\ iov[1].len = 0
  BY <1>2 DEF VectorsDescribe, WrittenOut
<1>4. writeBuff' \in Buffers(Parts) /\ Readable(writeBuff') = <<>>
  BY <1>1, <1>3, RetrieveAllEmpties
<1>5. Readable(writeBuff)' = <<>>
  BY <1>4 DEF Readable
<1>6. VectorsDescribe'
  BY <1>1, <1>2, <1>3, <1>4, <1>5 DEF VectorsDescribe
<1>7. Readable(writeBuff) = <<>>
  BY <1>2, IdleMeansSent
<1>8. Unsent' = Unsent
  <2>1. RestOfFile' = RestOfFile
    BY <1>1 DEF RestOfFile
  <2>. QED  BY <1>2, <1>4, <1>6, <1>7, <2>1, UnsentIs, UnsentIsNext
<1>9. WrittenOut' /\ Responses'
  BY <1>1, <1>2 DEF WrittenOut, Responses
<1>10. Delivered'
  BY <1>1, <1>8 DEF OutputIsKept, Delivered, Bodies
<1>. QED  BY <1>6, <1>9, <1>10 DEF OutputIsKept

(* writev1 takes some of what is unsent, and write() drops as much.         *)
LEMMA WriteSends ==
  ASSUME OutputIsKept, server = "stackful", WriteSome, UNCHANGED wbuf
  PROVE  OutputIsKept'
<1>1. PICK len \in 1 .. Len(Unsent) :
        /\ IF gone THEN len = Len(Unsent) ELSE len <= Room
        /\ outq' = IF gone THEN outq ELSE outq \o SubSeq(Unsent, 1, len)
        /\ AfterWrite(len)
  BY DEF WriteSome
<1>2. /\ phase' = IF ToWriteBytes(iov') # 0 THEN "write" ELSE "again"
      /\ UNCHANGED <<server, got, gone, answers, iovCnt>>
  BY DEF WriteSome
<1>3. VectorsDescribe /\ Responses /\ Len(answers) \in Nat
  BY BodiesAreSeqs DEF OutputIsKept
<1>4. /\ Unsent \in Seq(Parts) /\ Len(Unsent) \in Nat /\ len \in Nat
      /\ iov[1].len \in Nat
  <2>1. Readable(writeBuff) \in Seq(Parts) /\ RestOfFile \in Seq(Parts)
    BY <1>3, ReadableIs, RestIsSeq DEF VectorsDescribe
  <2>2. Unsent \in Seq(Parts)
    BY <1>3, <2>1, UnsentIs, ConcatProperties
  <2>3. iov[1].len \in Nat
    BY <1>3 DEF VectorsDescribe, Vectors
  <2>. QED  BY <2>2, <2>3
<1>5. VectorsDescribe' /\ Unsent' = SubSeq(Unsent, len + 1, Len(Unsent))
  <2>1. len <= Len(Unsent)
    BY <1>4
  <2>2. CASE len <= iov[1].len
    BY <1>1, <1>2, <1>3, <1>4, <2>2, HeadMoves
  <2>3. CASE len > iov[1].len
    BY <1>1, <1>2, <1>3, <1>4, <2>1, <2>3, FileMoves
  <2>. QED  BY <1>4, <2>2, <2>3
<1>6. WrittenOut'
  <2>1. SUFFICES ASSUME phase' \in Idle PROVE iov'[1].len = 0 /\ iov'[2].len = 0
    BY DEF WrittenOut
  <2>2. ToWriteBytes(iov') = 0
    BY <1>2, <2>1 DEF Idle
  <2>3. iov'[1].len \in Nat /\ iov'[2].len \in Nat
    BY <1>5 DEF VectorsDescribe, Vectors
  <2>4. iov'[1].len + iov'[2].len = 0
    BY <2>2 DEF ToWriteBytes
  <2>. QED  BY <2>3, <2>4
<1>7. SubSeq(Unsent, 1, len) \in Seq(Parts) /\ Len(SubSeq(Unsent, 1, len)) = len
  BY <1>4
<1>8. Responses'
  <2>1. outq \in Seq(Parts) /\ Len(outq) \in Nat /\ Len(outq) <= Window
    BY <1>3 DEF Responses
  <2>2. CASE gone
    BY <1>1, <1>2, <1>3, <2>2 DEF Responses
  <2>3. CASE ~gone
    <3>1. outq' = outq \o SubSeq(Unsent, 1, len) /\ len <= Window - Len(outq)
      BY <1>1, <2>3 DEF Room
    <3>2. outq' \in Seq(Parts) /\ Len(outq') = Len(outq) + len
      BY <1>7, <2>1, <3>1, ConcatProperties
    <3>3. Len(outq') <= Window
      BY <1>4, <2>1, <3>1, <3>2, ClientAssumption
    <3>. QED  BY <1>2, <1>3, <3>2, <3>3 DEF Responses
  <2>. QED  BY <2>2, <2>3
<1>9. Delivered'
  <2>1. SUFFICES ASSUME ~gone PROVE got' \o outq' \o Unsent' = FlattenSeq(Bodies')
    BY <1>2 DEF Delivered
  <2>. DEFINE u == Unsent
              v == SubSeq(Unsent, 1, len)
              w == SubSeq(Unsent, len + 1, Len(Unsent))
  <2>2. got \o outq \o u = FlattenSeq(Bodies)
    BY <2>1 DEF OutputIsKept, Delivered
  <2>3. u \in Seq(Parts) /\ v \in Seq(Parts) /\ w \in Seq(Parts)
    BY <1>4, SMTT(30)
  <2>4. got \in Seq(Parts) /\ outq \in Seq(Parts)
    BY <1>3 DEF Responses
  <2>5. v \o w = u
    <3>1. len \in 1 - 1 .. Len(u) /\ Len(u) \in len .. Len(u) /\ 1 \in 1 .. Len(u) + 1
      BY <1>4
    <3>2. SubSeq(u, 1, len) \o SubSeq(u, len + 1, Len(u)) = SubSeq(u, 1, Len(u))
      BY <2>3, <3>1, ConcatAdjacentSubSeq
    <3>3. SubSeq(u, 1, Len(u)) = u
      BY <2>3, SubSeqFull
    <3>. QED  BY <3>2, <3>3
  <2>6. outq' = outq \o v /\ Unsent' = w /\ got' = got /\ Bodies' = Bodies
    BY <1>1, <1>2, <1>5, <2>1 DEF Bodies
  <2>. HIDE DEF u, v, w
  <2>7. (got \o outq') \o w = (got \o outq) \o u
    <3>1. PICK p, q, l, r : /\ p = Cat(got, outq') /\ q = Cat(got, outq)
                              /\ l = Cat(p, w) /\ r = Cat(q, u)
      OBVIOUS
    <3>3. outq' = Cat(outq, v) /\ u = Cat(v, w)
      BY <2>5, <2>6, Zenon DEF Cat
    <3>2. l = r
      BY <2>3, <2>4, <3>1, <3>3, ConcatRegrouped
    <3>. QED  BY <3>1, <3>2, Zenon DEF Cat
  <2>. QED  BY <2>2, <2>6, <2>7
<1>. QED  BY <1>5, <1>6, <1>8, <1>9 DEF OutputIsKept

-----------------------------------------------------------------------------
(* The head of a response and the file after it are the response.           *)
LEMMA HeadAndFile ==
  ASSUME NEW n \in Nat, NEW size, size = HeadLen + FileLen,
         NEW h, h = [i \in 1 .. HeadLen |-> Part(n, i, size)]
  PROVE  h \o FileRest(n, 0, FileLen) = Body(n, size)
<1>. DEFINE f == FileRest(n, 0, FileLen)
            w == Body(n, size)
            c == h \o f
<1>0. HeadLen \in Nat /\ FileLen \in Nat /\ size \in Nat
  BY ConnectionAssumption
<1>1. /\ h \in Seq(Parts) /\ Len(h) = HeadLen
      /\ \A i \in 1 .. HeadLen : h[i] = Part(n, i, size)
  BY <1>0 DEF Part, Parts
<1>2. /\ f \in Seq(Parts) /\ Len(f) = FileLen
      /\ \A j \in 1 .. FileLen : f[j] = Part(n, HeadLen + 0 + j, HeadLen + FileLen)
  BY <1>0, FileRestIs
<1>3. w \in Seq(Parts) /\ Len(w) = size /\ \A i \in 1 .. size : w[i] = Part(n, i, size)
  BY <1>0, BodyIs
<1>. HIDE DEF f, w
<1>4. /\ c \in Seq(Parts) /\ Len(c) = Len(h) + Len(f)
      /\ \A i \in 1 .. Len(h) + Len(f) : c[i] = IF i <= Len(h) THEN h[i] ELSE f[i - Len(h)]
  BY <1>1, <1>2, ConcatProperties, ZenonT(40)
<1>. HIDE DEF c
<1>5. Len(c) = size
  BY <1>0, <1>1, <1>2, <1>4
<1>6. ASSUME NEW i \in 1 .. size PROVE c[i] = w[i]
  <2>1. w[i] = Part(n, i, size)
    BY <1>3
  <2>2. CASE i <= HeadLen
    <3>1. i \in 1 .. HeadLen /\ i \in 1 .. Len(h) + Len(f) /\ i <= Len(h)
      BY <1>0, <1>1, <1>2, <2>2
    <3>. QED  BY <1>1, <1>4, <2>1, <3>1
  <2>3. CASE i > HeadLen
    <3>1. PICK j \in 1 .. FileLen : j = i - HeadLen
      BY <1>0, <2>3
    <3>2. i \in 1 .. Len(h) + Len(f) /\ ~(i <= Len(h)) /\ i - Len(h) = j
      BY <1>0, <1>1, <1>2, <2>3, <3>1
    <3>3. c[i] = f[j]
      BY <1>4, <3>2
    <3>4. HeadLen + 0 + j = i
      BY <1>0, <3>1
    <3>. QED  BY <1>2, <2>1, <3>3, <3>4
  <2>. QED  BY <1>0, <2>2, <2>3
<1>. QED  BY <1>3, <1>4, <1>5, <1>6, SeqEqual DEF f, w, c

(* process(): the head goes to the buffer, the vectors describe head and    *)
(* file.                                                                    *)
LEMMA RespondSends ==
  ASSUME OutputIsKept, server = "stackful", Respond, UNCHANGED wbuf
  PROVE  OutputIsKept'
<1>1. VectorsDescribe /\ WrittenOut /\ Responses /\ Delivered /\ Len(answers) \in Nat
  BY BodiesAreSeqs DEF OutputIsKept
<1>2. /\ phase \in Idle /\ phase' \notin Idle
      /\ UNCHANGED <<server, outq, got, gone>>
  BY DEF Respond, Idle
<1>3. Readable(writeBuff) = <<>> /\ Unsent = <<>>
  BY <1>1, <1>2, IdleMeansSent
<1>. DEFINE n == Len(answers) + 1
<1>4. PICK file \in Files \ {"empty"} :
        LET h == IF file = "file" THEN HeadLen ELSE HeadLen + 1
            z == IF file = "file" THEN HeadLen + FileLen ELSE h
            b == AppendTo(writeBuff, [i \in 1 .. h |-> Part(n, i, z)])
        IN /\ answers' = Append(answers, [n |-> n, size |-> z, method |-> request.method,
                                          keep |-> request.keep])
           /\ writeBuff' = b
           /\ iov' = <<[base |-> b.readPos, len |-> Len(Readable(b))],
                       IF file = "file" THEN [base |-> 0, len |-> FileLen] ELSE iov[2]>>
           /\ iovCnt' = IF file = "file" THEN 2 ELSE 1
  BY DEF Respond
<1>. DEFINE head == IF file = "file" THEN HeadLen ELSE HeadLen + 1
            size == IF file = "file" THEN HeadLen + FileLen ELSE head
            parts == [i \in 1 .. head |-> Part(n, i, size)]
            buff == AppendTo(writeBuff, parts)
            x == [n |-> n, size |-> size, method |-> request.method, keep |-> request.keep]
<1>5. /\ answers' = Append(answers, x) /\ writeBuff' = buff
      /\ iov' = <<[base |-> buff.readPos, len |-> Len(Readable(buff))],
                  IF file = "file" THEN [base |-> 0, len |-> FileLen] ELSE iov[2]>>
      /\ iovCnt' = IF file = "file" THEN 2 ELSE 1
  BY <1>4, Zenon
<1>6. /\ head = IF file = "file" THEN HeadLen ELSE HeadLen + 1
      /\ size = IF file = "file" THEN HeadLen + FileLen ELSE head
      /\ parts = [i \in 1 .. head |-> Part(n, i, size)]
      /\ buff = AppendTo(writeBuff, parts)
      /\ x = [n |-> n, size |-> size, method |-> request.method, keep |-> request.keep]
  OBVIOUS
<1>. HIDE DEF head, size, parts, buff, x
<1>7. /\ HeadLen \in Nat /\ FileLen \in Nat /\ head \in Nat /\ size \in Nat /\ n \in Nat
      /\ head <= HeadLen + 1 /\ x.size = size
  <2>1. HeadLen \in Nat /\ FileLen \in Nat /\ n \in Nat
    BY <1>1, ConnectionAssumption
  <2>2. head \in Nat /\ head <= HeadLen + 1
    <3>1. head = HeadLen \/ head = HeadLen + 1
      BY <1>5, <1>6
    <3>. QED  BY <2>1, <3>1
  <2>3. size \in Nat
    <3>1. size = HeadLen + FileLen \/ size = head
      BY <1>5, <1>6
    <3>. QED  BY <2>1, <2>2, <3>1
  <2>4. x.size = size
    BY <1>5, <1>6
  <2>. QED  BY <2>1, <2>2, <2>3, <2>4
<1>8. parts \in Seq(Parts) /\ Len(parts) = head
  <2>1. \A i \in 1 .. head : Part(n, i, size) \in Parts
    BY <1>7 DEF Part, Parts
  <2>. QED  BY <1>5, <1>6, <1>7, <2>1
<1>9. buff \in Buffers(Parts) /\ Readable(buff) = parts
  <2>1. /\ AppendTo(writeBuff, parts) \in Buffers(Parts)
        /\ Readable(AppendTo(writeBuff, parts)) = Readable(writeBuff) \o parts
    BY <1>1, <1>8, AppendAdds DEF VectorsDescribe
  <2>2. <<>> \o parts = parts
    BY <1>8, ConcatEmptySeq
  <2>. QED  BY <1>3, <1>5, <1>6, <2>1, <2>2
<1>10. Readable(writeBuff)' = parts
  BY <1>5, <1>6, <1>9 DEF Readable
<1>11. /\ \E S : answers' \in Seq(S)
       /\ \A m \in 1 .. Len(answers') : answers'[m].size \in Nat
       /\ Len(answers') = n
       /\ Bodies' = Append(Bodies, Body(n, size))
  BY <1>1, <1>5, <1>6, <1>7, AnswersGrow
<1>12. VectorsDescribe'
  <2>. DEFINE u == [base |-> buff.readPos, len |-> head]
              v == IF file = "file" THEN [base |-> 0, len |-> FileLen] ELSE iov[2]
  <2>1. buff.readPos \in Nat
    BY <1>9 DEF Buffers
  <2>2. u \in Vectors /\ u.len = head /\ u.base = buff.readPos
    BY <1>7, <2>1 DEF Vectors
  <2>3. v \in Vectors /\ v.len <= FileLen + 1 /\ (file = "file" => v.base + v.len = FileLen)
    <3>1. iov[2] \in Vectors /\ iov[2].len <= FileLen + 1
      BY <1>1 DEF VectorsDescribe
    <3>2. CASE file = "file"
      BY <1>7, <3>2 DEF Vectors
    <3>3. CASE file # "file"
      BY <3>1, <3>3
    <3>. QED  BY <3>2, <3>3
  <2>4. iov' = <<u, v>>
    BY <1>5, <1>6, <1>8, <1>9
  <2>. HIDE DEF u, v
  <2>5. iov' \in [1 .. 2 -> Vectors] /\ iov'[1] = u /\ iov'[2] = v
    BY <2>2, <2>3, <2>4, PairIs
  <2>6. iovCnt' \in {0, 1, 2} /\ (iovCnt' = 2 => iov'[2].base + iov'[2].len = FileLen)
    BY <1>5, <1>6, <2>3, <2>5
  <2>7. iov'[1].len = Len(Readable(writeBuff))' /\ iov'[1].base = writeBuff'.readPos
    BY <1>5, <1>6, <1>8, <1>10, <2>2, <2>5
  <2>8. iov'[1].len <= HeadLen + 1 /\ iov'[2].len <= FileLen + 1
    BY <1>7, <2>2, <2>3, <2>5
  <2>9. writeBuff' \in Buffers(Parts)
    BY <1>5, <1>6, <1>9
  <2>. QED  BY <2>5, <2>6, <2>7, <2>8, <2>9 DEF VectorsDescribe
<1>13. Unsent' = Body(n, size)
  <2>1. Unsent' = parts \o RestOfFile'
    BY <1>5, <1>6, <1>9, <1>12, UnsentIsNext
  <2>2. CASE file = "file"
    <3>1. iovCnt' = 2 /\ iov'[2] = [base |-> 0, len |-> FileLen]
      BY <1>5, <1>6, <2>2
    <3>2. RestOfFile' = FileRest(n, 0, FileLen)
      <4>1. RestOfFile' = FileRest(Len(answers'), iov'[2].base, iov'[2].len)
        BY <3>1 DEF RestOfFile, FileRest
      <4>2. Len(answers') = n /\ iov'[2].base = 0 /\ iov'[2].len = FileLen
        BY <1>11, <3>1
      <4>. QED  BY <4>1, <4>2, Zenon
    <3>3. parts = [i \in 1 .. HeadLen |-> Part(n, i, size)] /\ size = HeadLen + FileLen
      BY <1>5, <1>6, <2>2
    <3>4. parts \o FileRest(n, 0, FileLen) = Body(n, size)
      <4>. HIDE DEF n
      <4>. QED  BY <1>7, <3>3, HeadAndFile
    <3>. QED  BY <2>1, <3>2, <3>4
  <2>3. CASE file # "file"
    <3>1. iovCnt' = 1 /\ head = size
      BY <1>5, <1>6, <2>3
    <3>2. RestOfFile' = <<>>
      BY <3>1 DEF RestOfFile
    <3>3. parts = Body(n, size)
      BY <1>5, <1>6, <3>1 DEF Body
    <3>4. parts \o <<>> = parts
      BY <1>8, ConcatEmptySeq
    <3>. QED  BY <2>1, <3>2, <3>3, <3>4
  <2>. QED  BY <2>2, <2>3
<1>14. WrittenOut' /\ Responses'
  <2>1. WrittenOut'
    BY <1>2 DEF WrittenOut
  <2>. QED  BY <1>1, <1>2, <1>11, <2>1 DEF Responses
<1>15. Delivered'
  <2>1. SUFFICES ASSUME ~gone PROVE got \o outq \o Unsent' = FlattenSeq(Bodies')
    BY <1>2 DEF Delivered
  <2>2. got \o outq \o <<>> = FlattenSeq(Bodies)
    BY <1>1, <1>3, <2>1 DEF Delivered
  <2>3. got \o outq \in Seq(Parts)
    BY <1>1, ConcatProperties DEF Responses
  <2>4. (got \o outq) \o <<>> = got \o outq
    <3>. DEFINE s == got \o outq
    <3>. HIDE DEF s
    <3>1. s \o <<>> = s
      BY <2>3, ConcatEmptySeq DEF s
    <3>. QED  BY <3>1 DEF s
  <2>5. Bodies \in Seq(Seq(Parts)) /\ Body(n, size) \in Seq(Parts)
    BY <1>1, <1>7, BodiesAreSeqs, BodyIs
  <2>6. FlattenSeq(Append(Bodies, Body(n, size))) = FlattenSeq(Bodies) \o Body(n, size)
    <3>. DEFINE s == Body(n, size)
                B == Bodies
    <3>. HIDE DEF s, B
    <3>1. FlattenSeq(Append(B, s)) = FlattenSeq(B) \o s
      BY <2>5, FlattenAppend DEF s, B
    <3>. QED  BY <3>1 DEF s, B
  <2>7. FlattenSeq(Bodies') = FlattenSeq(Bodies) \o Body(n, size)
    BY <1>11, <2>6, Zenon
  <2>8. got \o outq = FlattenSeq(Bodies)
    BY <2>2, <2>4, Zenon
  <2>9. got \o outq \o Body(n, size) = FlattenSeq(Bodies')
    BY <2>7, <2>8, Zenon
  <2>. QED  BY <1>13, <2>9
<1>. QED  BY <1>12, <1>14, <1>15 DEF OutputIsKept

-----------------------------------------------------------------------------
(* The client receives what the socket holds.                               *)
LEMMA ReceiveSends ==
  ASSUME OutputIsKept, Receive, UNCHANGED <<connVars, wbuf>>
  PROVE  OutputIsKept'
<1>1. /\ got' = got \o outq /\ outq' = <<>>
      /\ UNCHANGED <<server, gone, answers, phase, writeBuff, iov, iovCnt, wbuf>>
  BY SMTT(30) DEF Receive, connVars, httpVars
<1>2. VectorsDescribe' /\ WrittenOut' /\ Unsent' = Unsent /\ Bodies' = Bodies
  BY <1>1 DEF OutputIsKept, VectorsDescribe, Readable, WrittenOut, Unsent, FileParts, Bodies
<1>3. got \in Seq(Parts) /\ outq \in Seq(Parts)
  BY DEF OutputIsKept, Responses
<1>4. got' \in Seq(Parts)
  BY <1>1, <1>3, ConcatProperties
<1>5. Responses'
  <2>1. outq' \in Seq(Parts) /\ Len(outq') = 0 /\ 0 <= Window
    BY <1>1, ClientAssumption
  <2>. QED  BY <1>1, <1>4, <2>1 DEF OutputIsKept, Responses
<1>6. got' \o outq' = got \o outq
  <2>1. got' \o <<>> = got'
    BY <1>4, ConcatEmptySeq
  <2>. QED  BY <1>1, <2>1
<1>7. Delivered'
  BY <1>1, <1>2, <1>6, Zenon DEF OutputIsKept, Delivered
<1>. QED  BY <1>2, <1>5, <1>7 DEF OutputIsKept

(* Of a client that has left nothing is claimed.                            *)
LEMMA LeaveSends ==
  ASSUME OutputIsKept, Leave, UNCHANGED <<connVars, wbuf>>
  PROVE  OutputIsKept'
<1>1. /\ gone' = TRUE /\ outq' = <<>>
      /\ UNCHANGED <<got, answers, phase, writeBuff, iov, iovCnt, wbuf>>
  BY DEF Leave, connVars, httpVars
<1>2. VectorsDescribe' /\ WrittenOut'
  BY <1>1 DEF OutputIsKept, VectorsDescribe, Readable, WrittenOut
<1>3. Responses'
  <2>1. outq' \in Seq(Parts) /\ Len(outq') = 0 /\ 0 <= Window
    BY <1>1, ClientAssumption
  <2>. QED  BY <1>1, <2>1 DEF OutputIsKept, Responses
<1>4. Delivered'
  BY <1>1 DEF Delivered
<1>. QED  BY <1>2, <1>3, <1>4 DEF OutputIsKept

(* The handler of the other server replaces what it will write.             *)
LEMMA HandlerSends ==
  ASSUME OutputIsKept, server = "stackless", HandlerStep, UNCHANGED connVars
  PROVE  OutputIsKept'
<1>1. UNCHANGED <<server, got, gone, phase, writeBuff, iov, iovCnt>>
  BY DEF HandlerStep, AsyncRead, Overrun, Reads, Hangup, BeginProcess, ReadLine, ReadContent, AsyncWrite,
         clientVars, connVars, httpVars
<1>2. VectorsDescribe' /\ WrittenOut'
  BY <1>1 DEF OutputIsKept, VectorsDescribe, Readable, WrittenOut
<1>3. Delivered'
  BY <1>1 DEF Delivered
<1>4. Responses
  BY DEF OutputIsKept
<1>5. Responses'
  <2>1. CASE AsyncRead \/ Overrun \/ Hangup \/ BeginProcess
    BY <1>4, <2>1 DEF AsyncRead, Overrun, Reads, Hangup, BeginProcess, clientVars, Responses
  <2>2. CASE ReadLine \/ ReadContent
    <3>1. UNCHANGED <<outq, got, answers>> /\ (wbuf' = wbuf \/ wbuf' = Reply)
      BY <2>2 DEF ReadLine, ReadContent, NoRequest, Replied, clientVars
    <3>2. Reply = Body(Len(answers) + 1, ReplyLen)
      BY DEF Reply, Body
    <3>3. Len(answers) + 1 \in Nat /\ ReplyLen \in Nat
      BY <1>4, BodiesAreSeqs, ParseAssumption
    <3>4. wbuf' \in Seq(Parts)
      BY <1>4, <3>1, <3>2, <3>3, BodyIs DEF Responses
    <3>. QED  BY <1>4, <3>1, <3>4 DEF Responses
  <2>3. CASE AsyncWrite
    <3>. DEFINE k == Min({Len(wbuf), Room})
                w == SubSeq(wbuf, 1, k)
                x == [n |-> wbuf[1].n, size |-> Len(wbuf), method |-> scan.method,
                      keep |-> scan.linger]
    <3>1. /\ Room > 0 /\ outq' = outq \o w /\ UNCHANGED wbuf
          /\ answers' = IF wbuf = <<>> THEN answers ELSE Append(answers, x)
      BY <2>3 DEF AsyncWrite
    <3>2. /\ outq \in Seq(Parts) /\ wbuf \in Seq(Parts) /\ Len(outq) <= Window
          /\ Len(outq) \in Nat /\ Len(wbuf) \in Nat /\ Window \in Nat
      BY <1>4, ClientAssumption DEF Responses
    <3>3. k \in 0 .. Len(wbuf) /\ k <= Room
      <4>. DEFINE N == {Len(wbuf), Room}
      <4>1. Room \in Nat
        BY <3>1, <3>2 DEF Room
      <4>2. N \in SUBSET Nat /\ N # {}
        BY <3>2, <4>1
      <4>3. Min(N) \in N /\ \A y \in N : Min(N) <= y
        <5>. HIDE DEF N
        <5>. QED  BY <4>2, MinIs
      <4>4. Min(N) \in Nat
        BY <4>2, <4>3
      <4>5. Min(N) <= Len(wbuf) /\ Min(N) <= Room
        BY <4>3
      <4>. HIDE DEF N
      <4>6. Min(N) \in 0 .. Len(wbuf) /\ Min(N) <= Room
        BY <3>2, <4>4, <4>5
      <4>. QED  BY <4>6 DEF N
    <3>. HIDE DEF k
    <3>4. w \in Seq(Parts) /\ Len(w) = k
      BY <3>2, <3>3
    <3>. HIDE DEF w
    <3>5. outq' \in Seq(Parts) /\ Len(outq') = Len(outq) + k
      BY <3>1, <3>2, <3>4, ConcatProperties
    <3>6. Len(outq') <= Window
      BY <3>2, <3>3, <3>5 DEF Room
    <3>7. (\E S : answers' \in Seq(S)) /\ \A n \in 1 .. Len(answers') : answers'[n].size \in Nat
      <4>1. CASE wbuf = <<>>
        BY <1>4, <3>1, <4>1 DEF Responses
      <4>2. CASE wbuf # <<>>
        <5>1. x.size \in Nat /\ answers' = Append(answers, x)
          BY <3>1, <3>2, <4>2
        <5>. HIDE DEF x
        <5>. QED  BY <1>4, <5>1, AnswersGrow
      <4>. QED  BY <4>1, <4>2
    <3>. QED  BY <1>1, <1>4, <3>1, <3>5, <3>6, <3>7 DEF Responses
  <2>. QED  BY <2>1, <2>2, <2>3 DEF HandlerStep
<1>. QED  BY <1>2, <1>3, <1>5 DEF OutputIsKept

(* Nothing is answered and nothing unsent.                                  *)
LEMMA OutputInitially == Init => OutputIsKept
<1>1. SUFFICES ASSUME Init PROVE OutputIsKept
  OBVIOUS
<1>2. /\ outq = <<>> /\ got = <<>> /\ answers = <<>>
      /\ phase = "init" /\ writeBuff = NewBuffer(Part(0, 0, 1)) /\ iovCnt = 0
      /\ wbuf = <<Part(0, 0, 1)>> \/ wbuf = <<>>
  <2>1. ClientInit /\ ConnInit /\ ParseInit
    BY <1>1 DEF Init
  <2>2. outq = <<>> /\ got = <<>> /\ answers = <<>>
    BY <2>1 DEF ClientInit
  <2>3. phase = "init" /\ writeBuff = NewBuffer(Part(0, 0, 1)) /\ iovCnt = 0
    BY <2>1 DEF ConnInit
  <2>4. wbuf = <<Part(0, 0, 1)>> \/ wbuf = <<>>
    BY <2>1 DEF ParseInit
  <2>. QED  BY <2>2, <2>3, <2>4
<1>3. Part(0, 0, 1) \in Parts
  BY DEF Part, Parts
<1>4. writeBuff \in Buffers(Parts) /\ Readable(writeBuff) = <<>>
  BY <1>2, <1>3, NewBufferIs
<1>5. iov \in [1 .. 2 -> Vectors] /\ iov[1].len = 0 /\ iov[2].len \in {0, 1}
  <2>1. PICK stale \in {0, 1} : iov = <<[base |-> 0, len |-> 0], [base |-> 0, len |-> stale]>>
    BY <1>1 DEF Init, ConnInit
  <2>. DEFINE u == [base |-> 0, len |-> 0]
              v == [base |-> 0, len |-> stale]
  <2>2. u \in Vectors /\ v \in Vectors /\ u.len = 0 /\ v.len \in {0, 1}
    BY <2>1 DEF Vectors
  <2>3. iov = <<u, v>>
    BY <2>1
  <2>. HIDE DEF u, v
  <2>4. iov \in [1 .. 2 -> Vectors] /\ iov[1] = u /\ iov[2] = v
    BY <2>2, <2>3
  <2>. QED  BY <2>2, <2>4
<1>6. VectorsDescribe
  BY <1>2, <1>4, <1>5, ConnectionAssumption DEF VectorsDescribe
<1>7. WrittenOut
  BY <1>2, <1>5 DEF WrittenOut
<1>8. Responses
  <2>1. wbuf \in Seq(Parts)
    <3>. DEFINE part == Part(0, 0, 1)
    <3>1. part \in Parts /\ (wbuf = <<part>> \/ wbuf = <<>>)
      BY <1>2, <1>3
    <3>. HIDE DEF part
    <3>2. <<part>> \in Seq(Parts) /\ <<>> \in Seq(Parts)
      BY <3>1
    <3>. QED  BY <3>1, <3>2, Zenon
  <2>2. answers \in Seq(Parts) /\ Len(answers) = 0 /\ outq \in Seq(Parts) /\ Len(outq) = 0
    BY <1>2
  <2>. QED  BY <1>2, <2>1, <2>2, ClientAssumption DEF Responses
<1>9. Delivered
  <2>1. Unsent = <<>>
    <3>1. phase \in Idle /\ Len(answers) \in Nat
      BY <1>2 DEF Idle
    <3>. QED  BY <1>6, <1>7, <3>1, IdleMeansSent
  <2>2. Bodies = <<>>
    BY <1>2 DEF Bodies
  <2>3. FlattenSeq(Bodies) = <<>>
    BY <2>2, FlattenNothing
  <2>4. got \o outq \o Unsent = <<>>
    BY <1>2, <2>1
  <2>. QED  BY <2>3, <2>4 DEF Delivered
<1>. QED  BY <1>6, <1>7, <1>8, <1>9 DEF OutputIsKept

(* What goes out stays in order, whoever takes the step.                    *)
LEMMA OutputStep == OutputIsKept /\ [Next]_vars => OutputIsKept'
<1> SUFFICES ASSUME OutputIsKept, [Next]_vars
             PROVE  OutputIsKept'
  OBVIOUS
<1>. USE DEF clientVars, connVars, httpVars, parseVars
<1>1. CASE server = "stackful" /\ ConnStep /\ UNCHANGED parseVars
  <2>1. CASE Accepted
    BY <1>1, <2>1, AcceptSends
  <2>2. CASE Respond
    BY <1>1, <2>2, RespondSends
  <2>3. CASE WriteSome
    BY <1>1, <2>3, WriteSends
  <2>4. CASE ReadSome
    BY <1>1, <2>4, OutputFrame DEF ReadSome, Idle
  <2>5. CASE ReadEof \/ ReadTimeout \/ Process \/ ParseEnds \/ BadRequestLine \/ MapFails
    BY <1>1, <2>5, OutputFrame
       DEF ReadEof, AfterEof, ReadTimeout, Process, ParseEnds, BadRequestLine, MapFails, Idle
  <2>6. CASE ParseOneLine
    BY <1>1, <2>6, OutputFrame DEF ParseOneLine, Idle
  <2>7. CASE WriteFails \/ WriteNothing \/ KeepOrClose \/ Close
    BY <1>1, <2>7, OutputFrame DEF WriteFails, WriteNothing, KeepOrClose, Close, Idle
  <2>. QED  BY <1>1, <2>1, <2>2, <2>3, <2>4, <2>5, <2>6, <2>7 DEF ConnStep
<1>2. CASE server = "stackless" /\ HandlerStep /\ UNCHANGED connVars
  BY <1>2, HandlerSends
<1>3. CASE ClientStep /\ UNCHANGED <<connVars, parseVars>>
  <2>1. CASE Send
    BY <1>3, <2>1, OutputFrame DEF Send
  <2>2. CASE Receive
    BY <1>3, <2>2, ReceiveSends
  <2>3. CASE Leave
    BY <1>3, <2>3, LeaveSends
  <2>. QED  BY <1>3, <2>1, <2>2, <2>3 DEF ClientStep
<1>4. CASE NumberReused /\ UNCHANGED parseVars
  BY <1>4, OutputFrame DEF NumberReused
<1>5. CASE UNCHANGED vars
  BY <1>5, OutputFrame DEF vars
<1>. QED  BY <1>1, <1>2, <1>3, <1>4, <1>5 DEF Next, ServerStep

-----------------------------------------------------------------------------
(* What read_buf_ holds, and the members of the parser.                     *)
Cells == Toks \cup {"junk", "nul"}
Scans == [checked : 0 .. ReadBufferSize, start : Nat, readIdx : 0 .. ReadBufferSize - 1,
          state : {"requestline", "header", "content"}, method : {"GET", "POST"},
          length : {0, 1}, linger : BOOLEAN, status : {"ok", "open"}]

(* The last cell of read_buf_ is never written, and what is parsed ends     *)
(* with a NUL.                                                              *)
ArrayEnds ==
  /\ stage \in {"read", "process", "parse", "write", "overrun"}
  /\ armed \in {"any", "in", "out", "none"}
  /\ rbuf \in [1 .. ReadBufferSize -> Cells] /\ rbuf[ReadBufferSize] = "nul"
  /\ scan \in Scans
  /\ stage = "parse" => rbuf[scan.readIdx + 1] = "nul"

(* What init() sets.                                                        *)
LEMMA ScanInitIs == ScanInit \in Scans
<1>1. 0 \in 0 .. ReadBufferSize /\ 0 \in 0 .. ReadBufferSize - 1
  BY ParseAssumption
<1>. QED  BY <1>1 DEF ScanInit, Scans

(* The arrays may hold anything but a NUL at the end.                       *)
LEMMA ArrayInitially == Init => ArrayEnds
<1>1. SUFFICES ASSUME ParseInit PROVE ArrayEnds
  BY DEF Init
<1>2. stage = "read" /\ armed = "any" /\ scan = ScanInit
  BY <1>1 DEF ParseInit
<1>3. rbuf = [i \in 1 .. ReadBufferSize |-> IF junk /\ i < ReadBufferSize THEN "junk" ELSE "nul"]
  BY <1>1 DEF ParseInit
<1>4. rbuf \in [1 .. ReadBufferSize -> Cells] /\ rbuf[ReadBufferSize] = "nul"
  BY <1>3, ParseAssumption DEF Cells
<1>. QED  BY <1>2, <1>4, ScanInitIs DEF ArrayEnds

(* AsyncRead leaves the last cell alone: longer input overruns the array.   *)
LEMMA RefillEnds ==
  ASSUME ArrayEnds, InputIsKept, AsyncRead
  PROVE  ArrayEnds'
<1>1. /\ rbuf' = Refilled /\ armed' = "out" /\ stage' = "process" /\ scan' = scan
  BY DEF AsyncRead, Reads
<1>2. inq \in Seq(Toks) /\ Len(inq) < ReadBufferSize
  BY DEF AsyncRead, InputIsKept
<1>3. rbuf' = [i \in 1 .. ReadBufferSize |-> IF i \in 1 .. Len(inq) THEN inq[i] ELSE rbuf[i]]
  <2>1. DOMAIN rbuf = 1 .. ReadBufferSize /\ DOMAIN inq = 1 .. Len(inq)
    BY <1>2 DEF ArrayEnds
  <2>. QED  BY <1>1, <2>1 DEF Refilled
<1>4. ASSUME NEW i \in 1 .. ReadBufferSize
      PROVE  (IF i \in 1 .. Len(inq) THEN inq[i] ELSE rbuf[i]) \in Cells
  BY <1>2 DEF ArrayEnds, Cells
<1>5. rbuf' \in [1 .. ReadBufferSize -> Cells]
  BY <1>3, <1>4
<1>6. rbuf'[ReadBufferSize] = "nul"
  <2>1. ReadBufferSize \in 1 .. ReadBufferSize /\ ReadBufferSize \notin 1 .. Len(inq)
    BY <1>2, ParseAssumption
  <2>. QED  BY <1>3, <2>1 DEF ArrayEnds
<1>. QED  BY <1>1, <1>5, <1>6 DEF ArrayEnds

(* strlen finds an end.                                                     *)
LEMMA LengthIs ==
  ASSUME ArrayEnds
  PROVE  Strlen(rbuf) \in 0 .. ReadBufferSize - 1 /\ rbuf[Strlen(rbuf) + 1] = "nul"
<1>. DEFINE N == {i \in DOMAIN rbuf : rbuf[i] = "nul"}
<1>1. N \in SUBSET Nat /\ ReadBufferSize \in N /\ N \subseteq 1 .. ReadBufferSize
  BY ParseAssumption DEF ArrayEnds
<1>2. Strlen(rbuf) = Min(N) - 1
  BY DEF Strlen
<1>. HIDE DEF N
<1>3. Min(N) \in N
  BY <1>1, MinIs
<1>4. Min(N) \in 1 .. ReadBufferSize
  BY <1>1, <1>3
<1>5. rbuf[Min(N)] = "nul"
  BY <1>3 DEF N
<1>6. PICK m \in 1 .. ReadBufferSize : m = Min(N)
  BY <1>4
<1>7. (m - 1) + 1 = m /\ Strlen(rbuf) = m - 1
  BY <1>2, <1>6
<1>. QED  BY <1>5, <1>6, <1>7, ParseAssumption

(* A line that ends, ends before the length of the array.                   *)
LEMMA LineEndsInside ==
  ASSUME ArrayEnds, stage = "parse", LineStatus = "ok"
  PROVE  FirstEnd \in Nat /\ FirstEnd + 2 <= scan.readIdx
<1>. DEFINE ends == {i \in scan.checked .. scan.readIdx - 1 : rbuf[i + 1] \in {"r", "l"}}
<1>1. scan.checked \in Nat /\ scan.readIdx \in Nat
  BY DEF ArrayEnds, Scans
<1>2. FirstEnd = IF ends = {} THEN scan.readIdx ELSE Min(ends)
  BY DEF FirstEnd
<1>3. ends # {} => Min(ends) \in ends
  <2>1. ends \in SUBSET Nat
    BY <1>1
  <2>. HIDE DEF ends
  <2>. QED  BY <2>1, MinIs
<1>4. FirstEnd \in Nat /\ FirstEnd <= scan.readIdx
  <2>1. CASE ends = {}
    BY <1>1, <1>2, <2>1
  <2>2. CASE ends # {}
    <3>1. Min(ends) \in scan.checked .. scan.readIdx - 1
      BY <1>3, <2>2
    <3>. HIDE DEF ends
    <3>. QED  BY <1>1, <1>2, <2>2, <3>1
  <2>. QED  BY <2>1, <2>2
<1>. HIDE DEF ends
<1>5. rbuf[scan.readIdx + 1] = "nul"
  BY DEF ArrayEnds
<1>. DEFINE open == FirstEnd >= scan.readIdx - 1 /\ (FirstEnd = scan.readIdx \/ rbuf[FirstEnd + 1] = "r")
            ok == rbuf[FirstEnd + 1] = "r" /\ rbuf[FirstEnd + 2] = "l"
<1>6. ~(open /\ ok)
  <2>1. SUFFICES ASSUME open, ok PROVE FALSE
    OBVIOUS
  <2>2. CASE FirstEnd = scan.readIdx
    BY <1>5, <2>1, <2>2
  <2>3. CASE FirstEnd = scan.readIdx - 1
    <3>1. FirstEnd + 2 = scan.readIdx + 1
      BY <1>1, <2>3
    <3>. QED  BY <1>5, <2>1, <3>1
  <2>. QED  BY <1>1, <1>4, <2>1, <2>2, <2>3
<1>7. LineStatus = CASE open -> "open" [] ok -> "ok" [] OTHER -> "bad"
  BY DEF LineStatus
<1>. HIDE DEF open, ok
<1>8. ok /\ ~open
  BY <1>6, <1>7
<1>. QED  BY <1>1, <1>4, <1>8 DEF open, ok

(* ProcessRead on one line.                                                 *)
LEMMA ReadLineEnds ==
  ASSUME ArrayEnds, ReadLine
  PROVE  ArrayEnds'
<1>1. UNCHANGED armed /\ stage \in {"read", "process", "parse", "write", "overrun"} /\ scan \in Scans
  BY DEF ReadLine, ArrayEnds
<1>0. stage = "parse" /\ rbuf[scan.readIdx + 1] = "nul"
  BY DEF ReadLine, ArrayEnds
<1>2. CASE LineStatus # "ok"
  <2>1. stage' = "write" /\ UNCHANGED <<rbuf, scan>>
    BY <1>2 DEF ReadLine, NoRequest
  <2>. QED  BY <1>1, <2>1 DEF ArrayEnds
<1>3. CASE LineStatus = "ok"
  <2>. DEFINE next == [scan EXCEPT !.checked = FirstEnd + 2, !.start = FirstEnd + 2, !.status = "ok"]
  <2>1. FirstEnd \in Nat /\ FirstEnd + 2 \in 0 .. ReadBufferSize
    <3>1. scan.readIdx \in 0 .. ReadBufferSize - 1
      BY <1>1 DEF Scans
    <3>. QED  BY <1>0, <1>3, <3>1, LineEndsInside, ParseAssumption
  <2>2. next \in Scans /\ next.readIdx = scan.readIdx
    <3>. DEFINE at == FirstEnd + 2
    <3>1. at \in Nat /\ at \in 0 .. ReadBufferSize
      BY <2>1
    <3>. HIDE DEF at
    <3>2. [scan EXCEPT !.checked = at, !.start = at, !.status = "ok"] \in Scans
      BY <1>1, <3>1 DEF Scans
    <3>3. next.readIdx = scan.readIdx
      BY <1>1 DEF Scans
    <3>. QED  BY <3>2, <3>3 DEF at
  <2>3. /\ rbuf' = [rbuf EXCEPT ![FirstEnd + 1] = "nul", ![FirstEnd + 2] = "nul"]
        /\ stage' \in {stage, "write"}
    BY <1>3 DEF ReadLine, NoRequest, Replied
  <2>4. \/ scan' = [next EXCEPT !.state = "header", !.method = LineText[1]]
           /\ LineText \in {<<"GET", "url">>, <<"POST", "url">>}
        \/ scan' = next
        \/ scan' = ParseHeaders(next, LineText)
        \/ scan' = [next EXCEPT !.state = "content"]
    BY <1>3 DEF ReadLine, NoRequest, Replied
  <2>. HIDE DEF next
  <2>5. scan' \in Scans /\ scan'.readIdx = scan.readIdx
    <3>1. CASE scan' = [next EXCEPT !.state = "header", !.method = LineText[1]]
               /\ LineText \in {<<"GET", "url">>, <<"POST", "url">>}
      <4>1. LineText[1] \in {"GET", "POST"}
        BY <3>1
      <4>. QED  BY <2>2, <3>1, <4>1 DEF Scans
    <3>2. CASE scan' = next
      BY <2>2, <3>2
    <3>3. CASE scan' = ParseHeaders(next, LineText)
      <4>1. \/ scan' = next \/ scan' = [next EXCEPT !.linger = TRUE]
            \/ scan' = [next EXCEPT !.length = 1]
        BY <3>3 DEF ParseHeaders
      <4>. QED  BY <2>2, <4>1 DEF Scans
    <3>4. CASE scan' = [next EXCEPT !.state = "content"]
      BY <2>2, <3>4 DEF Scans
    <3>. QED  BY <2>4, <3>1, <3>2, <3>3, <3>4
  <2>6. rbuf' \in [1 .. ReadBufferSize -> Cells] /\ rbuf'[ReadBufferSize] = "nul"
    <3>1. "nul" \in Cells
      BY DEF Cells
    <3>2. ReadBufferSize \in 1 .. ReadBufferSize
      BY ParseAssumption
    <3>3. rbuf \in [1 .. ReadBufferSize -> Cells] /\ rbuf[ReadBufferSize] = "nul"
      BY DEF ArrayEnds
    <3>. QED  BY <2>3, <3>1, <3>2, <3>3
  <2>7. rbuf'[scan.readIdx + 1] = "nul"
    <3>1. PICK i \in 1 .. ReadBufferSize : i = scan.readIdx + 1
      BY <1>1, ParseAssumption DEF Scans
    <3>2. rbuf[i] = "nul" /\ rbuf \in [1 .. ReadBufferSize -> Cells]
      BY <1>0, <3>1 DEF ArrayEnds
    <3>3. rbuf'[i] = "nul"
      BY <2>3, <3>2
    <3>. QED  BY <3>1, <3>3
  <2>. QED  BY <1>1, <2>3, <2>5, <2>6, <2>7 DEF ArrayEnds
<1>. QED  BY <1>2, <1>3

(* Both arrays stay as they are described, whoever takes the step.          *)
LEMMA ArrayStep ==
  ASSUME InputIsKept, ArrayEnds, [Next]_vars
  PROVE  ArrayEnds'
<1>1. CASE server = "stackless" /\ HandlerStep
  <2>1. CASE AsyncRead
    BY <1>1, <2>1, RefillEnds
  <2>2. CASE Hangup
    BY <2>2, ScanInitIs DEF Hangup, ArrayEnds
  <2>3. CASE BeginProcess
    <3>1. /\ stage' = "parse" /\ UNCHANGED <<rbuf, armed>>
          /\ scan' = [scan EXCEPT !.readIdx = Strlen(rbuf), !.status = "ok"]
      BY <2>3 DEF BeginProcess
    <3>2. scan' \in Scans /\ scan'.readIdx = Strlen(rbuf)
      <4>1. scan \in Scans /\ Strlen(rbuf) \in 0 .. ReadBufferSize - 1
        BY LengthIs DEF ArrayEnds
      <4>. QED  BY <3>1, <4>1 DEF Scans
    <3>3. rbuf'[scan'.readIdx + 1] = "nul"
      BY <3>1, <3>2, LengthIs
    <3>. QED  BY <3>1, <3>2, <3>3 DEF ArrayEnds
  <2>4. CASE ReadLine
    BY <2>4, ReadLineEnds
  <2>5. CASE ReadContent
    <3>1. /\ stage = "parse" /\ stage' \in {stage, "write"} /\ armed' = armed
          /\ scan' = scan \/ scan' = [scan EXCEPT !.status = "open"]
          /\ \/ rbuf' = rbuf
             \/ rbuf' = [rbuf EXCEPT ![scan.checked + scan.length + 1] = "nul"]
      BY <2>5 DEF ReadContent, Replied
    <3>2. scan' \in Scans /\ scan'.readIdx = scan.readIdx
      BY <3>1 DEF ArrayEnds, Scans
    <3>3. rbuf' \in [1 .. ReadBufferSize -> Cells] /\ \A i \in 1 .. ReadBufferSize : rbuf[i] = "nul" => rbuf'[i] = "nul"
      BY <3>1 DEF ArrayEnds, Cells
    <3>4. scan.readIdx + 1 \in 1 .. ReadBufferSize /\ ReadBufferSize \in 1 .. ReadBufferSize
      <4>1. scan.readIdx \in 0 .. ReadBufferSize - 1
        BY DEF ArrayEnds, Scans
      <4>. QED  BY <4>1, ParseAssumption
    <3>. QED  BY <3>1, <3>2, <3>3, <3>4 DEF ArrayEnds
  <2>6. CASE AsyncWrite
    BY <2>6, ScanInitIs DEF AsyncWrite, ArrayEnds
  <2>7. CASE Overrun
    BY <2>7 DEF Overrun, Reads, ArrayEnds
  <2>. QED  BY <1>1, <2>1, <2>2, <2>3, <2>4, <2>5, <2>6, <2>7 DEF HandlerStep
<1>2. CASE UNCHANGED parseVars
  BY <1>2 DEF parseVars, ArrayEnds
<1>. QED  BY <1>1, <1>2 DEF Next, ServerStep, vars

-----------------------------------------------------------------------------
(* The end of what was taken is what is held.                               *)
LEMMA HeldIsTheEnd ==
  ASSUME InputIsKept, server = "stackful"
  PROVE  LET taken == SubSeq(Stream, 1, sent - Len(inq))
             held == Readable(readBuff)
         IN held = SubSeq(taken, Len(taken) - Len(held) + 1, Len(taken))
<1>. DEFINE held == Readable(readBuff)
            taken == SubSeq(Stream, 1, sent - Len(inq))
            s == SubSeq(taken, Len(taken) - Len(held) + 1, Len(taken))
            t == held \o inq
<1>1. PICK k \in 0 .. sent : t = SubSeq(Stream, k + 1, sent)
  BY DEF InputIsKept, Held
<1>2. held \in Seq(Toks) /\ Stream \in Seq(Toks) /\ inq \in Seq(Toks) /\ sent \in 0 .. Len(Stream)
  BY ReadableIs, StreamIsSeq DEF InputIsKept
<1>. HIDE DEF held
<1>3. Len(held) \in Nat /\ Len(inq) \in Nat /\ Len(Stream) \in Nat /\ sent \in Nat /\ k \in Nat
  BY <1>1, <1>2
<1>4. /\ Len(t) = Len(held) + Len(inq)
      /\ \A i \in 1 .. Len(held) + Len(inq) :
           t[i] = IF i <= Len(held) THEN held[i] ELSE inq[i - Len(held)]
  BY <1>2, ConcatProperties
<1>. HIDE DEF t
<1>5. Len(t) = sent - k /\ \A i \in 1 .. sent - k : t[i] = Stream[k + i]
  BY <1>1, <1>2, <1>3
<1>6. sent - Len(inq) = k + Len(held) /\ k + Len(held) <= sent
  BY <1>3, <1>4, <1>5
<1>7. /\ taken \in Seq(Toks) /\ Len(taken) = k + Len(held)
      /\ \A j \in 1 .. k + Len(held) : taken[j] = Stream[j]
  BY <1>2, <1>3, <1>6
<1>. HIDE DEF taken
<1>8. s \in Seq(Toks) /\ Len(s) = Len(held) /\ \A i \in 1 .. Len(held) : s[i] = taken[k + i]
  <2>1. Len(taken) - Len(held) + 1 = k + 1
    BY <1>3, <1>7
  <2>2. s = SubSeq(taken, k + 1, k + Len(held))
    BY <1>7, <2>1
  <2>. HIDE DEF s
  <2>. QED  BY <1>3, <1>7, <2>2
<1>. HIDE DEF s
<1>9. ASSUME NEW i \in 1 .. Len(held) PROVE held[i] = s[i]
  <2>1. i \in 1 .. Len(held) + Len(inq) /\ i \in 1 .. sent - k /\ k + i \in 1 .. k + Len(held)
    BY <1>3, <1>4, <1>5
  <2>2. held[i] = t[i]
    BY <1>4, <2>1
  <2>. QED  BY <1>5, <1>7, <1>8, <2>1, <2>2
<1>10. held = s
  BY <1>2, <1>8, <1>9, SeqEqual
<1>. QED  BY <1>10 DEF held, s, taken

(* What the two orders say, in the words of the specification.              *)
LEMMA OrdersAreKept ==
  ASSUME InputIsKept, OutputIsKept
  PROVE  BufferHoldsInput /\ ResponsesAreWhole
<1>1. CursorsAreInside(readBuff) /\ CursorsAreInside(writeBuff)
  BY DEF InputIsKept, OutputIsKept, VectorsDescribe, Buffers, CursorsAreInside
<1>2. BufferHoldsInput
  BY <1>1, HeldIsTheEnd DEF BufferHoldsInput
<1>3. ResponsesAreWhole
  BY DEF OutputIsKept, Delivered, Bodies, Body, ResponsesAreWhole
<1>. QED  BY <1>2, <1>3

(* The four invariants have the types.                                      *)
LEMMA TypesAreKept ==
  ASSUME IInv, InputIsKept, OutputIsKept, ArrayEnds
  PROVE  TypeOK
<1>1. phase \in Phases /\ fd \in {"mine", "free", "other", "stolen"} /\ userCount \in 0 .. 2
  BY DEF IInv, CloseFollowsPhase, Over
<1>2. stage \in {"read", "process", "parse", "write", "overrun"} /\ armed \in {"any", "in", "out", "none"}
  BY DEF ArrayEnds
<1>3. Len(outq) <= Window /\ sent \in 0 .. Len(Stream)
  BY DEF InputIsKept, OutputIsKept, Responses
<1>4. \A k \in 1 .. 2 : iov[k].len \in 0 .. HeadLen + FileLen + 1
  <2>1. /\ iov[1].len \in Nat /\ iov[2].len \in Nat
        /\ iov[1].len <= HeadLen + 1 /\ iov[2].len <= FileLen + 1
    BY DEF OutputIsKept, VectorsDescribe, Vectors
  <2>2. HeadLen \in Nat /\ FileLen \in Nat
    BY ConnectionAssumption
  <2>3. iov[1].len \in 0 .. HeadLen + FileLen + 1 /\ iov[2].len \in 0 .. HeadLen + FileLen + 1
    BY <2>1, <2>2
  <2>4. \A k \in 1 .. 2 : k = 1 \/ k = 2
    OBVIOUS
  <2>. QED  BY <2>3, <2>4
<1>5. scan.checked <= ReadBufferSize
  BY ParseAssumption DEF ArrayEnds, Scans
<1>6. Len(rbuf) = ReadBufferSize
  BY ParseAssumption DEF ArrayEnds
<1>. QED  BY <1>1, <1>2, <1>3, <1>4, <1>5, <1>6 DEF TypeOK, Phases

(* Whatever the requests, the buffer sizes and the room in the socket, a    *)
(* connection of the stackful server loses, doubles or misplaces nothing in *)
(* either direction.                                                        *)
THEOREM OrderIsKept == Spec => [](BufferHoldsInput /\ ResponsesAreWhole)
<1>1. Spec => []InputIsKept
  BY InputInitially, InputStep, PTL DEF Spec
<1>2. Spec => []OutputIsKept
  BY OutputInitially, OutputStep, PTL DEF Spec
<1>3. InputIsKept /\ OutputIsKept => BufferHoldsInput /\ ResponsesAreWhole
  BY OrdersAreKept
<1>. QED  BY <1>1, <1>2, <1>3, PTL

(* The same with the types, which bound the cursors of the other server:    *)
(* the last cell of read_buf_ stays a NUL as long as the array is not       *)
(* overrun, whatever the requests, and the parser stops before it.          *)
THEOREM BytesStay == Spec => []BytesAreKept
<1>1. Spec => []InputIsKept
  BY InputInitially, InputStep, PTL DEF Spec
<1>2. Spec => []OutputIsKept
  BY OutputInitially, OutputStep, PTL DEF Spec
<1>3. InputIsKept /\ ArrayEnds /\ [Next]_vars => ArrayEnds'
  BY ArrayStep
<1>4. Spec => []ArrayEnds
  BY <1>1, <1>3, ArrayInitially, PTL DEF Spec
<1>5. IInv /\ InputIsKept /\ OutputIsKept /\ ArrayEnds => BytesAreKept
  BY TypesAreKept, OrdersAreKept DEF BytesAreKept
<1>. QED  BY <1>1, <1>2, <1>4, <1>5, Invariance, PTL
-----------------------------------------------------------------------------
(* A line with its end, and what follows it.                                *)
Ended(line, rest) == line \o (<<"r", "l">> \o rest)

Kinds == {"plain", "keep", "form"}
FirstLine(kind) == <<MethodOf(kind), "url">>
PlainHeaders == Ended(<<>>, <<>>)
KeepHeaders == Ended(<<"Con", "alive">>, PlainHeaders)
FormBlank == Ended(<<>>, <<"body">>)
FormLength == Ended(<<"len">>, FormBlank)
FormHeaders == Ended(<<"Con", "alive">>, FormLength)
Headers == [plain |-> PlainHeaders, keep |-> KeepHeaders, form |-> FormHeaders]

(* The cells of a line with its end.                                        *)
LEMMA EndedIs ==
  ASSUME NEW line \in Seq(Toks), NEW rest \in Seq(Toks)
  PROVE  /\ Ended(line, rest) \in Seq(Toks)
         /\ Len(Ended(line, rest)) = Len(line) + 2 + Len(rest)
         /\ \A i \in 1 .. Len(line) : Ended(line, rest)[i] = line[i]
         /\ Ended(line, rest)[Len(line) + 1] = "r"
         /\ Ended(line, rest)[Len(line) + 2] = "l"
         /\ \A i \in 1 .. Len(rest) : Ended(line, rest)[Len(line) + 2 + i] = rest[i]
<1>. DEFINE e == <<"r", "l">>
            t == e \o rest
            u == line \o t
<1>1. e \in Seq(Toks) /\ Len(e) = 2 /\ e[1] = "r" /\ e[2] = "l"
  BY DEF Toks
<1>. HIDE DEF e
<1>2. /\ t \in Seq(Toks) /\ Len(t) = 2 + Len(rest)
      /\ \A i \in 1 .. 2 + Len(rest) : t[i] = IF i <= 2 THEN e[i] ELSE rest[i - 2]
  <2>1. /\ t \in Seq(Toks) /\ Len(t) = Len(e) + Len(rest)
        /\ \A i \in 1 .. Len(e) + Len(rest) : t[i] = IF i <= Len(e) THEN e[i] ELSE rest[i - Len(e)]
    BY <1>1, ConcatProperties
  <2>. QED  BY <1>1, <2>1
<1>. HIDE DEF t
<1>3. /\ u \in Seq(Toks) /\ Len(u) = Len(line) + Len(t)
      /\ \A i \in 1 .. Len(line) + Len(t) : u[i] = IF i <= Len(line) THEN line[i] ELSE t[i - Len(line)]
  BY <1>2, ConcatProperties
<1>. HIDE DEF u
<1>4. Len(line) \in Nat /\ Len(rest) \in Nat
  OBVIOUS
<1>5. u[Len(line) + 1] = "r"
  <2>1. Len(line) + 1 \in 1 .. Len(line) + Len(t) /\ (Len(line) + 1) - Len(line) = 1
    BY <1>2, <1>4
  <2>2. 1 \in 1 .. 2 + Len(rest) /\ ~(Len(line) + 1 <= Len(line))
    BY <1>4
  <2>3. u[Len(line) + 1] = t[1]
    BY <1>3, <2>1, <2>2
  <2>. QED  BY <1>1, <1>2, <2>2, <2>3
<1>6. u[Len(line) + 2] = "l"
  <2>1. Len(line) + 2 \in 1 .. Len(line) + Len(t) /\ (Len(line) + 2) - Len(line) = 2
    BY <1>2, <1>4
  <2>. QED  BY <1>1, <1>2, <1>3, <1>4, <2>1, SMTT(30)
<1>7. ASSUME NEW i \in 1 .. Len(rest) PROVE u[Len(line) + 2 + i] = rest[i]
  <2>1. Len(line) + 2 + i \in 1 .. Len(line) + Len(t) /\ (Len(line) + 2 + i) - Len(line) = 2 + i
    BY <1>2, <1>4
  <2>2. ~(Len(line) + 2 + i <= Len(line)) /\ 2 + i \in 1 .. 2 + Len(rest) /\ ~(2 + i <= 2) /\ 2 + i - 2 = i
    BY <1>4
  <2>3. u[Len(line) + 2 + i] = t[2 + i]
    BY <1>3, <2>1, <2>2
  <2>. QED  BY <1>2, <2>2, <2>3
<1>8. Len(u) = Len(line) + 2 + Len(rest)
  BY <1>2, <1>3, <1>4
<1>9. \A i \in 1 .. Len(line) : u[i] = line[i]
  BY <1>2, <1>3, <1>4
<1>. QED  BY <1>3, <1>5, <1>6, <1>7, <1>8, <1>9 DEF Ended, e, t, u

(* The headers of the three kinds of request, written out.                  *)
LEMMA HeadersAre ==
  /\ PlainHeaders = <<"r", "l">>
  /\ KeepHeaders = <<"Con", "alive", "r", "l", "r", "l">>
  /\ FormBlank = <<"r", "l", "body">>
  /\ FormLength = <<"len", "r", "l", "r", "l", "body">>
  /\ FormHeaders = <<"Con", "alive", "r", "l", "len", "r", "l", "r", "l", "body">>
<1>1. PlainHeaders = <<"r", "l">>
  <2>1. <<"r", "l">> = <<>> \o (<<"r", "l">> \o <<>>)
    OBVIOUS
  <2>. QED  BY <2>1 DEF PlainHeaders, Ended
<1>2. KeepHeaders = <<"Con", "alive", "r", "l", "r", "l">>
  <2>1. <<"Con", "alive", "r", "l", "r", "l">> = <<"Con", "alive">> \o (<<"r", "l">> \o PlainHeaders)
    BY <1>1
  <2>. QED  BY <2>1 DEF KeepHeaders, Ended
<1>3. FormBlank = <<"r", "l", "body">>
  <2>1. PICK b : b = <<"body">>
    OBVIOUS
  <2>2. PICK t : t = <<"r", "l", "body">>
    OBVIOUS
  <2>3. <<"r", "l", "body">> = <<"r", "l">> \o b
    BY <2>1
  <2>4. t \in Seq(Toks)
    BY <2>2 DEF Toks
  <2>5. <<>> \o t = t
    BY <2>4, ConcatEmptySeq
  <2>. QED  BY <2>1, <2>2, <2>3, <2>5 DEF FormBlank, Ended
<1>4. FormLength = <<"len", "r", "l", "r", "l", "body">>
  <2>1. <<"len", "r", "l", "r", "l", "body">> = <<"len">> \o (<<"r", "l">> \o FormBlank)
    BY <1>3
  <2>. QED  BY <2>1 DEF FormLength, Ended
<1>5. FormHeaders = <<"Con", "alive", "r", "l", "len", "r", "l", "r", "l", "body">>
  <2>1. <<"Con", "alive", "r", "l", "len", "r", "l", "r", "l", "body">> =
          <<"Con", "alive">> \o (<<"r", "l">> \o FormLength)
    BY <1>4
  <2>. QED  BY <2>1 DEF FormHeaders, Ended
<1>. QED  BY <1>1, <1>2, <1>3, <1>4, <1>5

(* A request is its first line, ended, and its headers.                     *)
LEMMA TextIs ==
  /\ Text["plain"] = Ended(<<"GET", "url">>, PlainHeaders)
  /\ Text["keep"] = Ended(<<"GET", "url">>, KeepHeaders)
  /\ Text["form"] = Ended(<<"POST", "url">>, FormHeaders)
<1>1. Text["plain"] = Ended(<<"GET", "url">>, PlainHeaders)
  BY HeadersAre DEF Text, Ended
<1>2. Text["keep"] = Ended(<<"GET", "url">>, KeepHeaders)
  BY HeadersAre DEF Text, Ended
<1>3. Text["form"] = Ended(<<"POST", "url">>, FormHeaders)
  BY HeadersAre DEF Text, Ended
<1>. QED  BY <1>1, <1>2, <1>3

(* The texts of the first i requests, and how they stand in the stream.     *)
Texts(i) == [j \in 1 .. i |-> Text[script[j]]]
Prefix(i) == FlattenSeq(Texts(i))

(* Three lengths of text.                                                   *)
LEMMA TextIsSeq ==
  ASSUME NEW kind \in Kinds
  PROVE  Text[kind] \in Seq(Toks) /\ Len(Text[kind]) \in {6, 10, 14} /\ Len(Text[kind]) > 0
<1>. DEFINE P == Text["plain"]
            K == Text["keep"]
            F == Text["form"]
<1>1. P \in Seq(Toks) /\ Len(P) = 6
  BY DEF Text, Toks
<1>2. K \in Seq(Toks) /\ Len(K) = 10
  BY DEF Text, Toks
<1>3. F \in Seq(Toks) /\ Len(F) = 14
  BY DEF Text, Toks
<1>4. kind = "plain" \/ kind = "keep" \/ kind = "form"
  BY DEF Kinds
<1>5. Text[kind] = P \/ Text[kind] = K \/ Text[kind] = F
  BY <1>4
<1>. HIDE DEF P, K, F
<1>6. PICK t : t = Text[kind]
  OBVIOUS
<1>7. t \in Seq(Toks) /\ (Len(t) = 6 \/ Len(t) = 10 \/ Len(t) = 14)
  <2>1. CASE t = P
    BY <1>1, <2>1
  <2>2. CASE t = K
    BY <1>2, <2>2
  <2>3. CASE t = F
    BY <1>3, <2>3
  <2>. QED  BY <1>5, <1>6, <2>1, <2>2, <2>3
<1>8. PICK n : n = Len(t)
  OBVIOUS
<1>9. n = 6 \/ n = 10 \/ n = 14
  BY <1>7, <1>8
<1>10. n > 0
  BY ONLY <1>9
<1>11. n \in {6, 10, 14}
  BY ONLY <1>9
<1>. QED  BY <1>6, <1>7, <1>8, <1>10, <1>11

(* A script is a sequence of the three kinds.                               *)
LEMMA ScriptIs ==
  ASSUME script \in Scripts
  PROVE  /\ script \in Seq(Kinds) /\ Len(script) \in Nat
         /\ \A i \in 1 .. Len(script) : script[i] \in Kinds
<1>1. script \in Seq(Kinds)
  BY ClientAssumption DEF Kinds
<1>. QED  BY <1>1

(* Each request is added behind the ones before it.                         *)
LEMMA PrefixGrows ==
  ASSUME script \in Scripts, NEW i \in Nat, i + 1 <= Len(script)
  PROVE  /\ Prefix(i) \in Seq(Toks) /\ Prefix(i + 1) \in Seq(Toks)
         /\ Prefix(i + 1) = Prefix(i) \o Text[script[i + 1]]
<1>1. \A j \in 1 .. i + 1 : Text[script[j]] \in Seq(Toks)
  BY ScriptIs, TextIsSeq
<1>2. Texts(i) \in Seq(Seq(Toks)) /\ Texts(i + 1) \in Seq(Seq(Toks))
  BY <1>1 DEF Texts
<1>3. Texts(i + 1) = Append(Texts(i), Text[script[i + 1]])
  <2>. DEFINE u == Texts(i + 1)
              v == Append(Texts(i), Text[script[i + 1]])
  <2>0. i + 1 \in 1 .. i + 1
    OBVIOUS
  <2>1. u \in Seq(Seq(Toks)) /\ Len(u) = i + 1 /\ \A j \in 1 .. i + 1 : u[j] = Text[script[j]]
    BY <1>2 DEF Texts
  <2>2. Len(Texts(i)) = i /\ \A j \in 1 .. i : Texts(i)[j] = Text[script[j]]
    BY DEF Texts
  <2>3. v \in Seq(Seq(Toks)) /\ Len(v) = i + 1
        /\ \A j \in 1 .. i + 1 : v[j] = Text[script[j]]
    BY <1>1, <1>2, <2>0, <2>2, AppendProperties
  <2>. HIDE DEF u, v
  <2>4. u = v
    BY <2>1, <2>3, SeqEqual
  <2>. QED  BY <2>4 DEF u, v
<1>4. Text[script[i + 1]] \in Seq(Toks)
  BY <1>1
<1>. QED  BY <1>2, <1>3, <1>4, FlattenAppend, FlattenIsSeq DEF Prefix

(* The ends of the requests grow, and what was sent first stays first.      *)
LEMMA PrefixesAgree ==
  ASSUME script \in Scripts, NEW n \in 0 .. Len(script), NEW i \in 0 .. n
  PROVE  /\ EndOf(i) \in Nat /\ EndOf(n) \in Nat /\ EndOf(i) <= EndOf(n)
         /\ i < n => EndOf(i) < EndOf(n)
         /\ \A j \in 1 .. EndOf(i) : Prefix(n)[j] = Prefix(i)[j]
<1>. DEFINE Agree(k, m) ==
              /\ EndOf(k) \in Nat /\ EndOf(m) \in Nat /\ EndOf(k) <= EndOf(m)
              /\ k < m => EndOf(k) < EndOf(m)
              /\ \A j \in 1 .. EndOf(k) : Prefix(m)[j] = Prefix(k)[j]
            N == {m \in Nat : m <= Len(script) => \A k \in 0 .. m : Agree(k, m)}
<1>1. Len(script) \in Nat
  BY ScriptIs
<1>2. \A k \in Nat : EndOf(k) = Len(Prefix(k))
  BY DEF EndOf, Prefix, Texts
<1>3. 0 \in N
  <2>1. Prefix(0) = <<>>
    <3>1. Texts(0) = <<>>
      BY DEF Texts
    <3>. QED  BY <3>1, FlattenNothing DEF Prefix
  <2>2. EndOf(0) = 0
    BY <1>2, <2>1
  <2>. QED  BY <2>2
<1>4. ASSUME NEW m \in Nat, m \in N PROVE m + 1 \in N
  <2>1. SUFFICES ASSUME m + 1 <= Len(script), NEW k \in 0 .. m + 1 PROVE Agree(k, m + 1)
    BY <1>1
  <2>2. m <= Len(script)
    BY <1>1, <2>1
  <2>3. /\ Prefix(m) \in Seq(Toks) /\ Prefix(m + 1) \in Seq(Toks)
        /\ Prefix(m + 1) = Prefix(m) \o Text[script[m + 1]]
    BY <2>1, PrefixGrows
  <2>4. Text[script[m + 1]] \in Seq(Toks) /\ Len(Text[script[m + 1]]) > 0
    <3>1. m + 1 \in 1 .. Len(script)
      BY <1>1, <2>1
    <3>2. PICK kind \in Kinds : kind = script[m + 1]
      BY <3>1, ScriptIs
    <3>3. Text[kind] \in Seq(Toks) /\ Len(Text[kind]) > 0
      BY TextIsSeq
    <3>. QED  BY <3>2, <3>3
  <2>5. EndOf(m) = Len(Prefix(m)) /\ EndOf(m + 1) = Len(Prefix(m + 1))
    BY DEF EndOf, Prefix, Texts
  <2>6. /\ EndOf(m) \in Nat /\ EndOf(m + 1) \in Nat /\ EndOf(m) < EndOf(m + 1)
        /\ \A j \in 1 .. EndOf(m) : Prefix(m + 1)[j] = Prefix(m)[j]
    BY <2>3, <2>4, <2>5, ConcatProperties
  <2>7. CASE k = m + 1
    BY <2>6, <2>7
  <2>8. CASE k \in 0 .. m
    <3>1. Agree(k, m)
      BY <1>4, <2>2, <2>8
    <3>. QED  BY <2>6, <2>8, <3>1
  <2>. QED  BY <2>7, <2>8
<1>. HIDE DEF N
<1>5. Nat \subseteq N
  BY <1>3, <1>4, SetInduction
<1>6. n \in N /\ n <= Len(script)
  BY <1>1, <1>5
<1>. QED  BY <1>6 DEF N

(* The stream is the texts of the script.                                   *)
LEMMA StreamEnds ==
  ASSUME script \in Scripts
  PROVE  Stream = Prefix(Len(script)) /\ Len(Stream) = EndOf(Len(script))
<1>1. DOMAIN script = 1 .. Len(script)
  BY ScriptIs
<1>2. Texts(Len(script)) = [i \in DOMAIN script |-> Text[script[i]]]
  BY <1>1 DEF Texts
<1>3. Stream = Prefix(Len(script))
  BY <1>2 DEF Stream, Prefix
<1>4. EndOf(Len(script)) = Len(Prefix(Len(script)))
  BY DEF EndOf, Prefix, Texts
<1>. QED  BY <1>3, <1>4

(* Between two ends stands the text of a request.                           *)
LEMMA NextText ==
  ASSUME script \in Scripts, NEW i \in Nat, i + 1 <= Len(script)
  PROVE  /\ EndOf(i) \in Nat /\ EndOf(i + 1) \in Nat /\ EndOf(i) < EndOf(i + 1)
         /\ EndOf(i + 1) <= Len(Stream)
         /\ SubSeq(Stream, EndOf(i) + 1, EndOf(i + 1)) = Text[script[i + 1]]
<1>1. Len(script) \in Nat /\ i \in 0 .. Len(script) /\ i + 1 \in 0 .. Len(script)
      /\ Len(script) \in 0 .. Len(script)
  BY ScriptIs
<1>2. /\ EndOf(i + 1) \in Nat /\ EndOf(i + 1) <= EndOf(Len(script))
      /\ \A j \in 1 .. EndOf(i + 1) : Prefix(Len(script))[j] = Prefix(i + 1)[j]
  BY <1>1, PrefixesAgree
<1>3. EndOf(i) \in Nat /\ EndOf(i) < EndOf(i + 1)
  BY <1>1, PrefixesAgree
<1>4. Stream = Prefix(Len(script)) /\ Len(Stream) = EndOf(Len(script)) /\ Stream \in Seq(Toks)
  BY StreamEnds, StreamIsSeq
<1>5. /\ Prefix(i) \in Seq(Toks) /\ Prefix(i + 1) = Prefix(i) \o Text[script[i + 1]]
  BY PrefixGrows
<1>6. script[i + 1] \in Kinds
  BY <1>1, ScriptIs
<1>. DEFINE t == Text[script[i + 1]]
            s == SubSeq(Stream, EndOf(i) + 1, EndOf(i + 1))
<1>7. t \in Seq(Toks)
  BY <1>6, TextIsSeq
<1>8. EndOf(i) = Len(Prefix(i)) /\ EndOf(i + 1) = Len(Prefix(i + 1))
  BY DEF EndOf, Prefix, Texts
<1>9. /\ Len(Prefix(i + 1)) = Len(Prefix(i)) + Len(t)
      /\ \A j \in 1 .. Len(Prefix(i)) + Len(t) :
           Prefix(i + 1)[j] = IF j <= Len(Prefix(i)) THEN Prefix(i)[j] ELSE t[j - Len(Prefix(i))]
  BY <1>5, <1>7, ConcatProperties
<1>. HIDE DEF t
<1>10. /\ s \in Seq(Toks) /\ Len(s) = EndOf(i + 1) - EndOf(i)
       /\ \A j \in 1 .. EndOf(i + 1) - EndOf(i) : s[j] = Stream[EndOf(i) + j]
  <2>1. PICK p \in Nat, q \in Nat : p = EndOf(i) /\ q = EndOf(i + 1)
    BY <1>2, <1>3
  <2>2. p < q /\ q <= Len(Stream)
    BY <1>2, <1>3, <1>4, <2>1
  <2>3. /\ SubSeq(Stream, p + 1, q) \in Seq(Toks) /\ Len(SubSeq(Stream, p + 1, q)) = q - p
        /\ \A j \in 1 .. q - p : SubSeq(Stream, p + 1, q)[j] = Stream[p + j]
    BY <1>4, <2>2
  <2>. QED  BY <2>1, <2>3
<1>. HIDE DEF s
<1>11. Len(s) = Len(t)
  BY <1>2, <1>3, <1>7, <1>8, <1>9, <1>10
<1>12. ASSUME NEW j \in 1 .. Len(s) PROVE s[j] = t[j]
  <2>1. EndOf(i) + j \in 1 .. EndOf(i + 1) /\ ~(EndOf(i) + j <= EndOf(i)) /\ EndOf(i) + j - EndOf(i) = j
    BY <1>2, <1>3, <1>10
  <2>2. s[j] = Prefix(i + 1)[EndOf(i) + j]
    BY <1>2, <1>4, <1>10, <2>1
  <2>. QED  BY <1>8, <1>9, <2>1, <2>2, SMTT(30)
<1>13. s = t
  BY <1>7, <1>10, <1>11, <1>12, SeqEqual
<1>. QED  BY <1>2, <1>3, <1>4, <1>13 DEF s, t

(* When n requests have been sent, that is how many are whole.              *)
LEMMA WholeIs ==
  ASSUME script \in Scripts, NEW n \in 0 .. Len(script), sent = EndOf(n)
  PROVE  Whole = n
<1>. DEFINE T == {e \in RequestEnds : e <= sent}
            f == [i \in 1 .. n |-> EndOf(i)]
<1>1. Len(script) \in Nat /\ DOMAIN script = 1 .. Len(script)
  BY ScriptIs
<1>2. \A i, k \in 0 .. Len(script) : i <= k =>
        EndOf(i) \in Nat /\ EndOf(k) \in Nat /\ EndOf(i) <= EndOf(k) /\ (i < k => EndOf(i) < EndOf(k))
  BY <1>1, PrefixesAgree
<1>3. ASSUME NEW i \in 1 .. Len(script) PROVE EndOf(i) <= sent <=> i <= n
  <2>1. i \in 0 .. Len(script) /\ n \in 0 .. Len(script) /\ (i <= n \/ n < i)
    BY <1>1
  <2>. QED  BY <1>1, <1>2, <2>1
<1>4. T = {EndOf(i) : i \in 1 .. n}
  <2>1. RequestEnds = {EndOf(i) : i \in 1 .. Len(script)}
    BY <1>1 DEF RequestEnds
  <2>. QED  BY <1>1, <1>3, <2>1
<1>5. f \in Surjection(1 .. n, T)
  BY <1>4 DEF Surjection
<1>6. f \in Injection(1 .. n, T)
  <2>1. ASSUME NEW a \in 1 .. n, NEW b \in 1 .. n, a # b PROVE EndOf(a) # EndOf(b)
    <3>1. a \in 0 .. Len(script) /\ b \in 0 .. Len(script) /\ (a < b \/ b < a)
      BY <1>1, <2>1
    <3>. QED  BY <1>2, <3>1
  <2>2. f \in [1 .. n -> T] /\ \A i \in 1 .. n : f[i] = EndOf(i)
    BY <1>4
  <2>. HIDE DEF f
  <2>3. \A a, b \in 1 .. n : f[a] = f[b] => a = b
    BY <2>1, <2>2
  <2>. QED  BY <2>2, <2>3 DEF Injection, IsInjective
<1>. HIDE DEF T, f
<1>7. IsFiniteSet(1 .. n) /\ Cardinality(1 .. n) = n
  <2>1. 1 \in Int /\ n \in Int /\ (1 > n => n = 0) /\ n - 1 + 1 = n
    BY <1>1
  <2>. QED  BY <2>1, FS_Interval
<1>8. Cardinality(T) = n
  BY <1>5, <1>6, <1>7, FS_Surjection
<1>. QED  BY <1>8 DEF Whole, T

(* The responses that end in a sequence of parts.                           *)
LastsOf(s) == {j \in DOMAIN s : s[j].last}
Lasts(s) == Cardinality(LastsOf(s))

(* There are finitely many.                                                 *)
LEMMA LastsAreFinite ==
  ASSUME NEW s \in Seq(Parts)
  PROVE  IsFiniteSet(LastsOf(s)) /\ Lasts(s) \in Nat /\ LastsOf(s) \subseteq 1 .. Len(s)
<1>1. LastsOf(s) \subseteq 1 .. Len(s) /\ Len(s) \in Nat
  BY DEF LastsOf
<1>2. IsFiniteSet(1 .. Len(s))
  BY <1>1, FS_Interval
<1>3. IsFiniteSet(LastsOf(s))
  BY <1>1, <1>2, FS_Subset
<1>. QED  BY <1>1, <1>3, FS_CardinalityType DEF Lasts

(* One after the other, they end as many as both do.                        *)
LEMMA LastsAdd ==
  ASSUME NEW s \in Seq(Parts), NEW t \in Seq(Parts)
  PROVE  Lasts(s \o t) = Lasts(s) + Lasts(t)
<1>. DEFINE n == Len(s)
            u == s \o t
            A == LastsOf(s)
            B == LastsOf(t)
            C == {n + j : j \in B}
            f == [j \in B |-> n + j]
<1>1. /\ n \in Nat /\ Len(t) \in Nat /\ DOMAIN s = 1 .. n /\ DOMAIN t = 1 .. Len(t)
      /\ u \in Seq(Parts) /\ DOMAIN u = 1 .. n + Len(t)
      /\ \A i \in 1 .. n + Len(t) : u[i] = IF i <= n THEN s[i] ELSE t[i - n]
  BY ConcatProperties
<1>2. /\ IsFiniteSet(A) /\ Cardinality(A) \in Nat /\ A \subseteq 1 .. n
      /\ IsFiniteSet(B) /\ Cardinality(B) \in Nat /\ B \subseteq 1 .. Len(t)
  BY LastsAreFinite DEF Lasts
<1>. HIDE DEF n, u
<1>3. LastsOf(u) = A \cup C
  <2>1. ASSUME NEW i \in LastsOf(u) PROVE i \in A \cup C
    <3>1. i \in 1 .. n + Len(t) /\ u[i].last
      BY <1>1, <2>1 DEF LastsOf
    <3>2. CASE i <= n
      <4>1. i \in 1 .. n /\ s[i].last
        BY <1>1, <3>1, <3>2
      <4>. QED  BY <1>1, <4>1 DEF LastsOf
    <3>3. CASE ~(i <= n)
      <4>1. i - n \in 1 .. Len(t) /\ t[i - n].last /\ i = n + (i - n)
        BY <1>1, <3>1, <3>3
      <4>2. i - n \in B
        BY <1>1, <4>1 DEF LastsOf
      <4>. QED  BY <4>1, <4>2
    <3>. QED  BY <3>2, <3>3
  <2>2. ASSUME NEW i \in A PROVE i \in LastsOf(u)
    <3>1. i \in 1 .. n /\ s[i].last
      BY <1>1 DEF LastsOf
    <3>2. i \in 1 .. n + Len(t) /\ i <= n
      BY <1>1, <3>1
    <3>3. u[i] = s[i]
      BY <1>1, <3>2
    <3>. QED  BY <1>1, <3>1, <3>2, <3>3 DEF LastsOf
  <2>3. ASSUME NEW j \in B PROVE n + j \in LastsOf(u)
    <3>1. j \in 1 .. Len(t) /\ t[j].last
      BY <1>1 DEF LastsOf
    <3>2. n + j \in 1 .. n + Len(t) /\ ~(n + j <= n) /\ (n + j) - n = j
      BY <1>1, <3>1
    <3>3. u[n + j] = t[j]
      BY <1>1, <3>2
    <3>. QED  BY <1>1, <3>1, <3>2, <3>3 DEF LastsOf
  <2>. QED  BY <2>1, <2>2, <2>3
<1>4. IsFiniteSet(C) /\ Cardinality(C) = Cardinality(B)
  <2>1. f \in Surjection(B, C)
    BY DEF Surjection
  <2>2. f \in Injection(B, C)
    <3>1. f \in [B -> C] /\ DOMAIN f = B /\ \A j \in B : f[j] = n + j
      OBVIOUS
    <3>2. \A a, b \in B : n + a = n + b => a = b
      BY <1>1, <1>2
    <3>. HIDE DEF f
    <3>3. \A a, b \in B : f[a] = f[b] => a = b
      BY <3>1, <3>2
    <3>. QED  BY <3>1, <3>3 DEF Injection, IsInjective
  <2>. HIDE DEF f, B, C
  <2>. QED  BY <1>2, <2>1, <2>2, FS_Surjection
<1>5. A \cap C = {}
  BY <1>1, <1>2
<1>. HIDE DEF A, B, C
<1>6. Cardinality(A \cup C) = Cardinality(A) + Cardinality(C)
  <2>1. Cardinality(A \cup C) = Cardinality(A) + Cardinality(C) - Cardinality(A \cap C)
    BY <1>2, <1>4, FS_Union
  <2>2. Cardinality(A \cap C) = 0
    BY <1>5, FS_EmptySet
  <2>. QED  BY <1>2, <1>4, <2>1, <2>2
<1>. QED  BY <1>3, <1>4, <1>6 DEF Lasts, A, B, u

(* Nothing ends in the empty sequence.                                      *)
LEMMA LastsOfNothing == Lasts(<<>>) = 0
<1>1. LastsOf(<<>>) = {}
  BY DEF LastsOf
<1>. QED  BY <1>1, FS_EmptySet DEF Lasts

(* A response ends once at most, however much of it there is.               *)
LEMMA LastsOfBody ==
  ASSUME NEW n \in Nat, NEW size \in Nat, NEW k \in 0 .. size
  PROVE  Lasts(SubSeq(Body(n, size), 1, k)) <= 1
<1>. DEFINE b == Body(n, size)
            s == SubSeq(b, 1, k)
<1>1. b \in Seq(Parts) /\ Len(b) = size /\ \A i \in 1 .. size : b[i] = Part(n, i, size)
  BY BodyIs
<1>. HIDE DEF b
<1>2. s \in Seq(Parts) /\ Len(s) = k /\ \A i \in 1 .. k : s[i] = b[i]
  BY <1>1
<1>. HIDE DEF s
<1>3. ASSUME NEW i \in LastsOf(s) PROVE i = size
  <2>1. i \in 1 .. k /\ s[i].last
    BY <1>2 DEF LastsOf
  <2>2. i \in 1 .. size /\ b[i].last
    BY <1>2, <2>1
  <2>3. Part(n, i, size).last <=> i = size
    BY DEF Part
  <2>. QED  BY <1>1, <2>2, <2>3
<1>4. IsFiniteSet({size}) /\ Cardinality({size}) = 1
  BY FS_Singleton
<1>5. LastsOf(s) \in SUBSET {size}
  BY <1>3
<1>6. Cardinality(LastsOf(s)) <= 1
  BY <1>4, <1>5, FS_Subset
<1>. QED  BY <1>6 DEF Lasts, b, s

(* The first i responses end i times at most.                               *)
Begun(i) == [n \in 1 .. i |-> Body(n, answers[n].size)]

(* That is so by induction over the answers.                                *)
LEMMA LastsOfBodies ==
  ASSUME Responses
  PROVE  FlattenSeq(Bodies) \in Seq(Parts) /\ Lasts(FlattenSeq(Bodies)) <= Len(answers)
<1>1. Bodies \in Seq(Seq(Parts)) /\ Len(answers) \in Nat /\ DOMAIN answers = 1 .. Len(answers)
  BY BodiesAreSeqs DEF Responses
<1>. DEFINE N == {m \in Nat : m <= Len(answers) => Lasts(FlattenSeq(Begun(m))) <= m}
<1>2. 0 \in N
  <2>1. Begun(0) = <<>>
    BY DEF Begun
  <2>. QED  BY <2>1, FlattenNothing, LastsOfNothing
<1>3. ASSUME NEW m \in Nat, m \in N PROVE m + 1 \in N
  <2>1. SUFFICES ASSUME m + 1 <= Len(answers) PROVE Lasts(FlattenSeq(Begun(m + 1))) <= m + 1
    OBVIOUS
  <2>2. \A n \in 1 .. m + 1 : answers[n].size \in Nat
    BY <1>1, <2>1 DEF Responses
  <2>3. ASSUME NEW n \in 1 .. m + 1
        PROVE  /\ Body(n, answers[n].size) \in Seq(Parts)
               /\ Len(Body(n, answers[n].size)) = answers[n].size
    <3>1. n \in Nat /\ answers[n].size \in Nat
      BY <2>2
    <3>. QED  BY <3>1, BodyIs
  <2>4. Begun(m) \in Seq(Seq(Parts)) /\ Begun(m + 1) \in Seq(Seq(Parts))
    BY <2>3 DEF Begun
  <2>. DEFINE b == Body(m + 1, answers[m + 1].size)
  <2>0. m + 1 \in 1 .. m + 1
    OBVIOUS
  <2>5. b \in Seq(Parts) /\ b = SubSeq(b, 1, answers[m + 1].size) /\ answers[m + 1].size \in Nat
    <3>1. b \in Seq(Parts) /\ Len(b) = answers[m + 1].size /\ answers[m + 1].size \in Nat
      BY <2>0, <2>2, <2>3
    <3>. HIDE DEF b
    <3>2. b = SubSeq(b, 1, Len(b))
      BY <3>1, SubSeqFull
    <3>. QED  BY <3>1, <3>2
  <2>6. Begun(m + 1) = Append(Begun(m), b)
    <3>. DEFINE u == Begun(m + 1)
                v == Append(Begun(m), b)
    <3>1. u \in Seq(Seq(Parts)) /\ Len(u) = m + 1
          /\ \A j \in 1 .. m + 1 : u[j] = Body(j, answers[j].size)
      BY <2>4 DEF Begun
    <3>2. Len(Begun(m)) = m /\ \A j \in 1 .. m : Begun(m)[j] = Body(j, answers[j].size)
      BY DEF Begun
    <3>3. v \in Seq(Seq(Parts)) /\ Len(v) = m + 1
          /\ \A j \in 1 .. m + 1 : v[j] = Body(j, answers[j].size)
      BY <2>0, <2>3, <2>4, <3>2, AppendProperties
    <3>. HIDE DEF u, v
    <3>4. u = v
      BY <3>1, <3>3, SeqEqual
    <3>. QED  BY <3>4 DEF u, v
  <2>7. Lasts(b) <= 1
    <3>1. PICK size \in Nat : size = answers[m + 1].size
      BY <2>5
    <3>2. m + 1 \in Nat /\ size \in 0 .. size
      OBVIOUS
    <3>3. Lasts(SubSeq(Body(m + 1, size), 1, size)) <= 1
      BY <3>2, LastsOfBody
    <3>. QED  BY <2>5, <3>1, <3>3
  <2>. HIDE DEF b
  <2>8. FlattenSeq(Begun(m + 1)) = FlattenSeq(Begun(m)) \o b /\ FlattenSeq(Begun(m)) \in Seq(Parts)
    BY <2>4, <2>5, <2>6, FlattenAppend, FlattenIsSeq
  <2>9. Lasts(FlattenSeq(Begun(m + 1))) = Lasts(FlattenSeq(Begun(m))) + Lasts(b)
    BY <2>5, <2>8, LastsAdd
  <2>10. Lasts(FlattenSeq(Begun(m))) \in Nat /\ Lasts(b) \in Nat
    BY <2>5, <2>8, LastsAreFinite
  <2>11. Lasts(FlattenSeq(Begun(m))) <= m
    BY <1>1, <1>3, <2>1
  <2>. QED  BY <2>7, <2>9, <2>10, <2>11
<1>. HIDE DEF N
<1>4. Nat \subseteq N
  BY <1>2, <1>3, SetInduction
<1>5. Bodies = Begun(Len(answers))
  BY <1>1 DEF Bodies, Begun
<1>6. Lasts(FlattenSeq(Begun(Len(answers)))) <= Len(answers)
  BY <1>1, <1>4 DEF N
<1>. QED  BY <1>1, <1>5, <1>6, FlattenIsSeq

(* The client has received no more whole responses than were begun.         *)
LEMMA AnsweredIsBegun ==
  ASSUME OutputIsKept, server = "stackful", ~gone
  PROVE  Answered <= Len(answers)
<1>0. Len(answers) \in Nat /\ VectorsDescribe
  BY BodiesAreSeqs DEF OutputIsKept
<1>1. /\ got \in Seq(Parts) /\ outq \in Seq(Parts) /\ Unsent \in Seq(Parts)
      /\ got \o outq \o Unsent = FlattenSeq(Bodies)
  <2>1. Unsent = Readable(writeBuff) \o RestOfFile
    BY <1>0, UnsentIs
  <2>2. Readable(writeBuff) \in Seq(Parts) /\ RestOfFile \in Seq(Parts)
    BY <1>0, ReadableIs, RestIsSeq DEF VectorsDescribe
  <2>3. Unsent \in Seq(Parts)
    BY <2>1, <2>2, ConcatProperties
  <2>. QED  BY <2>3 DEF OutputIsKept, Delivered, Responses
<1>2. got \o outq \in Seq(Parts)
  BY <1>1, ConcatProperties
<1>3. Lasts(got \o outq) = Lasts(got) + Lasts(outq)
  BY <1>1, LastsAdd
<1>4. Lasts((got \o outq) \o Unsent) = Lasts(got \o outq) + Lasts(Unsent)
  BY <1>1, <1>2, LastsAdd
<1>5. Lasts(FlattenSeq(Bodies)) <= Len(answers) /\ FlattenSeq(Bodies) \in Seq(Parts)
  BY LastsOfBodies DEF OutputIsKept
<1>6. Lasts(got) \in Nat /\ Lasts(outq) \in Nat /\ Lasts(Unsent) \in Nat /\ Lasts(FlattenSeq(Bodies)) \in Nat
  BY <1>1, <1>5, LastsAreFinite
<1>7. Answered = Lasts(got)
  BY DEF Answered, Lasts, LastsOf
<1>. QED  BY <1>0, <1>1, <1>3, <1>4, <1>5, <1>6, <1>7

(* The client has sent n requests.  After k answers it has sent the next    *)
(* one or not; while that one is handled, it is in the socket no more.      *)
Sent(n) == n \in 0 .. Len(script) /\ sent = EndOf(n)
Awaited(k) == \/ Sent(k) /\ inq = <<>>
              \/ Sent(k + 1) /\ inq = Text[script[k + 1]]
Taken(k) == Sent(k + 1) /\ inq = <<>>

(* What the stackful server leaves in its buffer after k answers.           *)
Left(k) == IF k > 0 /\ HasBody(script[k]) THEN <<"body">> ELSE <<>>
RightMethod(i, method) ==
  \/ method = MethodOf(script[i])
  \/ server = "stackful" /\ i > 1 /\ HasBody(script[i - 1])
AnswersAreRight ==
  \A i \in DOMAIN answers :
    /\ answers[i].n = i
    /\ answers[i].keep = KeepsAlive(script[i])
    /\ RightMethod(i, answers[i].method)

(* Where a parser is in a request of a kind: before a header, with what it  *)
(* knows by then and the rest of the text.                                  *)
AtHeader(kind, keep, len, rest) ==
  \/ keep = FALSE /\ len = 0 /\ rest = Headers[kind]
  \/ kind = "keep" /\ keep = TRUE /\ len = 0 /\ rest = PlainHeaders
  \/ kind = "form" /\ keep = TRUE /\ len = 0 /\ rest = FormLength
  \/ kind = "form" /\ keep = TRUE /\ len = 1 /\ rest = FormBlank

Requests ==
  [state : {"REQUEST_LINE", "HEADERS", "BODY", "FINISH"},
   method : {"GET", "POST", "none", "other"}, keep : BOOLEAN]
ParsesRequest(k) ==
  LET kind == script[k + 1] IN
  \/ request.state = "REQUEST_LINE" /\ request.keep = FALSE /\ Held = Left(k) \o Text[kind]
  \/ /\ RightMethod(k + 1, request.method)
     /\ \/ request.state = "HEADERS" /\ \E len \in 0 .. 1 : AtHeader(kind, request.keep, len, Held)
        \/ kind = "form" /\ request.state = "BODY" /\ request.keep = TRUE /\ Held = <<"body">>
        \/ kind # "form" /\ request.state = "FINISH" /\ request.keep = KeepsAlive(kind) /\ Held = <<>>

ConnectionFits ==
  LET k == Len(answers) IN
  /\ request \in Requests
  /\ phase = "init" => k = 0
  /\ phase \in {"init", "read", "write", "again"} => Held = Left(k) /\ Awaited(k)
  /\ phase = "process" =>
       \/ Held = <<>> /\ Left(k) = <<>> /\ Awaited(k)
       \/ Taken(k) /\ Held = Left(k) \o Text[script[k + 1]]
  /\ phase = "parse" => Taken(k) /\ ParsesRequest(k)
  /\ phase = "respond" =>
       /\ Taken(k) /\ Held = Left(k + 1)
       /\ request.keep = KeepsAlive(script[k + 1]) /\ RightMethod(k + 1, request.method)

(* The cells behind each kind of request are NUL again when it has been     *)
(* parsed, whatever the requests before it left in read_buf_.               *)
Marks == {7, 11} \cup 15 .. ReadBufferSize
Tidy(checked, readIdx) ==
  \A j \in Marks : j <= ReadBufferSize /\ (j <= checked \/ j > readIdx) => rbuf[j] = "nul"
Holds(at, s) == at \in Nat /\ at + Len(s) < ReadBufferSize /\ \A i \in 1 .. Len(s) : rbuf[at + i] = s[i]
NothingYet ==
  /\ answers = <<>> /\ wbuf = <<>> /\ Awaited(0)
  /\ \A i \in 1 .. ReadBufferSize : rbuf[i] = "nul"
ScansFrom(s, rest) ==
  /\ scan.readIdx = Len(s) /\ scan.checked = Len(s) - Len(rest) /\ scan.start = scan.checked
  /\ scan.status = "ok"
  /\ Holds(scan.checked, rest) /\ Tidy(scan.checked, Len(s))
ScansRequest(k) ==
  LET kind == script[k + 1]  text == Text[kind] IN
  \/ /\ scan.state = "requestline" /\ scan.linger = FALSE /\ scan.length = 0
     /\ ScansFrom(text, text)
  \/ /\ scan.method = MethodOf(kind)
     /\ \/ /\ scan.state = "header"
           /\ \E rest \in {Headers[kind], PlainHeaders, FormLength, FormBlank} :
                AtHeader(kind, scan.linger, scan.length, rest) /\ ScansFrom(text, rest)
        \/ /\ kind = "form" /\ scan.state = "content" /\ scan.linger = TRUE /\ scan.length = 1
           /\ ScansFrom(text, <<"body">>)

HandlerFits ==
  LET k == Len(answers) IN
  /\ stage = "read" =>
       /\ scan = ScanInit /\ Awaited(k)
       /\ \/ armed = "any" /\ NothingYet
          \/ armed = "in" /\ Tidy(ReadBufferSize, 0)
  /\ stage = "process" =>
       /\ scan = ScanInit
       /\ \/ NothingYet
          \/ Taken(k) /\ Holds(0, Text[script[k + 1]]) /\ Tidy(0, Len(Text[script[k + 1]]))
  /\ stage = "parse" =>
       \/ NothingYet /\ scan = ScanInit
       \/ Taken(k) /\ ScansRequest(k)
  /\ stage = "write" =>
       \/ NothingYet
       \/ /\ Taken(k) /\ Tidy(ReadBufferSize, 0) /\ wbuf = Reply
          /\ scan.method = MethodOf(script[k + 1]) /\ scan.linger = KeepsAlive(script[k + 1])

InOrder == \E n \in 0 .. Len(script) : Sent(n) /\ Len(answers) <= n
Fits ==
  /\ InOrder /\ AnswersAreRight
  /\ server = "stackful" => ConnectionFits
  /\ server = "stackless" /\ ~gone =>
       HandlerFits /\ Lasts(got) + Lasts(outq) <= Len(answers)
RequestsFit == ~Excused => Fits

-----------------------------------------------------------------------------
(* The answers are a sequence.                                              *)
LEMMA AnswersAre ==
  ASSUME Responses
  PROVE  Len(answers) \in Nat /\ DOMAIN answers = 1 .. Len(answers)
  BY DEF Responses

(* Where the requests end depends on the script alone.                      *)
LEMMA EndsStay ==
  ASSUME UNCHANGED script, NEW n
  PROVE  EndOf(n)' = EndOf(n)
  BY DEF EndOf

(* A text is never empty: not both k and k + 1 requests are what was sent.  *)
LEMMA SentOnce ==
  ASSUME script \in Scripts, NEW k \in Nat
  PROVE  ~(Sent(k) /\ Sent(k + 1))
<1>1. SUFFICES ASSUME Sent(k), Sent(k + 1) PROVE FALSE
  OBVIOUS
<1>2. Len(script) \in Nat
  BY ScriptIs
<1>3. k + 1 <= Len(script) /\ sent = EndOf(k) /\ sent = EndOf(k + 1)
  BY <1>1, <1>2 DEF Sent
<1>4. EndOf(k) \in Nat /\ EndOf(k + 1) \in Nat /\ EndOf(k) < EndOf(k + 1)
  BY <1>3, NextText
<1>. QED  BY <1>3, <1>4

(* The client has seen no more responses end than answers were begun.       *)
LEMMA AnsweredFits ==
  ASSUME OutputIsKept, Fits, ~gone, server \in {"stackful", "stackless"}
  PROVE  Answered \in Nat /\ Answered <= Len(answers)
<1>1. Len(answers) \in Nat /\ got \in Seq(Parts) /\ outq \in Seq(Parts)
  BY AnswersAre DEF OutputIsKept, Responses
<1>2. Answered = Lasts(got) /\ Lasts(got) \in Nat /\ Lasts(outq) \in Nat
  BY <1>1, LastsAreFinite DEF Answered, Lasts, LastsOf
<1>3. CASE server = "stackful"
  BY <1>2, <1>3, AnsweredIsBegun
<1>4. CASE server = "stackless"
  <2>1. Lasts(got) + Lasts(outq) <= Len(answers)
    BY <1>4 DEF Fits
  <2>. QED  BY <1>1, <1>2, <2>1
<1>. QED  BY <1>3, <1>4

(* A request that follows its rules is sent whole, after all answers.       *)
LEMMA SendIs ==
  ASSUME InputIsKept, OutputIsKept, Fits, Send, ~disturbed'
  PROVE  /\ Sent(Len(answers)) /\ Sent(Len(answers) + 1)' /\ Len(answers) \in Nat
         /\ inq' = inq \o Text[script[Len(answers) + 1]]
<1>. DEFINE k == Len(answers)
<1>1. k \in Nat /\ script \in Scripts /\ Len(script) \in Nat /\ server \in {"stackful", "stackless"}
  BY AnswersAre, ScriptIs DEF OutputIsKept, InputIsKept
<1>. HIDE DEF k
<1>2. PICK n \in 0 .. Len(script) : Sent(n) /\ k <= n
  BY DEF Fits, InOrder, k
<1>3. PICK upTo \in sent + 1 .. Len(Stream) :
        /\ sent' = upTo /\ inq' = inq \o SubSeq(Stream, sent + 1, upTo)
        /\ disturbed' = (disturbed \/ Answered < Whole \/ upTo # EndOf(Whole + 1))
  BY DEF Send
<1>4. Whole = n /\ sent = EndOf(n)
  BY <1>1, <1>2, WholeIs DEF Sent
<1>5. ~gone /\ script' = script /\ answers' = answers
  BY DEF Send
<1>6. Answered \in Nat /\ Answered <= k
  BY <1>1, <1>5, AnsweredFits DEF k
<1>7. ~(Answered < n) /\ upTo = EndOf(n + 1)
  BY <1>3, <1>4
<1>8. n = k
  BY <1>1, <1>2, <1>6, <1>7
<1>9. n + 1 <= Len(script)
  <2>1. SUFFICES ASSUME n = Len(script) PROVE FALSE
    BY <1>1
  <2>2. Len(Stream) = sent /\ sent \in Nat
    <3>1. Len(Stream) = EndOf(Len(script)) /\ Stream \in Seq(Toks)
      BY <1>1, StreamEnds, StreamIsSeq
    <3>. QED  BY <1>4, <2>1, <3>1
  <2>. QED  BY <2>2
<1>10. SubSeq(Stream, EndOf(n) + 1, EndOf(n + 1)) = Text[script[n + 1]]
  BY <1>1, <1>9, NextText
<1>11. EndOf(n + 1)' = EndOf(n + 1)
  BY <1>5, EndsStay
<1>12. Sent(n + 1)'
  BY <1>1, <1>3, <1>5, <1>7, <1>9, <1>11 DEF Sent
<1>. QED  BY <1>1, <1>2, <1>3, <1>4, <1>5, <1>7, <1>8, <1>10, <1>12 DEF k

(* What was answered and sent says as much after a step that leaves it.     *)
LEMMA AnswersStay ==
  ASSUME UNCHANGED <<server, script, answers>>, AnswersAreRight
  PROVE  AnswersAreRight'
  BY DEF AnswersAreRight, RightMethod

(* So does how many requests were sent,                                     *)
LEMMA OrderStays ==
  ASSUME UNCHANGED <<script, sent, answers>>, InOrder
  PROVE  InOrder'
<1>1. PICK n \in 0 .. Len(script) : Sent(n) /\ Len(answers) <= n
  BY DEF InOrder
<1>2. Sent(n)'
  BY <1>1, EndsStay DEF Sent
<1>. QED  BY <1>1, <1>2 DEF InOrder

(* what the socket holds of them,                                           *)
LEMMA SocketStays ==
  ASSUME UNCHANGED <<script, sent, inq>>, NEW k
  PROVE  Sent(k)' = Sent(k) /\ Awaited(k)' = Awaited(k) /\ Taken(k)' = Taken(k)
<1>1. \A n : EndOf(n)' = EndOf(n)
  BY EndsStay
<1>2. \A n : Sent(n)' = Sent(n)
  BY <1>1 DEF Sent
<1>. QED  BY <1>2 DEF Awaited, Taken

(* and what the stackful server keeps of the last.                          *)
LEMMA LeftStays ==
  ASSUME UNCHANGED script, NEW k
  PROVE  Left(k)' = Left(k)
  BY DEF Left

NoEnds(line) == \A i \in 1 .. Len(line) : line[i] \notin {"r", "l"}

(* A line with its end comes apart where it was put together.               *)
LEMMA EndedSplits ==
  ASSUME NEW line \in Seq(Toks), NEW rest \in Seq(Toks)
  PROVE  /\ SubSeq(Ended(line, rest), 1, Len(line)) = line
         /\ SubSeq(Ended(line, rest), Len(line) + 3, Len(Ended(line, rest))) = rest
<1>. DEFINE t == Ended(line, rest)
            n == Len(line)
            m == Len(rest)
            u == SubSeq(t, 1, n)
            v == SubSeq(t, n + 3, Len(t))
<1>1. /\ t \in Seq(Toks) /\ Len(t) = n + 2 + m
      /\ \A i \in 1 .. n : t[i] = line[i]
      /\ \A i \in 1 .. m : t[n + 2 + i] = rest[i]
  BY EndedIs
<1>2. n \in Nat /\ m \in Nat
  OBVIOUS
<1>. HIDE DEF t
<1>3. u \in Seq(Toks) /\ Len(u) = n /\ \A i \in 1 .. n : u[i] = t[i]
  BY <1>1, <1>2
<1>4. v \in Seq(Toks) /\ Len(v) = m /\ \A i \in 1 .. m : v[i] = t[n + 2 + i]
  <2>1. PICK p \in Nat : p = n + 2
    BY <1>2
  <2>2. v = SubSeq(t, p + 1, p + m) /\ Len(t) = p + m
    BY <1>1, <1>2, <2>1
  <2>. HIDE DEF v
  <2>3. v \in Seq(Toks) /\ Len(v) = m /\ \A i \in 1 .. m : v[i] = t[p + i]
    BY <1>1, <1>2, <2>1, <2>2
  <2>. QED  BY <2>1, <2>3
<1>. HIDE DEF u, v
<1>5. u = line
  BY <1>1, <1>2, <1>3, SeqEqual
<1>6. v = rest
  BY <1>1, <1>2, <1>4, SeqEqual
<1>. QED  BY <1>5, <1>6 DEF u, v, t

(* The stackful parser takes the line in front.                             *)
LEMMA LineIs ==
  ASSUME readBuff \in Buffers(Toks), NEW line \in Seq(Toks), NEW rest \in Seq(Toks), NoEnds(line),
         Readable(readBuff) = Ended(line, rest)
  PROVE  /\ LineLen = Len(line) /\ Line = line /\ ~LineIsOpen
         /\ Readable(Retrieve(readBuff, LineLen + 2)) = rest
<1>. DEFINE s == Readable(readBuff)
            n == Len(line)
            m == Len(rest)
            ends == {i \in 1 .. Len(s) - 1 : s[i] = "r" /\ s[i + 1] = "l"}
<1>1. /\ s \in Seq(Toks) /\ Len(s) = n + 2 + m
      /\ \A i \in 1 .. n : s[i] = line[i]
      /\ s[n + 1] = "r" /\ s[n + 2] = "l"
  BY EndedIs
<1>2. n \in Nat /\ m \in Nat
  OBVIOUS
<1>3. LineLen = IF ends = {} THEN Len(s) ELSE Min(ends) - 1
  BY DEF LineLen
<1>4. SubSeq(s, 1, n) = line /\ SubSeq(s, n + 3, Len(s)) = rest
  BY EndedSplits
<1>5. Line = SubSeq(s, 1, LineLen) /\ (LineIsOpen <=> LineLen = Len(s))
  BY DEF Line, LineIsOpen
<1>. HIDE DEF s
<1>6. n + 1 \in ends
  <2>1. n + 1 \in 1 .. Len(s) - 1 /\ (n + 1) + 1 = n + 2
    BY <1>1, <1>2
  <2>. QED  BY <1>1, <2>1
<1>7. \A y \in ends : y \in Nat /\ n < y
  <2>1. ASSUME NEW y \in ends PROVE y \in Nat /\ n < y
    <3>1. y \in 1 .. Len(s) - 1 /\ s[y] = "r"
      OBVIOUS
    <3>2. ~(y \in 1 .. n)
      BY <1>1, <3>1 DEF NoEnds
    <3>. QED  BY <1>1, <1>2, <3>1, <3>2
  <2>. QED  BY <2>1
<1>. HIDE DEF ends
<1>8. Min(ends) \in ends /\ Min(ends) <= n + 1
  <2>1. ends \in SUBSET Nat /\ ends # {}
    BY <1>6, <1>7
  <2>2. Min(ends) \in ends /\ \A y \in ends : Min(ends) <= y
    BY <2>1, MinIs
  <2>. QED  BY <1>6, <2>2
<1>9. Min(ends) = n + 1
  BY <1>2, <1>7, <1>8
<1>10. LineLen = n
  BY <1>2, <1>3, <1>6, <1>9
<1>11. LineLen # Len(s)
  BY <1>1, <1>2, <1>10
<1>12. Readable(Retrieve(readBuff, LineLen + 2)) = rest
  <2>1. PICK len \in 0 .. Len(s) : len = n + 2
    BY <1>1, <1>2
  <2>2. Readable(Retrieve(readBuff, len)) = SubSeq(s, len + 1, Len(s))
    BY RetrieveDrops DEF s
  <2>3. len + 1 = n + 3 /\ LineLen + 2 = len
    BY <1>2, <1>10, <2>1
  <2>. QED  BY <1>4, <2>2, <2>3
<1>. QED  BY <1>4, <1>5, <1>10, <1>11, <1>12

(* One line is parsed and leaves the buffer.                                *)
LEMMA OneLineIs ==
  ASSUME InputIsKept, server = "stackful", NEW line \in Seq(Toks), NEW rest \in Seq(Toks),
         NoEnds(line), Held = Ended(line, rest), ParseOneLine
  PROVE  /\ Line = line /\ phase' = phase /\ Held' = rest /\ request' = ParsedLine
         /\ UNCHANGED clientVars
<1>1. readBuff \in Buffers(Toks) /\ Readable(readBuff) = Ended(line, rest)
  BY DEF InputIsKept, Held
<1>2. Line = line /\ ~LineIsOpen /\ Readable(Retrieve(readBuff, LineLen + 2)) = rest
  BY <1>1, LineIs
<1>3. /\ readBuff' = Retrieve(readBuff, LineLen + 2) /\ phase' = phase /\ request' = ParsedLine
      /\ UNCHANGED clientVars
  BY <1>2 DEF ParseOneLine
<1>4. Held' = Readable(readBuff')
  BY <1>3 DEF Held, clientVars, Readable
<1>. QED  BY <1>2, <1>3, <1>4

(* A header.                                                                *)
LEMMA HeaderIs ==
  ASSUME InputIsKept, server = "stackful", NEW line \in Seq(Toks), NEW rest \in Seq(Toks),
         NoEnds(line), Held = Ended(line, rest), ParseOneLine,
         request \in Requests, request.state = "HEADERS"
  PROVE  /\ phase' = phase /\ Held' = rest /\ UNCHANGED clientVars
         /\ request' \in Requests /\ request'.method = request.method
         /\ request'.keep = (request.keep \/ line = <<"Con", "alive">>)
         /\ rest = <<>> /\ line = <<>> => request'.state = "FINISH"
         /\ Len(line) + Len(rest) > 0 =>
              request'.state = IF IsHeader(line) THEN "HEADERS" ELSE "BODY"
<1>1. /\ Line = line /\ phase' = phase /\ Held' = rest /\ request' = ParsedLine
      /\ UNCHANGED clientVars
  BY OneLineIs
<1>2. request' = [request EXCEPT !.keep = @ \/ Line = <<"Con", "alive">>,
                                 !.state = IF NothingFollows THEN "FINISH"
                                           ELSE IF IsHeader(Line) THEN @ ELSE "BODY"]
  BY <1>1 DEF ParsedLine
<1>. DEFINE k == request.keep \/ line = <<"Con", "alive">>
            t == IF NothingFollows THEN "FINISH" ELSE IF IsHeader(line) THEN "HEADERS" ELSE "BODY"
<1>3. request' = [request EXCEPT !.keep = k, !.state = t]
  BY <1>1, <1>2 DEF Requests
<1>4. k \in BOOLEAN /\ t \in {"FINISH", "HEADERS", "BODY"}
  BY DEF Requests
<1>5. /\ Len(line) + Len(rest) > 0 => ~NothingFollows
      /\ rest = <<>> /\ line = <<>> => NothingFollows
  <2>. DEFINE s == Readable(readBuff)
  <2>1. /\ s \in Seq(Toks) /\ Len(s) = Len(line) + 2 + Len(rest)
        /\ s[Len(line) + 1] = "r" /\ s[Len(line) + 2] = "l"
    BY EndedIs DEF Held
  <2>2. NothingFollows <=> Len(s) <= 2 /\ \A i \in 1 .. Len(s) : s[i] \in {"r", "l"}
    BY <2>1 DEF NothingFollows
  <2>. HIDE DEF s
  <2>3. Len(line) \in Nat /\ Len(rest) \in Nat
    OBVIOUS
  <2>4. ASSUME rest = <<>>, line = <<>> PROVE NothingFollows
    <3>1. Len(s) = 2 /\ s[1] = "r" /\ s[2] = "l"
      BY <2>1, <2>4
    <3>. QED  BY <2>2, <3>1
  <2>. QED  BY <2>1, <2>2, <2>3, <2>4
<1>. HIDE DEF k, t
<1>6. /\ request' \in Requests /\ request'.method = request.method
      /\ request'.keep = k /\ request'.state = t
  BY <1>3, <1>4 DEF Requests
<1>. QED  BY <1>1, <1>5, <1>6 DEF k, t

(* The lines of a request, and which of them ParseHeader_ takes for headers.*)
LEMMA HeaderLines ==
  /\ <<>> \in Seq(Toks) /\ NoEnds(<<>>) /\ ~IsHeader(<<>>) /\ Len(<<>>) = 0
  /\ <<"Con", "alive">> \in Seq(Toks) /\ NoEnds(<<"Con", "alive">>) /\ IsHeader(<<"Con", "alive">>)
  /\ Len(<<"Con", "alive">>) = 2
  /\ <<"len">> \in Seq(Toks) /\ NoEnds(<<"len">>) /\ IsHeader(<<"len">>) /\ Len(<<"len">>) = 1
  /\ <<"body">> \in Seq(Toks) /\ NoEnds(<<"body">>) /\ Len(<<"body">>) = 1
  /\ <<>> # <<"Con", "alive">> /\ <<"len">> # <<"Con", "alive">>
<1>1. <<>> \in Seq(Toks) /\ NoEnds(<<>>) /\ ~IsHeader(<<>>) /\ Len(<<>>) = 0
  BY DEF NoEnds, IsHeader
<1>2. <<"Con", "alive">> \in Seq(Toks) /\ NoEnds(<<"Con", "alive">>) /\ Len(<<"Con", "alive">>) = 2
  BY DEF NoEnds, Toks
<1>3. IsHeader(<<"Con", "alive">>)
  <2>. DEFINE l == <<"Con", "alive">>
  <2>1. Len(l) = 2 /\ l[1] = "Con" /\ l[2] = "alive" /\ 2 \in DOMAIN l
    OBVIOUS
  <2>. HIDE DEF l
  <2>2. l[2] \in Colon /\ \A j \in 1 .. 2 - 1 : l[j] \notin Colon
    BY <2>1 DEF Colon
  <2>3. \A j \in 2 + 1 .. Len(l) : l[j] \notin {"r", "l"}
    BY <2>1
  <2>4. IsHeader(l)
    BY <2>1, <2>2, <2>3 DEF IsHeader
  <2>. QED  BY <2>4 DEF l
<1>4. <<"len">> \in Seq(Toks) /\ NoEnds(<<"len">>) /\ Len(<<"len">>) = 1
  BY DEF NoEnds, Toks
<1>5. IsHeader(<<"len">>)
  <2>. DEFINE l == <<"len">>
  <2>1. Len(l) = 1 /\ l[1] = "len" /\ 1 \in DOMAIN l
    OBVIOUS
  <2>. HIDE DEF l
  <2>2. l[1] \in Colon /\ \A j \in 1 .. 1 - 1 : l[j] \notin Colon
    BY <2>1 DEF Colon
  <2>3. \A j \in 1 + 1 .. Len(l) : l[j] \notin {"r", "l"}
    BY <2>1
  <2>4. IsHeader(l)
    BY <2>1, <2>2, <2>3 DEF IsHeader
  <2>. QED  BY <2>4 DEF l
<1>6. <<"body">> \in Seq(Toks) /\ NoEnds(<<"body">>) /\ Len(<<"body">>) = 1
  BY DEF NoEnds, Toks
<1>7. <<>> # <<"Con", "alive">> /\ <<"len">> # <<"Con", "alive">>
  OBVIOUS
<1>. QED  BY <1>1, <1>2, <1>3, <1>4, <1>5, <1>6, <1>7

(* How long the headers are.                                                *)
LEMMA HeadersAreSeqs ==
  /\ PlainHeaders \in Seq(Toks) /\ Len(PlainHeaders) = 2
  /\ KeepHeaders \in Seq(Toks) /\ Len(KeepHeaders) = 6
  /\ FormBlank \in Seq(Toks) /\ Len(FormBlank) = 3
  /\ FormLength \in Seq(Toks) /\ Len(FormLength) = 6
  /\ FormHeaders \in Seq(Toks) /\ Len(FormHeaders) = 10
  BY HeadersAre DEF Toks

(* Which kind of request has which.                                         *)
LEMMA HeaderKinds ==
  /\ Headers["plain"] = PlainHeaders /\ Headers["keep"] = KeepHeaders
  /\ Headers["form"] = FormHeaders
  BY DEF Headers

(* A stackful parser that stands before a header comes to the next one, to  *)
(* the body or to the end.                                                  *)
LEMMA HeaderStep ==
  ASSUME InputIsKept, server = "stackful", ParseOneLine, request \in Requests,
         request.state = "HEADERS", NEW kind \in Kinds, NEW len \in 0 .. 1,
         AtHeader(kind, request.keep, len, Held)
  PROVE  /\ phase' = phase /\ UNCHANGED clientVars /\ request' \in Requests
         /\ request'.method = request.method
         /\ \/ request'.state = "HEADERS" /\ \E l \in 0 .. 1 : AtHeader(kind, request'.keep, l, Held')
            \/ kind = "form" /\ request'.state = "BODY" /\ request'.keep = TRUE /\ Held' = <<"body">>
            \/ /\ kind # "form" /\ request'.state = "FINISH" /\ request'.keep = KeepsAlive(kind)
               /\ Held' = <<>>
<1>1. CASE Held = PlainHeaders /\ request.keep = KeepsAlive(kind) /\ kind # "form"
  <2>1. PICK line \in Seq(Toks) : line = <<>> /\ NoEnds(line) /\ line # <<"Con", "alive">>
    BY HeaderLines
  <2>2. Held = Ended(line, line)
    BY <1>1, <2>1 DEF PlainHeaders
  <2>3. /\ phase' = phase /\ Held' = line /\ UNCHANGED clientVars /\ request' \in Requests
        /\ request'.method = request.method
        /\ request'.keep = (request.keep \/ line = <<"Con", "alive">>)
        /\ line = <<>> /\ line = <<>> => request'.state = "FINISH"
    BY <2>1, <2>2, HeaderIs
  <2>4. request'.keep = KeepsAlive(kind)
    BY <1>1, <2>1, <2>3 DEF KeepsAlive
  <2>. QED  BY <1>1, <2>1, <2>3, <2>4
<1>2. CASE Held = KeepHeaders /\ kind = "keep"
  <2>. DEFINE rest == PlainHeaders
  <2>1. PICK line \in Seq(Toks) : /\ line = <<"Con", "alive">> /\ NoEnds(line) /\ Len(line) = 2
                                /\ IsHeader(line)
    BY HeaderLines
  <2>2. Held = Ended(line, rest) /\ rest \in Seq(Toks) /\ Len(rest) = 2
    BY <1>2, <2>1, HeadersAreSeqs, HeaderLines DEF KeepHeaders
  <2>. HIDE DEF rest
  <2>3. Len(line) + Len(rest) > 0
    BY <2>1, <2>2
  <2>4. /\ phase' = phase /\ Held' = rest /\ UNCHANGED clientVars /\ request' \in Requests
        /\ request'.method = request.method
        /\ request'.keep = (request.keep \/ line = <<"Con", "alive">>)
        /\ request'.state = "HEADERS"
    BY <2>1, <2>2, <2>3, HeaderIs
  <2>5. /\ phase' = phase /\ Held' = PlainHeaders /\ UNCHANGED clientVars /\ request' \in Requests
        /\ request'.method = request.method /\ request'.keep = TRUE /\ request'.state = "HEADERS"
    BY <1>2, <2>1, <2>4 DEF rest
  <2>6. AtHeader(kind, request'.keep, 0, Held')
    BY <1>2, <2>5 DEF AtHeader
  <2>7. 0 \in 0 .. 1
    OBVIOUS
  <2>. QED  BY <2>5, <2>6, <2>7
<1>3. CASE Held = FormHeaders /\ kind = "form"
  <2>. DEFINE rest == FormLength
  <2>1. PICK line \in Seq(Toks) : /\ line = <<"Con", "alive">> /\ NoEnds(line) /\ Len(line) = 2
                                /\ IsHeader(line)
    BY HeaderLines
  <2>2. Held = Ended(line, rest) /\ rest \in Seq(Toks) /\ Len(rest) = 6
    BY <1>3, <2>1, HeadersAreSeqs, HeaderLines DEF FormHeaders
  <2>. HIDE DEF rest
  <2>3. Len(line) + Len(rest) > 0
    BY <2>1, <2>2
  <2>4. /\ phase' = phase /\ Held' = rest /\ UNCHANGED clientVars /\ request' \in Requests
        /\ request'.method = request.method
        /\ request'.keep = (request.keep \/ line = <<"Con", "alive">>)
        /\ request'.state = "HEADERS"
    BY <2>1, <2>2, <2>3, HeaderIs
  <2>5. /\ phase' = phase /\ Held' = FormLength /\ UNCHANGED clientVars /\ request' \in Requests
        /\ request'.method = request.method /\ request'.keep = TRUE /\ request'.state = "HEADERS"
    BY <1>3, <2>1, <2>4 DEF rest
  <2>6. AtHeader(kind, request'.keep, 0, Held')
    BY <1>3, <2>5 DEF AtHeader
  <2>7. 0 \in 0 .. 1
    OBVIOUS
  <2>. QED  BY <2>5, <2>6, <2>7
<1>4. CASE Held = FormLength /\ kind = "form" /\ request.keep = TRUE
  <2>. DEFINE rest == FormBlank
  <2>1. PICK line \in Seq(Toks) : /\ line = <<"len">> /\ NoEnds(line) /\ Len(line) = 1
                                /\ IsHeader(line)
    BY HeaderLines
  <2>2. Held = Ended(line, rest) /\ rest \in Seq(Toks) /\ Len(rest) = 3
    BY <1>4, <2>1, HeadersAreSeqs, HeaderLines DEF FormLength
  <2>. HIDE DEF rest
  <2>3. Len(line) + Len(rest) > 0
    BY <2>1, <2>2
  <2>4. /\ phase' = phase /\ Held' = rest /\ UNCHANGED clientVars /\ request' \in Requests
        /\ request'.method = request.method
        /\ request'.keep = (request.keep \/ line = <<"Con", "alive">>)
        /\ request'.state = "HEADERS"
    BY <2>1, <2>2, <2>3, HeaderIs
  <2>5. /\ phase' = phase /\ Held' = FormBlank /\ UNCHANGED clientVars /\ request' \in Requests
        /\ request'.method = request.method /\ request'.keep = TRUE /\ request'.state = "HEADERS"
    BY <1>4, <2>1, <2>4 DEF rest
  <2>6. AtHeader(kind, request'.keep, 1, Held')
    BY <1>4, <2>5 DEF AtHeader
  <2>7. 1 \in 0 .. 1
    OBVIOUS
  <2>. QED  BY <2>5, <2>6, <2>7
<1>5. CASE Held = FormBlank /\ kind = "form" /\ request.keep = TRUE
  <2>. DEFINE rest == <<"body">>
  <2>1. PICK line \in Seq(Toks) : /\ line = <<>> /\ NoEnds(line) /\ Len(line) = 0
                                /\ ~IsHeader(line)
    BY HeaderLines
  <2>2. Held = Ended(line, rest) /\ rest \in Seq(Toks) /\ Len(rest) = 1
    BY <1>5, <2>1, HeadersAreSeqs, HeaderLines DEF FormBlank
  <2>. HIDE DEF rest
  <2>3. Len(line) + Len(rest) > 0
    BY <2>1, <2>2
  <2>4. /\ phase' = phase /\ Held' = rest /\ UNCHANGED clientVars /\ request' \in Requests
        /\ request'.method = request.method
        /\ request'.keep = (request.keep \/ line = <<"Con", "alive">>)
        /\ request'.state = "BODY"
    BY <2>1, <2>2, <2>3, HeaderIs
  <2>5. /\ phase' = phase /\ Held' = <<"body">> /\ UNCHANGED clientVars /\ request' \in Requests
        /\ request'.method = request.method /\ request'.keep = TRUE /\ request'.state = "BODY"
    BY <1>5, <2>1, <2>4 DEF rest
  <2>. QED  BY <1>5, <2>5
<1>6. \/ Held = PlainHeaders /\ request.keep = KeepsAlive(kind) /\ kind # "form"
      \/ Held = KeepHeaders /\ kind = "keep"
      \/ Held = FormHeaders /\ kind = "form"
      \/ Held = FormLength /\ kind = "form" /\ request.keep = TRUE
      \/ Held = FormBlank /\ kind = "form" /\ request.keep = TRUE
  BY HeaderKinds DEF AtHeader, Kinds, KeepsAlive
<1>. QED  BY <1>1, <1>2, <1>3, <1>4, <1>5, <1>6

(* The text of a request of any kind.                                       *)
LEMMA TextOf ==
  ASSUME NEW kind \in Kinds
  PROVE  /\ Text[kind] = Ended(FirstLine(kind), Headers[kind])
         /\ FirstLine(kind) \in Seq(Toks) /\ Headers[kind] \in Seq(Toks)
         /\ NoEnds(FirstLine(kind)) /\ Len(FirstLine(kind)) = 2
<1>1. kind = "plain" \/ kind = "keep" \/ kind = "form"
  BY DEF Kinds
<1>2. Text[kind] = Ended(FirstLine(kind), Headers[kind]) /\ Headers[kind] \in Seq(Toks)
  BY <1>1, TextIs, HeaderKinds, HeadersAreSeqs DEF FirstLine, MethodOf
<1>3. MethodOf(kind) \in {"GET", "POST"}
  BY DEF MethodOf
<1>4. FirstLine(kind) \in Seq(Toks) /\ NoEnds(FirstLine(kind)) /\ Len(FirstLine(kind)) = 2
  BY <1>3 DEF FirstLine, NoEnds, Toks
<1>. QED  BY <1>2, <1>4

(* The request line of the stackful server, with what stands before it.     *)
LEMMA RequestLineIs ==
  ASSUME NEW k \in Nat, NEW kind \in Kinds
  PROVE  LET line == Left(k) \o FirstLine(kind) IN
         /\ line \in Seq(Toks) /\ NoEnds(line) /\ Left(k) \in Seq(Toks)
         /\ Left(k) \o Text[kind] = Ended(line, Headers[kind])
         /\ MethodAt(line) # {}
         /\ k = 0 \/ ~HasBody(script[k]) => 1 \in MethodAt(line) /\ line[1] = MethodOf(kind)
<1>. DEFINE line == Left(k) \o FirstLine(kind)
            m == MethodOf(kind)
            e == <<"r", "l">> \o Headers[kind]
<1>1. /\ Text[kind] = FirstLine(kind) \o e
      /\ FirstLine(kind) \in Seq(Toks) /\ e \in Seq(Toks)
  <2>1. <<"r", "l">> \in Seq(Toks)
    BY DEF Toks
  <2>. QED  BY <2>1, TextOf, ConcatProperties DEF Ended
<1>2. Left(k) \in Seq(Toks)
  BY HeaderLines DEF Left
<1>3. Left(k) \o Text[kind] = Ended(line, Headers[kind])
  <2>. DEFINE f == FirstLine(kind)
              l == Left(k)
  <2>. HIDE DEF e, f, l
  <2>1. (l \o f) \o e = l \o (f \o e)
    BY <1>1, <1>2, ConcatAssociative, SMTT(30) DEF f, l
  <2>. QED  BY <1>1, <2>1 DEF Ended, e, f, l
<1>4. m \in {"GET", "POST"} /\ FirstLine(kind) = <<m, "url">>
  BY DEF MethodOf, FirstLine
<1>. HIDE DEF m
<1>5. CASE Left(k) = <<>>
  <2>1. line = <<m, "url">>
    BY <1>1, <1>4, <1>5, ConcatEmptySeq
  <2>0. line \in Seq(Toks)
    BY <1>1, <1>4, <2>1
  <2>. HIDE DEF line
  <2>2. Len(line) = 2 /\ line[1] = m /\ line[2] = "url"
    BY ONLY <2>1
  <2>3. NoEnds(line)
    BY <1>4, <2>0, <2>2 DEF NoEnds
  <2>4. 1 \in MethodAt(line)
    BY <1>4, <2>0, <2>2 DEF MethodAt
  <2>. QED  BY <1>2, <1>3, <2>0, <2>2, <2>3, <2>4 DEF m, line
<1>6. CASE Left(k) = <<"body">> /\ k > 0 /\ HasBody(script[k])
  <2>1. /\ Len(line) = 3 /\ line[1] = "body" /\ line[2] = m /\ line[3] = "url"
        /\ line \in Seq(Toks)
    <3>1. PICK f \in Seq(Toks) : f = FirstLine(kind)
      BY <1>1
    <3>2. Len(f) = 2 /\ f[1] = m /\ f[2] = "url"
      BY <1>4, <3>1
    <3>3. PICK b \in Seq(Toks) : b = <<"body">> /\ Len(b) = 1 /\ b[1] = "body"
      <4>1. PICK b : b = <<"body">>
        OBVIOUS
      <4>2. b \in Seq(Toks) /\ Len(b) = 1 /\ b[1] = "body"
        BY <4>1, HeaderLines
      <4>. QED  BY <4>1, <4>2
    <3>4. /\ b \o f \in Seq(Toks) /\ Len(b \o f) = Len(b) + Len(f)
          /\ \A i \in 1 .. Len(b) + Len(f) : (b \o f)[i] = IF i <= Len(b) THEN b[i] ELSE f[i - Len(b)]
      BY ConcatProperties
    <3>5. line = b \o f
      BY <1>6, <3>1, <3>3
    <3>. HIDE DEF line
    <3>. QED  BY <3>2, <3>3, <3>4, <3>5
  <2>. HIDE DEF line
  <2>3. NoEnds(line)
    BY <1>4, <2>1 DEF NoEnds
  <2>4. 2 \in MethodAt(line)
    <3>1. \A j \in DOMAIN line \ {2, 2 + 1} : line[j] \notin Blank
      BY <2>1 DEF Blank
    <3>2. 2 \in 1 .. Len(line) - 1 /\ line[2] \in {"GET", "POST"} /\ line[2 + 1] = "url"
      BY <1>4, <2>1
    <3>. QED  BY <3>1, <3>2 DEF MethodAt
  <2>. QED  BY <1>2, <1>3, <1>6, <2>1, <2>3, <2>4 DEF m, line
<1>. QED  BY <1>5, <1>6 DEF Left

(* The answer of the stackful server that the client waits for.             *)
LEMMA FiberFits ==
  ASSUME Fits, server = "stackful", UNCHANGED <<server, script, sent, answers>>, ConnectionFits'
  PROVE  Fits'
<1>1. InOrder' /\ AnswersAreRight'
  BY AnswersStay, OrderStays DEF Fits
<1>2. server' = "stackful"
  OBVIOUS
<1>. QED  BY <1>1, <1>2 DEF Fits

(* What ConnectionFits says after a step that leaves the answers.           *)
LEMMA ConnectionNext ==
  ASSUME UNCHANGED <<server, script, sent, answers>>, NEW k, k = Len(answers),
         request' \in Requests, phase' = "init" => k = 0,
         phase' \in {"init", "read", "write", "again"} => Held' = Left(k) /\ Awaited(k)',
         phase' = "process" =>
           \/ Held' = <<>> /\ Left(k) = <<>> /\ Awaited(k)'
           \/ Taken(k)' /\ Held' = Left(k) \o Text[script[k + 1]],
         phase' = "parse" => Taken(k)' /\ ParsesRequest(k)',
         phase' = "respond" =>
           /\ Taken(k)' /\ Held' = Left(k + 1)
           /\ request'.keep = KeepsAlive(script[k + 1]) /\ RightMethod(k + 1, request'.method)
  PROVE  ConnectionFits'
<1>1. k = Len(answers')
  OBVIOUS
<1>2. \A n : Left(n)' = Left(n)
  BY LeftStays
<1>3. RightMethod(k + 1, request.method)' = RightMethod(k + 1, request'.method)
  BY DEF RightMethod
<1>4. (Len(answers))' = k
  BY <1>1
<1>5. k' = k
  OBVIOUS
<1>. QED  BY <1>2, <1>3, <1>4 DEF ConnectionFits

(* What ParsesRequest says after a line.                                    *)
LEMMA ParsesNext ==
  ASSUME UNCHANGED <<server, script>>, NEW k, NEW kind, kind = script[k + 1],
         RightMethod(k + 1, request'.method),
         \/ request'.state = "HEADERS" /\ \E len \in 0 .. 1 : AtHeader(kind, request'.keep, len, Held')
         \/ kind = "form" /\ request'.state = "BODY" /\ request'.keep = TRUE /\ Held' = <<"body">>
         \/ /\ kind # "form" /\ request'.state = "FINISH" /\ request'.keep = KeepsAlive(kind)
            /\ Held' = <<>>
  PROVE  ParsesRequest(k)'
<1>1. RightMethod(k + 1, request.method)' = RightMethod(k + 1, request'.method)
  BY DEF RightMethod
<1>2. script'[k + 1] = kind
  OBVIOUS
<1>3. ASSUME NEW len
      PROVE  AtHeader(kind, request.keep, len, Held)' = AtHeader(kind, request'.keep, len, Held')
  BY DEF AtHeader, Headers, PlainHeaders, KeepHeaders, FormHeaders, FormLength, FormBlank, Ended
<1>. QED  BY <1>1, <1>2 DEF ParsesRequest, AtHeader

(* What is known when a request is parsed.                                  *)
LEMMA ParsedIs ==
  ASSUME InputIsKept, OutputIsKept, Fits, server = "stackful", phase = "parse"
  PROVE  \E k \in Nat, kind \in Kinds :
           /\ k = Len(answers) /\ kind = script[k + 1]
           /\ Taken(k) /\ ParsesRequest(k) /\ request \in Requests
<1>1. Len(answers) \in Nat /\ script \in Scripts /\ Len(script) \in Nat
  BY AnswersAre, ScriptIs DEF OutputIsKept, InputIsKept
<1>2. Taken(Len(answers)) /\ ParsesRequest(Len(answers)) /\ request \in Requests
  BY DEF Fits, ConnectionFits
<1>3. Len(answers) + 1 \in 1 .. Len(script)
  BY <1>1, <1>2 DEF Taken, Sent
<1>. QED  BY <1>1, <1>2, <1>3, ScriptIs

(* The stackful parser, one line.                                           *)
LEMMA LineFits ==
  ASSUME InputIsKept, OutputIsKept, Fits, server = "stackful", ParseOneLine
  PROVE  Fits'
<1>1. phase = "parse" /\ request.state # "FINISH"
  BY DEF ParseOneLine
<1>2. PICK k \in Nat, kind \in Kinds :
        /\ k = Len(answers) /\ kind = script[k + 1]
        /\ Taken(k) /\ ParsesRequest(k) /\ request \in Requests
  BY <1>1, ParsedIs
<1>3. UNCHANGED clientVars
  BY DEF ParseOneLine
<1>4. Taken(k)' = Taken(k) /\ UNCHANGED <<server, script, sent, answers, inq>>
  BY <1>3, SocketStays DEF clientVars
<1>5. SUFFICES ConnectionFits'
  BY <1>4, FiberFits
<1>6. CASE request.state = "REQUEST_LINE"
  <2>1. Held = Left(k) \o Text[kind] /\ request.keep = FALSE
    BY <1>2, <1>6 DEF ParsesRequest
  <2>. DEFINE line == Left(k) \o FirstLine(kind)
              rest == Headers[kind]
              method == IF 1 \in MethodAt(line) THEN line[1] ELSE "other"
  <2>2. /\ line \in Seq(Toks) /\ NoEnds(line) /\ rest \in Seq(Toks)
        /\ Left(k) \o Text[kind] = Ended(line, rest)
        /\ k = 0 \/ ~HasBody(script[k]) => 1 \in MethodAt(line) /\ line[1] = MethodOf(kind)
    BY <1>2, RequestLineIs, TextOf
  <2>. HIDE DEF line, rest
  <2>3. Line = line /\ phase' = phase /\ Held' = rest /\ request' = ParsedLine
    BY <2>1, <2>2, OneLineIs
  <2>4. request' = [request EXCEPT !.state = "HEADERS", !.method = method]
    BY <1>6, <2>3 DEF ParsedLine
  <2>5. method \in {"GET", "POST", "none", "other"}
    BY DEF MethodAt
  <2>6. RightMethod(k + 1, method)
    <3>1. CASE k = 0 \/ ~HasBody(script[k])
      BY <1>2, <2>2, <3>1 DEF RightMethod
    <3>2. CASE k > 0 /\ HasBody(script[k])
      <4>1. k + 1 > 1 /\ (k + 1) - 1 = k
        BY <1>2, <3>2
      <4>. QED  BY <3>2, <4>1 DEF RightMethod
    <3>. QED  BY <1>2, <3>1, <3>2
  <2>. HIDE DEF method
  <2>7. /\ request' \in Requests /\ request'.state = "HEADERS" /\ request'.method = method
        /\ request'.keep = FALSE
    BY <1>2, <2>1, <2>4, <2>5 DEF Requests
  <2>8. AtHeader(kind, request'.keep, 0, Held') /\ 0 \in 0 .. 1
    BY <2>3, <2>7 DEF AtHeader, rest
  <2>9. ParsesRequest(k)'
    BY <1>2, <1>4, <2>6, <2>7, <2>8, ParsesNext
  <2>. QED  BY <1>1, <1>2, <1>4, <2>3, <2>7, <2>9, ConnectionNext
<1>7. CASE request.state = "HEADERS"
  <2>1. /\ RightMethod(k + 1, request.method)
        /\ \E len \in 0 .. 1 : AtHeader(kind, request.keep, len, Held)
    BY <1>2, <1>7 DEF ParsesRequest
  <2>2. /\ phase' = phase /\ request' \in Requests /\ request'.method = request.method
        /\ \/ request'.state = "HEADERS" /\ \E l \in 0 .. 1 : AtHeader(kind, request'.keep, l, Held')
           \/ kind = "form" /\ request'.state = "BODY" /\ request'.keep = TRUE /\ Held' = <<"body">>
           \/ /\ kind # "form" /\ request'.state = "FINISH" /\ request'.keep = KeepsAlive(kind)
              /\ Held' = <<>>
    BY <1>2, <1>7, <2>1, HeaderStep
  <2>3. ParsesRequest(k)'
    BY <1>2, <1>4, <2>1, <2>2, ParsesNext
  <2>. QED  BY <1>1, <1>2, <1>4, <2>2, <2>3, ConnectionNext
<1>8. CASE request.state = "BODY"
  <2>1. /\ RightMethod(k + 1, request.method) /\ kind = "form" /\ request.keep = TRUE
        /\ Held = <<"body">>
    BY <1>2, <1>8 DEF ParsesRequest
  <2>2. LineIsOpen
    <3>1. PICK s : s = Readable(readBuff)
      OBVIOUS
    <3>2. Len(s) = 1
      BY <2>1, <3>1 DEF Held
    <3>3. LineLen = Len(s)
      BY <3>1, <3>2 DEF LineLen
    <3>. QED  BY <3>1, <3>3 DEF LineIsOpen
  <2>3. phase' = "respond" /\ UNCHANGED readBuff /\ request' = [request EXCEPT !.state = "FINISH"]
    BY <1>8, <2>2 DEF ParseOneLine, ParsedLine
  <2>4. Held' = <<"body">>
    BY <1>4, <2>1, <2>3 DEF Held, Readable
  <2>5. Left(k + 1) = <<"body">>
    BY <1>2, <2>1 DEF Left, HasBody
  <2>6. request' \in Requests /\ request'.method = request.method /\ request'.keep = TRUE
    BY <1>2, <2>1, <2>3 DEF Requests
  <2>7. KeepsAlive(kind) = TRUE
    BY <2>1 DEF KeepsAlive
  <2>. QED  BY <1>2, <1>4, <2>1, <2>3, <2>4, <2>5, <2>6, <2>7, ConnectionNext
<1>. QED  BY <1>1, <1>2, <1>6, <1>7, <1>8 DEF Requests

(* It ends only at the end of the request.                                  *)
LEMMA ParseEndsFits ==
  ASSUME InputIsKept, OutputIsKept, Fits, server = "stackful", ParseEnds \/ BadRequestLine
  PROVE  Fits'
<1>1. phase = "parse" /\ phase' = "respond" /\ UNCHANGED <<clientVars, httpVars>>
  BY DEF ParseEnds, BadRequestLine
<1>2. PICK k \in Nat, kind \in Kinds :
        /\ k = Len(answers) /\ kind = script[k + 1]
        /\ Taken(k) /\ ParsesRequest(k) /\ request \in Requests
  BY <1>1, ParsedIs
<1>3. /\ Taken(k)' = Taken(k) /\ UNCHANGED <<server, script, sent, answers, inq>>
      /\ UNCHANGED <<readBuff, request>>
  BY <1>1, SocketStays DEF clientVars, httpVars
<1>4. Held' = Held
  BY <1>3 DEF Held, Readable
<1>5. SUFFICES ConnectionFits'
  BY <1>3, FiberFits
<1>6. ASSUME request.state = "REQUEST_LINE" PROVE FALSE
  <2>1. Held = Left(k) \o Text[kind]
    BY <1>2, <1>6 DEF ParsesRequest
  <2>. DEFINE line == Left(k) \o FirstLine(kind)
              rest == Headers[kind]
  <2>2. /\ line \in Seq(Toks) /\ NoEnds(line) /\ rest \in Seq(Toks)
        /\ Left(k) \o Text[kind] = Ended(line, rest) /\ MethodAt(line) # {}
    BY <1>2, RequestLineIs, TextOf
  <2>. HIDE DEF line, rest
  <2>3. readBuff \in Buffers(Toks) /\ Readable(readBuff) = Ended(line, rest)
    BY <2>1, <2>2 DEF InputIsKept, Held
  <2>4. Line = line
    BY <2>2, <2>3, LineIs
  <2>5. Readable(readBuff) # <<>>
    BY <2>2, <2>3, EndedIs
  <2>. QED  BY <1>6, <2>2, <2>4, <2>5 DEF ParseEnds, BadRequestLine
<1>7. ASSUME request.state = "HEADERS" PROVE FALSE
  <2>1. PICK len \in 0 .. 1 : AtHeader(kind, request.keep, len, Held)
    BY <1>2, <1>7 DEF ParsesRequest
  <2>2. Held # <<>>
    <3>1. Headers[kind] # <<>>
      BY <1>2, HeaderKinds, HeadersAreSeqs, HeaderLines, SMTT(30) DEF Kinds
    <3>2. PlainHeaders # <<>> /\ FormLength # <<>> /\ FormBlank # <<>>
      BY HeadersAreSeqs, HeaderLines
    <3>. QED  BY <2>1, <3>1, <3>2 DEF AtHeader
  <2>. QED  BY <1>7, <2>2 DEF ParseEnds, BadRequestLine, Held
<1>8. ASSUME request.state = "BODY" PROVE FALSE
  <2>1. Held = <<"body">>
    BY <1>2, <1>8 DEF ParsesRequest
  <2>. QED  BY <1>8, <2>1 DEF ParseEnds, BadRequestLine, Held
<1>9. /\ kind # "form" /\ request.keep = KeepsAlive(kind) /\ Held = <<>>
      /\ RightMethod(k + 1, request.method)
  BY <1>2, <1>6, <1>7, <1>8 DEF ParsesRequest
<1>10. Left(k + 1) = <<>>
  BY <1>2, <1>9 DEF Left, HasBody
<1>11. request'.keep = request.keep /\ request'.method = request.method /\ request' \in Requests
  BY <1>2, <1>3
<1>. QED  BY <1>1, <1>2, <1>3, <1>4, <1>9, <1>10, <1>11, ConnectionNext

(* The constructor, a read and its timeout, process().                      *)
LEMMA FiberStarts ==
  ASSUME InputIsKept, OutputIsKept, Fits, server = "stackful", ~idled',
         Accepted \/ ReadSome \/ ReadTimeout \/ Process
  PROVE  Fits'
<1>1. PICK k \in Nat : k = Len(answers)
  BY AnswersAre DEF OutputIsKept
<1>2. /\ UNCHANGED <<server, script, sent, answers>>
      /\ phase \in {"init", "read", "process"}
  BY DEF Accepted, ReadSome, ReadTimeout, Process, clientVars
<1>3. /\ request \in Requests /\ (phase = "init" => k = 0)
      /\ phase \in {"init", "read", "write", "again"} => Held = Left(k) /\ Awaited(k)
      /\ phase = "process" =>
           \/ Held = <<>> /\ Left(k) = <<>> /\ Awaited(k)
           \/ Taken(k) /\ Held = Left(k) \o Text[script[k + 1]]
  BY <1>1 DEF Fits, ConnectionFits
<1>4. SUFFICES ConnectionFits'
  BY <1>2, FiberFits
<1>5. CASE Accepted
  <2>1. /\ phase = "init" /\ phase' = "read" /\ readBuff' = RetrieveAll(readBuff)
        /\ UNCHANGED inq /\ UNCHANGED request
    BY <1>5 DEF Accepted, clientVars
  <2>2. Awaited(k)' = Awaited(k)
    BY <1>2, <2>1, SocketStays
  <2>3. Held' = <<>>
    <3>1. Readable(RetrieveAll(readBuff)) = <<>>
      BY RetrieveAllEmpties DEF InputIsKept
    <3>. QED  BY <1>2, <2>1, <3>1 DEF Held, Readable
  <2>4. Left(k) = <<>>
    BY <1>3, <2>1 DEF Left
  <2>. QED  BY <1>1, <1>2, <1>3, <2>1, <2>2, <2>3, <2>4, ConnectionNext
<1>6. CASE ReadSome
  <2>1. /\ phase = "read" /\ phase' = "process" /\ inq # <<>> /\ inq' = <<>>
        /\ readBuff' = ReadInto(readBuff, inq) /\ UNCHANGED request
    BY <1>6 DEF ReadSome
  <2>2. Held' = Held \o inq
    <3>1. Readable(ReadInto(readBuff, inq)) = Readable(readBuff) \o inq
      BY ReadAdds DEF InputIsKept
    <3>. QED  BY <1>2, <2>1, <3>1 DEF Held, Readable
  <2>3. Sent(k + 1) /\ inq = Text[script[k + 1]] /\ Held = Left(k)
    BY <1>3, <2>1 DEF Awaited
  <2>4. Sent(k + 1)'
    BY <1>2, <2>3, EndsStay DEF Sent
  <2>5. Taken(k)'
    BY <2>1, <2>4 DEF Taken
  <2>. QED  BY <1>1, <1>2, <1>3, <2>1, <2>2, <2>3, <2>5, ConnectionNext
<1>7. CASE ReadTimeout
  <2>1. /\ phase = "read" /\ phase' = "process" /\ UNCHANGED <<inq, readBuff, request>>
        /\ idled' = (idled \/ Readable(readBuff) # <<>>)
    BY <1>7 DEF ReadTimeout, clientVars
  <2>2. Awaited(k)' = Awaited(k)
    BY <1>2, <2>1, SocketStays
  <2>3. Held' = Held /\ Held = <<>>
    BY <1>2, <2>1 DEF Held, Readable
  <2>. QED  BY <1>1, <1>2, <1>3, <2>1, <2>2, <2>3, ConnectionNext
<1>8. CASE Process
  <2>1. /\ phase = "process" /\ UNCHANGED <<inq, readBuff>> /\ request' = EmptyRequest
        /\ phase' = IF Readable(readBuff) = <<>> THEN "read" ELSE "parse"
    BY <1>8 DEF Process, Cleared, clientVars
  <2>2. Awaited(k)' = Awaited(k) /\ Taken(k)' = Taken(k)
    BY <1>2, <2>1, SocketStays
  <2>3. Held' = Held /\ Held = Readable(readBuff)
    BY <1>2, <2>1 DEF Held, Readable
  <2>4. /\ request' \in Requests /\ request'.state = "REQUEST_LINE" /\ request'.keep = FALSE
    BY <2>1 DEF EmptyRequest, Requests
  <2>5. CASE Held = <<>> /\ Left(k) = <<>> /\ Awaited(k)
    BY <1>1, <1>2, <2>1, <2>2, <2>3, <2>4, <2>5, ConnectionNext
  <2>6. CASE Taken(k) /\ Held = Left(k) \o Text[script[k + 1]]
    <3>1. k + 1 \in 1 .. Len(script) /\ script \in Scripts
      BY <2>6, ScriptIs DEF Taken, Sent, InputIsKept
    <3>2. PICK kind \in Kinds : kind = script[k + 1]
      BY <3>1, ScriptIs
    <3>3. Held # <<>>
      <4>1. Text[kind] \in Seq(Toks) /\ Len(Text[kind]) > 0
        BY TextIsSeq
      <4>2. Left(k) \in Seq(Toks)
        BY RequestLineIs
      <4>3. Len(Left(k) \o Text[kind]) = Len(Left(k)) + Len(Text[kind])
        BY <4>1, <4>2, ConcatProperties
      <4>4. Len(Left(k)) \in Nat /\ Len(Text[kind]) \in Nat /\ Len(<<>>) = 0
        BY <4>1, <4>2
      <4>. QED  BY <2>6, <3>2, <4>1, <4>3, <4>4
    <3>4. phase' = "parse"
      BY <2>1, <2>3, <3>3
    <3>5. ParsesRequest(k)'
      <4>1. Left(k)' = Left(k)
        BY <1>2, LeftStays
      <4>2. request.state' = "REQUEST_LINE" /\ request.keep' = FALSE
        BY <2>4
      <4>3. (Held = Left(k) \o Text[script[k + 1]])'
        BY <1>2, <2>3, <2>6, <4>1
      <4>. QED  BY <4>2, <4>3 DEF ParsesRequest
    <3>. QED  BY <1>1, <1>2, <2>2, <2>4, <2>6, <3>4, <3>5, ConnectionNext
  <2>. QED  BY <1>3, <2>1, <2>5, <2>6
<1>. QED  BY <1>5, <1>6, <1>7, <1>8

(* The response to the request that was parsed.                             *)
LEMMA RespondFits ==
  ASSUME InputIsKept, OutputIsKept, Fits, server = "stackful", Respond
  PROVE  Fits'
<1>1. PICK k \in Nat : k = Len(answers)
  BY AnswersAre DEF OutputIsKept
<1>2. /\ phase = "respond" /\ phase' = "write"
      /\ UNCHANGED <<server, script, sent, inq, readBuff, request>>
  BY DEF Respond
<1>3. /\ Taken(k) /\ Held = Left(k + 1) /\ request \in Requests
      /\ request.keep = KeepsAlive(script[k + 1]) /\ RightMethod(k + 1, request.method)
  BY <1>1, <1>2 DEF Fits, ConnectionFits
<1>4. PICK a : /\ answers' = Append(answers, a) /\ a.n = k + 1
               /\ a.method = request.method /\ a.keep = request.keep
  <2>1. PICK size :
          answers' = Append(answers, [n |-> k + 1, size |-> size, method |-> request.method,
                                      keep |-> request.keep])
    BY <1>1 DEF Respond
  <2>. QED  BY <2>1
<1>5. /\ Len(answers') = k + 1 /\ DOMAIN answers' = 1 .. k + 1 /\ answers'[k + 1] = a
      /\ \A i \in 1 .. k : answers'[i] = answers[i]
  BY <1>1, <1>4 DEF OutputIsKept, Responses
<1>6. AnswersAreRight'
  <2>1. ASSUME NEW i \in 1 .. k + 1
        PROVE  /\ answers'[i].n = i /\ answers'[i].keep = KeepsAlive(script[i])
               /\ RightMethod(i, answers'[i].method)
    <3>1. CASE i = k + 1
      BY <1>3, <1>4, <1>5, <3>1
    <3>2. CASE i \in 1 .. k
      <4>1. i \in DOMAIN answers
        BY <1>1, <3>2, AnswersAre DEF OutputIsKept
      <4>2. answers'[i] = answers[i]
        BY <1>5, <3>2
      <4>. QED  BY <4>1, <4>2 DEF Fits, AnswersAreRight
    <3>. QED  BY <3>1, <3>2
  <2>2. \A i \in 1 .. k + 1 : RightMethod(i, answers[i].method)' = RightMethod(i, answers'[i].method)
    BY <1>2 DEF RightMethod
  <2>. QED  BY <1>2, <1>5, <2>1, <2>2 DEF AnswersAreRight
<1>7. Sent(k + 1)' /\ inq' = <<>>
  BY <1>2, <1>3, EndsStay DEF Taken, Sent
<1>8. InOrder'
  <2>1. k + 1 \in 0 .. Len(script')
    BY <1>7 DEF Sent
  <2>. QED  BY <1>5, <1>7, <2>1 DEF InOrder
<1>9. ConnectionFits'
  <2>1. Held' = Held /\ Left(k + 1)' = Left(k + 1)
    BY <1>2, LeftStays DEF Held, Readable
  <2>2. Awaited(k + 1)'
    BY <1>7 DEF Awaited
  <2>3. (Held = Left(k + 1))'
    BY <1>3, <2>1
  <2>. QED  BY <1>2, <1>3, <1>5, <2>2, <2>3 DEF ConnectionFits
<1>. QED  BY <1>2, <1>6, <1>8, <1>9, SMTT(30) DEF Fits

(* It is written, and the connection kept or closed.                        *)
LEMMA FiberGoesOn ==
  ASSUME InputIsKept, OutputIsKept, Fits, server = "stackful",
         \/ ReadEof \/ MapFails \/ WriteSome \/ WriteFails \/ WriteNothing \/ KeepOrClose
         \/ Close \/ NumberReused
  PROVE  Fits'
<1>1. PICK k \in Nat : k = Len(answers)
  BY AnswersAre DEF OutputIsKept
<1>. USE DEF clientVars, httpVars
<1>2. /\ UNCHANGED <<server, script, sent, answers, inq, readBuff, request>>
      /\ \/ phase' \in {"close", "crashed", "spin", "destroy", "done"}
         \/ phase = "write" /\ phase' \in {"write", "again"}
         \/ phase = "again" /\ phase' \in {"read", "close"}
  <2>1. CASE ReadEof \/ MapFails
    BY <2>1 DEF ReadEof, MapFails, AfterEof
  <2>2. CASE WriteSome
    BY <2>2 DEF WriteSome
  <2>3. CASE WriteFails \/ WriteNothing \/ KeepOrClose
    BY <2>3 DEF WriteFails, WriteNothing, KeepOrClose
  <2>4. CASE Close
    BY <2>4 DEF Close
  <2>5. CASE NumberReused
    BY <2>5 DEF NumberReused
  <2>. QED  BY <2>1, <2>2, <2>3, <2>4, <2>5
<1>3. Held' = Held /\ Awaited(k)' = Awaited(k)
  BY <1>2, SocketStays DEF Held, Readable
<1>4. /\ request \in Requests
      /\ phase \in {"write", "again"} => Held = Left(k) /\ Awaited(k)
  BY <1>1 DEF Fits, ConnectionFits
<1>5. ConnectionFits'
  BY <1>1, <1>2, <1>3, <1>4, ConnectionNext
<1>. QED  BY <1>2, <1>5, FiberFits, SMTT(30)

(* The other server.                                                        *)
LEMMA HandlerOn ==
  ASSUME Fits, server = "stackless", UNCHANGED <<server, script, sent, answers, gone, got, outq>>,
         ~gone => HandlerFits'
  PROVE  Fits'
<1>1. InOrder' /\ AnswersAreRight'
  BY AnswersStay, OrderStays DEF Fits
<1>2. ~gone => Lasts(got)' + Lasts(outq)' <= Len(answers)'
  BY DEF Fits, Lasts, LastsOf
<1>. QED  BY <1>1, <1>2 DEF Fits

(* A request that the client has sent is one of the three kinds.            *)
LEMMA KindIs ==
  ASSUME InputIsKept, NEW k \in Nat, Sent(k + 1)
  PROVE  k + 1 \in DOMAIN script /\ script[k + 1] \in Kinds
<1>1. script \in Scripts /\ k + 1 \in 1 .. Len(script)
  BY ScriptIs DEF InputIsKept, Sent
<1>. QED  BY <1>1, ScriptIs

(* AsyncRead puts the text in front.                                        *)
LEMMA ReadFits ==
  ASSUME InputIsKept, OutputIsKept, ArrayEnds, Fits, server = "stackless", AsyncRead
  PROVE  Fits'
<1>1. PICK k \in Nat : k = Len(answers)
  BY AnswersAre DEF OutputIsKept
<1>2. /\ stage = "read" /\ stage' = "process" /\ armed \in {"any", "in"} /\ rbuf' = Refilled /\ inq' = <<>>
      /\ armed = "in" => inq # <<>>
      /\ UNCHANGED <<server, script, sent, answers, gone, got, outq, scan, wbuf>>
  BY DEF AsyncRead, Reads
<1>3. SUFFICES ASSUME ~gone PROVE HandlerFits'
  BY <1>2, HandlerOn
<1>4. /\ scan = ScanInit /\ Awaited(k)
      /\ \/ armed = "any" /\ NothingYet
         \/ armed = "in" /\ Tidy(ReadBufferSize, 0)
  <2>1. HandlerFits
    BY <1>3 DEF Fits
  <2>. QED  BY <1>1, <1>2, <2>1 DEF HandlerFits
<1>5. rbuf \in [1 .. ReadBufferSize -> Cells]
  BY DEF ArrayEnds
<1>6. CASE inq = <<>>
  <2>1. NothingYet
    BY <1>2, <1>4, <1>6
  <2>2. rbuf' = rbuf
    BY <1>2, <1>5, <1>6 DEF Refilled
  <2>3. Awaited(0)' = Awaited(0)
    BY <1>2, <1>6, SocketStays
  <2>4. NothingYet'
    BY <1>2, <2>1, <2>2, <2>3 DEF NothingYet
  <2>5. scan' = ScanInit
    BY <1>2, <1>4
  <2>. QED  BY <1>2, <2>4, <2>5 DEF HandlerFits, ScanInit
<1>7. CASE inq # <<>>
  <2>1. Sent(k + 1) /\ inq = Text[script[k + 1]]
    BY <1>4, <1>7 DEF Awaited
  <2>2. PICK kind \in Kinds : kind = script[k + 1] /\ Len(Text[kind]) < ReadBufferSize
    BY <2>1, KindIs DEF AsyncRead
  <2>3. PICK text \in Seq(Toks) : text = Text[kind]
    BY TextIsSeq
  <2>4. Sent(k + 1)'
    BY <1>2, <2>1, EndsStay DEF Sent
  <2>5. Taken(k)'
    BY <1>2, <2>4 DEF Taken
  <2>6. rbuf' = [i \in 1 .. ReadBufferSize |-> IF i \in 1 .. Len(text) THEN text[i] ELSE rbuf[i]]
    <3>1. DOMAIN rbuf = 1 .. ReadBufferSize /\ DOMAIN text = 1 .. Len(text) /\ inq = text
      BY <1>5, <2>1, <2>2, <2>3
    <3>. QED  BY <1>2, <3>1 DEF Refilled
  <2>7. Holds(0, text)'
    <3>1. Len(text) \in Nat /\ Len(text) < ReadBufferSize
      BY <2>2, <2>3
    <3>2. ASSUME NEW i \in 1 .. Len(text) PROVE rbuf'[0 + i] = text[i]
      <4>1. 0 + i = i /\ i \in 1 .. ReadBufferSize
        BY <3>1, ParseAssumption
      <4>. QED  BY <2>6, <4>1
    <3>3. 0 + Len(text) < ReadBufferSize
      BY <3>1
    <3>. QED  BY <3>2, <3>3 DEF Holds
  <2>8. Tidy(0, Len(text))'
    <3>1. SUFFICES ASSUME NEW j \in Marks, j <= ReadBufferSize, j <= 0 \/ j > Len(text)
                   PROVE  rbuf'[j] = "nul"
      BY DEF Tidy
    <3>2. j \in Nat /\ j > 0
      BY ParseAssumption DEF Marks
    <3>3. j \in 1 .. ReadBufferSize /\ j \notin 1 .. Len(text)
      BY <3>1, <3>2, ParseAssumption
    <3>4. rbuf[j] = "nul"
      BY <1>4, <3>1, <3>3 DEF NothingYet, Tidy
    <3>. QED  BY <2>6, <3>3, <3>4
  <2>9. scan' = ScanInit /\ k = (Len(answers))' /\ kind = script'[k + 1]
    BY <1>1, <1>2, <1>4, <2>2
  <2>10. Taken(k)' /\ Holds(0, Text[script[k + 1]])' /\ Tidy(0, Len(Text[script[k + 1]]))'
    BY <2>3, <2>5, <2>7, <2>8, <2>9
  <2>. QED  BY <1>2, <2>9, <2>10 DEF HandlerFits, ScanInit
<1>. QED  BY <1>6, <1>7

(* Of what follows an overrun nothing is said.                              *)
LEMMA OverrunFits ==
  ASSUME Fits, server = "stackless", Overrun
  PROVE  Fits'
<1>1. stage' = "overrun" /\ UNCHANGED <<server, script, sent, answers, gone, got, outq>>
  BY DEF Overrun, Reads
<1>2. HandlerFits'
  BY <1>1 DEF HandlerFits
<1>. QED  BY <1>1, <1>2, HandlerOn

(* strlen finds the end of a text.                                          *)
LEMMA StrlenIs ==
  ASSUME ArrayEnds, NEW n \in Nat, n < ReadBufferSize, rbuf[n + 1] = "nul",
         \A i \in 1 .. n : rbuf[i] # "nul"
  PROVE  Strlen(rbuf) = n
<1>. DEFINE N == {i \in DOMAIN rbuf : rbuf[i] = "nul"}
<1>1. DOMAIN rbuf = 1 .. ReadBufferSize /\ N \in SUBSET Nat
  BY DEF ArrayEnds
<1>2. n + 1 \in N
  BY <1>1, ParseAssumption
<1>3. \A y \in N : n + 1 <= y
  BY <1>1
<1>4. Strlen(rbuf) = Min(N) - 1
  BY DEF Strlen
<1>. HIDE DEF N
<1>5. Min(N) \in N /\ Min(N) <= n + 1
  BY <1>1, <1>2, MinIs
<1>6. Min(N) \in Nat /\ n + 1 <= Min(N)
  BY <1>1, <1>3, <1>5
<1>7. Min(N) = n + 1
  BY <1>5, <1>6
<1>. QED  BY <1>4, <1>7

(* Process.                                                                 *)
LEMMA BeginFits ==
  ASSUME InputIsKept, OutputIsKept, ArrayEnds, Fits, server = "stackless", BeginProcess
  PROVE  Fits'
<1>1. PICK k \in Nat : k = Len(answers)
  BY AnswersAre DEF OutputIsKept
<1>2. /\ stage = "process" /\ stage' = "parse"
      /\ scan' = [scan EXCEPT !.readIdx = Strlen(rbuf), !.status = "ok"]
      /\ UNCHANGED <<server, script, sent, inq, answers, gone, got, outq, wbuf, rbuf>>
  BY DEF BeginProcess, clientVars
<1>3. SUFFICES ASSUME ~gone PROVE HandlerFits'
  BY <1>2, HandlerOn
<1>4. /\ scan = ScanInit
      /\ \/ NothingYet
         \/ Taken(k) /\ Holds(0, Text[script[k + 1]]) /\ Tidy(0, Len(Text[script[k + 1]]))
  BY <1>1, <1>2, <1>3 DEF Fits, HandlerFits
<1>5. CASE NothingYet
  <2>1. Strlen(rbuf) = 0
    <3>1. 0 < ReadBufferSize /\ 0 + 1 \in 1 .. ReadBufferSize
      BY ParseAssumption
    <3>2. rbuf[0 + 1] = "nul"
      BY <1>5, <3>1 DEF NothingYet
    <3>. QED  BY <3>1, <3>2, StrlenIs
  <2>2. scan' = ScanInit
    BY <1>2, <1>4, <2>1 DEF ScanInit
  <2>3. NothingYet'
    <3>1. Awaited(0)' = Awaited(0)
      BY <1>2, SocketStays
    <3>. QED  BY <1>2, <1>5, <3>1 DEF NothingYet
  <2>. QED  BY <1>2, <2>2, <2>3 DEF HandlerFits, ScanInit
<1>6. CASE Taken(k) /\ Holds(0, Text[script[k + 1]]) /\ Tidy(0, Len(Text[script[k + 1]]))
  <2>1. Sent(k + 1)
    BY <1>6 DEF Taken
  <2>2. PICK kind \in Kinds : kind = script[k + 1] /\ Len(Text[kind]) < ReadBufferSize
    <3>1. PICK m : m = Len(Text[script[k + 1]])
      OBVIOUS
    <3>2. 0 + m < ReadBufferSize /\ m \in Nat
      BY <1>6, <2>1, <3>1, KindIs, TextIsSeq DEF Holds
    <3>. QED  BY <2>1, <3>1, <3>2, KindIs, ParseAssumption
  <2>3. PICK text \in Seq(Toks) : text = Text[kind] /\ Len(text) \in {6, 10, 14}
    BY TextIsSeq
  <2>. DEFINE n == Len(text)
  <2>4. n \in Nat /\ n < ReadBufferSize /\ (n = 6 \/ n = 10 \/ n = 14)
    BY <2>2, <2>3
  <2>5. \A i \in 1 .. n : rbuf[i] = text[i]
    <3>1. ASSUME NEW i \in 1 .. n PROVE rbuf[i] = text[i]
      <4>1. 0 + i = i
        OBVIOUS
      <4>2. \A l \in 1 .. Len(text) : rbuf[0 + l] = text[l]
        BY <1>6, <2>2, <2>3 DEF Holds
      <4>. QED  BY <4>1, <4>2
    <3>. QED  BY <3>1
  <2>6. \A i \in 1 .. n : rbuf[i] # "nul"
    <3>1. \A i \in 1 .. n : text[i] \in Toks
      OBVIOUS
    <3>. QED  BY <2>5, <3>1 DEF Toks
  <2>7. rbuf[n + 1] = "nul"
    <3>1. n + 1 \in Marks /\ n + 1 <= ReadBufferSize /\ n + 1 > n
      <4>1. PICK m \in Nat : m = n
        BY <2>4
      <4>. HIDE DEF n
      <4>2. m + 1 <= ReadBufferSize /\ m + 1 > m
        BY <2>4, <4>1, ParseAssumption
      <4>3. m = 6 \/ m = 10 \/ m = 14
        BY <2>4, <4>1
      <4>4. m + 1 \in Marks
        BY <4>2, <4>3, ParseAssumption DEF Marks
      <4>. QED  BY <4>1, <4>2, <4>4
    <3>2. Tidy(0, n)
      BY <1>6, <2>2, <2>3
    <3>. HIDE DEF n
    <3>. QED  BY <3>1, <3>2 DEF Tidy
  <2>8. Strlen(rbuf) = n
    BY <2>4, <2>6, <2>7, StrlenIs
  <2>9. /\ scan'.readIdx = n /\ scan'.checked = 0 /\ scan'.start = 0 /\ scan'.status = "ok"
        /\ scan'.state = "requestline" /\ scan'.linger = FALSE /\ scan'.length = 0
    BY <1>2, <1>4, <2>8 DEF ScanInit
  <2>10. Holds(0, text)' /\ Tidy(0, n)'
    <3>1. Holds(0, text) /\ Tidy(0, n)
      BY <1>6, <2>2, <2>3
    <3>. QED  BY <1>2, <3>1 DEF Holds, Tidy
  <2>11. ScansFrom(text, text)'
    <3>1. 0 = n - n
      BY <2>4
    <3>. QED  BY <2>9, <2>10, <3>1 DEF ScansFrom
  <2>12. ScansRequest(k)'
    <3>1. text = Text[script'[k + 1]]
      BY <1>2, <2>2, <2>3
    <3>. QED  BY <2>9, <2>11, <3>1 DEF ScansRequest
  <2>13. Taken(k)'
    BY <1>2, <1>6, SocketStays
  <2>14. k = (Len(answers))'
    BY <1>1, <1>2
  <2>. QED  BY <1>2, <2>12, <2>13, <2>14 DEF HandlerFits
<1>. QED  BY <1>4, <1>5, <1>6

(* The stackless parser finds the line in front.                            *)
LEMMA ScanLineIs ==
  ASSUME ArrayEnds, NEW text \in Seq(Toks), NEW line \in Seq(Toks), NEW rest \in Seq(Toks),
         NoEnds(line), ScansFrom(text, Ended(line, rest))
  PROVE  /\ FirstEnd = scan.checked + Len(line) /\ LineStatus = "ok" /\ LineText = line
         /\ scan.checked \in Nat /\ scan.readIdx = scan.checked + Len(line) + 2 + Len(rest)
         /\ scan.readIdx = Len(text) /\ scan.readIdx < ReadBufferSize
         /\ \A i \in 1 .. Len(rest) : rbuf[scan.checked + Len(line) + 2 + i] = rest[i]
<1>. DEFINE t == Ended(line, rest)
<1>1. PICK c \in Nat, n \in Nat, m \in Nat, r \in Nat :
        /\ c = scan.checked /\ n = Len(line) /\ m = Len(rest) /\ r = scan.readIdx
        /\ r < ReadBufferSize
  <2>1. scan.checked \in Nat /\ scan.readIdx \in Nat /\ scan.readIdx < ReadBufferSize
    BY ParseAssumption DEF ArrayEnds, Scans
  <2>. QED  BY <2>1
<1>2. /\ t \in Seq(Toks) /\ Len(t) = n + 2 + m
      /\ \A i \in 1 .. n : t[i] = line[i]
      /\ t[n + 1] = "r" /\ t[n + 2] = "l"
      /\ \A i \in 1 .. m : t[n + 2 + i] = rest[i]
  <2>1. /\ t \in Seq(Toks) /\ Len(t) = Len(line) + 2 + Len(rest)
        /\ \A i \in 1 .. Len(line) : t[i] = line[i]
        /\ t[Len(line) + 1] = "r" /\ t[Len(line) + 2] = "l"
        /\ \A i \in 1 .. Len(rest) : t[Len(line) + 2 + i] = rest[i]
    BY EndedIs
  <2>. HIDE DEF t
  <2>. QED  BY <1>1, <2>1
<1>3. /\ r = Len(text) /\ c = Len(text) - Len(t) /\ scan.start = c
      /\ \A i \in 1 .. Len(t) : rbuf[c + i] = t[i]
  BY <1>1 DEF ScansFrom, Holds
<1>. HIDE DEF t
<1>4. r = c + n + 2 + m
  BY <1>1, <1>2, <1>3
<1>5. /\ \A i \in 1 .. n : rbuf[c + i] = line[i]
      /\ rbuf[c + n + 1] = "r" /\ rbuf[c + n + 2] = "l"
      /\ \A i \in 1 .. m : rbuf[c + n + 2 + i] = rest[i]
  <2>1. ASSUME NEW i \in 1 .. n PROVE rbuf[c + i] = line[i]
    BY <1>2, <1>3, SMTT(30)
  <2>2. rbuf[c + n + 1] = "r"
    <3>1. n + 1 \in 1 .. Len(t) /\ c + (n + 1) = c + n + 1
      BY <1>2
    <3>. QED  BY <1>2, <1>3, <3>1
  <2>3. rbuf[c + n + 2] = "l"
    <3>1. n + 2 \in 1 .. Len(t) /\ c + (n + 2) = c + n + 2
      BY <1>2
    <3>. QED  BY <1>2, <1>3, <3>1
  <2>4. ASSUME NEW i \in 1 .. m PROVE rbuf[c + n + 2 + i] = rest[i]
    <3>1. n + 2 + i \in 1 .. Len(t) /\ c + (n + 2 + i) = c + n + 2 + i
      BY <1>2
    <3>. QED  BY <1>2, <1>3, <3>1
  <2>. QED  BY <2>1, <2>2, <2>3, <2>4
<1>. DEFINE ends == {i \in c .. r - 1 : rbuf[i + 1] \in {"r", "l"}}
<1>6. FirstEnd = IF ends = {} THEN r ELSE Min(ends)
  BY <1>1 DEF FirstEnd
<1>7. c + n \in ends
  BY <1>4, <1>5
<1>8. \A y \in ends : y \in Nat /\ c + n <= y
  <2>1. ASSUME NEW y \in ends, ~(c + n <= y) PROVE FALSE
    <3>1. y \in c .. r - 1 /\ rbuf[y + 1] \in {"r", "l"}
      OBVIOUS
    <3>2. PICK i \in 1 .. n : i = y + 1 - c
      BY <2>1, <3>1
    <3>3. c + i = y + 1
      BY <3>1, <3>2
    <3>. QED  BY <1>1, <1>5, <3>1, <3>2, <3>3 DEF NoEnds
  <2>. QED  BY <2>1
<1>. HIDE DEF ends
<1>9. Min(ends) \in ends /\ Min(ends) <= c + n
  <2>1. ends \in SUBSET Nat /\ ends # {}
    BY <1>7, <1>8
  <2>2. Min(ends) \in ends /\ \A y \in ends : Min(ends) <= y
    BY <2>1, MinIs
  <2>. QED  BY <1>7, <2>2
<1>10. Min(ends) \in Nat /\ c + n <= Min(ends)
  BY <1>8, <1>9
<1>11. FirstEnd = c + n
  BY <1>6, <1>7, <1>9, <1>10
<1>12. LineStatus = "ok"
  <2>1. ~(c + n >= r - 1)
    BY <1>4
  <2>. QED  BY <1>1, <1>5, <1>11, <2>1 DEF LineStatus
<1>13. LineText = line
  <2>1. rbuf \in Seq(Cells) /\ Len(rbuf) = ReadBufferSize
    <3>1. rbuf \in [1 .. ReadBufferSize -> Cells] /\ ReadBufferSize \in Nat
      BY ParseAssumption DEF ArrayEnds
    <3>. QED  BY <3>1
  <2>. DEFINE u == SubSeq(rbuf, c + 1, c + n)
  <2>2. u \in Seq(Cells) /\ Len(u) = n /\ \A i \in 1 .. n : u[i] = rbuf[c + i]
    <3>1. c + n \in Nat /\ c + n <= ReadBufferSize /\ c + 1 \in Nat /\ c + 1 >= 1
          /\ (c + n) - (c + 1) + 1 = n
      <4>1. r < ReadBufferSize /\ ReadBufferSize \in Nat
        BY <1>1, ParseAssumption
      <4>. QED  BY ONLY <1>4, <4>1, c \in Nat, n \in Nat, m \in Nat, r \in Nat
    <3>2. PICK p \in Nat, q \in Nat : p = c + 1 /\ q = c + n
      BY <3>1
    <3>3. SubSeq(rbuf, p, q) \in Seq(Cells) /\ Len(SubSeq(rbuf, p, q)) = n
          /\ \A i \in 1 .. n : SubSeq(rbuf, p, q)[i] = rbuf[p + i - 1]
      BY <2>1, <3>1, <3>2
    <3>4. \A i \in 1 .. n : p + i - 1 = c + i
      BY <3>2
    <3>. QED  BY <3>2, <3>3, <3>4
  <2>3. LineText = u
    BY <1>3, <1>11 DEF LineText
  <2>. HIDE DEF u
  <2>4. line \in Seq(Cells)
    BY DEF Cells
  <2>5. u = line
    BY <1>1, <1>5, <2>2, <2>4, SeqEqual
  <2>. QED  BY <2>3, <2>5
<1>. QED  BY <1>1, <1>3, <1>4, <1>5, <1>11, <1>12, <1>13

(* It puts NULs over the end of the line and goes on behind them.           *)
LEMMA RestIsHeld ==
  ASSUME ArrayEnds, NEW text \in Seq(Toks), NEW line \in Seq(Toks), NEW rest \in Seq(Toks),
         NoEnds(line), ScansFrom(text, Ended(line, rest)),
         \A j \in Marks : ~(scan.checked < j /\ j <= scan.checked + Len(line)),
         rbuf' = [rbuf EXCEPT ![FirstEnd + 1] = "nul", ![FirstEnd + 2] = "nul"],
         scan'.checked = FirstEnd + 2, scan'.start = FirstEnd + 2,
         scan'.readIdx = scan.readIdx, scan'.status = "ok"
  PROVE  ScansFrom(text, rest)'
<1>1. PICK c \in Nat, n \in Nat, m \in Nat, r \in Nat :
        /\ c = scan.checked /\ n = Len(line) /\ m = Len(rest) /\ r = scan.readIdx
        /\ r < ReadBufferSize /\ r = c + n + 2 + m /\ r = Len(text) /\ FirstEnd = c + n
        /\ \A i \in 1 .. m : rbuf[c + n + 2 + i] = rest[i]
  <2>1. /\ FirstEnd = scan.checked + Len(line)
        /\ scan.checked \in Nat /\ scan.readIdx = scan.checked + Len(line) + 2 + Len(rest)
        /\ scan.readIdx = Len(text) /\ scan.readIdx < ReadBufferSize
        /\ \A i \in 1 .. Len(rest) : rbuf[scan.checked + Len(line) + 2 + i] = rest[i]
    BY ScanLineIs
  <2>2. Len(line) \in Nat /\ Len(rest) \in Nat /\ Len(text) \in Nat
    OBVIOUS
  <2>. QED  BY <2>1, <2>2
<1>2. rbuf \in [1 .. ReadBufferSize -> Cells] /\ ReadBufferSize \in Nat
  BY ParseAssumption DEF ArrayEnds
<1>3. \A j \in 1 .. ReadBufferSize :
        rbuf'[j] = IF j = c + n + 1 \/ j = c + n + 2 THEN "nul" ELSE rbuf[j]
  <2>1. rbuf' = [rbuf EXCEPT ![c + n + 1] = "nul", ![c + n + 2] = "nul"]
    BY <1>1
  <2>. QED  BY <1>2, <2>1
<1>4. Holds(c + n + 2, rest)'
  <2>1. ASSUME NEW i \in 1 .. m PROVE rbuf'[c + n + 2 + i] = rest[i]
    <3>1. /\ c + n + 2 + i \in 1 .. ReadBufferSize
          /\ c + n + 2 + i # c + n + 1 /\ c + n + 2 + i # c + n + 2
      <4>1. i \in Nat /\ 1 <= i /\ i <= m
        OBVIOUS
      <4>2. c + n + 2 + i <= r
        BY <1>1, <4>1
      <4>3. r \in Nat /\ r < ReadBufferSize /\ ReadBufferSize \in Nat
        BY <1>1, <1>2
      <4>. QED  BY ONLY <4>1, <4>2, <4>3, c \in Nat, n \in Nat
    <3>. QED  BY <1>1, <1>3, <3>1
  <2>2. c + n + 2 \in Nat /\ c + n + 2 + m < ReadBufferSize
    <3>1. r = c + n + 2 + m /\ r < ReadBufferSize
      BY <1>1
    <3>. QED  BY ONLY <3>1, c \in Nat, n \in Nat
  <2>. QED  BY <1>1, <2>1, <2>2 DEF Holds
<1>5. Tidy(c + n + 2, r)'
  <2>1. SUFFICES ASSUME NEW j \in Marks, j <= ReadBufferSize, j <= c + n + 2 \/ j > r
                 PROVE  rbuf'[j] = "nul"
    BY DEF Tidy
  <2>2. j \in 1 .. ReadBufferSize
    BY <1>2, <2>1 DEF Marks
  <2>3. Tidy(c, r)
    BY <1>1 DEF ScansFrom
  <2>4. CASE j <= c \/ j > r
    <3>1. rbuf[j] = "nul"
      BY <2>1, <2>3, <2>4 DEF Tidy
    <3>. QED  BY <1>3, <2>2, <3>1
  <2>5. CASE j = c + n + 1 \/ j = c + n + 2
    BY <1>3, <2>2, <2>5
  <2>6. CASE c < j /\ j <= c + n
    BY <1>1, <2>6
  <2>. QED  BY <2>1, <2>2, <2>4, <2>5, <2>6
<1>6. scan'.checked = c + n + 2 /\ scan'.readIdx = r
  BY <1>1
<1>7. scan'.checked = Len(text) - Len(rest)
  <2>1. r = c + n + 2 + m /\ Len(text) = r /\ Len(rest) = m
    BY <1>1
  <2>. QED  BY ONLY <1>6, <2>1, c \in Nat, n \in Nat, m \in Nat
<1>. QED  BY <1>1, <1>4, <1>5, <1>6, <1>7 DEF ScansFrom

(* One line is parsed.                                                      *)
LEMMA ReadLineIs ==
  ASSUME ArrayEnds, ReadLine, NEW text \in Seq(Toks), NEW line \in Seq(Toks),
         NEW rest \in Seq(Toks), NoEnds(line), ScansFrom(text, Ended(line, rest)),
         \A j \in Marks : ~(scan.checked < j /\ j <= scan.checked + Len(line))
  PROVE  /\ ScansFrom(text, rest)'
         /\ scan.state = "requestline" /\ line \in {<<"GET", "url">>, <<"POST", "url">>} =>
              /\ stage' = "parse" /\ scan'.state = "header" /\ scan'.method = line[1]
              /\ scan'.linger = scan.linger /\ scan'.length = scan.length
         /\ scan.state = "header" => scan'.method = scan.method
         /\ scan.state = "header" /\ line # <<>> =>
              /\ stage' = "parse" /\ scan'.state = "header"
              /\ scan'.linger = (scan.linger \/ line = <<"Con", "alive">>)
              /\ scan'.length = IF line = <<"len">> THEN 1 ELSE scan.length
         /\ scan.state = "header" /\ line = <<>> => scan'.linger = scan.linger
         /\ scan.state = "header" /\ line = <<>> /\ scan.length = 0 => Replied
         /\ scan.state = "header" /\ line = <<>> /\ scan.length # 0 =>
              /\ stage' = "parse" /\ scan'.state = "content" /\ scan'.length = scan.length
<1>1. FirstEnd = scan.checked + Len(line) /\ LineStatus = "ok" /\ LineText = line
      /\ scan.checked \in Nat
  BY ScanLineIs
<1>2. PICK e \in Nat : e = FirstEnd + 2
  BY <1>1
<1>3. scan \in Scans /\ stage = "parse"
  BY DEF ArrayEnds, ReadLine
<1>. DEFINE next == [scan EXCEPT !.checked = e, !.start = e, !.status = "ok"]
<1>4. /\ rbuf' = [rbuf EXCEPT ![FirstEnd + 1] = "nul", ![FirstEnd + 2] = "nul"]
      /\ \/ /\ scan.state = "requestline"
            /\ line \in {<<"GET", "url">>, <<"POST", "url">>}
            /\ scan' = [next EXCEPT !.state = "header", !.method = line[1]]
            /\ UNCHANGED <<stage, wbuf>>
         \/ /\ scan.state = "requestline"
            /\ line \notin {<<"GET", "url">>, <<"POST", "url">>}
            /\ scan' = next /\ Replied
         \/ /\ scan.state = "header" /\ line # <<>>
            /\ scan' = ParseHeaders(next, line)
            /\ UNCHANGED <<stage, wbuf>>
         \/ /\ scan.state = "header" /\ line = <<>> /\ scan.length = 0
            /\ scan' = next /\ Replied
         \/ /\ scan.state = "header" /\ line = <<>> /\ scan.length # 0
            /\ scan' = [next EXCEPT !.state = "content"]
            /\ UNCHANGED <<stage, wbuf>>
  BY <1>1, <1>2 DEF ReadLine
<1>5. /\ next.checked = e /\ next.start = e /\ next.status = "ok" /\ next.readIdx = scan.readIdx
      /\ next.state = scan.state /\ next.method = scan.method /\ next.linger = scan.linger
      /\ next.length = scan.length /\ DOMAIN next = DOMAIN scan
  BY <1>3 DEF Scans
<1>6. DOMAIN next = {"checked", "start", "readIdx", "state", "method", "length", "linger", "status"}
  BY <1>3, <1>5 DEF Scans
<1>. HIDE DEF next
<1>7. ASSUME scan' = ParseHeaders(next, line)
      PROVE  /\ scan'.checked = e /\ scan'.start = e /\ scan'.status = "ok"
             /\ scan'.readIdx = scan.readIdx
             /\ scan'.state = scan.state /\ scan'.method = scan.method
             /\ scan'.linger = (scan.linger \/ line = <<"Con", "alive">>)
             /\ scan'.length = IF line = <<"len">> THEN 1 ELSE scan.length
  <2>1. scan.linger \in BOOLEAN
    BY <1>3 DEF Scans
  <2>2. CASE line = <<"Con", "alive">>
    <3>1. line # <<"len">>
      BY <2>2
    <3>2. scan' = [next EXCEPT !.linger = TRUE]
      BY <1>7, <2>2 DEF ParseHeaders
    <3>. QED  BY <1>5, <1>6, <2>1, <2>2, <3>1, <3>2
  <2>3. CASE line = <<"len">>
    <3>1. line # <<"Con", "alive">>
      BY <2>3
    <3>2. scan' = [next EXCEPT !.length = 1]
      BY <1>7, <2>3, <3>1 DEF ParseHeaders
    <3>. QED  BY <1>5, <1>6, <2>1, <2>3, <3>1, <3>2
  <2>4. CASE line # <<"Con", "alive">> /\ line # <<"len">>
    <3>1. scan' = next
      BY <1>7, <2>4 DEF ParseHeaders
    <3>. QED  BY <1>5, <2>1, <2>4, <3>1
  <2>. QED  BY <2>2, <2>3, <2>4
<1>8. /\ scan'.checked = e /\ scan'.start = e /\ scan'.status = "ok"
      /\ scan'.readIdx = scan.readIdx
  <2>1. CASE scan' = ParseHeaders(next, line)
    BY <1>7, <2>1
  <2>2. CASE scan' = next
    BY <1>5, <2>2
  <2>3. CASE scan' = [next EXCEPT !.state = "header", !.method = line[1]]
    BY <1>5, <1>6, <2>3
  <2>4. CASE scan' = [next EXCEPT !.state = "content"]
    BY <1>5, <1>6, <2>4
  <2>. QED  BY <1>4, <2>1, <2>2, <2>3, <2>4
<1>9. ScansFrom(text, rest)'
  BY <1>2, <1>4, <1>8, RestIsHeld
<1>10. CASE scan.state = "requestline"
  <2>1. SUFFICES ASSUME line \in {<<"GET", "url">>, <<"POST", "url">>}
        PROVE  /\ stage' = "parse" /\ scan'.state = "header" /\ scan'.method = line[1]
               /\ scan'.linger = scan.linger /\ scan'.length = scan.length
    BY <1>9, <1>10
  <2>2. scan' = [next EXCEPT !.state = "header", !.method = line[1]] /\ stage' = stage
    BY <1>4, <1>10, <2>1
  <2>. QED  BY <1>3, <1>5, <1>6, <2>2
<1>11. CASE scan.state = "header"
  <2>1. CASE line # <<>>
    <3>1. scan' = ParseHeaders(next, line) /\ stage' = stage
      BY <1>4, <1>11, <2>1
    <3>. QED  BY <1>3, <1>7, <1>9, <1>11, <2>1, <3>1
  <2>2. CASE line = <<>> /\ scan.length = 0
    <3>1. scan' = next /\ Replied
      BY <1>4, <1>11, <2>2
    <3>. QED  BY <1>5, <1>9, <1>11, <2>2, <3>1
  <2>3. CASE line = <<>> /\ scan.length # 0
    <3>1. scan' = [next EXCEPT !.state = "content"] /\ stage' = stage
      BY <1>4, <1>11, <2>3
    <3>2. /\ scan'.state = "content" /\ scan'.length = scan.length /\ scan'.method = scan.method
          /\ scan'.linger = scan.linger
      BY <1>5, <1>6, <3>1
    <3>. QED  BY <1>3, <1>9, <1>11, <2>3, <3>1, <3>2
  <2>. QED  BY <2>1, <2>2, <2>3
<1>. QED  BY <1>4, <1>9, <1>10, <1>11

(* Nothing is left of a request that is parsed.                             *)
LEMMA ParsedIsTidy ==
  ASSUME NEW text \in Seq(Toks), NEW rest \in Seq(Toks), ScansFrom(text, rest)',
         Len(rest) = 0 \/ (Len(rest) = 1 /\ Len(text) = 14)
  PROVE  Tidy(ReadBufferSize, 0)'
<1>1. SUFFICES ASSUME NEW j \in Marks, j <= ReadBufferSize PROVE rbuf'[j] = "nul"
  BY DEF Tidy
<1>2. j \in Nat /\ j # 14 /\ Len(text) \in Nat
  BY ParseAssumption DEF Marks
<1>3. j <= Len(text) - Len(rest) \/ j > Len(text)
  <2>1. CASE Len(rest) = 0
    BY <1>2, <2>1
  <2>2. CASE Len(rest) = 1 /\ Len(text) = 14
    BY <1>2, <2>2
  <2>. QED  BY <2>1, <2>2
<1>. QED  BY <1>1, <1>3 DEF ScansFrom, Tidy

(* What is known of the request that the handler parses.                    *)
LEMMA ScannedIs ==
  ASSUME InputIsKept, OutputIsKept, Fits, server = "stackless", ~gone, stage = "parse"
  PROVE  \/ NothingYet /\ scan = ScanInit
         \/ \E k \in Nat, kind \in Kinds, text \in Seq(Toks) :
              /\ k = Len(answers) /\ kind = script[k + 1] /\ text = Text[kind]
              /\ Taken(k) /\ ScansRequest(k)
<1>1. PICK k \in Nat : k = Len(answers)
  BY AnswersAre DEF OutputIsKept
<1>2. \/ NothingYet /\ scan = ScanInit
      \/ Taken(k) /\ ScansRequest(k)
  BY <1>1 DEF Fits, HandlerFits
<1>3. CASE Taken(k) /\ ScansRequest(k)
  <2>1. Sent(k + 1)
    BY <1>3 DEF Taken
  <2>2. PICK kind \in Kinds : kind = script[k + 1]
    BY <2>1, KindIs
  <2>3. Text[kind] \in Seq(Toks)
    BY TextIsSeq
  <2>. QED  BY <1>1, <1>3, <2>2, <2>3
<1>. QED  BY <1>2, <1>3, SMTT(30)

(* What HandlerFits says after a step of the parser.                        *)
LEMMA ParserGoesOn ==
  ASSUME InputIsKept, OutputIsKept, Fits, server = "stackless",
         NEW k \in Nat, NEW kind \in Kinds, NEW text \in Seq(Toks), NEW rest \in Seq(Toks),
         k = Len(answers), kind = script[k + 1], text = Text[kind], Taken(k),
         UNCHANGED clientVars, ScansFrom(text, rest)',
         scan'.method = MethodOf(kind),
         \/ /\ stage' = "parse" /\ scan'.state = "header"
            /\ AtHeader(kind, scan'.linger, scan'.length, rest)
         \/ /\ stage' = "parse" /\ kind = "form" /\ scan'.state = "content" /\ scan'.linger = TRUE
            /\ scan'.length = 1 /\ rest = <<"body">>
         \/ /\ Replied /\ scan'.linger = KeepsAlive(kind)
            /\ Len(rest) = 0 \/ (Len(rest) = 1 /\ Len(text) = 14)
  PROVE  Fits'
<1>1. UNCHANGED <<server, script, sent, inq, answers, gone, got, outq>>
  BY DEF clientVars
<1>2. SUFFICES HandlerFits'
  BY <1>1, HandlerOn
<1>3. Taken(k)' /\ k = (Len(answers))' /\ kind = script'[k + 1]
  BY <1>1, SocketStays
<1>4. CASE /\ stage' = "parse" /\ scan'.state = "header"
           /\ AtHeader(kind, scan'.linger, scan'.length, rest)
  <2>1. rest \in {Headers[kind], PlainHeaders, FormLength, FormBlank}
    BY <1>4 DEF AtHeader
  <2>2. AtHeader(kind, scan.linger, scan.length, rest)'
    BY <1>4 DEF AtHeader
  <2>3. ScansRequest(k)'
    <3>1. /\ (script[k + 1])' = kind /\ scan'.method = MethodOf(kind) /\ scan'.state = "header"
          /\ AtHeader((script[k + 1])', scan'.linger, scan'.length, rest)
          /\ ScansFrom(Text[script[k + 1]], rest)'
      BY <1>3, <1>4
    <3>. QED  BY <1>3, <2>1, <3>1 DEF ScansRequest
  <2>. QED  BY <1>3, <1>4, <2>3 DEF HandlerFits
<1>5. CASE /\ stage' = "parse" /\ kind = "form" /\ scan'.state = "content" /\ scan'.linger = TRUE
           /\ scan'.length = 1 /\ rest = <<"body">>
  <2>1. ScansFrom(Text[script[k + 1]], <<"body">>)'
    BY <1>3, <1>5
  <2>2. ScansRequest(k)'
    BY <1>3, <1>5, <2>1 DEF ScansRequest
  <2>. QED  BY <1>3, <1>5, <2>2 DEF HandlerFits
<1>6. CASE /\ Replied /\ scan'.linger = KeepsAlive(kind)
           /\ Len(rest) = 0 \/ (Len(rest) = 1 /\ Len(text) = 14)
  <2>1. Tidy(ReadBufferSize, 0)'
    BY <1>6, ParsedIsTidy
  <2>2. stage' = "write" /\ wbuf' = Reply'
    BY <1>1, <1>6 DEF Replied, Reply, Part
  <2>. QED  BY <1>3, <1>6, <2>1, <2>2 DEF HandlerFits
<1>. QED  BY <1>4, <1>5, <1>6

(* ReadContent.                                                             *)
LEMMA ContentFits ==
  ASSUME InputIsKept, OutputIsKept, ArrayEnds, Fits, server = "stackless", ReadContent
  PROVE  Fits'
<1>1. /\ stage = "parse" /\ scan.state = "content" /\ UNCHANGED clientVars
      /\ \/ /\ ContentIsThere /\ Replied /\ UNCHANGED scan
            /\ rbuf' = [rbuf EXCEPT ![scan.checked + scan.length + 1] = "nul"]
         \/ ~ContentIsThere
  BY DEF ReadContent
<1>2. SUFFICES ASSUME ~gone PROVE Fits'
  BY <1>1, HandlerOn DEF clientVars
<1>3. scan # ScanInit
  BY <1>1 DEF ScanInit
<1>4. PICK k \in Nat, kind \in Kinds, text \in Seq(Toks) :
        /\ k = Len(answers) /\ kind = script[k + 1] /\ text = Text[kind]
        /\ Taken(k) /\ ScansRequest(k)
  BY <1>1, <1>2, <1>3, ScannedIs
<1>5. /\ scan.method = MethodOf(kind) /\ kind = "form" /\ scan.linger = TRUE /\ scan.length = 1
      /\ ScansFrom(text, <<"body">>)
  BY <1>1, <1>4 DEF ScansRequest
<1>6. PICK rest \in Seq(Toks) : rest = <<"body">> /\ Len(rest) = 1
  BY HeaderLines
<1>7. Len(text) = 14
  BY <1>4, <1>5 DEF Text
<1>8. ContentIsThere
  <2>1. scan.readIdx = 14 /\ scan.checked = 13
    BY <1>5, <1>6, <1>7 DEF ScansFrom
  <2>. QED  BY <1>5, <2>1 DEF ContentIsThere
<1>9. Replied /\ scan' = scan /\ rbuf' = rbuf
  <2>1. Replied /\ scan' = scan /\ rbuf' = [rbuf EXCEPT ![scan.checked + scan.length + 1] = "nul"]
    BY <1>1, <1>8
  <2>2. scan.readIdx = 14 /\ scan.checked = 13
    BY <1>5, <1>6, <1>7 DEF ScansFrom
  <2>3. scan.checked + scan.length + 1 = scan.readIdx + 1 /\ rbuf[scan.readIdx + 1] = "nul"
    BY <1>1, <1>5, <2>2 DEF ArrayEnds
  <2>4. rbuf \in [1 .. ReadBufferSize -> Cells]
    BY DEF ArrayEnds
  <2>. QED  BY <2>1, <2>3, <2>4
<1>10. ScansFrom(text, rest)'
  <2>1. ScansFrom(text, rest)
    BY <1>5, <1>6
  <2>. QED  BY <1>9, <2>1 DEF ScansFrom, Holds, Tidy
<1>11. scan'.method = MethodOf(kind) /\ scan'.linger = KeepsAlive(kind)
  BY <1>5, <1>9 DEF KeepsAlive
<1>. QED  BY <1>1, <1>4, <1>6, <1>7, <1>9, <1>10, <1>11, ParserGoesOn

(* ReadLine before a request has come.                                      *)
LEMMA NoLineIsOpen ==
  ASSUME scan = ScanInit, NothingYet
  PROVE  LineStatus = "open"
<1>1. scan.checked = 0 /\ scan.readIdx = 0
  BY DEF ScanInit
<1>2. {i \in scan.checked .. scan.readIdx - 1 : rbuf[i + 1] \in {"r", "l"}} = {}
  BY <1>1
<1>3. FirstEnd = 0
  BY <1>1, <1>2 DEF FirstEnd
<1>. DEFINE open == FirstEnd >= scan.readIdx - 1
                    /\ (FirstEnd = scan.readIdx \/ rbuf[FirstEnd + 1] = "r")
            ok == rbuf[FirstEnd + 1] = "r" /\ rbuf[FirstEnd + 2] = "l"
<1>4. LineStatus = CASE open -> "open" [] ok -> "ok" [] OTHER -> "bad"
  BY DEF LineStatus
<1>5. open
  BY <1>1, <1>3
<1>6. ~ok
  <2>1. FirstEnd + 1 \in 1 .. ReadBufferSize
    BY <1>3, ParseAssumption
  <2>2. rbuf[FirstEnd + 1] = "nul"
    BY <2>1 DEF NothingYet
  <2>. QED  BY <2>2
<1>. HIDE DEF open, ok
<1>. QED  BY <1>4, <1>5, <1>6

(* Then no request is reported and nothing changes.                         *)
LEMMA NothingToRead ==
  ASSUME Fits, server = "stackless", ReadLine, NothingYet, scan = ScanInit
  PROVE  Fits'
<1>1. stage' = "write" /\ UNCHANGED <<rbuf, wbuf, clientVars>>
  <2>1. LineStatus # "ok"
    BY NoLineIsOpen
  <2>. QED  BY <2>1 DEF ReadLine, NoRequest
<1>2. UNCHANGED <<server, script, sent, inq, answers, gone, got, outq>>
  BY <1>1 DEF clientVars
<1>3. Awaited(0)' = Awaited(0)
  BY <1>2, SocketStays
<1>4. NothingYet'
  BY <1>1, <1>2, <1>3 DEF NothingYet
<1>5. HandlerFits'
  BY <1>1, <1>4 DEF HandlerFits
<1>. QED  BY <1>2, <1>5, HandlerOn

(* ReadLine on the request line.                                            *)
LEMMA RequestLineFits ==
  ASSUME InputIsKept, OutputIsKept, ArrayEnds, Fits, server = "stackless", ReadLine,
         NEW k \in Nat, NEW kind \in Kinds, NEW text \in Seq(Toks),
         k = Len(answers), kind = script[k + 1], text = Text[kind], Taken(k), ScansRequest(k),
         scan.state = "requestline"
  PROVE  Fits'
<1>1. scan.linger = FALSE /\ scan.length = 0 /\ ScansFrom(text, text)
  BY DEF ScansRequest
<1>2. PICK line \in Seq(Toks) :
        /\ line = FirstLine(kind) /\ line \in {<<"GET", "url">>, <<"POST", "url">>}
        /\ line[1] = MethodOf(kind) /\ NoEnds(line) /\ Len(line) = 2
  <2>1. CASE kind = "form"
    <3>1. FirstLine(kind) = <<"POST", "url">> /\ MethodOf(kind) = "POST"
      BY <2>1 DEF FirstLine, MethodOf
    <3>2. <<"POST", "url">> \in Seq(Toks)
      BY DEF Toks
    <3>3. PICK line \in Seq(Toks) : line = <<"POST", "url">>
      BY <3>2
    <3>4. line[1] = "POST" /\ line[2] = "url" /\ Len(line) = 2
      BY <3>3
    <3>5. NoEnds(line)
      BY <3>4 DEF NoEnds
    <3>6. line = FirstLine(kind) /\ line[1] = MethodOf(kind)
          /\ line \in {<<"GET", "url">>, <<"POST", "url">>}
      BY <3>1, <3>3, <3>4
    <3>. QED  BY <3>4, <3>5, <3>6
  <2>2. CASE kind # "form"
    <3>1. FirstLine(kind) = <<"GET", "url">> /\ MethodOf(kind) = "GET"
      BY <2>2 DEF FirstLine, MethodOf
    <3>2. <<"GET", "url">> \in Seq(Toks)
      BY DEF Toks
    <3>3. PICK line \in Seq(Toks) : line = <<"GET", "url">>
      BY <3>2
    <3>4. line[1] = "GET" /\ line[2] = "url" /\ Len(line) = 2
      BY <3>3
    <3>5. NoEnds(line)
      BY <3>4 DEF NoEnds
    <3>6. line = FirstLine(kind) /\ line[1] = MethodOf(kind)
          /\ line \in {<<"GET", "url">>, <<"POST", "url">>}
      BY <3>1, <3>3, <3>4
    <3>. QED  BY <3>4, <3>5, <3>6
  <2>. QED  BY <2>1, <2>2
<1>3. PICK rest \in Seq(Toks) : rest = Headers[kind] /\ text = Ended(line, rest)
  BY <1>2, TextOf
<1>4. scan.checked = 0
  BY <1>1 DEF ScansFrom
<1>5. \A j \in Marks : ~(scan.checked < j /\ j <= scan.checked + Len(line))
  BY <1>2, <1>4, ParseAssumption DEF Marks
<1>6. ScansFrom(text, Ended(line, rest))
  BY <1>1, <1>3
<1>7. /\ ScansFrom(text, rest)' /\ stage' = "parse" /\ scan'.state = "header"
      /\ scan'.method = line[1] /\ scan'.linger = scan.linger /\ scan'.length = scan.length
  BY <1>2, <1>5, <1>6, ReadLineIs
<1>8. AtHeader(kind, scan'.linger, scan'.length, rest)
  BY <1>1, <1>3, <1>7 DEF AtHeader
<1>9. UNCHANGED clientVars
  BY DEF ReadLine
<1>. QED  BY <1>2, <1>7, <1>8, <1>9, ParserGoesOn

(* ReadLine on a header with a name.                                        *)
LEMMA NamedHeaderFits ==
  ASSUME InputIsKept, OutputIsKept, ArrayEnds, Fits, server = "stackless", ReadLine,
         NEW k \in Nat, NEW kind \in Kinds, NEW text \in Seq(Toks),
         k = Len(answers), kind = script[k + 1], text = Text[kind], Taken(k),
         scan.state = "header", scan.method = MethodOf(kind),
         NEW line \in Seq(Toks), NEW rest \in Seq(Toks), ScansFrom(text, Ended(line, rest)),
         NoEnds(line), line # <<>>,
         \/ line = <<"Con", "alive">> /\ Len(text) - Len(rest) = 8
         \/ line = <<"len">> /\ Len(text) - Len(rest) = 11,
         AtHeader(kind, scan.linger \/ line = <<"Con", "alive">>,
                  IF line = <<"len">> THEN 1 ELSE scan.length, rest)
  PROVE  Fits'
<1>1. \A j \in Marks : ~(scan.checked < j /\ j <= scan.checked + Len(line))
  <2>1. Len(Ended(line, rest)) = Len(line) + 2 + Len(rest)
    BY EndedIs
  <2>2. scan.checked = Len(text) - Len(Ended(line, rest))
    BY DEF ScansFrom
  <2>3. Len(text) \in Nat /\ Len(rest) \in Nat /\ Len(line) \in Nat
    OBVIOUS
  <2>4. CASE line = <<"Con", "alive">> /\ Len(text) - Len(rest) = 8
    <3>1. Len(line) = 2
      BY <2>4, HeaderLines
    <3>2. scan.checked = 4
      BY <2>1, <2>2, <2>3, <2>4, <3>1
    <3>. QED  BY <3>1, <3>2, ParseAssumption DEF Marks
  <2>5. CASE line = <<"len">> /\ Len(text) - Len(rest) = 11
    <3>1. Len(line) = 1
      BY <2>5, HeaderLines
    <3>2. scan.checked = 8
      BY <2>1, <2>2, <2>3, <2>5, <3>1
    <3>. QED  BY <3>1, <3>2, ParseAssumption DEF Marks
  <2>. QED  BY <2>4, <2>5
<1>2. /\ ScansFrom(text, rest)' /\ stage' = "parse" /\ scan'.state = "header"
      /\ scan'.method = scan.method
      /\ scan'.linger = (scan.linger \/ line = <<"Con", "alive">>)
      /\ scan'.length = IF line = <<"len">> THEN 1 ELSE scan.length
  BY <1>1, ReadLineIs
<1>3. AtHeader(kind, scan'.linger, scan'.length, rest)
  BY <1>2
<1>4. UNCHANGED clientVars
  BY DEF ReadLine
<1>. QED  BY <1>2, <1>3, <1>4, ParserGoesOn

(* ReadLine on the blank line.                                              *)
LEMMA BlankLineFits ==
  ASSUME InputIsKept, OutputIsKept, ArrayEnds, Fits, server = "stackless", ReadLine,
         NEW k \in Nat, NEW kind \in Kinds, NEW text \in Seq(Toks),
         k = Len(answers), kind = script[k + 1], text = Text[kind], Taken(k),
         scan.state = "header", scan.method = MethodOf(kind), scan.linger = KeepsAlive(kind),
         \/ scan.length = 0 /\ ScansFrom(text, PlainHeaders)
         \/ scan.length = 1 /\ ScansFrom(text, FormBlank) /\ kind = "form"
  PROVE  Fits'
<1>1. PICK line \in Seq(Toks) : line = <<>> /\ NoEnds(line) /\ Len(line) = 0
  BY HeaderLines
<1>2. UNCHANGED clientVars
  BY DEF ReadLine
<1>3. \A j \in Marks : ~(scan.checked < j /\ j <= scan.checked + Len(line))
  <2>1. scan.checked \in Nat
    BY DEF ArrayEnds, Scans
  <2>2. Marks \subseteq Nat
    BY ParseAssumption DEF Marks
  <2>. QED  BY <1>1, <2>1, <2>2
<1>4. CASE scan.length = 0 /\ ScansFrom(text, PlainHeaders)
  <2>1. ScansFrom(text, Ended(line, line))
    BY <1>1, <1>4 DEF PlainHeaders
  <2>2. /\ ScansFrom(text, line)' /\ scan'.method = scan.method /\ scan'.linger = scan.linger
        /\ Replied
    BY <1>1, <1>3, <1>4, <2>1, ReadLineIs
  <2>. QED  BY <1>1, <1>2, <2>2, ParserGoesOn
<1>5. CASE scan.length = 1 /\ ScansFrom(text, FormBlank) /\ kind = "form"
  <2>1. PICK rest \in Seq(Toks) : rest = <<"body">> /\ Len(rest) = 1
    BY HeaderLines
  <2>2. ScansFrom(text, Ended(line, rest))
    BY <1>1, <1>5, <2>1 DEF FormBlank
  <2>3. scan.length # 0 /\ scan.state = "header"
    BY <1>5
  <2>4. /\ ScansFrom(text, rest)' /\ scan'.method = scan.method /\ scan'.linger = scan.linger
        /\ stage' = "parse" /\ scan'.state = "content" /\ scan'.length = scan.length
    BY <1>1, <1>3, <2>2, <2>3, ReadLineIs
  <2>5. scan'.length = 1 /\ scan'.linger = TRUE
    BY <1>5, <2>4 DEF KeepsAlive
  <2>. QED  BY <1>2, <1>5, <2>1, <2>4, <2>5, ParserGoesOn
<1>. QED  BY <1>4, <1>5

(* ReadLine on whichever line is next.                                      *)
LEMMA ReadLineFits ==
  ASSUME InputIsKept, OutputIsKept, ArrayEnds, Fits, server = "stackless", ReadLine
  PROVE  Fits'
<1>1. stage = "parse" /\ UNCHANGED clientVars
  BY DEF ReadLine
<1>2. SUFFICES ASSUME ~gone PROVE Fits'
  BY <1>1, HandlerOn DEF clientVars
<1>3. CASE NothingYet /\ scan = ScanInit
  BY <1>3, NothingToRead
<1>4. CASE ~(NothingYet /\ scan = ScanInit)
  <2>1. PICK k \in Nat, kind \in Kinds, text \in Seq(Toks) :
          /\ k = Len(answers) /\ kind = script[k + 1] /\ text = Text[kind]
          /\ Taken(k) /\ ScansRequest(k)
    BY <1>1, <1>2, <1>4, ScannedIs
  <2>2. CASE scan.state = "requestline"
    BY <2>1, <2>2, RequestLineFits
  <2>3. ASSUME scan.state = "content" PROVE FALSE
    <3>1. ScansFrom(text, <<"body">>)
      BY <2>1, <2>3 DEF ScansRequest
    <3>. QED  BY <2>3, <3>1 DEF ReadLine, ScansFrom
  <2>4. CASE scan.state = "header"
    <3>1. PICK rest : AtHeader(kind, scan.linger, scan.length, rest) /\ ScansFrom(text, rest)
      BY <2>1, <2>4 DEF ScansRequest
    <3>2. scan.method = MethodOf(kind)
      BY <2>1, <2>4 DEF ScansRequest
    <3>3. /\ PlainHeaders \in Seq(Toks) /\ Len(PlainHeaders) = 2
          /\ FormLength \in Seq(Toks) /\ Len(FormLength) = 6
          /\ FormBlank \in Seq(Toks) /\ Len(FormBlank) = 3
      BY HeadersAreSeqs
    <3>4. \/ kind = "plain" /\ scan.linger = FALSE /\ scan.length = 0 /\ rest = PlainHeaders
          \/ kind = "keep" /\ scan.linger = FALSE /\ scan.length = 0 /\ rest = KeepHeaders
          \/ kind = "form" /\ scan.linger = FALSE /\ scan.length = 0 /\ rest = FormHeaders
          \/ kind = "keep" /\ scan.linger = TRUE /\ scan.length = 0 /\ rest = PlainHeaders
          \/ kind = "form" /\ scan.linger = TRUE /\ scan.length = 0 /\ rest = FormLength
          \/ kind = "form" /\ scan.linger = TRUE /\ scan.length = 1 /\ rest = FormBlank
      BY <3>1, HeaderKinds DEF AtHeader, Kinds
    <3>5. kind = "keep" => Len(text) = 10
      BY <2>1 DEF Text
    <3>6. kind = "form" => Len(text) = 14
      BY <2>1 DEF Text
    <3>7. CASE scan.linger = KeepsAlive(kind) /\ scan.length = 0 /\ rest = PlainHeaders
      BY <2>1, <2>4, <3>1, <3>2, <3>7, BlankLineFits
    <3>8. CASE kind = "form" /\ scan.linger = TRUE /\ scan.length = 1 /\ rest = FormBlank
      <4>1. scan.linger = KeepsAlive(kind)
        BY <3>8 DEF KeepsAlive
      <4>. QED  BY <2>1, <2>4, <3>1, <3>2, <3>8, <4>1, BlankLineFits
    <3>9. CASE kind = "keep" /\ scan.linger = FALSE /\ scan.length = 0 /\ rest = KeepHeaders
      <4>1. PICK line \in Seq(Toks) :
              line = <<"Con", "alive">> /\ NoEnds(line) /\ line # <<>> /\ line # <<"len">>
        BY HeaderLines
      <4>2. PICK tail \in Seq(Toks) : tail = PlainHeaders /\ Len(tail) = 2
        BY <3>3
      <4>3. ScansFrom(text, Ended(line, tail))
        BY <3>1, <3>9, <4>1, <4>2 DEF KeepHeaders
      <4>4. AtHeader(kind, scan.linger \/ line = <<"Con", "alive">>,
                     IF line = <<"len">> THEN 1 ELSE scan.length, tail)
        BY <3>9, <4>1, <4>2 DEF AtHeader
      <4>5. Len(text) - Len(tail) = 8
        BY <3>5, <3>9, <4>2
      <4>. QED  BY <2>1, <2>4, <3>2, <4>1, <4>3, <4>4, <4>5, NamedHeaderFits
    <3>10. CASE kind = "form" /\ scan.linger = FALSE /\ scan.length = 0 /\ rest = FormHeaders
      <4>1. PICK line \in Seq(Toks) :
              line = <<"Con", "alive">> /\ NoEnds(line) /\ line # <<>> /\ line # <<"len">>
        BY HeaderLines
      <4>2. PICK tail \in Seq(Toks) : tail = FormLength /\ Len(tail) = 6
        BY <3>3
      <4>3. ScansFrom(text, Ended(line, tail))
        BY <3>1, <3>10, <4>1, <4>2 DEF FormHeaders
      <4>4. AtHeader(kind, scan.linger \/ line = <<"Con", "alive">>,
                     IF line = <<"len">> THEN 1 ELSE scan.length, tail)
        BY <3>10, <4>1, <4>2 DEF AtHeader
      <4>5. Len(text) - Len(tail) = 8
        BY <3>6, <3>10, <4>2
      <4>. QED  BY <2>1, <2>4, <3>2, <4>1, <4>3, <4>4, <4>5, NamedHeaderFits
    <3>11. CASE kind = "form" /\ scan.linger = TRUE /\ scan.length = 0 /\ rest = FormLength
      <4>1. PICK line \in Seq(Toks) :
              line = <<"len">> /\ NoEnds(line) /\ line # <<>>
        BY HeaderLines
      <4>2. PICK tail \in Seq(Toks) : tail = FormBlank /\ Len(tail) = 3
        BY <3>3
      <4>3. ScansFrom(text, Ended(line, tail))
        BY <3>1, <3>11, <4>1, <4>2 DEF FormLength
      <4>4. AtHeader(kind, scan.linger \/ line = <<"Con", "alive">>,
                     IF line = <<"len">> THEN 1 ELSE scan.length, tail)
        BY <3>11, <4>1, <4>2 DEF AtHeader
      <4>5. Len(text) - Len(tail) = 11
        BY <3>6, <3>11, <4>2
      <4>. QED  BY <2>1, <2>4, <3>2, <4>1, <4>3, <4>4, <4>5, NamedHeaderFits
    <3>. QED  BY <3>4, <3>7, <3>8, <3>9, <3>10, <3>11 DEF KeepsAlive
  <2>5. scan.state \in {"requestline", "header", "content"}
    BY DEF ArrayEnds, Scans
  <2>. QED  BY <2>2, <2>3, <2>4, <2>5
<1>. QED  BY <1>3, <1>4

(* AsyncWrite with nothing to write leaves the handler waiting for the      *)
(* first request.                                                           *)
LEMMA NothingWritten ==
  ASSUME OutputIsKept, Fits, server = "stackless", AsyncWrite, NothingYet
  PROVE  Fits'
<1>1. /\ stage' = "read" /\ armed' = "in" /\ scan' = ScanInit /\ Room > 0
      /\ UNCHANGED <<server, script, sent, inq, got, gone, rbuf, wbuf>>
      /\ answers' = IF wbuf = <<>> THEN answers
                    ELSE Append(answers, [n |-> wbuf[1].n, size |-> Len(wbuf),
                                          method |-> scan.method, keep |-> scan.linger])
      /\ outq' = outq \o SubSeq(wbuf, 1, Min({Len(wbuf), Room}))
  BY DEF AsyncWrite
<1>2. wbuf = <<>> /\ answers = <<>> /\ Awaited(0)
  BY DEF NothingYet
<1>3. answers' = answers
  BY <1>1, <1>2
<1>4. outq' = outq
  <2>1. outq \in Seq(Parts) /\ Room \in Nat
    BY ClientAssumption DEF OutputIsKept, Responses, Room
  <2>. DEFINE N == {0, Room}
  <2>2. N \in SUBSET Nat /\ 0 \in N
    BY <2>1
  <2>. HIDE DEF N
  <2>3. Min(N) \in N /\ Min(N) <= 0
    BY <2>2, MinIs
  <2>4. Min(N) \in Nat
    BY <2>2, <2>3
  <2>5. Min(N) = 0
    BY <2>3, <2>4
  <2>6. outq' = outq \o SubSeq(<<>>, 1, 0)
    BY <1>1, <1>2, <2>5 DEF N
  <2>7. SubSeq(<<>>, 1, 0) = <<>> /\ outq \o <<>> = outq
    BY <2>1, ConcatEmptySeq, SubSeqEmpty
  <2>. QED  BY <2>6, <2>7
<1>5. Awaited(0)' /\ Len(answers') = 0
  <2>1. Awaited(0)' = Awaited(0)
    BY <1>1, SocketStays
  <2>. QED  BY <1>2, <1>3, <2>1
<1>6. Tidy(ReadBufferSize, 0)'
  <2>1. ASSUME NEW j \in Marks, j <= ReadBufferSize PROVE rbuf'[j] = "nul"
    <3>1. j \in 1 .. ReadBufferSize
      BY <2>1, ParseAssumption DEF Marks
    <3>. QED  BY <1>1, <3>1 DEF NothingYet
  <2>. QED  BY <2>1 DEF Tidy
<1>7. HandlerFits'
  BY <1>1, <1>5, <1>6 DEF HandlerFits
<1>. QED  BY <1>1, <1>3, <1>4, <1>7, HandlerOn

(* AsyncWrite begins one response, and no more than one ends with it.       *)
LEMMA OneIsWritten ==
  ASSUME OutputIsKept, server = "stackless", AsyncWrite, NEW k \in Nat, k = Len(answers),
         wbuf = Reply
  PROVE  /\ Lasts(outq)' \in Nat /\ Lasts(outq)' <= Lasts(outq) + 1
         /\ \E size : answers' = Append(answers, [n |-> k + 1, size |-> size,
                                                  method |-> scan.method, keep |-> scan.linger])
<1>. DEFINE m == Min({Len(wbuf), Room})
            x == [n |-> wbuf[1].n, size |-> Len(wbuf), method |-> scan.method,
                  keep |-> scan.linger]
<1>1. /\ Room > 0 /\ outq' = outq \o SubSeq(wbuf, 1, m)
      /\ answers' = IF wbuf = <<>> THEN answers ELSE Append(answers, x)
  BY DEF AsyncWrite
<1>2. /\ wbuf = Body(k + 1, ReplyLen) /\ wbuf \in Seq(Parts) /\ Len(wbuf) = ReplyLen
      /\ wbuf[1] = Part(k + 1, 1, ReplyLen) /\ k + 1 \in Nat /\ ReplyLen \in Nat
      /\ 1 \in 1 .. ReplyLen
  <2>1. wbuf = Body(k + 1, ReplyLen)
    BY DEF Reply, Body
  <2>2. k + 1 \in Nat /\ ReplyLen \in Nat /\ 1 \in 1 .. ReplyLen
    BY ParseAssumption
  <2>3. /\ Body(k + 1, ReplyLen) \in Seq(Parts) /\ Len(Body(k + 1, ReplyLen)) = ReplyLen
        /\ \A i \in 1 .. ReplyLen : Body(k + 1, ReplyLen)[i] = Part(k + 1, i, ReplyLen)
    BY <2>2, BodyIs
  <2>. QED  BY <2>1, <2>2, <2>3
<1>3. m \in 0 .. ReplyLen
  <2>. DEFINE N == {Len(wbuf), Room}
  <2>1. Room \in Nat
    BY <1>1, ClientAssumption DEF Room, OutputIsKept, Responses
  <2>2. N \in SUBSET Nat /\ ReplyLen \in N
    BY <1>2, <2>1
  <2>3. m = Min(N)
    OBVIOUS
  <2>. HIDE DEF N, m
  <2>4. Min(N) \in N /\ Min(N) <= ReplyLen
    BY <2>2, MinIs
  <2>5. Min(N) \in Nat
    BY <2>2, <2>4
  <2>. QED  BY <1>2, <2>3, <2>4, <2>5
<1>. HIDE DEF m
<1>4. Lasts(outq)' \in Nat /\ Lasts(outq)' <= Lasts(outq) + 1
  <2>. DEFINE w == SubSeq(wbuf, 1, m)
  <2>1. Lasts(w) <= 1
    <3>1. Lasts(SubSeq(Body(k + 1, ReplyLen), 1, m)) <= 1
      BY <1>2, <1>3, LastsOfBody
    <3>. QED  BY <1>2, <3>1
  <2>2. w \in Seq(Parts)
    BY <1>2, <1>3
  <2>. HIDE DEF w
  <2>3. outq \in Seq(Parts)
    BY DEF OutputIsKept, Responses
  <2>4. Lasts(outq \o w) = Lasts(outq) + Lasts(w)
    BY <2>2, <2>3, LastsAdd
  <2>5. Lasts(outq) \in Nat /\ Lasts(w) \in Nat
    BY <2>2, <2>3, LastsAreFinite
  <2>6. Lasts(outq)' = Lasts(outq \o w)
    BY <1>1 DEF w, Lasts, LastsOf
  <2>. QED  BY <2>1, <2>4, <2>5, <2>6
<1>5. x.n = k + 1 /\ wbuf # <<>>
  <2>1. wbuf[1].n = k + 1
    BY <1>2 DEF Part
  <2>2. Len(wbuf) # 0
    BY <1>2
  <2>. QED  BY <2>1, <2>2
<1>6. x = [n |-> k + 1, size |-> Len(wbuf), method |-> scan.method, keep |-> scan.linger]
  BY <1>5
<1>7. answers' = Append(answers, x)
  BY <1>1, <1>5
<1>. QED  BY <1>4, <1>6, <1>7

(* AsyncWrite begins the answer of the request that was parsed.             *)
LEMMA WriteFits ==
  ASSUME OutputIsKept, Fits, server = "stackless", AsyncWrite
  PROVE  Fits'
<1>1. /\ stage = "write" /\ ~gone /\ stage' = "read" /\ armed' = "in" /\ scan' = ScanInit
      /\ UNCHANGED <<server, script, sent, inq, got, gone, rbuf>>
  BY SMTT(30) DEF AsyncWrite
<1>2. PICK k \in Nat : k = Len(answers)
  BY AnswersAre DEF OutputIsKept
<1>3. \/ NothingYet
      \/ /\ Taken(k) /\ Tidy(ReadBufferSize, 0) /\ wbuf = Reply
         /\ scan.method = MethodOf(script[k + 1]) /\ scan.linger = KeepsAlive(script[k + 1])
  BY <1>1, <1>2 DEF Fits, HandlerFits
<1>4. CASE NothingYet
  BY <1>4, NothingWritten
<1>5. CASE /\ Taken(k) /\ Tidy(ReadBufferSize, 0) /\ wbuf = Reply
           /\ scan.method = MethodOf(script[k + 1]) /\ scan.linger = KeepsAlive(script[k + 1])
  <2>1. Lasts(outq)' \in Nat /\ Lasts(outq)' <= Lasts(outq) + 1
    BY <1>2, <1>5, OneIsWritten
  <2>2. PICK size : answers' = Append(answers, [n |-> k + 1, size |-> size,
                                                method |-> scan.method, keep |-> scan.linger])
    BY <1>2, <1>5, OneIsWritten
  <2>3. PICK a : /\ answers' = Append(answers, a) /\ a.n = k + 1
                 /\ a.method = scan.method /\ a.keep = scan.linger
    BY <2>2
  <2>4. /\ Len(answers') = k + 1 /\ DOMAIN answers' = 1 .. k + 1 /\ answers'[k + 1] = a
        /\ \A i \in 1 .. k : answers'[i] = answers[i]
    BY <1>2, <2>3 DEF OutputIsKept, Responses
  <2>5. AnswersAreRight'
    <3>1. ASSUME NEW i \in 1 .. k + 1
          PROVE  /\ answers'[i].n = i /\ answers'[i].keep = KeepsAlive(script[i])
                 /\ RightMethod(i, answers'[i].method)
      <4>1. CASE i = k + 1
        BY <1>5, <2>3, <2>4, <4>1 DEF RightMethod
      <4>2. CASE i \in 1 .. k
        <5>1. i \in DOMAIN answers
          BY <1>2, <4>2, AnswersAre DEF OutputIsKept
        <5>2. answers'[i] = answers[i]
          BY <2>4, <4>2
        <5>. QED  BY <5>1, <5>2 DEF Fits, AnswersAreRight
      <4>. QED  BY <4>1, <4>2
    <3>2. \A i \in 1 .. k + 1 : RightMethod(i, answers[i].method)' = RightMethod(i, answers'[i].method)
      BY <1>1 DEF RightMethod
    <3>. QED  BY <1>1, <2>4, <3>1, <3>2 DEF AnswersAreRight
  <2>6. Sent(k + 1)' /\ inq' = <<>>
    BY <1>1, <1>5, EndsStay DEF Taken, Sent
  <2>7. InOrder'
    <3>1. k + 1 \in 0 .. Len(script')
      BY <2>6 DEF Sent
    <3>. QED  BY <2>4, <2>6, <3>1 DEF InOrder
  <2>8. HandlerFits'
    <3>1. Awaited(k + 1)'
      BY <2>6 DEF Awaited
    <3>2. Tidy(ReadBufferSize, 0)'
      BY <1>1, <1>5 DEF Tidy
    <3>. QED  BY <1>1, <2>4, <3>1, <3>2 DEF HandlerFits
  <2>9. (Lasts(got) + Lasts(outq) <= Len(answers))'
    <3>1. Lasts(got) + Lasts(outq) <= k
      BY <1>1, <1>2 DEF Fits
    <3>2. Lasts(got) \in Nat /\ Lasts(outq) \in Nat
      BY LastsAreFinite DEF OutputIsKept, Responses
    <3>3. Lasts(got)' = Lasts(got)
      BY <1>1 DEF Lasts, LastsOf
    <3>. QED  BY <2>1, <2>4, <3>1, <3>2, <3>3
  <2>. QED  BY <1>1, <2>5, <2>7, <2>8, <2>9 DEF Fits
<1>. QED  BY <1>3, <1>4, <1>5

(* A step that leaves a server and its input leaves what is said of it.     *)
LEMMA ConnectionFrame ==
  ASSUME UNCHANGED <<server, script, sent, inq, answers, phase, request, readBuff>>, ConnectionFits
  PROVE  ConnectionFits'
<1>1. PICK k : k = Len(answers)
  OBVIOUS
<1>2. Held' = Held /\ Awaited(k)' = Awaited(k) /\ Taken(k)' = Taken(k) /\ Left(k)' = Left(k)
  BY SocketStays, LeftStays DEF Held, Readable
<1>3. ParsesRequest(k) => ParsesRequest(k)'
  BY <1>2 DEF ParsesRequest, RightMethod
<1>. QED  BY <1>1, <1>2, <1>3, ConnectionNext DEF ConnectionFits

(* The same of the stackless server.                                        *)
LEMMA HandlerFrame ==
  ASSUME UNCHANGED <<server, script, sent, inq, answers, parseVars>>, HandlerFits
  PROVE  HandlerFits'
<1>. USE DEF parseVars
<1>1. PICK k : k = Len(answers)
  OBVIOUS
<1>2. \A n : Awaited(n)' = Awaited(n) /\ Taken(n)' = Taken(n)
  BY SocketStays
<1>3. NothingYet' = NothingYet
  BY <1>2 DEF NothingYet
<1>4. \A a, b : Tidy(a, b)' = Tidy(a, b)
  BY DEF Tidy
<1>5. \A a, s : Holds(a, s)' = Holds(a, s)
  BY DEF Holds
<1>6. \A s, rest : ScansFrom(s, rest)' = ScansFrom(s, rest)
  BY <1>4, <1>5 DEF ScansFrom
<1>7. ScansRequest(k)' = ScansRequest(k)
  BY <1>6 DEF ScansRequest
<1>8. Reply' = Reply
  BY DEF Reply, Part
<1>9. (Len(answers))' = k
  BY <1>1
<1>. QED  BY <1>1, <1>2, <1>3, <1>4, <1>5, <1>7, <1>8, <1>9 DEF HandlerFits

(* A request is sent.                                                       *)
LEMMA SendFits ==
  ASSUME InputIsKept, OutputIsKept, Fits, Send, ~disturbed', UNCHANGED <<connVars, parseVars>>
  PROVE  Fits'
<1>. USE DEF connVars, httpVars, parseVars
<1>1. PICK k \in Nat : k = Len(answers)
  BY AnswersAre DEF OutputIsKept
<1>2. UNCHANGED <<server, script, outq, got, gone, answers>> /\ ~gone
  BY DEF Send
<1>3. Sent(k) /\ Sent(k + 1)' /\ inq' = inq \o Text[script[k + 1]]
  <2>1. /\ Sent(Len(answers)) /\ Sent(Len(answers) + 1)'
        /\ inq' = inq \o Text[script[Len(answers) + 1]]
    BY SendIs
  <2>2. Sent(k + 1)'
    BY <1>1, <1>2, <2>1 DEF Sent, EndOf
  <2>. QED  BY <1>1, <2>1, <2>2
<1>4. ~Taken(k) /\ (Awaited(k) => inq = <<>>)
  <2>1. ~Sent(k + 1)
    BY <1>3, SentOnce DEF InputIsKept
  <2>. QED  BY <2>1 DEF Taken, Awaited
<1>5. Awaited(k) => Awaited(k)'
  <2>1. SUFFICES ASSUME Awaited(k) PROVE Awaited(k)'
    OBVIOUS
  <2>2. k + 1 \in 1 .. Len(script) /\ script \in Scripts
    <3>1. k + 1 \in 0 .. Len(script)
      BY <1>2, <1>3 DEF Sent
    <3>. QED  BY <3>1 DEF InputIsKept
  <2>3. PICK kind \in Kinds : kind = script[k + 1]
    BY <2>2, ScriptIs
  <2>4. PICK text \in Seq(Toks) : text = Text[kind]
    BY TextIsSeq
  <2>5. <<>> \o text = text
    BY ConcatEmptySeq
  <2>6. inq' = Text[script'[k + 1]]
    BY <1>2, <1>3, <1>4, <2>1, <2>3, <2>4, <2>5
  <2>. QED  BY <1>3, <2>6 DEF Awaited
<1>6. InOrder' /\ AnswersAreRight'
  <2>1. k + 1 \in 0 .. Len(script') /\ Len(answers') <= k + 1
    BY <1>1, <1>2, <1>3 DEF Sent
  <2>2. InOrder'
    BY <1>3, <2>1 DEF InOrder
  <2>. QED  BY <1>2, <2>2, AnswersStay DEF Fits
<1>7. ASSUME server = "stackful" PROVE ConnectionFits'
  <2>1. ConnectionFits
    BY <1>7 DEF Fits
  <2>2. Held' = Held /\ Left(k)' = Left(k) /\ (Len(answers))' = k
    BY <1>1, <1>2, LeftStays DEF Held, Readable
  <2>3. /\ request \in Requests
        /\ phase = "init" => k = 0
        /\ phase \in {"init", "read", "write", "again"} => Held = Left(k) /\ Awaited(k)
        /\ phase = "process" => Held = <<>> /\ Left(k) = <<>> /\ Awaited(k)
        /\ phase # "parse" /\ phase # "respond"
    BY <1>1, <1>4, <2>1 DEF ConnectionFits
  <2>. QED  BY <1>5, <2>2, <2>3 DEF ConnectionFits
<1>8. ASSUME server = "stackless" PROVE HandlerFits'
  <2>1. HandlerFits
    BY <1>2, <1>8 DEF Fits
  <2>2. NothingYet => NothingYet'
    <3>1. SUFFICES ASSUME NothingYet PROVE NothingYet'
      OBVIOUS
    <3>2. k = 0
      BY <1>1, <3>1 DEF NothingYet
    <3>3. Awaited(0)'
      BY <1>5, <3>1, <3>2 DEF NothingYet
    <3>. QED  BY <1>2, <3>1, <3>3 DEF NothingYet
  <2>3. Tidy(ReadBufferSize, 0)' = Tidy(ReadBufferSize, 0) /\ (Len(answers))' = k
    BY <1>1, <1>2 DEF Tidy
  <2>4. /\ stage = "read" =>
             /\ scan = ScanInit /\ Awaited(k)
             /\ \/ armed = "any" /\ NothingYet
                \/ armed = "in" /\ Tidy(ReadBufferSize, 0)
        /\ stage = "process" => scan = ScanInit /\ NothingYet
        /\ stage = "parse" => NothingYet /\ scan = ScanInit
        /\ stage = "write" => NothingYet
    BY <1>1, <1>4, <2>1 DEF HandlerFits
  <2>. QED  BY <1>5, <2>2, <2>3, <2>4 DEF HandlerFits
<1>9. ASSUME server = "stackless" PROVE (Lasts(got) + Lasts(outq) <= Len(answers))'
  BY <1>2, <1>9 DEF Fits, Lasts, LastsOf
<1>. QED  BY <1>2, <1>6, <1>7, <1>8, <1>9, SMTT(30) DEF Fits

(* Responses are received, or the client leaves.                            *)
LEMMA ReceiveFits ==
  ASSUME OutputIsKept, Fits, Receive \/ Leave, UNCHANGED <<connVars, parseVars>>
  PROVE  Fits'
<1>1. /\ UNCHANGED <<server, script, sent, inq, answers>> /\ ~gone
      /\ outq' = <<>> /\ (gone' \/ got' = got \o outq)
  BY DEF Receive, Leave
<1>2. InOrder' /\ AnswersAreRight'
  BY <1>1, OrderStays, AnswersStay DEF Fits
<1>3. ASSUME server = "stackful" PROVE ConnectionFits'
  BY <1>1, <1>3, ConnectionFrame DEF Fits, connVars, httpVars
<1>4. ASSUME server = "stackless" PROVE HandlerFits'
  BY <1>1, <1>4, HandlerFrame DEF Fits
<1>5. ASSUME server = "stackless", ~gone' PROVE (Lasts(got) + Lasts(outq) <= Len(answers))'
  <2>1. got \in Seq(Parts) /\ outq \in Seq(Parts) /\ Len(answers) \in Nat
    BY AnswersAre DEF OutputIsKept, Responses
  <2>2. Lasts(got \o outq) = Lasts(got) + Lasts(outq)
    BY <2>1, LastsAdd
  <2>3. Lasts(got) \in Nat /\ Lasts(outq) \in Nat
    BY <2>1, LastsAreFinite
  <2>4. Lasts(got)' = Lasts(got \o outq) /\ Lasts(outq)' = Lasts(<<>>)
    BY <1>1, <1>5 DEF Lasts, LastsOf
  <2>5. Lasts(got) + Lasts(outq) <= Len(answers)
    BY <1>1, <1>5 DEF Fits
  <2>. QED  BY <1>1, <2>1, <2>2, <2>3, <2>4, <2>5, LastsOfNothing
<1>. QED  BY <1>1, <1>2, <1>3, <1>4, <1>5 DEF Fits

(* Nothing is sent and nothing answered.                                    *)
LEMMA FitsInitially == Init => RequestsFit
<1>1. SUFFICES ASSUME Init, ~Excused PROVE Fits
  BY DEF RequestsFit
<1>2. /\ sent = 0 /\ inq = <<>> /\ outq = <<>> /\ got = <<>> /\ answers = <<>>
      /\ script \in Scripts /\ ~junk
  BY <1>1 DEF Init, ClientInit, Excused
<1>3. /\ phase = "init" /\ readBuff = NewBuffer("zero") /\ request = EmptyRequest
  BY <1>1 DEF Init, ConnInit
<1>4. /\ stage = "read" /\ armed = "any" /\ scan = ScanInit /\ wbuf = <<>>
      /\ \A i \in 1 .. ReadBufferSize : rbuf[i] = "nul"
  BY <1>1, <1>2 DEF Init, ParseInit
<1>5. Sent(0)
  <2>1. EndOf(0) = 0
    <3>1. [j \in 1 .. 0 |-> Text[script[j]]] = <<>>
      OBVIOUS
    <3>. QED  BY <3>1, FlattenNothing DEF EndOf
  <2>2. Len(script) \in Nat
    BY <1>2, ScriptIs
  <2>. QED  BY <1>2, <2>1, <2>2 DEF Sent
<1>6. Len(answers) = 0 /\ Awaited(0)
  BY <1>2, <1>5 DEF Awaited
<1>7. InOrder
  <2>1. 0 \in 0 .. Len(script)
    BY <1>2, ScriptIs
  <2>. QED  BY <1>5, <1>6, <2>1 DEF InOrder
<1>8. AnswersAreRight
  BY <1>2 DEF AnswersAreRight
<1>9. ConnectionFits
  <2>1. Held = <<>>
    BY <1>3, NewBufferIs DEF Held, Toks
  <2>2. Left(0) = <<>>
    BY DEF Left
  <2>3. request \in Requests
    BY <1>3 DEF Requests, EmptyRequest
  <2>. QED  BY <1>3, <1>6, <2>1, <2>2, <2>3 DEF ConnectionFits
<1>10. HandlerFits
  <2>1. NothingYet
    BY <1>2, <1>4, <1>6 DEF NothingYet
  <2>. QED  BY <1>4, <1>6, <2>1 DEF HandlerFits
<1>11. Lasts(got) + Lasts(outq) <= Len(answers)
  BY <1>2, <1>6, LastsOfNothing
<1>. QED  BY <1>7, <1>8, <1>9, <1>10, <1>11 DEF Fits

(* What excuses a server stays.                                             *)
LEMMA ExcusesStay ==
  ASSUME [Next]_vars, ~Excused'
  PROVE  ~Excused /\ ~disturbed' /\ ~idled'
<1>. USE DEF clientVars, connVars, httpVars, parseVars
<1>1. disturbed => disturbed'
  <2>1. CASE ConnStep
    BY <2>1 DEF ConnStep, Accepted, ReadSome, ReadEof, ReadTimeout, Process, ParseEnds,
                BadRequestLine, ParseOneLine, Respond, MapFails, WriteSome, WriteFails,
                WriteNothing, KeepOrClose, Close
  <2>2. CASE HandlerStep
    BY <2>2 DEF HandlerStep, AsyncRead, Overrun, Reads, Hangup, BeginProcess, ReadLine, ReadContent, AsyncWrite
  <2>3. CASE ClientStep \/ NumberReused \/ UNCHANGED vars
    BY <2>3 DEF ClientStep, Send, Receive, Leave, NumberReused, vars
  <2>. QED  BY <2>1, <2>2, <2>3 DEF Next, ServerStep
<1>2. idled => idled'
  <2>1. CASE ConnStep
    BY <2>1 DEF ConnStep, Accepted, ReadSome, ReadEof, ReadTimeout, Process, ParseEnds,
                BadRequestLine, ParseOneLine, Respond, MapFails, WriteSome, WriteFails,
                WriteNothing, KeepOrClose, Close
  <2>2. CASE UNCHANGED connVars \/ NumberReused
    BY <2>2 DEF NumberReused
  <2>. QED  BY <2>1, <2>2 DEF Next, ServerStep, vars
<1>3. junk' = junk
  <2>1. CASE HandlerStep
    BY <2>1 DEF HandlerStep, AsyncRead, Overrun, Reads, Hangup, BeginProcess, ReadLine, ReadContent, AsyncWrite
  <2>2. CASE UNCHANGED parseVars
    BY <2>2
  <2>. QED  BY <2>1, <2>2 DEF Next, ServerStep, vars
<1>. QED  BY <1>1, <1>2, <1>3 DEF Excused

(* The answers fit the requests, whoever takes the step.                    *)
LEMMA FitsStep ==
  ASSUME InputIsKept, OutputIsKept, ArrayEnds, RequestsFit, [Next]_vars
  PROVE  RequestsFit'
<1>1. SUFFICES ASSUME ~Excused' PROVE Fits'
  BY DEF RequestsFit
<1>2. Fits /\ ~disturbed' /\ ~idled'
  BY <1>1, ExcusesStay DEF RequestsFit
<1>3. server \in {"stackful", "stackless"}
  BY DEF InputIsKept
<1>4. CASE server = "stackful" /\ ConnStep
  <2>1. CASE Accepted \/ ReadSome \/ ReadTimeout \/ Process
    BY <1>2, <1>4, <2>1, FiberStarts
  <2>2. CASE ParseEnds \/ BadRequestLine
    BY <1>2, <1>4, <2>2, ParseEndsFits
  <2>3. CASE ParseOneLine
    BY <1>2, <1>4, <2>3, LineFits
  <2>4. CASE Respond
    BY <1>2, <1>4, <2>4, RespondFits
  <2>5. CASE ReadEof \/ MapFails \/ WriteSome \/ WriteFails \/ WriteNothing \/ KeepOrClose \/ Close
    BY <1>2, <1>4, <2>5, FiberGoesOn
  <2>. QED  BY <1>4, <2>1, <2>2, <2>3, <2>4, <2>5 DEF ConnStep
<1>5. CASE server = "stackless" /\ HandlerStep
  <2>1. CASE AsyncRead
    BY <1>2, <1>5, <2>1, ReadFits
  <2>2. CASE Hangup
    BY <1>2, <1>5, <2>2, HandlerOn DEF Hangup, clientVars
  <2>3. CASE BeginProcess
    BY <1>2, <1>5, <2>3, BeginFits
  <2>4. CASE ReadLine
    BY <1>2, <1>5, <2>4, ReadLineFits
  <2>5. CASE ReadContent
    BY <1>2, <1>5, <2>5, ContentFits
  <2>6. CASE AsyncWrite
    BY <1>2, <1>5, <2>6, WriteFits
  <2>7. CASE Overrun
    BY <1>2, <1>5, <2>7, OverrunFits
  <2>. QED  BY <1>5, <2>1, <2>2, <2>3, <2>4, <2>5, <2>6, <2>7 DEF HandlerStep
<1>6. CASE ClientStep /\ UNCHANGED <<connVars, parseVars>>
  <2>1. CASE Send
    BY <1>2, <1>6, <2>1, SendFits
  <2>2. CASE Receive \/ Leave
    BY <1>2, <1>6, <2>2, ReceiveFits
  <2>. QED  BY <1>6, <2>1, <2>2 DEF ClientStep
<1>7. CASE NumberReused /\ UNCHANGED parseVars
  <2>1. CASE server = "stackful"
    BY <1>2, <1>7, <2>1, FiberGoesOn
  <2>2. CASE server = "stackless"
    <3>1. UNCHANGED clientVars
      BY <1>7 DEF NumberReused
    <3>2. ~gone => HandlerFits'
      BY <1>2, <1>7, <2>2, <3>1, HandlerFrame DEF Fits, clientVars
    <3>. QED  BY <1>2, <2>2, <3>1, <3>2, HandlerOn DEF clientVars
  <2>. QED  BY <1>3, <2>1, <2>2
<1>8. CASE UNCHANGED vars
  <2>1. CASE server = "stackful"
    BY <1>2, <1>8, <2>1, ConnectionFrame, FiberFits DEF Fits, vars, clientVars, connVars, httpVars
  <2>2. CASE server = "stackless"
    BY <1>2, <1>8, <2>2, HandlerFrame, HandlerOn DEF Fits, vars, clientVars
  <2>. QED  BY <1>3, <2>1, <2>2
<1>. QED  BY <1>4, <1>5, <1>6, <1>7, <1>8 DEF Next, ServerStep

-----------------------------------------------------------------------------
(* The first read, which does not wait for input, comes before any answer,  *)
(* also to a client that has left; and read_buf_ is overrun by one request  *)
(* alone.                                                                   *)
OverrunsFit ==
  ~Excused =>
    /\ armed = "any" => stage = "read"
    /\ server = "stackless" /\ gone /\ armed = "any" => Awaited(0)
    /\ stage = "overrun" => TooLong

(* What waits in the socket is at most the next request.                    *)
LEMMA OneIsTooLong ==
  ASSUME InputIsKept, NEW k \in Nat, Awaited(k), Len(inq) >= ReadBufferSize
  PROVE  TooLong
<1>1. inq # <<>>
  <2>1. SUFFICES ASSUME inq = <<>> PROVE FALSE
    OBVIOUS
  <2>2. Len(inq) = 0
    BY <2>1
  <2>. QED  BY <2>2, ParseAssumption
<1>2. Sent(k + 1) /\ inq = Text[script[k + 1]]
  BY <1>1 DEF Awaited
<1>3. k + 1 \in DOMAIN script
  BY <1>2, KindIs
<1>4. PICK i \in DOMAIN script : i = k + 1
  BY <1>3
<1>5. Len(Text[script[i]]) >= ReadBufferSize
  BY <1>2, <1>4
<1>. QED  BY <1>5 DEF TooLong

(* No array is overrun at first.                                            *)
LEMMA OverrunInitially == Init => OverrunsFit
  BY DEF Init, ClientInit, ParseInit, OverrunsFit

(* How long the requests are depends on the script alone.                   *)
LEMMA TooLongStays ==
  ASSUME UNCHANGED script
  PROVE  TooLong' = TooLong
  BY DEF TooLong

(* Nor by a step that the client's rules allow.                             *)
LEMMA OverrunStep ==
  ASSUME InputIsKept, OutputIsKept, RequestsFit, OverrunsFit, [Next]_vars
  PROVE  OverrunsFit'
<1>1. SUFFICES ASSUME ~Excused'
               PROVE  /\ armed' = "any" => stage' = "read"
                      /\ server' = "stackless" /\ gone' /\ armed' = "any" => Awaited(0)'
                      /\ stage' = "overrun" => TooLong'
  BY DEF OverrunsFit
<1>2. /\ Fits
      /\ armed = "any" => stage = "read"
      /\ server = "stackless" /\ gone /\ armed = "any" => Awaited(0)
      /\ stage = "overrun" => TooLong
  <2>1. ~Excused
    BY <1>1, ExcusesStay
  <2>. QED  BY <2>1 DEF RequestsFit, OverrunsFit
<1>3. PICK k \in Nat : k = Len(answers)
  BY AnswersAre DEF OutputIsKept
<1>4. ASSUME server = "stackless", ~gone, stage = "read"
      PROVE  Awaited(k) /\ (armed = "any" => Awaited(0))
  <2>1. HandlerFits
    BY <1>2, <1>4 DEF Fits
  <2>2. Awaited(k) /\ (armed = "any" => NothingYet)
    BY <1>3, <1>4, <2>1 DEF HandlerFits
  <2>. QED  BY <2>2 DEF NothingYet
<1>5. CASE server = "stackless" /\ HandlerStep
  <2>1. CASE Overrun
    <3>1. /\ stage = "read" /\ stage' = "overrun" /\ armed' = "out" /\ UNCHANGED script
          /\ armed = "any" \/ ~gone
          /\ Len(inq) >= ReadBufferSize
      BY <2>1 DEF Overrun, Reads
    <3>2. Awaited(k) \/ Awaited(0)
      BY <1>2, <1>4, <1>5, <3>1
    <3>3. TooLong
      BY <3>1, <3>2, OneIsTooLong
    <3>. QED  BY <3>1, <3>3, TooLongStays
  <2>2. CASE AsyncRead \/ Hangup \/ AsyncWrite
    <3>1. armed' # "any" /\ stage' # "overrun"
      BY <2>2 DEF AsyncRead, Reads, Hangup, AsyncWrite
    <3>. QED  BY <3>1
  <2>3. CASE BeginProcess \/ ReadLine \/ ReadContent
    <3>1. stage \in {"process", "parse"} /\ stage' \in {"parse", "write"} /\ armed' = armed
      BY <2>3 DEF BeginProcess, ReadLine, ReadContent, NoRequest, Replied
    <3>. QED  BY <1>2, <3>1
  <2>. QED  BY <1>5, <2>1, <2>2, <2>3 DEF HandlerStep
<1>6. CASE server = "stackful" /\ ConnStep /\ UNCHANGED parseVars
  <2>1. UNCHANGED <<server, script>>
    BY <1>6 DEF ConnStep, Accepted, ReadSome, ReadEof, ReadTimeout, Process, ParseEnds,
                BadRequestLine, ParseOneLine, Respond, MapFails, WriteSome, WriteFails,
                WriteNothing, KeepOrClose, Close, clientVars
  <2>2. UNCHANGED <<stage, armed>>
    BY <1>6 DEF parseVars
  <2>. QED  BY <1>2, <1>6, <2>1, <2>2, TooLongStays
<1>7. CASE (NumberReused /\ UNCHANGED parseVars) \/ UNCHANGED vars
  <2>1. UNCHANGED <<server, script, sent, inq, gone, stage, armed>>
    BY <1>7 DEF NumberReused, vars, clientVars, parseVars
  <2>2. Awaited(0)' = Awaited(0)
    BY <2>1, SocketStays
  <2>. QED  BY <1>2, <2>1, <2>2, TooLongStays
<1>8. CASE ClientStep /\ UNCHANGED <<connVars, parseVars>>
  <2>1. UNCHANGED <<server, script, stage, armed>> /\ ~gone
    BY <1>8 DEF ClientStep, Send, Receive, Leave, parseVars
  <2>2. CASE Leave
    <3>1. UNCHANGED <<script, sent, inq>>
      BY <2>2 DEF Leave
    <3>2. Awaited(0)' = Awaited(0)
      BY <3>1, SocketStays
    <3>. QED  BY <1>2, <1>4, <2>1, <3>2, TooLongStays
  <2>3. CASE Send \/ Receive
    <3>1. ~gone'
      BY <2>1, <2>3 DEF Send, Receive
    <3>. QED  BY <1>2, <2>1, <3>1, TooLongStays
  <2>. QED  BY <1>8, <2>2, <2>3 DEF ClientStep
<1>. QED  BY <1>5, <1>6, <1>7, <1>8 DEF Next, ServerStep

(* Both invariants say more than AnswersFit.                                *)
LEMMA FittingIsEnough ==
  ASSUME InputIsKept, OutputIsKept, RequestsFit, OverrunsFit
  PROVE  AnswersFit
<1>1. SUFFICES ASSUME Fits
      PROVE  /\ Len(answers) <= Whole
             /\ \A i \in DOMAIN answers :
                  /\ answers[i].n = i
                  /\ answers[i].keep = KeepsAlive(script[i])
                  /\ \/ answers[i].method = MethodOf(script[i])
                     \/ server = "stackful" /\ i > 1 /\ HasBody(script[i - 1])
  BY DEF RequestsFit, OverrunsFit, AnswersFit
<1>2. PICK n \in 0 .. Len(script) : Sent(n) /\ Len(answers) <= n
  BY <1>1 DEF Fits, InOrder
<1>3. Whole = n
  BY <1>2, WholeIs DEF InputIsKept, Sent
<1>. QED  BY <1>1, <1>2, <1>3 DEF Fits, AnswersAreRight, RightMethod

(* A client that sends a request in one piece when the one before it is     *)
(* answered, is answered once per request and in order, for the method and  *)
(* the connection header it sent: the parsers of both servers are always    *)
(* where the text of the request is, and what a request leaves in a buffer  *)
(* that is never cleared changes the answer to the next only as AnswersFit  *)
(* says.  AsyncRead, which does not know how long read_buf_ is, overruns it *)
(* for such a client only with a request that is as long as the array.      *)
THEOREM RequestsAreAnswered == Spec => []AnswersFit
<1>1. Spec => []InputIsKept
  BY InputInitially, InputStep, PTL DEF Spec
<1>2. Spec => []OutputIsKept
  BY OutputInitially, OutputStep, PTL DEF Spec
<1>3. InputIsKept /\ ArrayEnds /\ [Next]_vars => ArrayEnds'
  BY ArrayStep
<1>4. Spec => []ArrayEnds
  BY <1>1, <1>3, ArrayInitially, PTL DEF Spec
<1>5. InputIsKept /\ OutputIsKept /\ ArrayEnds /\ RequestsFit /\ [Next]_vars => RequestsFit'
  BY FitsStep
<1>6. Spec => []RequestsFit
  BY <1>1, <1>2, <1>4, <1>5, FitsInitially, PTL DEF Spec
<1>7. InputIsKept /\ OutputIsKept /\ RequestsFit /\ OverrunsFit /\ [Next]_vars => OverrunsFit'
  BY OverrunStep
<1>8. Spec => []OverrunsFit
  BY <1>1, <1>2, <1>6, <1>7, OverrunInitially, PTL DEF Spec
<1>9. InputIsKept /\ OutputIsKept /\ RequestsFit /\ OverrunsFit => AnswersFit
  BY FittingIsEnough
<1>. QED  BY <1>1, <1>2, <1>6, <1>8, <1>9, PTL
=============================================================================
