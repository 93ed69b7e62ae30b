--------------------------- MODULE MCFiberChannel ---------------------------
(* Instances of FiberChannel for TLC. *)
EXTENDS FiberChannel, TLC

CONSTANTS t1, t2, w1, w2, r1

MCThreads == {t1, t2}
MCWriters == {w1, w2}
MCFibers == {w1, w2, r1}

(* The ways to share two threads, up to exchanging the threads and the      *)
(* writers: the fibers on t1.                                               *)
MCPlacements ==
  {[f \in Fibers |-> IF f \in S THEN t1 ELSE t2] : S \in {{}, {w1}, {r1}}}
=============================================================================
