--------------------------- MODULE MCFiberRWLock ---------------------------
(* Instances of FiberRWLock for TLC. *)
EXTENDS FiberRWLock, TLC

CONSTANTS t1, t2, w1, w2, r1, r2

MCThreads == {t1, t2}
MCWriters == {w1, w2}
MCReaders == {r1, r2}
MCFibers == MCWriters \cup MCReaders

(* The ways to share two threads, up to exchanging the threads, the writers *)
(* and the readers: the fibers on t1.                                       *)
MCPlacements ==
  {[f \in Fibers |-> IF f \in S THEN t1 ELSE t2] :
     S \in {{}, {w1}, {r1}, {w1, w2}, {w1, r1}}}
=============================================================================
