--------------------------- MODULE MCFiberMonitor ---------------------------
(* Instances of FiberMonitor for TLC. *)
EXTENDS FiberMonitor, TLC

CONSTANTS t1, t2, p1, c1, c2

MCThreads == {t1, t2}
MCProducers == {p1}
MCFibers == {p1, c1, c2}

(* The ways to share two threads, up to exchanging the threads and the      *)
(* consumers: the fibers on t1.                                             *)
MCPlacements ==
  {[f \in Fibers |-> IF f \in S THEN t1 ELSE t2] : S \in {{}, {p1}, {c1}}}
=============================================================================
