-------------------------- MODULE MCFiberScheduler --------------------------
(* Instances of FiberScheduler for TLC. *)
EXTENDS FiberScheduler, TLC

CONSTANTS t0, t1, k1, k2, f1, f2

MCThreads == {t0, t1}
MCTasks == {k1, k2}
MCFibers == {f1, f2}
=============================================================================
