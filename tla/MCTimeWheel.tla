---------------------------- MODULE MCTimeWheel ----------------------------
(* Instances of TimeWheel for TLC. *)
EXTENDS TimeWheel, TLC

CONSTANTS s1, s2, q1

MCItems == {s1, s2, q1}
MCPollers == {q1}

(* Sleeps shorter than the wheel, exactly one turn, and longer.             *)
MCDelays == {0, 1, 3, 5}

MCSymmetry == Permutations({s1, s2})
=============================================================================
