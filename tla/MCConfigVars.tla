---------------------------- MODULE MCConfigVars ----------------------------
(* Instance of ConfigVars for TLC. *)
EXTENDS ConfigVars, TLC
CONSTANTS t1, t2, a, b, int, str, v1, v2
MCThreads == {t1, t2}
MCNames == {a, b}
MCTypes == {int, str}
MCValues == {v1, v2}
MCContents == {v2, Malformed}
MCPredefined == a :> int
MCMayCall == t1 :> {"lookup", "compare", "add", "del", "clear"} @@
             t2 :> {"lookup", "add", "visit", "stat"}
MCMaxCalls == t1 :> 2 @@ t2 :> 2
=============================================================================
