----------------------------- MODULE MCCoServer -----------------------------
(* Two connections, one handler of each form; a watcher of the condition,  *)
(* one of the client's socket, and one without a deadline.  The server     *)
(* runs alone, and the others together.                                    *)
EXTENDS CoServer, TLC
CONSTANTS listen, client, c1, c2, w1, w2, w3
MCConns == {c1, c2}
MCFds == {listen, client, c1, c2}
MCWatchers == {w1, w2, w3}
MCTasks == MCFds \cup MCWatchers
MCWatched == w1 :> Nobody @@ w2 :> client @@ w3 :> Nobody
MCDeadline == w1 :> 0 @@ w2 :> 1 @@ w3 :> NoDeadline
MCStarts == {<<listen>>, <<client, w1, w2, w3>>, <<w2, client, w3>>}
MCForm == c1 :> "span" @@ c2 :> "chars"
=============================================================================
