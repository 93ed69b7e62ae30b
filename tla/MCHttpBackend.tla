--------------------------- MODULE MCHttpBackend ---------------------------
(* Instance of HttpBackend for TLC. *)
EXTENDS HttpBackend, TLC
CONSTANTS w1, w2
MCWorkers == {w1, w2}
MCMaxRequests == w1 :> 2 @@ w2 :> 1
=============================================================================
