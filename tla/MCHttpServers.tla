--------------------------- MODULE MCHttpServers ---------------------------
(* Instance of HttpServers for TLC. *)
EXTENDS HttpServers, TLC
MCScripts == {<<"form", "plain">>, <<"keep">>}
MCFiles == {"file", "marked", "empty"}
=============================================================================
