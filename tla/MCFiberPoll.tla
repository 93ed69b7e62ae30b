---------------------------- MODULE MCFiberPoll ----------------------------
(* fa and fb on one thread, fc on the other; 1 is connected, 2 listens;    *)
(* the number 1 must be closed before it can be opened again.              *)
EXTENDS FiberPoll, TLC
CONSTANTS t1, t2, fa, fb, fc, nobody
MCThreads == {t1, t2}
MCFibers == {fa, fb, fc}
MCHost == fa :> t1 @@ fb :> t1 @@ fc :> t2
MCFds == 1..2
MCStart == <<"up", "listen">>
MCScript == fa :> <<{"close", "read", "recv"}, {"accept", "socket"}>>
         @@ fb :> <<{"write", "send", "poll", "fcntl"}>>
         @@ fc :> <<{"connect", "write", "sendto", "writev", "setsockopt", "readv", "recvfrom"}>>
=============================================================================
