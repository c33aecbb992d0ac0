---------------------------- MODULE MCHttpServer ----------------------------
(* Four requests, one of them too long, three workers, a channel of two slots*)
(* and polls every two instructions: the channel fills, polls fall between   *)
(* any two instructions of http_loop, and Ctrl-C can be pressed twice within *)
(* one poll.                                                                 *)
EXTENDS HttpServer
CONSTANTS r1, r2, r3, r4
MCRequests == {r1, r2, r3, r4}
MCTooLong == {r4}
==============================================================================
