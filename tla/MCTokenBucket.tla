--------------------------- MODULE MCTokenBucket ---------------------------
(* A limit below one request per second, whose refusals last 3 seconds, and *)
(* one above, whose refusals last less than a tick.                         *)
EXTENDS TokenBucket
SlowAndFast == {25, 61}
=============================================================================
