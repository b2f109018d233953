--------------------------- MODULE MCRateLimiter ---------------------------
(* Two accounts in two pools; two requests in flight. *)
EXTENDS RateLimiter, TLC
CONSTANTS a1, a2, q1, q2, r1, r2, l1, l2, l3
Accounts == {a1, a2}
Pools    == {q1, q2}
Reqs     == {r1, r2}
Limiters == {l1, l2, l3}
Pooling  == a1 :> q1 @@ a2 :> q2
Settings == {0, 1, 2}
Symmetry == Permutations(Reqs) \cup Permutations(Limiters)
=============================================================================
