---------------------------- MODULE MCPoolStore ----------------------------
(* Two pools, two accounts; one or two requests in flight. *)
EXTENDS PoolStore, TLC
CONSTANTS a1, a2, q1, q2, c1, c2
Accounts   == {a1, a2}
OneAccount == {a1}
Pools      == {q1, q2}
OneCaller  == {c1}
TwoCallers == {c1, c2}
Symmetry == Permutations(Account) \cup Permutations(Pool) \cup Permutations(Caller)
=============================================================================
