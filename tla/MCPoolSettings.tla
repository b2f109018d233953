--------------------------- MODULE MCPoolSettings ---------------------------
(* PoolSettings for TLC. *)
EXTENDS PoolSettings, TLC

Symmetry == Permutations(Pools) \cup Permutations(Proxies) \cup Permutations(Handlers)
=============================================================================
