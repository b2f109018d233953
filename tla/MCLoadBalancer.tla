--------------------------- MODULE MCLoadBalancer ---------------------------
(* LoadBalancer for TLC: the first account has the higher priority. *)
EXTENDS LoadBalancer, TLC

CONSTANTS a1, a2

MCAccountList == <<a1, a2>>
MCPriority == (a1 :> 1) @@ (a2 :> 0)

\* Of each strategy fewer choices as time passes.  A fifth lets "smart" choose once an
\* account has been refused and the other used often enough to be passed over for it.
MCMaxSelections ==
    [s \in {"round-robin", "priority", "least-used", "smart"} |->
       [t \in 0 .. 3 |-> IF s = "smart" /\ t = 0 THEN 5 ELSE 4 - t]]

Symmetry == Permutations(Requests)
=============================================================================
