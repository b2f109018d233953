-------------------------- MODULE MCProxyRequest --------------------------
(* Three accounts, so that a pool request can use all its attempts. *)
EXTENDS ProxyRequest, TLC
CONSTANTS a1, a2, a3, r1, r2
TwoAccounts   == {a1, a2}
ThreeAccounts == {a1, a2, a3}
OneRequest    == {r1}
TwoRequests   == {r1, r2}
Symmetry == Permutations(Account) \cup Permutations(Req)
=============================================================================
