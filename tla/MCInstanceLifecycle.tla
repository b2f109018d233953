------------------------ MODULE MCInstanceLifecycle ------------------------
(* Small instances of InstanceLifecycle for TLC. *)
EXTENDS InstanceLifecycle, TLC

CONSTANTS a1, a2, p1, i1, i2, c1, c2

OneAccount  == {a1}
TwoAccounts == {a1, a2}
OneProxy    == {p1}
TwoInsts    == {i1, i2}
OneCaller   == {c1}
TwoCallers  == {c1, c2}

\* Objects and callers are interchangeable.
Symmetry == Permutations(Inst) \cup Permutations(Caller)

\* A bound of the run with two accounts: while the second is in use, no two
\* requests about one account overlap, and no token expires or is refreshed.
InUse(a) == row[a] # Direct \/ InFlight(a) \/ \E i \in Inst : owner[i] = a
Bound ==
    InUse(a2) => /\ overlapped = {}
                 /\ \A i \in Inst : token[i] # "expired" /\ loop[i] # "refresh"
=============================================================================
