----------------------------- MODULE UsageWindow -----------------------------
(***************************************************************************)
(* What is remembered of the requests made with an account                 *)
(* (instance/usage.go): when each was made, while it is in a sliding       *)
(* window, and when the upstream last answered one with 429.               *)
(***************************************************************************)
EXTENDS Integers, SequencesExt

CONSTANT Window  \* usageWindowDuration

Never == -1  \* the zero time

\* getOrCreateUsage makes it; an account without one counts as having this.
NoUsage == [records |-> <<>>, last429 |-> Never]

\* Mutant form: one old record at most is removed.
TrimmedOnce(u, time) ==
    IF u.records # <<>> /\ Head(u.records) < time - Window
    THEN [u EXCEPT !.records = Tail(@)]
    ELSE u

\* trimLocked: the records before the first that is in the window are removed.
Trimmed(u, time) ==
    LET InWindow(at) == at >= time - Window
        first == SelectInSeq(u.records, InWindow)
    IN [u EXCEPT !.records = IF first = 0 THEN <<>> ELSE SubSeq(@, first, Len(@))]

\* RecordRequest under the lock, at being the time it read before.
Recorded(u, at, is429) ==
    Trimmed([records |-> Append(u.records, at),
             last429 |-> IF is429 THEN at ELSE u.last429], at)

\* GetWindowRequestCount, which also trims.
WindowRequestCount(u, time) == Len(Trimmed(u, time).records)
=============================================================================
