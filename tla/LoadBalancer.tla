---------------------------- MODULE LoadBalancer ----------------------------
(***************************************************************************)
(* How the account of a request is chosen (instance/load_balancer.go) from *)
(* what is remembered of earlier requests (instance/usage.go), by requests *)
(* in flight at once, whose records change the counts that others are      *)
(* reading.  Which accounts a request may choose from, and how attempts    *)
(* follow each other, is the module ProxyRequest's; here an attempt has    *)
(* any accounts to choose from, and a retry is another attempt.            *)
(***************************************************************************)
EXTENDS UsageWindow, FiniteSets

CONSTANTS AccountList,     \* the accounts, in the order of accounts.json
          Priority,        \* of each account
          Strategies,      \* the strategies tried; all requests use the same
          Requests,        \* requests in flight
          PenaltyTime,     \* penaltyDuration
          PenaltyRate,     \* maxPenalty / penaltyDuration
          PriorityWeight,  \* priorityWeight
          MaxDelay,        \* bound: how long a record waits for the lock
          MaxTime,         \* bound: the clock
          MaxSelections    \* bound: accounts chosen in all, by strategy and by time

Accounts == ToSet(AccountList)

\* Accounts have identifiers of their own.
ASSUME AccountsAssumption == AccountList \in Seq(Accounts) /\ IsInjective(AccountList)
ASSUME RequestsAssumption == IsFiniteSet(Requests)
ASSUME ConstantsAssumption ==
    /\ Strategies \subseteq {"round-robin", "priority", "least-used", "smart"}
    /\ Priority \in [Accounts -> Nat]
    /\ {Window, PenaltyTime, PenaltyRate, PriorityWeight} \subseteq Nat
    /\ {MaxDelay, MaxTime} \subseteq Nat
    /\ MaxSelections \in [Strategies -> [0 .. MaxTime -> Nat]]
    /\ MaxDelay < PenaltyTime

VARIABLES
    now,       \* the clock
    usage,     \* usageMap
    rrIndex,   \* rrIndex
    strategy,  \* the strategy in use
    request,   \* where each request is
    made,      \* history: per account and time, the records made
    chosen,    \* history: how often each account has been chosen
    even       \* history: every request could choose from all accounts, passed the
               \* rate limit and was answered

vars == <<now, usage, rrIndex, strategy, request, made, chosen, even>>

Times == 0 .. MaxTime
Idle == [at |-> "idle"]

\* Whether a 429 still counts for a choice that began at since.
Penalized(last429, since) == last429 # Never /\ since - last429 < PenaltyTime

\* Mutant form: the penalty grows with time instead of decaying.
PenaltyGrowing(last429, since) ==
    IF Penalized(last429, since) THEN PenaltyRate * (since - last429) ELSE 0

\* The penalty decays from the 429 on, down to nothing; after since it is more than
\* full.
Penalty(last429, since) ==
    IF Penalized(last429, since) THEN PenaltyRate * (PenaltyTime - (since - last429)) ELSE 0

\* A request that chooses has considered the accounts before next, of which best
\* has the lowest score; since is when it began, and count what it has read of the
\* account it considers.  owed is a history: the penalties when the choice began.
Choosing(from, stage) ==
    [at |-> stage, from |-> from, next |-> 1, best |-> from[1], score |-> 0,
     since |-> now, count |-> 0,
     owed |-> [a \in ToSet(from) |-> Penalty(usage[a].last429, now)]]

Recording(a, first, is429) ==
    [at |-> "recording", account |-> a, stamp |-> now, first |-> first, is429 |-> is429]

TypeOK ==
    /\ now \in Times
    /\ \A a \in Accounts : /\ usage[a].records \in Seq(Times)
                           /\ usage[a].last429 \in Times \cup {Never}
    /\ rrIndex \in Nat
    /\ strategy \in Strategies
    /\ \A r \in Requests :
         LET q == request[r] IN
           /\ q.at \in {"idle", "counting", "weighing", "selected", "recording", "sent"}
           /\ q.at \in {"counting", "weighing"} => q.next \in DOMAIN q.from
           /\ q.at = "recording" => q.stamp \in now - MaxDelay .. now
    /\ made \in [Accounts -> [Times -> Nat]]
    /\ chosen \in [Accounts -> Nat]
    /\ even \in BOOLEAN

Init ==
    /\ now = 0
    /\ usage = [a \in Accounts |-> NoUsage]
    /\ rrIndex = 0
    /\ strategy \in Strategies
    /\ request = [r \in Requests |-> Idle]
    /\ made = [a \in Accounts |-> [t \in Times |-> 0]]
    /\ chosen = [a \in Accounts |-> 0]
    /\ even = TRUE

At(r, stage) == request[r].at = stage
Ends(r) == request' = [request EXCEPT ![r] = Idle]

\* The clock advances, and no record waits for longer than MaxDelay.
Tick ==
    /\ now < MaxTime
    /\ \A r \in Requests : At(r, "recording") => now - request[r].stamp < MaxDelay
    /\ now' = now + 1
    /\ UNCHANGED <<usage, rrIndex, strategy, request, made, chosen, even>>
-----------------------------------------------------------------------------
(* SelectAccount *)

Selections == MapThenSumSet(LAMBDA a : chosen[a], Accounts)
                + Cardinality({r \in Requests : request[r].at \in {"counting", "weighing"}})

\* The accounts a request may choose from, in their order.
Place(a) == CHOOSE i \in DOMAIN AccountList : AccountList[i] = a
Lists == { from \in UNION {[1 .. n -> Accounts] : n \in DOMAIN AccountList} :
             \A i, j \in DOMAIN from : i < j => Place(from[i]) < Place(from[j]) }

MayChooseFrom(r, from) ==
    /\ At(r, "idle")
    /\ Selections < MaxSelections[strategy][now]
    /\ even' = (even /\ from = AccountList)

Selected(r, a) ==
    /\ request' = [request EXCEPT ![r] = [at |-> "selected", account |-> a]]
    /\ chosen' = [chosen EXCEPT ![a] = @ + 1]

\* Mutant form: the index is read and then advanced, another request having done the
\* same meanwhile.
SelectRoundRobinTorn(r) ==
    /\ strategy = "round-robin"
    /\ \E from \in Lists, index \in {rrIndex, rrIndex - 1} \ {-1} :
         /\ MayChooseFrom(r, from)
         /\ Selected(r, from[(index % Len(from)) + 1])
    /\ rrIndex' = rrIndex + 1
    /\ UNCHANGED <<now, usage, strategy, made>>

\* selectRoundRobin: the index is read and advanced in one step.
SelectRoundRobin(r) ==
    /\ strategy = "round-robin"
    /\ \E from \in Lists :
         /\ MayChooseFrom(r, from)
         /\ Selected(r, from[(rrIndex % Len(from)) + 1])
    /\ rrIndex' = rrIndex + 1
    /\ UNCHANGED <<now, usage, strategy, made>>

\* selectByPriority: the first of those with the highest priority.
HighestPriority(from) ==
    LET IsHighest(a) == \A b \in ToSet(from) : Priority[b] <= Priority[a]
    IN from[SelectInSeq(from, IsHighest)]

SelectByPriority(r) ==
    /\ strategy = "priority"
    /\ \E from \in Lists : MayChooseFrom(r, from) /\ Selected(r, HighestPriority(from))
    /\ UNCHANGED <<now, usage, rrIndex, strategy, made>>

\* selectLeastUsed and selectSmart begin.
BeginChoice(r) ==
    /\ strategy \in {"least-used", "smart"}
    /\ \E from \in Lists :
         /\ MayChooseFrom(r, from)
         /\ request' = [request EXCEPT ![r] = Choosing(from, "counting")]
    /\ UNCHANGED <<now, usage, rrIndex, strategy, made, chosen>>

\* The account considered is the best so far if it is the first or has a lower
\* score; after the last the choice is made.
Consider(r, score) ==
    LET q == request[r]
        better == q.next = 1 \/ score < q.score
        best == IF better THEN q.from[q.next] ELSE q.best
    IN IF q.next < Len(q.from)
       THEN /\ request' = [request EXCEPT ![r] =
                 [q EXCEPT !.at = "counting", !.next = @ + 1, !.best = best, !.count = 0,
                           !.score = IF better THEN score ELSE @]]
            /\ UNCHANGED chosen
       ELSE /\ request' = [request EXCEPT ![r] =
                 [at |-> "selected", account |-> best, from |-> q.from, owed |-> q.owed,
                  since |-> q.since]]
            /\ chosen' = [chosen EXCEPT ![best] = @ + 1]

\* GetWindowRequestCount of the account considered, which trims its records.
ReadCount(r) ==
    /\ At(r, "counting")
    /\ LET a == request[r].from[request[r].next]
           count == WindowRequestCount(usage[a], now)
       IN /\ usage' = [usage EXCEPT ![a] = Trimmed(@, now)]
          /\ IF strategy = "least-used"
             THEN Consider(r, count)
             ELSE /\ request' = [request EXCEPT ![r].at = "weighing", ![r].count = count]
                  /\ UNCHANGED chosen
    /\ UNCHANGED <<now, rrIndex, strategy, made, even>>

\* selectSmart then reads the time of the last 429.
ReadPenalty(r) ==
    /\ At(r, "weighing")
    /\ LET q == request[r]
           a == q.from[q.next]
       IN Consider(r, q.count + Penalty(usage[a].last429, q.since) - PriorityWeight * Priority[a])
    /\ UNCHANGED <<now, usage, rrIndex, strategy, made, even>>
-----------------------------------------------------------------------------
(* After the choice (proxyCompletions and its like) *)

\* The rate limiter refuses.
OverLimit(r) ==
    /\ At(r, "selected")
    /\ Ends(r)
    /\ even' = FALSE
    /\ UNCHANGED <<now, usage, rrIndex, strategy, made, chosen>>

\* RecordRequest reads the clock before it waits for the lock.
BeginRecord(r) ==
    /\ At(r, "selected")
    /\ request' = [request EXCEPT ![r] = Recording(request[r].account, TRUE, FALSE)]
    /\ UNCHANGED <<now, usage, rrIndex, strategy, made, chosen, even>>

AppendRecord(r) ==
    /\ At(r, "recording")
    /\ LET q == request[r]
       IN /\ usage' = [usage EXCEPT ![q.account] = Recorded(@, q.stamp, q.is429)]
          /\ made' = [made EXCEPT ![q.account][q.stamp] = @ + 1]
          /\ request' = [request EXCEPT ![r] =
                           IF q.first THEN [at |-> "sent", account |-> q.account] ELSE Idle]
    /\ UNCHANGED <<now, rrIndex, strategy, chosen, even>>

\* The exchange ends well, or its failure is recorded too.
Answered(r) ==
    /\ At(r, "sent")
    /\ Ends(r)
    /\ UNCHANGED <<now, usage, rrIndex, strategy, made, chosen, even>>

Failed(r) ==
    /\ At(r, "sent")
    /\ \E is429 \in BOOLEAN :
         request' = [request EXCEPT ![r] = Recording(request[r].account, FALSE, is429)]
    /\ even' = FALSE
    /\ UNCHANGED <<now, usage, rrIndex, strategy, made, chosen>>

Next ==
    \/ Tick
    \/ \E r \in Requests :
         \/ SelectRoundRobin(r) \/ SelectByPriority(r)
         \/ BeginChoice(r) \/ ReadCount(r) \/ ReadPenalty(r)
         \/ OverLimit(r) \/ BeginRecord(r) \/ AppendRecord(r) \/ Answered(r) \/ Failed(r)

Spec == Init /\ [][Next]_vars
-----------------------------------------------------------------------------
(* Properties *)

\* What GetWindowRequestCount counts of an account is every record made of it in
\* the window and no other that is older than that by more than a record waits for
\* the lock: although records are not in order (usage.go:59), and the trimming
\* stops at the first that is in the window.
CountIsWindow ==
    \A a \in Accounts :
        LET counted == Trimmed(usage[a], now).records
            CountedAt(t) == Cardinality({i \in DOMAIN counted : counted[i] = t})
        IN \A t \in Times :
             /\ t >= now - Window => CountedAt(t) = made[a][t]
             /\ t < now - Window - MaxDelay => CountedAt(t) = 0

\* Requests spread evenly over accounts that are always there and always answer,
\* however many choose at once, as long as nothing has left the window: in turn,
\* no account is chosen twice more than another; and when the least used is
\* chosen, on counts that may have changed since they were read, the requests in
\* flight are all that an account can be ahead of another.
EvenlySpread ==
    (even /\ now <= Window) =>
        \A a, b \in Accounts :
            /\ strategy = "round-robin" => chosen[a] - chosen[b] <= 1
            /\ strategy = "least-used" => chosen[a] - chosen[b] <= Cardinality(Requests)

\* The strategy "smart" chooses an account that answered 429 rather than one that
\* has no penalty only when the other has been used for it: its records, two at most
\* for each time it was chosen, outweigh what is left of the penalty and the
\* difference of the priorities.  Of the penalty that the choice found when it began
\* there is left all, or else all but MaxDelay's part of a full one, since the time
\* of the last 429 may be overwritten with an earlier one while the choice is made.
AvoidsRefused ==
    \A r \in Requests :
        (strategy = "smart" /\ At(r, "selected")) =>
            LET q == request[r]
                owed == q.owed[q.account]
                full == PenaltyRate * (PenaltyTime - MaxDelay)
                left == IF owed < full THEN owed ELSE full
            IN \A a \in ToSet(q.from) :
                 ~ Penalized(usage[a].last429, q.since) =>
                     2 * chosen[a] >= left + PriorityWeight * (Priority[a] - Priority[q.account])
=============================================================================
