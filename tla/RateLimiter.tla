---------------------------- MODULE RateLimiter ----------------------------
(***************************************************************************)
(* The rate limiter's manager (instance/rate_limiter.go): requests check   *)
(* the global bucket and then their account's bucket, which the first      *)
(* request of an account makes, while pool settings change.  A step is a   *)
(* critical section of the manager's lock or of a bucket's.                *)
(*                                                                         *)
(* Time stands still: this is what a burst can do.  A bucket is its level, *)
(* and module TokenBucket is what it does as time passes.                  *)
(***************************************************************************)
EXTENDS Naturals

CONSTANTS
    Account, Pool,
    NoPool,      \* a request made with an account's own key: poolID == ""
    Req,         \* requests in flight at once
    Limiter,     \* the buckets a behaviour may make (a bound)
    None,        \* no limiter
    PoolOf,      \* the pool of each account
    RPMs,        \* settings a pool may get; 0 is unlimited
    GlobalRPM    \* RATE_LIMIT_RPM; 0 disables the global bucket

ASSUME PoolAssumption == PoolOf \in [Account -> Pool] /\ NoPool \notin Pool
ASSUME RPMAssumption == RPMs \subseteq Nat /\ GlobalRPM \in Nat
ASSUME NoneAssumption == None \notin Limiter

VARIABLES
    global,    \* level of globalLimiter
    poolRPM,   \* poolRPM[p]; 0 when the map has no entry
    limiter,   \* accountLimiters
    made,      \* made[l]: maxTokens of bucket l; 0 when it is not yet made
    level,     \* level[l]: its tokens
    pc, req,   \* req[r]: the request's account, pool, perRPM and bucket
    burst,     \* ghost: requests of a allowed by a bucket looked up since the
               \*        account's bucket was last dropped
    ownBurst   \* ghost: the same since its own pool's setting last changed

shared == <<global, poolRPM, limiter, made, level>>
ghosts == <<burst, ownBurst>>
vars   == <<shared, pc, req, ghosts>>

NoReq == [account |-> None, pool |-> NoPool, rpm |-> 0, limiter |-> None, stale |-> FALSE]
ReqPC == {"idle", "snapshot", "global", "lookup", "create", "allow"}

Init ==
    /\ global = GlobalRPM
    /\ poolRPM \in [Pool -> RPMs]
    /\ limiter = [a \in Account |-> None]
    /\ made = [l \in Limiter |-> 0] /\ level = made
    /\ pc = [r \in Req |-> "idle"]
    /\ req = [r \in Req |-> NoReq]
    /\ burst = [a \in Account |-> 0] /\ ownBurst = burst

Continue(r, label, x) ==
    /\ pc' = [pc EXCEPT ![r] = label]
    /\ req' = [req EXCEPT ![r] = x]
Answer(r) == Continue(r, "idle", NoReq)

-----------------------------------------------------------------------------
(* CheckRateLimitForPool. *)

\* With a pool key the account is one of the pool's.
Begin(r, a, p) ==
    /\ pc[r] = "idle" /\ p \in {PoolOf[a], NoPool}
    /\ Continue(r, "snapshot", [NoReq EXCEPT !.account = a, !.pool = p])
    /\ UNCHANGED <<shared, ghosts>>

\* Under RLock; perAccountRPM, the default, is never set and stays 0.
Snapshot(r) ==
    /\ pc[r] = "snapshot"
    /\ LET p == req[r].pool IN
          Continue(r, "global", [req[r] EXCEPT !.rpm = IF p = NoPool THEN 0 ELSE poolRPM[p]])
    /\ UNCHANGED <<shared, ghosts>>

GlobalPassesEmpty == GlobalRPM = 0 \/ global >= 0
GlobalPasses == GlobalRPM = 0 \/ global >= 1

\* The global bucket lets the request pass, or is disabled.
GlobalAllow(r) ==
    /\ pc[r] = "global" /\ GlobalPasses
    /\ global' = IF GlobalRPM = 0 THEN global ELSE global - 1
    /\ IF req[r].rpm > 0 THEN Continue(r, "lookup", req[r]) ELSE Answer(r)
    /\ UNCHANGED <<poolRPM, limiter, made, level, ghosts>>

GlobalRefuse(r) ==
    /\ pc[r] = "global" /\ ~GlobalPasses
    /\ Answer(r)
    /\ UNCHANGED <<shared, ghosts>>

\* getOrCreateAccountLimiter, under RLock.
Lookup(r) ==
    LET l == limiter[req[r].account] IN
    /\ pc[r] = "lookup"
    /\ Continue(r, IF l = None THEN "create" ELSE "allow", [req[r] EXCEPT !.limiter = l])
    /\ UNCHANGED <<shared, ghosts>>

FoundUnchecked(a) == FALSE
Found(a) == limiter[a] # None

\* Under Lock: somebody else may have made the bucket meanwhile.
CreateFound(r) ==
    /\ pc[r] = "create" /\ Found(req[r].account)
    /\ Continue(r, "allow", [req[r] EXCEPT !.limiter = limiter[req[r].account], !.stale = FALSE])
    /\ UNCHANGED <<shared, ghosts>>

\* NewTokenBucket with the limit read at the start of the request.
Create(r) ==
    /\ pc[r] = "create" /\ ~Found(req[r].account)
    /\ \E l \in {m \in Limiter : made[m] = 0} :
          /\ made' = [made EXCEPT ![l] = req[r].rpm]
          /\ level' = [level EXCEPT ![l] = req[r].rpm]
          /\ limiter' = [limiter EXCEPT ![req[r].account] = l]
          /\ Continue(r, "allow", [req[r] EXCEPT !.limiter = l, !.stale = FALSE])
    /\ UNCHANGED <<global, poolRPM, ghosts>>

\* Allow on the account's bucket: yes, counted unless the bucket was dropped
\* after the request looked it up.
AccountAllow(r) ==
    LET l == req[r].limiter
        Count(g) == [g EXCEPT ![req[r].account] = @ + IF req[r].stale THEN 0 ELSE 1]
    IN
    /\ pc[r] = "allow" /\ level[l] >= 1
    /\ level' = [level EXCEPT ![l] = @ - 1]
    /\ burst' = Count(burst) /\ ownBurst' = Count(ownBurst)
    /\ Answer(r)
    /\ UNCHANGED <<global, poolRPM, limiter, made>>

\* Allow says no; the token taken from the global bucket is not given back.
AccountRefuse(r) ==
    /\ pc[r] = "allow" /\ level[req[r].limiter] < 1
    /\ Answer(r)
    /\ UNCHANGED <<shared, ghosts>>

-----------------------------------------------------------------------------
\* SetPoolRPM: a new setting, and every account's bucket is dropped.
SetPoolRPM(p, rpm) ==
    /\ poolRPM' = [poolRPM EXCEPT ![p] = rpm]
    /\ limiter' = [a \in Account |-> None]
    /\ req' = [r \in Req |-> [req[r] EXCEPT !.stale = pc[r] = "allow"]]
    /\ burst' = [a \in Account |-> 0]
    /\ ownBurst' = [a \in Account |-> IF PoolOf[a] = p THEN 0 ELSE ownBurst[a]]
    /\ UNCHANGED <<global, made, level, pc>>

\* RemovePoolRPM, when the pool is deleted: the buckets stay.
RemovePoolRPM(p) ==
    /\ poolRPM' = [poolRPM EXCEPT ![p] = 0]
    /\ UNCHANGED <<global, limiter, made, level, pc, req, ghosts>>

ReqStep(r) ==
    \/ \E a \in Account, p \in Pool \cup {NoPool} : Begin(r, a, p)
    \/ Snapshot(r) \/ GlobalAllow(r) \/ GlobalRefuse(r) \/ Lookup(r)
    \/ CreateFound(r) \/ Create(r) \/ AccountAllow(r) \/ AccountRefuse(r)

Next ==
    \/ \E r \in Req : ReqStep(r)
    \/ \E p \in Pool : RemovePoolRPM(p) \/ \E rpm \in RPMs : SetPoolRPM(p, rpm)

Spec == Init /\ [][Next]_vars

-----------------------------------------------------------------------------
\* Every variable has its type; no bucket is overdrawn or above its limit.
TypeOK ==
    /\ global \in 0 .. GlobalRPM
    /\ poolRPM \in [Pool -> Nat]
    /\ limiter \in [Account -> Limiter \cup {None}]
    /\ made \in [Limiter -> Nat]
    /\ level \in [Limiter -> Nat] /\ \A l \in Limiter : level[l] <= made[l]
    /\ pc \in [Req -> ReqPC]
    /\ req \in [Req -> [account : Account \cup {None}, pool : Pool \cup {NoPool}, rpm : Nat,
                        limiter : Limiter \cup {None}, stale : BOOLEAN]]
    /\ burst \in [Account -> Nat] /\ ownBurst \in [Account -> Nat]

\* Requests that race to make an account's bucket end up with the same one:
\* what they are allowed together never exceeds the limit of the bucket in
\* the map.
BurstWithinLimit ==
    \A a \in Account : burst[a] <= IF limiter[a] = None THEN 0 ELSE made[limiter[a]]

\* A setting of another pool does not let an account exceed its own limit ("Reset
\* limiters for accounts in this pool", rate_limiter.go:98).  Refuted: all buckets go.
OwnLimitHolds ==
    \A a \in Account : \A l \in Limiter :
        limiter[a] = l => ownBurst[a] <= made[l]

\* With no request in flight, the buckets of a limited pool's accounts have
\* the rate the pool was last given.  Refuted: a bucket is made with the rate read
\* at the start of the request (rate_limiter.go:159).
BucketsHavePoolRate ==
    (\A r \in Req : pc[r] = "idle") =>
        \A a \in Account : (limiter[a] # None /\ poolRPM[PoolOf[a]] > 0)
                               => made[limiter[a]] = poolRPM[PoolOf[a]]
=============================================================================
