------------------------- MODULE RateLimiter_proofs -------------------------
(***************************************************************************)
(* For any number of accounts, pools, requests and buckets: the types of   *)
(* RateLimiter, and that requests racing to make an account's bucket are   *)
(* together allowed no more than its limit.                                *)
(*                                                                         *)
(* For every limit and clock resolution: a bucket (TokenBucket) never      *)
(* allows more than rpm requests plus its rate in any window, and its      *)
(* Retry-After is long enough and no second longer than it need be.        *)
(***************************************************************************)
EXTENDS RateLimiter, TokenBucket, TLAPS

\* What a request has at each stage: an account once it has begun, a limit once it
\* looks for a bucket, a bucket at the end; only there can the bucket be stale.
StagesHave ==
    \A r \in Req :
        /\ pc[r] # "idle" => req[r].account \in Account
        /\ pc[r] \in {"lookup", "create"} => req[r].rpm > 0
        /\ pc[r] = "allow" => req[r].limiter \in Limiter
        /\ req[r].stale => pc[r] = "allow"

\* A bucket that is not stale is the one in the map.
FreshIsMapped ==
    \A r \in Req : (pc[r] = "allow" /\ ~req[r].stale) => req[r].limiter = limiter[req[r].account]

\* A bucket in the map has been made, so that it is not made again; it pays for all
\* that has been counted since, and without one nothing has.
MappedPays ==
    \A a \in Account :
        IF limiter[a] = None THEN burst[a] = 0
        ELSE /\ made[limiter[a]] > 0
             /\ burst[a] + level[limiter[a]] <= made[limiter[a]]

Inductive == TypeOK /\ StagesHave /\ FreshIsMapped /\ MappedPays

LEMMA InductiveInit == Init => Inductive
  <1> SUFFICES ASSUME Init PROVE Inductive
    OBVIOUS
  <1>1. /\ made \in [Limiter -> Nat] /\ level \in [Limiter -> Nat]
        /\ \A l \in Limiter : level[l] <= made[l]
    BY DEF Init
  <1>2. TypeOK
    <2>1. global \in 0 .. GlobalRPM
      BY RPMAssumption DEF Init
    <2>5. poolRPM \in [Pool -> Nat]
      <3>1. RPMs \subseteq Nat /\ poolRPM \in [Pool -> RPMs]
        BY RPMAssumption DEF Init
      <3> QED BY <3>1
    <2>2. req \in [Req -> [account : Account \cup {None}, pool : Pool \cup {NoPool}, rpm : Nat,
                           limiter : Limiter \cup {None}, stale : BOOLEAN]]
      BY DEF Init, NoReq
    <2>3. pc \in [Req -> ReqPC]
      BY DEF Init, ReqPC
    <2>4. /\ limiter \in [Account -> Limiter \cup {None}]
          /\ burst \in [Account -> Nat] /\ ownBurst \in [Account -> Nat]
      BY DEF Init
    <2> QED BY <1>1, <2>1, <2>2, <2>3, <2>4, <2>5 DEF TypeOK
  <1>3. \A r \in Req : pc[r] = "idle" /\ ~req[r].stale
    BY DEF Init, NoReq
  <1>4. StagesHave /\ FreshIsMapped
    BY <1>3 DEF StagesHave, FreshIsMapped
  <1>5. MappedPays
    BY DEF Init, MappedPays
  <1> QED BY <1>2, <1>4, <1>5 DEF Inductive
-----------------------------------------------------------------------------
\* A step that only moves a request r on, to a stage and a record fit for it,
\* preserves the invariant.
LEMMA MovesOn ==
    ASSUME Inductive, NEW r \in Req, NEW label \in ReqPC,
           NEW x \in [account : Account \cup {None}, pool : Pool \cup {NoPool}, rpm : Nat,
                      limiter : Limiter \cup {None}, stale : BOOLEAN],
           Continue(r, label, x),
           UNCHANGED <<poolRPM, limiter, made, level, ghosts>>,
           global' \in 0 .. GlobalRPM,
           label # "idle" => x.account \in Account,
           label \in {"lookup", "create"} => x.rpm > 0,
           label = "allow" => x.limiter \in Limiter /\ x.limiter = limiter[x.account],
           ~x.stale
    PROVE  Inductive'
  <1>1. /\ pc' \in [Req -> ReqPC]
        /\ pc'[r] = label /\ req'[r] = x
        /\ \A q \in Req \ {r} : pc'[q] = pc[q] /\ req'[q] = req[q]
        /\ req' \in [Req -> [account : Account \cup {None}, pool : Pool \cup {NoPool}, rpm : Nat,
                        limiter : Limiter \cup {None}, stale : BOOLEAN]]
    BY DEF Continue, Inductive, TypeOK
  <1>2. TypeOK'
    BY <1>1 DEF Inductive, TypeOK, ghosts
  <1>3. StagesHave'
    BY <1>1 DEF Inductive, StagesHave
  <1>4. FreshIsMapped'
    BY <1>1 DEF Inductive, FreshIsMapped
  <1>5. MappedPays'
    BY DEF Inductive, MappedPays, ghosts
  <1> QED BY <1>2, <1>3, <1>4, <1>5 DEF Inductive

LEMMA InductiveStep == Inductive /\ [Next]_vars => Inductive'
  <1> SUFFICES ASSUME Inductive, [Next]_vars PROVE Inductive'
    OBVIOUS
  <1> USE NoneAssumption
  <1> DEFINE Record == [account : Account \cup {None}, pool : Pool \cup {NoPool}, rpm : Nat,
                        limiter : Limiter \cup {None}, stale : BOOLEAN]
  <1>0. \A r \in Req : req[r] \in Record
    BY DEF Inductive, TypeOK
  <1>i. NoReq \in Record /\ ~NoReq.stale
    BY DEF NoReq
  <1>1. CASE UNCHANGED vars
    BY <1>1 DEF vars, shared, ghosts, Inductive, TypeOK, StagesHave, FreshIsMapped, MappedPays
  <1>2. ASSUME NEW r \in Req, NEW a \in Account, NEW p \in Pool \cup {NoPool}, Begin(r, a, p)
        PROVE  Inductive'
    <2> DEFINE x == [NoReq EXCEPT !.account = a, !.pool = p]
    <2>1. x \in Record /\ ~x.stale /\ x.account \in Account
      BY DEF NoReq
    <2>2. Continue(r, "snapshot", x) /\ UNCHANGED <<poolRPM, limiter, made, level, ghosts>>
      BY <1>2 DEF Begin, shared
    <2>3. global' \in 0 .. GlobalRPM
      BY <1>2 DEF Begin, shared, Inductive, TypeOK
    <2> HIDE DEF x
    <2> QED BY <2>1, <2>2, <2>3, MovesOn DEF ReqPC
  <1>3. ASSUME NEW r \in Req, Snapshot(r) PROVE Inductive'
    <2> PICK n \in Nat : Continue(r, "global", [req[r] EXCEPT !.rpm = n])
      BY <1>3, <1>0 DEF Snapshot, Inductive, TypeOK
    <2> DEFINE x == [req[r] EXCEPT !.rpm = n]
    <2>1. x \in Record /\ ~x.stale /\ x.account \in Account
      BY <1>0, <1>3 DEF Snapshot, Inductive, StagesHave
    <2>2. Continue(r, "global", x) /\ UNCHANGED <<poolRPM, limiter, made, level, ghosts>>
      BY <1>3 DEF Snapshot, shared
    <2>3. global' \in 0 .. GlobalRPM
      BY <1>3 DEF Snapshot, shared, Inductive, TypeOK
    <2> HIDE DEF x
    <2> QED BY <2>1, <2>2, <2>3, MovesOn DEF ReqPC
  <1>4. ASSUME NEW r \in Req, GlobalAllow(r) PROVE Inductive'
    <2>1. UNCHANGED <<poolRPM, limiter, made, level, ghosts>>
      BY <1>4 DEF GlobalAllow
    <2>2. global' \in 0 .. GlobalRPM
      BY <1>4, RPMAssumption DEF GlobalAllow, GlobalPasses, Inductive, TypeOK
    <2>3. req[r] \in Record /\ ~req[r].stale /\ req[r].account \in Account
      BY <1>0, <1>4 DEF GlobalAllow, Inductive, StagesHave
    <2>4. CASE req[r].rpm > 0 /\ Continue(r, "lookup", req[r])
      BY <2>1, <2>2, <2>3, <2>4, MovesOn DEF ReqPC
    <2>5. CASE Answer(r)
      BY <2>1, <2>2, <2>5, <1>i, MovesOn DEF ReqPC, Answer
    <2> QED BY <1>4, <2>4, <2>5 DEF GlobalAllow
  <1>5. ASSUME NEW r \in Req, GlobalRefuse(r) \/ AccountRefuse(r) PROVE Inductive'
    <2>1. /\ UNCHANGED <<global, poolRPM, limiter, made, level, ghosts>>
          /\ Continue(r, "idle", NoReq)
      BY <1>5 DEF GlobalRefuse, AccountRefuse, shared, Answer
    <2>2. global' \in 0 .. GlobalRPM
      BY <2>1 DEF Inductive, TypeOK
    <2> QED BY <2>1, <2>2, <1>i, MovesOn DEF ReqPC
  <1>6. ASSUME NEW r \in Req, Lookup(r) PROVE Inductive'
    <2> DEFINE l == limiter[req[r].account]
               x == [req[r] EXCEPT !.limiter = l]
    <2>1. req[r].account \in Account /\ req[r].rpm > 0 /\ ~req[r].stale
      BY <1>6 DEF Lookup, Inductive, StagesHave
    <2>2. l \in Limiter \cup {None}
      BY <2>1 DEF Inductive, TypeOK
    <2>3. /\ x \in Record /\ ~x.stale /\ x.account \in Account /\ x.rpm > 0
          /\ x.limiter = limiter[x.account]
      BY <1>0, <2>1, <2>2
    <2>4. /\ Continue(r, IF l = None THEN "create" ELSE "allow", x)
          /\ UNCHANGED <<global, poolRPM, limiter, made, level, ghosts>>
      BY <1>6 DEF Lookup, shared
    <2>5. global' \in 0 .. GlobalRPM
      BY <2>4 DEF Inductive, TypeOK
    <2>6. CASE l = None
      <3>1. Continue(r, "create", x)
        BY <2>4, <2>6
      <3> HIDE DEF x
      <3> QED BY <3>1, <2>3, <2>4, <2>5, MovesOn DEF ReqPC
    <2>7. CASE l # None
      <3>1. Continue(r, "allow", x) /\ x.limiter \in Limiter
        BY <2>4, <2>7, <2>2, <1>0
      <3> HIDE DEF x
      <3> QED BY <3>1, <2>3, <2>4, <2>5, MovesOn DEF ReqPC
    <2> QED BY <2>6, <2>7
  <1>7. ASSUME NEW r \in Req, CreateFound(r) PROVE Inductive'
    <2> DEFINE l == limiter[req[r].account]
               x == [req[r] EXCEPT !.limiter = l, !.stale = FALSE]
    <2>1. req[r].account \in Account
      BY <1>7 DEF CreateFound, Inductive, StagesHave
    <2>2. l \in Limiter
      BY <1>7, <2>1 DEF CreateFound, Found, Inductive, TypeOK
    <2>3. /\ x \in Record /\ ~x.stale /\ x.account \in Account
          /\ x.limiter = limiter[x.account] /\ x.limiter \in Limiter
      BY <1>0, <2>1, <2>2
    <2>4. /\ Continue(r, "allow", x)
          /\ UNCHANGED <<global, poolRPM, limiter, made, level, ghosts>>
      BY <1>7 DEF CreateFound, shared
    <2>5. global' \in 0 .. GlobalRPM
      BY <2>4 DEF Inductive, TypeOK
    <2> HIDE DEF x
    <2> QED BY <2>3, <2>4, <2>5, MovesOn DEF ReqPC
  <1>8. ASSUME NEW r \in Req, Create(r) PROVE Inductive'
    <2> PICK l \in Limiter :
          /\ made[l] = 0
          /\ made' = [made EXCEPT ![l] = req[r].rpm]
          /\ level' = [level EXCEPT ![l] = req[r].rpm]
          /\ limiter' = [limiter EXCEPT ![req[r].account] = l]
          /\ Continue(r, "allow", [req[r] EXCEPT !.limiter = l, !.stale = FALSE])
      BY <1>8 DEF Create
    <2> DEFINE a == req[r].account
    <2>1. /\ a \in Account /\ req[r].rpm \in Nat /\ req[r].rpm > 0
          /\ limiter[a] = None /\ UNCHANGED <<global, poolRPM, burst, ownBurst>>
      BY <1>0, <1>8 DEF Create, Found, ghosts, Inductive, StagesHave
    <2>2. /\ made' \in [Limiter -> Nat] /\ made'[l] = req[r].rpm
          /\ level' \in [Limiter -> Nat] /\ level'[l] = req[r].rpm
          /\ limiter' \in [Account -> Limiter \cup {None}] /\ limiter'[a] = l
          /\ \A m \in Limiter \ {l} : made'[m] = made[m] /\ level'[m] = level[m]
          /\ \A b \in Account \ {a} : limiter'[b] = limiter[b]
      BY <2>1 DEF Inductive, TypeOK
    <2>3. /\ pc' \in [Req -> ReqPC] /\ req' \in [Req -> Record]
          /\ pc'[r] = "allow" /\ req'[r] = [req[r] EXCEPT !.limiter = l, !.stale = FALSE]
          /\ \A q \in Req \ {r} : pc'[q] = pc[q] /\ req'[q] = req[q]
      BY <1>0 DEF Continue, Inductive, TypeOK, ReqPC
    <2>4. /\ req'[r].account = a /\ req'[r].limiter = l /\ ~req'[r].stale
      BY <1>0, <2>3
    <2>5. TypeOK'
      BY <2>1, <2>2, <2>3 DEF Inductive, TypeOK
    <2>6. StagesHave'
      BY <2>1, <2>3, <2>4 DEF Inductive, StagesHave
    <2>7. FreshIsMapped'
      <3>1. \A q \in Req \ {r} : (pc[q] = "allow" /\ ~req[q].stale) => req[q].account # a
        BY <2>1 DEF Inductive, FreshIsMapped, StagesHave
      <3>2. \A q \in Req \ {r} : (pc[q] = "allow" /\ ~req[q].stale) =>
                req[q].limiter = limiter'[req[q].account]
        BY <2>2, <3>1 DEF Inductive, FreshIsMapped, StagesHave
      <3>3. req'[r].limiter = limiter'[req'[r].account]
        BY <2>2, <2>4
      <3> QED
        BY <2>3, <3>2, <3>3 DEF FreshIsMapped
    <2>8. MappedPays'
      <3>1. \A b \in Account \ {a} : limiter[b] # l
        BY DEF Inductive, MappedPays
      <3>2. burst[a] = 0
        BY <2>1 DEF Inductive, MappedPays
      <3> QED
        BY <2>1, <2>2, <3>1, <3>2 DEF Inductive, MappedPays, TypeOK
    <2> QED BY <2>5, <2>6, <2>7, <2>8 DEF Inductive
  <1>9. ASSUME NEW r \in Req, AccountAllow(r) PROVE Inductive'
    <2> DEFINE l == req[r].limiter
               a == req[r].account
               n == IF req[r].stale THEN 0 ELSE 1
    <2>1. /\ l \in Limiter /\ a \in Account /\ level[l] >= 1
          /\ level' = [level EXCEPT ![l] = @ - 1]
          /\ burst' = [burst EXCEPT ![a] = @ + n] /\ ownBurst' = [ownBurst EXCEPT ![a] = @ + n]
          /\ UNCHANGED <<global, poolRPM, limiter, made>>
          /\ Continue(r, "idle", NoReq)
      BY <1>9 DEF AccountAllow, Answer, Inductive, StagesHave
    <2>2. /\ pc' \in [Req -> ReqPC] /\ req' \in [Req -> Record]
          /\ pc'[r] = "idle" /\ req'[r] = NoReq
          /\ \A q \in Req \ {r} : pc'[q] = pc[q] /\ req'[q] = req[q]
      BY <1>i, <2>1 DEF Continue, Inductive, TypeOK, ReqPC
    <2>3. /\ level' \in [Limiter -> Nat] /\ level'[l] = level[l] - 1
          /\ \A m \in Limiter \ {l} : level'[m] = level[m]
          /\ burst' \in [Account -> Nat] /\ burst'[a] = burst[a] + n
          /\ \A b \in Account \ {a} : burst'[b] = burst[b]
          /\ ownBurst' \in [Account -> Nat]
      BY <2>1 DEF Inductive, TypeOK
    <2>4. TypeOK'
      BY <2>1, <2>2, <2>3 DEF Inductive, TypeOK
    <2>5. StagesHave' /\ FreshIsMapped'
      BY <2>1, <2>2, <1>i DEF Inductive, StagesHave, FreshIsMapped
    <2>6. req[r].stale \/ l = limiter[a]
      BY <1>9 DEF AccountAllow, Inductive, FreshIsMapped
    <2>7. \A b \in Account : limiter[b] # None =>
              burst'[b] + level'[limiter[b]] <= burst[b] + level[limiter[b]]
      <3> TAKE b \in Account
      <3>1. burst[b] \in Nat /\ (limiter[b] # None => level[limiter[b]] \in Nat)
        BY DEF Inductive, TypeOK
      <3> QED BY <2>1, <2>3, <2>6, <3>1
    <2>8. \A b \in Account : limiter[b] = None => burst'[b] = burst[b]
      <3> TAKE b \in Account
      <3>1. burst[b] \in Nat
        BY DEF Inductive, TypeOK
      <3>2. CASE b # a
        BY <2>3, <3>2
      <3>3. CASE b = a /\ req[r].stale
        BY <2>3, <3>1, <3>3
      <3>4. CASE b = a /\ ~req[r].stale
        BY <2>1, <2>6, <3>4
      <3> QED BY <3>2, <3>3, <3>4
    <2>9. MappedPays'
      <3> SUFFICES ASSUME NEW b \in Account
                   PROVE  IF limiter[b] = None THEN burst'[b] = 0
                          ELSE /\ made[limiter[b]] > 0
                               /\ burst'[b] + level'[limiter[b]] <= made[limiter[b]]
        BY <2>1 DEF MappedPays
      <3>1. CASE limiter[b] = None
        BY <2>8, <3>1 DEF Inductive, MappedPays
      <3>2. CASE limiter[b] # None
        <4>1. limiter[b] \in Limiter
          BY <3>2 DEF Inductive, TypeOK
        <4>2. /\ burst[b] \in Nat /\ burst'[b] \in Nat /\ made[limiter[b]] \in Nat
              /\ level[limiter[b]] \in Nat /\ level'[limiter[b]] \in Nat
          BY <4>1, <2>3 DEF Inductive, TypeOK
        <4>3. /\ made[limiter[b]] > 0
              /\ burst[b] + level[limiter[b]] <= made[limiter[b]]
          BY <3>2 DEF Inductive, MappedPays
        <4>4. burst'[b] + level'[limiter[b]] <= burst[b] + level[limiter[b]]
          BY <2>7, <3>2
        <4> QED BY <3>2, <4>2, <4>3, <4>4
      <3> QED BY <3>1, <3>2
    <2> QED BY <2>4, <2>5, <2>9 DEF Inductive
  <1>10. ASSUME NEW p \in Pool, NEW limit \in RPMs, SetPoolRPM(p, limit) PROVE Inductive'
    <2>1. /\ limiter' = [a \in Account |-> None]
          /\ burst' = [a \in Account |-> 0]
          /\ UNCHANGED <<global, made, level, pc>>
      BY <1>10 DEF SetPoolRPM
    <2>2. /\ poolRPM' \in [Pool -> Nat] /\ ownBurst' \in [Account -> Nat]
      BY <1>10, RPMAssumption DEF SetPoolRPM, Inductive, TypeOK
    <2>3. \A r \in Req : req'[r] \in Record /\ req'[r].stale = (pc[r] = "allow")
                         /\ req'[r].account = req[r].account /\ req'[r].rpm = req[r].rpm
                         /\ req'[r].limiter = req[r].limiter
      BY <1>10, <1>0 DEF SetPoolRPM
    <2>4. req' \in [Req -> Record]
      BY <1>10, <2>3 DEF SetPoolRPM
    <2>5. TypeOK'
      BY <2>1, <2>2, <2>4 DEF Inductive, TypeOK
    <2>6. StagesHave' /\ FreshIsMapped' /\ MappedPays'
      BY <2>1, <2>3 DEF Inductive, StagesHave, FreshIsMapped, MappedPays
    <2> QED BY <2>5, <2>6 DEF Inductive
  <1>11. ASSUME NEW p \in Pool, RemovePoolRPM(p) PROVE Inductive'
    <2>1. /\ UNCHANGED <<global, limiter, made, level, pc, req, burst, ownBurst>>
          /\ poolRPM' \in [Pool -> Nat]
      BY <1>11 DEF RemovePoolRPM, ghosts, Inductive, TypeOK
    <2> QED
      BY <2>1 DEF Inductive, TypeOK, StagesHave, FreshIsMapped, MappedPays
  <1> QED
    BY <1>1, <1>2, <1>3, <1>4, <1>5, <1>6, <1>7, <1>8, <1>9, <1>10, <1>11 DEF Next, ReqStep
-----------------------------------------------------------------------------
LEMMA InductiveImplies == Inductive => TypeOK /\ BurstWithinLimit
  <1> SUFFICES ASSUME Inductive PROVE BurstWithinLimit
    BY DEF Inductive
  <1> SUFFICES ASSUME NEW a \in Account
               PROVE  burst[a] <= IF limiter[a] = None THEN 0 ELSE made[limiter[a]]
    BY DEF BurstWithinLimit
  <1>1. burst[a] \in Nat
    BY DEF Inductive, TypeOK
  <1>2. CASE limiter[a] = None
    BY <1>1, <1>2 DEF Inductive, MappedPays
  <1>3. CASE limiter[a] # None
    <2>1. /\ level[limiter[a]] \in Nat /\ made[limiter[a]] \in Nat
          /\ burst[a] + level[limiter[a]] <= made[limiter[a]]
      BY <1>3 DEF Inductive, TypeOK, MappedPays
    <2> QED BY <1>1, <1>3, <2>1
  <1> QED BY <1>2, <1>3

\* Type correctness: no bucket is overdrawn, or holds more than it was made with.
THEOREM TypeCorrect == Spec => []TypeOK
  BY InductiveInit, InductiveStep, InductiveImplies, PTL DEF Spec

\* Requests that race to make an account's bucket are together allowed no more than
\* the limit of the bucket in the map, however settings change meanwhile.
THEOREM BucketBoundsBurst == Spec => []BurstWithinLimit
  BY InductiveInit, InductiveStep, InductiveImplies, PTL DEF Spec

-----------------------------------------------------------------------------
(***************************************************************************)
(* A bucket as time passes, for any limit that makes one and any           *)
(* resolution of the clock.                                                *)
(***************************************************************************)
\* The clock of a behaviour and its bucket are natural numbers.
LEMMA Positive == Token \in Nat /\ Token > 0
  BY ClockAssumption DEF Token

\* Refilling gives a level between the old one and the capacity.
LEMMA RefilledBounds ==
    ASSUME BucketTypeOK
    PROVE  /\ Refilled \in 0 .. rpm * Token
           /\ Refilled <= tokens + (now - last) * rpm
           /\ Refilled = tokens + (now - last) * rpm \/ Refilled = rpm * Token
  <1>1. /\ rpm \in Nat /\ tokens \in Nat /\ tokens <= rpm * Token
        /\ now - last \in Nat
    BY RatesAssumption DEF BucketTypeOK
  <1>2. (now - last) * rpm \in Nat /\ rpm * Token \in Nat
    BY <1>1, Positive
  <1> QED BY <1>1, <1>2 DEF Refilled

\* Rounding up: d divided by r and rounded up, times r, is at least d, and
\* one less, times r, falls short of it.
LEMMA CeilingCovers ==
    ASSUME NEW d \in Nat, NEW r \in Nat \ {0}
    PROVE  /\ (d + r - 1) \div r \in Nat
           /\ ((d + r - 1) \div r) * r >= d
           /\ ((d + r - 1) \div r) * r - r < d
  <1> DEFINE q == (d + r - 1) \div r
             m == (d + r - 1) % r
  <1>1. q \in Int /\ m \in 0 .. r - 1 /\ d + r - 1 = r * q + m
    BY Z3
  <1> QED BY <1>1, Z3

-----------------------------------------------------------------------------
(***************************************************************************)
(* The level is what carries both properties from step to step: what the   *)
(* window has granted plus what the bucket could grant now is bounded, and *)
(* the promise is within a second of when the present level, left alone,   *)
(* reaches one token.                                                      *)
(***************************************************************************)
GrantedPlusLevel == granted * Token + Refilled <= rpm * Token + (now - since) * rpm
PromiseKept ==
    promise # Never => /\ last <= promise
                       /\ tokens + (promise - last) * rpm >= Token
PromiseTight ==
    (promise # Never /\ last <= promise - TicksPerSecond) =>
        tokens + (promise - last) * rpm < Token + TicksPerSecond * rpm
BucketInductive == BucketTypeOK /\ GrantedPlusLevel /\ PromiseKept /\ PromiseTight

LEMMA BucketInit == NewTokenBucket => BucketInductive
  <1> SUFFICES ASSUME NewTokenBucket PROVE BucketInductive
    OBVIOUS
  <1>1. rpm \in Nat /\ rpm > 0 /\ rpm * Token \in Nat
    BY RatesAssumption, Positive DEF NewTokenBucket
  <1>2. BucketTypeOK /\ PromiseKept /\ PromiseTight
    BY <1>1 DEF NewTokenBucket, BucketTypeOK, PromiseKept, PromiseTight, Never
  <1>3. Refilled <= rpm * Token
    BY <1>2, RefilledBounds, <1>1
  <1>4. granted * Token = 0 /\ (now - since) * rpm = 0
    BY <1>1, Positive DEF NewTokenBucket
  <1>5. GrantedPlusLevel
    BY <1>1, <1>2, <1>3, <1>4, RefilledBounds DEF GrantedPlusLevel
  <1> QED BY <1>2, <1>5 DEF BucketInductive

LEMMA TickKeeps == BucketInductive /\ Tick => BucketInductive'
  <1> SUFFICES ASSUME BucketInductive, Tick PROVE BucketInductive'
    OBVIOUS
  <1>1. /\ rpm \in Nat /\ tokens \in Nat /\ granted \in Nat /\ rpm * Token \in Nat
        /\ now \in Nat /\ last \in 0 .. now /\ since \in 0 .. now
    BY RatesAssumption, Positive DEF BucketInductive, BucketTypeOK
  <1>2. now' = now + 1 /\ UNCHANGED <<rpm, tokens, last, since, granted, promise>>
    BY DEF Tick, bucket
  <1>3. BucketTypeOK'
    BY <1>1, <1>2 DEF BucketInductive, BucketTypeOK
  <1>4. /\ (now' - last) * rpm = (now - last) * rpm + rpm
        /\ (now' - since) * rpm = (now - since) * rpm + rpm
        /\ (now - last) * rpm \in Nat /\ (now - since) * rpm \in Nat
    BY <1>1, <1>2
  <1>5. Refilled' <= Refilled + rpm
    BY <1>1, <1>2, <1>4 DEF Refilled
  <1>6. granted * Token \in Nat /\ Refilled \in Nat /\ Refilled' \in Nat
    BY <1>1, <1>3, Positive, RefilledBounds, <1>2, <1>4 DEF BucketInductive, Refilled
  <1>7. GrantedPlusLevel'
    BY <1>1, <1>2, <1>4, <1>5, <1>6 DEF BucketInductive, GrantedPlusLevel, Token
  <1>8. PromiseKept' /\ PromiseTight'
    BY <1>2 DEF BucketInductive, PromiseKept, PromiseTight, Token
  <1> QED BY <1>3, <1>7, <1>8 DEF BucketInductive

LEMMA GrantKeeps == BucketInductive /\ Grant => BucketInductive'
  <1> SUFFICES ASSUME BucketInductive, Grant PROVE BucketInductive'
    OBVIOUS
  <1>1. /\ rpm \in Nat /\ granted \in Nat /\ rpm * Token \in Nat
        /\ now \in Nat /\ since \in 0 .. now /\ Token \in Nat
    BY RatesAssumption, Positive DEF BucketInductive, BucketTypeOK
  <1>2. Refilled \in Nat /\ Refilled <= rpm * Token
    BY <1>1, RefilledBounds DEF BucketInductive
  <1>3. /\ Refilled >= Token /\ tokens' = Refilled - Token /\ last' = now
        /\ granted' = granted + 1 /\ promise' = Never /\ UNCHANGED <<rpm, now, since>>
    BY DEF Grant
  <1>4. BucketTypeOK' /\ PromiseKept' /\ PromiseTight'
    BY <1>1, <1>2, <1>3 DEF BucketInductive, BucketTypeOK, PromiseKept, PromiseTight, Token, Never
  <1>5. (now' - last') * rpm = 0
    BY <1>1, <1>3
  <1>6. Refilled' = Refilled - Token
    BY <1>1, <1>2, <1>3, <1>5 DEF Refilled, Token
  <1>7. granted' * Token = granted * Token + Token /\ granted * Token \in Nat
        /\ (now - since) * rpm \in Nat
    BY <1>1, <1>3
  <1>8. GrantedPlusLevel'
    BY <1>1, <1>2, <1>3, <1>6, <1>7 DEF BucketInductive, GrantedPlusLevel, Token
  <1> QED BY <1>4, <1>8 DEF BucketInductive

LEMMA RefuseKeeps == BucketInductive /\ Refuse => BucketInductive'
  <1> SUFFICES ASSUME BucketInductive, Refuse PROVE BucketInductive'
    OBVIOUS
  <1> DEFINE rate == rpm * TicksPerSecond
             wait == Wait(Refilled)
  <1>1. /\ rpm \in Nat /\ rpm > 0 /\ granted \in Nat /\ rpm * Token \in Nat
        /\ now \in Nat /\ since \in 0 .. now /\ Token \in Nat
        /\ rate \in Nat \ {0} /\ TicksPerSecond \in Nat
    BY RatesAssumption, Positive, ClockAssumption DEF BucketInductive, BucketTypeOK
  <1>2. Refilled \in Nat /\ Refilled <= rpm * Token
    BY <1>1, RefilledBounds DEF BucketInductive
  <1>3. /\ Refilled < Token /\ tokens' = Refilled /\ last' = now
        /\ promise' = now + wait * TicksPerSecond
        /\ UNCHANGED <<rpm, now, since, granted>>
    BY DEF Refuse
  <1>4. Token - Refilled \in Nat
    BY <1>1, <1>2, <1>3
  <1>5. wait \in Nat /\ wait * rate >= Token - Refilled /\ wait * rate - rate < Token - Refilled
    <2>1. /\ (Token - Refilled + rate - 1) \div rate \in Nat
          /\ ((Token - Refilled + rate - 1) \div rate) * rate >= Token - Refilled
          /\ ((Token - Refilled + rate - 1) \div rate) * rate - rate < Token - Refilled
      BY <1>1, <1>4, CeilingCovers
    <2> QED BY <2>1 DEF Wait
  <1>6. wait * TicksPerSecond \in Nat /\ (wait * TicksPerSecond) * rpm = wait * rate
    BY <1>1, <1>5
  <1>7. BucketTypeOK'
    BY <1>1, <1>2, <1>3, <1>6 DEF BucketInductive, BucketTypeOK, Token
  <1>8. PromiseKept' /\ PromiseTight'
    <2>1. promise' - last' = wait * TicksPerSecond
      BY <1>1, <1>3, <1>6
    <2>2. tokens' + (promise' - last') * rpm' >= Token
      BY <1>1, <1>2, <1>3, <1>5, <1>6, <2>1
    <2>3. last' <= promise'
      BY <1>1, <1>3, <1>6
    <2>4. TicksPerSecond * rpm = rate
      BY <1>1
    <2>5. tokens' + (promise' - last') * rpm' < Token + TicksPerSecond * rpm'
      BY <1>1, <1>2, <1>3, <1>5, <1>6, <2>1, <2>4
    <2> QED BY <2>2, <2>3, <2>5 DEF PromiseKept, PromiseTight, Token
  <1>9. (now' - last') * rpm = 0
    BY <1>1, <1>3
  <1>10. Refilled' = Refilled
    BY <1>1, <1>2, <1>3, <1>9 DEF Refilled, Token
  <1>11. GrantedPlusLevel'
    BY <1>3, <1>10 DEF BucketInductive, GrantedPlusLevel, Token
  <1> QED BY <1>7, <1>8, <1>11 DEF BucketInductive

LEMMA ObserveKeeps == BucketInductive /\ Observe => BucketInductive'
  <1> SUFFICES ASSUME BucketInductive, Observe PROVE BucketInductive'
    OBVIOUS
  <1>1. rpm \in Nat /\ now \in Nat /\ Token \in Nat /\ rpm * Token \in Nat
    BY RatesAssumption, Positive DEF BucketInductive, BucketTypeOK
  <1>2. since' = now /\ granted' = 0 /\ UNCHANGED <<rpm, tokens, last, now, promise>>
    BY DEF Observe, bucket
  <1>3. BucketTypeOK' /\ PromiseKept' /\ PromiseTight'
    BY <1>1, <1>2 DEF BucketInductive, BucketTypeOK, PromiseKept, PromiseTight, Token
  <1>4. Refilled' = Refilled /\ Refilled \in Nat /\ Refilled <= rpm * Token
    BY <1>1, <1>2, RefilledBounds DEF BucketInductive, Refilled, Token
  <1>5. granted' * Token = 0 /\ (now' - since') * rpm = 0
    BY <1>1, <1>2
  <1>6. GrantedPlusLevel'
    BY <1>1, <1>2, <1>4, <1>5 DEF GrantedPlusLevel, Token
  <1> QED BY <1>3, <1>6 DEF BucketInductive

LEMMA BucketStep == BucketInductive /\ [BucketNext]_bucketVars => BucketInductive'
  <1> SUFFICES ASSUME BucketInductive, [BucketNext]_bucketVars PROVE BucketInductive'
    OBVIOUS
  <1>1. CASE UNCHANGED bucketVars
    BY <1>1 DEF BucketInductive, BucketTypeOK, GrantedPlusLevel, PromiseKept, PromiseTight, Refilled,
                Token, bucketVars, bucket
  <1> QED BY <1>1, TickKeeps, GrantKeeps, RefuseKeeps, ObserveKeeps DEF BucketNext

-----------------------------------------------------------------------------
\* The level stays between empty and full.
THEOREM BucketTypeCorrect == BucketSpec => []BucketTypeOK
  <1>1. BucketInductive => BucketTypeOK
    BY DEF BucketInductive
  <1> QED BY <1>1, BucketInit, BucketStep, PTL DEF BucketSpec

\* In any window of time at most rpm requests, plus the rate times the
\* window's length, are allowed.
THEOREM BucketBoundsEveryWindow == BucketSpec => []WindowBound
  <1>1. ASSUME BucketInductive PROVE WindowBound
    <2>1. Refilled \in Nat /\ granted * Token \in Nat /\ rpm * Token \in Nat
          /\ (now - since) * rpm \in Nat
      BY <1>1, RatesAssumption, Positive, RefilledBounds DEF BucketInductive, BucketTypeOK
    <2> QED BY <1>1, <2>1 DEF BucketInductive, GrantedPlusLevel, WindowBound
  <1> QED BY <1>1, BucketInit, BucketStep, PTL DEF BucketSpec

\* Whoever comes back after Retry-After seconds is allowed, if nobody was
\* before it.
THEOREM RetryAfterIsEnough == BucketSpec => []RetryAfterSuffices
  <1>1. ASSUME BucketInductive PROVE RetryAfterSuffices
    <2> SUFFICES ASSUME promise # Never, now >= promise PROVE Refilled >= Token
      BY DEF RetryAfterSuffices
    <2>1. /\ rpm \in Nat /\ rpm >= 1 /\ Token \in Nat /\ tokens \in Nat /\ last \in Nat
          /\ promise \in Nat /\ now \in Nat
      BY <1>1, RatesAssumption, Positive DEF BucketInductive, BucketTypeOK
    <2>2. (now - last) * rpm >= (promise - last) * rpm
      BY <2>1
    <2>3. rpm * Token >= Token
      BY <2>1
    <2> QED BY <1>1, <2>1, <2>2, <2>3 DEF BucketInductive, PromiseKept, Refilled
  <1> QED BY <1>1, BucketInit, BucketStep, PTL DEF BucketSpec

\* A second before the end of Retry-After there is no token yet: the client is
\* not told to wait longer than the whole seconds it has to.
THEOREM RetryAfterIsTight == BucketSpec => []RetryAfterTight
  <1>1. ASSUME BucketInductive PROVE RetryAfterTight
    <2> SUFFICES ASSUME promise # Never, now <= promise - TicksPerSecond
                 PROVE  Refilled < Token
      BY DEF RetryAfterTight
    <2>1. /\ rpm \in Nat /\ Token \in Nat /\ tokens \in Nat /\ last \in Nat
          /\ promise \in Nat /\ now \in Nat /\ last <= now /\ TicksPerSecond \in Nat
          /\ Refilled \in Nat
      BY <1>1, RatesAssumption, Positive, ClockAssumption, RefilledBounds DEF BucketInductive, BucketTypeOK
    <2>2. tokens + (promise - last) * rpm < Token + TicksPerSecond * rpm
      BY <1>1, <2>1 DEF BucketInductive, PromiseTight
    <2>3. (now - last) * rpm + TicksPerSecond * rpm <= (promise - last) * rpm
      <3>1. (now - last + TicksPerSecond) * rpm <= (promise - last) * rpm
        BY <2>1
      <3> QED BY <2>1, <3>1
    <2>4. Refilled <= tokens + (now - last) * rpm
      BY <1>1, RefilledBounds DEF BucketInductive
    <2> HIDE DEF Token
    <2> QED BY <2>1, <2>2, <2>3, <2>4
  <1> QED BY <1>1, BucketInit, BucketStep, PTL DEF BucketSpec
=============================================================================
