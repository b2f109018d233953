---------------------------- MODULE TokenBucket ----------------------------
(***************************************************************************)
(* One token bucket of the rate limiter (instance/rate_limiter.go).  The   *)
(* code keeps a real number of tokens and refills them from the wall clock *)
(* when it is asked; here time advances in ticks and a token is divided    *)
(* into Token units, so that rpm units come back per tick and no division  *)
(* is needed but the one that rounds Retry-After up to whole seconds.      *)
(***************************************************************************)
EXTENDS Integers

CONSTANTS
    Rates,           \* the limits to try: a bucket exists only for a positive one
    TicksPerSecond,  \* resolution of the clock
    MaxTime          \* bound: the last tick of a behaviour

ASSUME RatesAssumption == Rates \subseteq Nat \ {0}
ASSUME ClockAssumption == TicksPerSecond \in Nat \ {0} /\ MaxTime \in Nat

VARIABLES
    rpm,      \* the limit the bucket was made with
    tokens,   \* TokenBucket.tokens, in units
    last,     \* lastRefill
    now,      \* the clock
    since,    \* ghost: where an observer began to count
    granted,  \* ghost: the requests allowed since then
    promise   \* ghost: when the last refusal said to come back (Never: no refusal
              \*        since the last request that was allowed)

bucket == <<rpm, tokens, last>>
bucketVars == <<bucket, now, since, granted, promise>>

Token == 60 * TicksPerSecond
Never == -1

\* tokens + elapsed * refillRate, at most maxTokens.
RefilledUncapped == tokens + (now - last) * rpm
Refilled ==
    LET sum == tokens + (now - last) * rpm IN
    IF sum < rpm * Token THEN sum ELSE rpm * Token

WaitRoundedDown(units) == (Token - units) \div (rpm * TicksPerSecond)
WaitPadded(units) ==
    LET rate == rpm * TicksPerSecond IN (Token - units + 2 * rate - 1) \div rate

\* math.Ceil of the seconds until one token is there.
Wait(units) ==
    LET rate == rpm * TicksPerSecond IN (Token - units + rate - 1) \div rate

\* NewTokenBucket: full.
NewTokenBucket ==
    /\ rpm \in Rates
    /\ tokens = rpm * Token
    /\ last = 0 /\ now = 0
    /\ since = 0 /\ granted = 0 /\ promise = Never

Tick ==
    /\ now < MaxTime
    /\ now' = now + 1
    /\ UNCHANGED <<bucket, since, granted, promise>>

\* Allow returns true.
Grant ==
    /\ Refilled >= Token
    /\ tokens' = Refilled - Token
    /\ last' = now
    /\ granted' = granted + 1
    /\ promise' = Never
    /\ UNCHANGED <<rpm, now, since>>

\* Allow returns false and the seconds to wait, which become Retry-After.
Refuse ==
    /\ Refilled < Token
    /\ tokens' = Refilled
    /\ last' = now
    /\ promise' = now + Wait(Refilled) * TicksPerSecond
    /\ UNCHANGED <<rpm, now, since, granted>>

\* An observer starts counting here.
Observe ==
    /\ since' = now /\ granted' = 0
    /\ UNCHANGED <<bucket, now, promise>>

BucketNext == Tick \/ Grant \/ Refuse \/ Observe
BucketSpec == NewTokenBucket /\ [][BucketNext]_bucketVars

-----------------------------------------------------------------------------
\* The level stays within the bucket and no time is in the future.
BucketTypeOK ==
    /\ rpm \in Rates
    /\ tokens \in 0 .. rpm * Token
    /\ now \in Nat /\ last \in 0 .. now /\ since \in 0 .. now
    /\ granted \in Nat /\ promise \in Nat \cup {Never}

\* In no window of time, wherever it begins, does the bucket allow more than
\* one full bucket (rpm requests) and what the rate adds in that time.
WindowBound ==
    granted * Token <= rpm * Token + (now - since) * rpm

\* A client that waits the seconds of Retry-After finds a token, unless
\* somebody else has been allowed meanwhile.
RetryAfterSuffices ==
    (promise # Never /\ now >= promise) => Refilled >= Token

\* Retry-After is not longer than it need be: a second earlier there is none.
RetryAfterTight ==
    (promise # Never /\ now <= promise - TicksPerSecond) => Refilled < Token
=============================================================================
