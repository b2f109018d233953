---------------------------- MODULE ProxyRequest ----------------------------
(***************************************************************************)
(* A completions, embeddings or messages request on its way through the    *)
(* proxy (handler/proxy.go): authentication, choice of an account, rate    *)
(* limit, usage record, upstream exchange, and in pool mode the retry with *)
(* another account.  Requests run concurrently with each other and with    *)
(* the console, which stops and starts instances and edits the store.      *)
(*                                                                         *)
(* Left open here: which available account a strategy picks, what the rate *)
(* limiter says and what the upstream answers.                             *)
(***************************************************************************)
EXTENDS Naturals, FiniteSets, FiniteSetsExt

CONSTANTS
    Account,
    Req,          \* requests, each of which arrives once
    MaxAttempts,  \* attempts of a pool request; one with an account's key has 1
    Edits,        \* bound: changes the console makes in a behaviour
    None

ASSUME AttemptsAssumption == MaxAttempts \in Nat \ {0}
ASSUME BoundAssumption == Edits \in Nat /\ None \notin Account
ASSUME ReqAssumption == IsFiniteSet(Req)

VARIABLES
    status,   \* status[a]: Status of a's instance; "absent" if there is none
    enabled,  \* enabled[a]: a is in accounts.json and enabled
    members,  \* AccountIDs of the pool
    edits,    \* changes made so far
    total,    \* total[a]: usage records of a in the window
    failed,   \* failed[a]: those with Failed
    pc, req,  \* req[r]: the request's context and locals
    sent,     \* ghost: sent[r][a], upstream exchanges begun
    answers   \* ghost: answers[r], the responses written to the client

console == <<status, enabled, members, edits>>
usage   == <<total, failed>>
ghosts  == <<sent, answers>>
vars    == <<console, usage, pc, req, ghosts>>

Codes == {"ok", "client error", "429", "5xx"}
ReqPC == {"new", "list", "pick", "state", "limit", "record", "send", "waiting", "failed",
          "answered", "done"}

\* isPool, poolAccountIDs, exclude, attempt, the candidates SelectAccount has
\* listed, the account resolved, and the response whose body is open.
NoReq == [pool |-> FALSE, ids |-> {}, exclude |-> {}, attempt |-> 0, cands |-> {},
          account |-> None, code |-> None]

Init ==
    /\ status \in [Account -> {"running", "stopped", "absent"}]
    /\ enabled = [a \in Account |-> TRUE]
    /\ members \in SUBSET Account
    /\ edits = 0
    /\ total = [a \in Account |-> 0] /\ failed = total
    /\ pc = [r \in Req |-> "new"]
    /\ req = [r \in Req |-> NoReq]
    /\ sent = [r \in Req |-> [a \in Account |-> 0]]
    /\ answers = [r \in Req |-> 0]

Goto(r, label) == pc' = [pc EXCEPT ![r] = label]
Continue(r, label, x) == Goto(r, label) /\ req' = [req EXCEPT ![r] = x]
Reply(r) == answers' = [answers EXCEPT ![r] = @ + 1]

-----------------------------------------------------------------------------
(* proxyAuth: what it reads of the pool stays with the request. *)

AuthPool(r) ==
    /\ pc[r] = "new"
    /\ Continue(r, "list", [NoReq EXCEPT !.pool = TRUE, !.ids = members])
    /\ UNCHANGED <<console, usage, ghosts>>

AuthAccount(r, a) ==
    /\ pc[r] = "new"
    /\ Continue(r, "state", [NoReq EXCEPT !.account = a])
    /\ UNCHANGED <<console, usage, ghosts>>

\* 401: no pool and no account has the key; or 400: the body cannot be read.
Reject(r) ==
    /\ pc[r] = "new"
    /\ Goto(r, "done")
    /\ Reply(r)
    /\ UNCHANGED <<console, usage, req, sent>>

-----------------------------------------------------------------------------
(* resolveState and SelectAccount. *)

CandidatesOfAnyPool(r) == {a \in Account : enabled[a]}

\* The pool's enabled accounts; all of them when the pool lists none.
Candidates(r) == {a \in Account : enabled[a] /\ (req[r].ids = {} \/ a \in req[r].ids)}

ListCandidates(r) ==
    /\ pc[r] = "list"
    /\ Continue(r, "pick", [req[r] EXCEPT !.cands = Candidates(r)])
    /\ UNCHANGED <<console, usage, ghosts>>

\* Under mu: the candidates that are running and not excluded.
Available(r) == {a \in req[r].cands \ req[r].exclude : status[a] = "running"}

Pick(r) ==
    /\ pc[r] = "pick"
    /\ \E a \in Available(r) :
          Continue(r, "state", [req[r] EXCEPT !.account = a, !.cands = {}])
    /\ UNCHANGED <<console, usage, ghosts>>

\* 503: no available accounts in pool.
PickNone(r) ==
    /\ pc[r] = "pick" /\ Available(r) = {}
    /\ Continue(r, "done", NoReq)
    /\ Reply(r)
    /\ UNCHANGED <<console, usage, sent>>

\* GetInstanceState: there is one as soon as an instance was ever started.
GetState(r) ==
    /\ pc[r] = "state" /\ status[req[r].account] # "absent"
    /\ Goto(r, "limit")
    /\ UNCHANGED <<console, usage, req, ghosts>>

\* 503: (selected) account instance not running.
NoState(r) ==
    /\ pc[r] = "state" /\ status[req[r].account] = "absent"
    /\ Continue(r, "done", NoReq)
    /\ Reply(r)
    /\ UNCHANGED <<console, usage, sent>>

-----------------------------------------------------------------------------
(* The attempt. *)

WithinLimit(r) ==
    /\ pc[r] = "limit"
    /\ Goto(r, "record")
    /\ UNCHANGED <<console, usage, req, ghosts>>

OverLimitIgnored == "record"
OverLimitNext == "done"

\* checkRateLimit writes the 429; the handler returns.
OverLimit(r) ==
    /\ pc[r] = "limit"
    /\ Goto(r, OverLimitNext)
    /\ Reply(r)
    /\ UNCHANGED <<console, usage, req, sent>>

RecordSuccessOnly(a, isFailed) ==
    /\ total' = [total EXCEPT ![a] = @ + 1]
    /\ UNCHANGED failed

\* RecordRequest.
Record(a, isFailed) ==
    /\ total' = [total EXCEPT ![a] = @ + 1]
    /\ failed' = [failed EXCEPT ![a] = @ + IF isFailed THEN 1 ELSE 0]

RecordAttempt(r) ==
    /\ pc[r] = "record"
    /\ Record(req[r].account, FALSE)
    /\ Goto(r, "send")
    /\ UNCHANGED <<console, req, ghosts>>

Send(r) ==
    /\ pc[r] = "send"
    /\ sent' = [sent EXCEPT ![r][req[r].account] = @ + 1]
    /\ Goto(r, "waiting")
    /\ UNCHANGED <<console, usage, req, answers>>

\* No response: a transport error, the client gone, or a payload that the
\* translation refuses.
UpstreamFails(r) ==
    /\ pc[r] = "waiting"
    /\ Goto(r, "failed")
    /\ UNCHANGED <<console, usage, req, ghosts>>

UpstreamAnswers(r, code) ==
    /\ pc[r] = "waiting"
    /\ Continue(r, "answered", [req[r] EXCEPT !.code = code])
    /\ UNCHANGED <<console, usage, ghosts>>

IsLastByTries(r) == Cardinality(req[r].exclude) > MaxAttempts
IsLast(r) == req[r].attempt = (IF req[r].pool THEN MaxAttempts ELSE 1) - 1

ExcludedLost(r) == req[r].exclude
Excluded(r) == req[r].exclude \cup {req[r].account}

BodyLeaked(r) == req[r].code
BodyClosed(r) == None

\* The next iteration, without the account that failed.
Retry(r) ==
    /\ Record(req[r].account, TRUE)
    /\ Continue(r, "list", [req[r] EXCEPT !.attempt = @ + 1, !.exclude = Excluded(r),
                                          !.account = None, !.code = BodyClosed(r)])
    /\ UNCHANGED <<console, ghosts>>

RetryAfterError(r) ==
    /\ pc[r] = "failed" /\ ~IsLast(r)
    /\ Retry(r)

\* 502.
GiveUp(r) ==
    /\ pc[r] = "failed" /\ IsLast(r)
    /\ Record(req[r].account, TRUE)
    /\ Continue(r, "done", NoReq)
    /\ Reply(r)
    /\ UNCHANGED <<console, sent>>

IsRetryable(code) == code \in {"429", "5xx"}

RetryAfterStatus(r) ==
    /\ pc[r] = "answered" /\ IsRetryable(req[r].code) /\ ~IsLast(r)
    /\ Retry(r)

NotRetriedIfFinal(r) == ~IsRetryable(req[r].code)
NotRetried(r) == IsRetryable(req[r].code) => IsLast(r)

\* Forward...Response: the last attempt's status too, recorded by nobody.
Forward(r) ==
    /\ pc[r] = "answered" /\ NotRetried(r)
    /\ Continue(r, "done", NoReq)
    /\ Reply(r)
    /\ UNCHANGED <<console, usage, sent>>

-----------------------------------------------------------------------------
(* The console: an instance is started, or stops or fails; an account is    *)
(* enabled, disabled or deleted; the pool's members change.                 *)

Edit == edits < Edits /\ edits' = edits + 1

ChangeStatus(a, s) ==
    /\ Edit /\ s # status[a]
    /\ status' = [status EXCEPT ![a] = s]
    /\ UNCHANGED <<enabled, members, usage, pc, req, ghosts>>

ChangeEnabled(a) ==
    /\ Edit
    /\ enabled' = [enabled EXCEPT ![a] = ~@]
    /\ UNCHANGED <<status, members, usage, pc, req, ghosts>>

ChangeMembers(a) ==
    /\ Edit
    /\ members' = IF a \in members THEN members \ {a} ELSE members \cup {a}
    /\ UNCHANGED <<status, enabled, usage, pc, req, ghosts>>

Handle(r) ==
    \/ ListCandidates(r) \/ Pick(r) \/ PickNone(r) \/ GetState(r) \/ NoState(r)
    \/ WithinLimit(r) \/ OverLimit(r) \/ RecordAttempt(r) \/ Send(r)
    \/ UpstreamFails(r) \/ \E code \in Codes : UpstreamAnswers(r, code)
    \/ RetryAfterError(r) \/ GiveUp(r) \/ RetryAfterStatus(r) \/ Forward(r)

Next ==
    \/ \E r \in Req : \/ Handle(r) \/ AuthPool(r) \/ Reject(r)
                      \/ \E a \in Account : AuthAccount(r, a)
    \/ \E a \in Account : \/ \E s \in {"running", "stopped"} : ChangeStatus(a, s)
                          \/ ChangeEnabled(a) \/ ChangeMembers(a)

Spec == Init /\ [][Next]_vars

\* Handlers run; an exchange ends because the upstream answers or breaks off,
\* or because the client goes away, which cancels the request's context (not
\* that of an embeddings request, which the upstream alone ends).
FairSpec == Spec /\ \A r \in Req : WF_vars(Handle(r))

-----------------------------------------------------------------------------
SentBy(r) == MapThenSumSet(LAMBDA a : sent[r][a], Account)
SentTo(a) == MapThenSumSet(LAMBDA r : sent[r][a], Req)

\* Every variable has its type, and no request passes its last attempt.
TypeOK ==
    /\ status \in [Account -> {"running", "stopped", "absent"}]
    /\ enabled \in [Account -> BOOLEAN]
    /\ members \subseteq Account /\ edits \in 0 .. Edits
    /\ total \in [Account -> Nat] /\ failed \in [Account -> Nat]
    /\ pc \in [Req -> ReqPC]
    /\ req \in [Req -> [pool : BOOLEAN, ids : SUBSET Account, exclude : SUBSET Account,
                        attempt : 0 .. MaxAttempts - 1, cands : SUBSET Account,
                        account : Account \cup {None}, code : Codes \cup {None}]]
    /\ sent \in [Req -> [Account -> Nat]]
    /\ answers \in [Req -> Nat]

\* The client gets exactly one response: none before the handler is done, one
\* when it is.
OneAnswer == \A r \in Req : answers[r] = IF pc[r] = "done" THEN 1 ELSE 0

\* A retry never goes back to an account that has already failed the request,
\* whatever is started, stopped or edited meanwhile.
NoAccountTwice == \A r \in Req, a \in Account : sent[r][a] <= 1

\* No response body is left open when its request is retried or done.
BodiesClosed == \A r \in Req : pc[r] # "answered" => req[r].code = None

\* Every exchange has a usage record of its own; the others are failures.
ExchangesAreRecorded ==
    \A a \in Account :
        total[a] - failed[a] =
            SentTo(a) + Cardinality({r \in Req : pc[r] = "send" /\ req[r].account = a})

\* A pool's key never reaches an account outside the pool as it was when the
\* request was authenticated, unless the pool was empty.
PoolKeepsToItsAccounts ==
    [][\A r \in Req, a \in Account :
          (sent'[r][a] > sent[r][a] /\ req[r].pool /\ req[r].ids # {}) => a \in req[r].ids]_vars

\* Every request is answered.
Answered == \A r \in Req : pc[r] # "new" ~> pc[r] = "done"

\* An account's request count is the number of requests it was sent.  Refuted: a
\* failure is recorded on top of its request (proxy.go:202, :215).
CountsRequests ==
    (\A r \in Req : pc[r] \in {"new", "done"}) => \A a \in Account : total[a] = SentTo(a)

\* A request with an account's own key is sent only if the account's instance
\* was running when its state was looked up (proxy.go:135).  Refuted: a stopped or
\* failed instance has a state too (manager.go:134).
OnlyRunningIsUsed ==
    [][\A r \in Req : (pc[r] = "state" /\ pc'[r] = "limit" /\ ~req[r].pool)
                          => status[req[r].account] = "running"]_vars
=============================================================================
