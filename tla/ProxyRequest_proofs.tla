------------------------ MODULE ProxyRequest_proofs ------------------------
(***************************************************************************)
(* For any number of requests, accounts, attempts and changes by the       *)
(* console: the types of ProxyRequest; a request gets one answer, leaves   *)
(* no body open, tries no account twice, uses none outside its pool, and   *)
(* is recorded once for each exchange.                                     *)
(*                                                                         *)
(* Then, of Conversation: the model a client picks serves it under any     *)
(* sound map, of any length; and, for any system prompt and any number of  *)
(* questions, calls and results, what was said is sent again once, save    *)
(* the contents the translation cannot carry, and every tool call is       *)
(* answered right after the message that makes it.                         *)
(***************************************************************************)
EXTENDS ProxyRequest, Conversation, TLAPS, FiniteSetTheorems, SequenceTheorems,
        WellFoundedInduction

ReqRecord == [pool : BOOLEAN, ids : SUBSET Account, exclude : SUBSET Account,
            attempt : 0 .. MaxAttempts - 1, cands : SUBSET Account,
            account : Account \cup {None}, code : Codes \cup {None}]

\* The stages at which an account has been chosen, and has been sent the request.
Chosen == {"state", "limit", "record", "send", "waiting", "failed", "answered"}
Exchanged == {"waiting", "failed", "answered"}

\* An account that was sent the request is excluded, or is the one being tried.
Tries(r) ==
    /\ pc[r] \in Chosen => req[r].account \in Account \ req[r].exclude
    /\ \A a \in Account :
         /\ sent[r][a] <= 1
         /\ (pc[r] # "done" /\ sent[r][a] > 0) =>
              a \in req[r].exclude \/ (a = req[r].account /\ pc[r] \in Exchanged)

\* A request of a pool with accounts has candidates and an account of that pool.
KeepsToPool(r) ==
    (req[r].pool /\ req[r].ids # {}) =>
        /\ req[r].cands \subseteq req[r].ids
        /\ pc[r] \in Chosen => req[r].account \in req[r].ids

RequestOK(r) ==
    /\ answers[r] = IF pc[r] = "done" THEN 1 ELSE 0
    /\ pc[r] # "answered" => req[r].code = None
    /\ pc[r] = "new" => req[r] = NoReq
    /\ ~req[r].pool => req[r].attempt = 0
    /\ Tries(r)
    /\ KeepsToPool(r)

Inductive == TypeOK /\ \A r \in Req : RequestOK(r)

LEMMA NoReqType == NoReq \in ReqRecord
  BY AttemptsAssumption DEF NoReq, ReqRecord

LEMMA InductiveInit == Init => Inductive
  <1> SUFFICES ASSUME Init PROVE Inductive
    OBVIOUS
  <1>1. TypeOK
    <2>1. req \in [Req -> ReqRecord]
      BY NoReqType DEF Init
    <2>2. /\ total \in [Account -> Nat] /\ failed \in [Account -> Nat]
          /\ edits \in 0 .. Edits
      BY BoundAssumption DEF Init
    <2>3. sent \in [Req -> [Account -> Nat]] /\ answers \in [Req -> Nat] /\ pc \in [Req -> ReqPC]
      BY DEF Init, ReqPC
    <2> QED BY <2>1, <2>2, <2>3 DEF Init, TypeOK, ReqRecord
  <1>2. ASSUME NEW r \in Req PROVE RequestOK(r)
    <2>1. /\ pc[r] = "new" /\ req[r] = NoReq /\ answers[r] = 0
          /\ \A a \in Account : sent[r][a] = 0
      BY DEF Init
    <2> QED BY <2>1 DEF RequestOK, Tries, KeepsToPool, Chosen, NoReq
  <1> QED BY <1>1, <1>2 DEF Inductive
-----------------------------------------------------------------------------
\* A step of the request r leaves the others alone.
LEMMA OnlyThisRequest ==
    ASSUME Inductive, NEW r \in Req, NEW label \in ReqPC,
           Goto(r, label), UNCHANGED console,
           req' \in [Req -> ReqRecord], \A q \in Req \ {r} : req'[q] = req[q],
           sent' \in [Req -> [Account -> Nat]], \A q \in Req \ {r} : sent'[q] = sent[q],
           answers' \in [Req -> Nat], \A q \in Req \ {r} : answers'[q] = answers[q],
           total' \in [Account -> Nat], failed' \in [Account -> Nat],
           pc'[r] = label => RequestOK(r)'
    PROVE  Inductive'
  <1>1. /\ pc' \in [Req -> ReqPC] /\ pc'[r] = label
        /\ \A q \in Req \ {r} : pc'[q] = pc[q]
    BY DEF Goto, Inductive, TypeOK
  <1>2. TypeOK'
    BY <1>1 DEF Inductive, TypeOK, console, ReqRecord
  <1>3. ASSUME NEW q \in Req \ {r} PROVE RequestOK(q)'
    <2>1. /\ pc'[q] = pc[q] /\ req'[q] = req[q] /\ sent'[q] = sent[q]
          /\ answers'[q] = answers[q]
      BY <1>1
    <2>2. RequestOK(q)
      BY DEF Inductive
    <2> QED BY <2>1, <2>2 DEF RequestOK, Tries, KeepsToPool
  <1> QED BY <1>1, <1>2, <1>3 DEF Inductive

\* A step that changes neither what was sent nor what was answered.
LEMMA MovesOn ==
    ASSUME Inductive, NEW r \in Req, NEW label \in ReqPC \ {"new", "done"}, NEW x \in ReqRecord,
           pc[r] # "done",
           Goto(r, label), req' = [req EXCEPT ![r] = x], UNCHANGED <<console, ghosts>>,
           total' \in [Account -> Nat], failed' \in [Account -> Nat],
           label # "answered" => x.code = None,
           ~x.pool => x.attempt = 0,
           label \in Chosen => x.account \in Account \ x.exclude,
           \A a \in Account : sent[r][a] > 0 =>
               a \in x.exclude \/ (a = x.account /\ label \in Exchanged),
           (x.pool /\ x.ids # {}) =>
               x.cands \subseteq x.ids /\ (label \in Chosen => x.account \in x.ids)
    PROVE  Inductive'
  <1>1. /\ req' \in [Req -> ReqRecord] /\ req'[r] = x
        /\ \A q \in Req \ {r} : req'[q] = req[q]
    BY DEF Inductive, TypeOK, ReqRecord
  <1>2. /\ sent' = sent /\ answers' = answers
        /\ sent \in [Req -> [Account -> Nat]] /\ answers \in [Req -> Nat]
    BY DEF ghosts, Inductive, TypeOK
  <1>3. RequestOK(r)
    BY DEF Inductive
  <1>4. ASSUME pc'[r] = label PROVE RequestOK(r)'
    BY <1>1, <1>2, <1>3, <1>4 DEF RequestOK, Tries, KeepsToPool
  <1> QED BY <1>1, <1>2, <1>4, OnlyThisRequest

\* A step that answers the client.
LEMMA Ends ==
    ASSUME Inductive, NEW r \in Req, NEW x \in ReqRecord,
           pc[r] # "done",
           Goto(r, "done"), req' = [req EXCEPT ![r] = x], Reply(r), UNCHANGED <<console, sent>>,
           total' \in [Account -> Nat], failed' \in [Account -> Nat],
           x.code = None, ~x.pool => x.attempt = 0,
           (x.pool /\ x.ids # {}) => x.cands \subseteq x.ids
    PROVE  Inductive'
  <1>1. /\ req' \in [Req -> ReqRecord] /\ req'[r] = x
        /\ \A q \in Req \ {r} : req'[q] = req[q]
    BY DEF Inductive, TypeOK, ReqRecord
  <1>2. RequestOK(r)
    BY DEF Inductive
  <1>3. /\ answers' \in [Req -> Nat] /\ answers'[r] = 1
        /\ \A q \in Req \ {r} : answers'[q] = answers[q]
    BY <1>2 DEF Reply, Inductive, TypeOK, RequestOK
  <1>4. sent' = sent /\ sent \in [Req -> [Account -> Nat]]
    BY DEF Inductive, TypeOK
  <1>5. ASSUME pc'[r] = "done" PROVE RequestOK(r)'
    BY <1>1, <1>2, <1>3, <1>4, <1>5 DEF RequestOK, Tries, KeepsToPool, Chosen
  <1> QED BY <1>1, <1>3, <1>4, <1>5, OnlyThisRequest DEF ReqPC

\* What the invariant says of a request, with its record's fields typed.
LEMMA RequestFacts ==
    ASSUME Inductive, NEW r \in Req
    PROVE  /\ req[r] \in ReqRecord /\ RequestOK(r)
           /\ req = [req EXCEPT ![r] = req[r]]
           /\ total \in [Account -> Nat] /\ failed \in [Account -> Nat]
  BY DEF Inductive, TypeOK, ReqRecord

LEMMA RecordType ==
    ASSUME Inductive, NEW a \in Account, NEW isFailed \in BOOLEAN, Record(a, isFailed)
    PROVE  total' \in [Account -> Nat] /\ failed' \in [Account -> Nat]
  <1>1. total[a] \in Nat /\ failed[a] \in Nat
    BY DEF Inductive, TypeOK
  <1> QED BY <1>1 DEF Record, Inductive, TypeOK
-----------------------------------------------------------------------------
(* Each step preserves the invariant. *)

LEMMA Authenticates ==
    ASSUME Inductive, NEW r \in Req,
           AuthPool(r) \/ Reject(r) \/ \E a \in Account : AuthAccount(r, a)
    PROVE  Inductive'
  <1>1. /\ pc[r] = "new" /\ req[r] = NoReq
        /\ total' \in [Account -> Nat] /\ failed' \in [Account -> Nat]
        /\ \A a \in Account : ~(sent[r][a] > 0)
    <2>1. pc[r] = "new" /\ UNCHANGED usage
      BY DEF AuthPool, Reject, AuthAccount
    <2>2. req[r] = NoReq /\ total' \in [Account -> Nat] /\ failed' \in [Account -> Nat]
      BY <2>1, RequestFacts DEF RequestOK, usage
    <2>3. ASSUME NEW a \in Account PROVE ~(sent[r][a] > 0)
      <3>1. a \notin req[r].exclude
        BY <2>2 DEF NoReq
      <3> QED BY <2>1, <3>1, RequestFacts DEF RequestOK, Tries, Exchanged
    <2> QED BY <2>1, <2>2, <2>3
  <1>2. CASE AuthPool(r)
    <2> DEFINE x == [NoReq EXCEPT !.pool = TRUE, !.ids = members]
    <2>1. /\ x \in ReqRecord /\ x.code = None /\ x.pool /\ x.cands = {}
      BY NoReqType DEF NoReq, ReqRecord, Inductive, TypeOK
    <2>2. Goto(r, "list") /\ req' = [req EXCEPT ![r] = x] /\ UNCHANGED <<console, ghosts>>
      BY <1>2 DEF AuthPool, Continue
    <2> HIDE DEF x
    <2> QED BY <1>1, <2>1, <2>2, MovesOn DEF ReqPC, Chosen
  <1>3. ASSUME NEW a \in Account, AuthAccount(r, a) PROVE Inductive'
    <2> DEFINE x == [NoReq EXCEPT !.account = a]
    <2>1. /\ x \in ReqRecord /\ x.code = None /\ x.account = a /\ x.exclude = {}
          /\ ~x.pool /\ x.attempt = 0
      BY NoReqType DEF NoReq, ReqRecord
    <2>2. Goto(r, "state") /\ req' = [req EXCEPT ![r] = x] /\ UNCHANGED <<console, ghosts>>
      BY <1>3 DEF AuthAccount, Continue
    <2> HIDE DEF x
    <2> QED BY <1>1, <2>1, <2>2, MovesOn DEF ReqPC, Chosen
  <1>4. CASE Reject(r)
    <2>1. Goto(r, "done") /\ req' = [req EXCEPT ![r] = NoReq] /\ Reply(r) /\ UNCHANGED <<console, sent>>
      BY <1>1, <1>4, RequestFacts DEF Reject
    <2>2. NoReq.code = None /\ NoReq.attempt = 0 /\ NoReq.cands = {}
      BY DEF NoReq
    <2> QED BY <1>1, <2>1, <2>2, NoReqType, Ends
  <1> QED BY <1>2, <1>3, <1>4

LEMMA Chooses ==
    ASSUME Inductive, NEW r \in Req, ListCandidates(r) \/ Pick(r) \/ GetState(r)
    PROVE  Inductive'
  <1>1. /\ req[r] \in ReqRecord /\ RequestOK(r)
        /\ total' \in [Account -> Nat] /\ failed' \in [Account -> Nat]
        /\ UNCHANGED <<console, ghosts>>
    BY RequestFacts DEF ListCandidates, Pick, GetState, usage
  <1>2. CASE ListCandidates(r)
    <2> DEFINE x == [req[r] EXCEPT !.cands = Candidates(r)]
    <2>1. pc[r] = "list" /\ Goto(r, "pick") /\ req' = [req EXCEPT ![r] = x]
      BY <1>2 DEF ListCandidates, Continue
    <2>2. /\ x \in ReqRecord
          /\ x.code = req[r].code /\ x.pool = req[r].pool /\ x.attempt = req[r].attempt
          /\ x.exclude = req[r].exclude /\ x.ids = req[r].ids
          /\ x.ids # {} => x.cands \subseteq x.ids
      BY <1>1 DEF ReqRecord, Candidates
    <2>3. \A a \in Account : sent[r][a] > 0 => a \in x.exclude
      BY <1>1, <2>1, <2>2 DEF RequestOK, Tries, Exchanged
    <2>4. x.code = None /\ (~x.pool => x.attempt = 0)
      BY <1>1, <2>1, <2>2 DEF RequestOK
    <2> HIDE DEF x
    <2> QED
      BY <1>1, <2>1, <2>2, <2>3, <2>4, MovesOn DEF ReqPC, Chosen
  <1>3. CASE Pick(r)
    <2> PICK a \in Available(r) :
          Continue(r, "state", [req[r] EXCEPT !.account = a, !.cands = {}])
      BY <1>3 DEF Pick
    <2> DEFINE x == [req[r] EXCEPT !.account = a, !.cands = {}]
    <2>1. pc[r] = "pick" /\ Goto(r, "state") /\ req' = [req EXCEPT ![r] = x]
      BY <1>3 DEF Pick, Continue
    <2>2. a \in Account /\ a \in req[r].cands /\ a \notin req[r].exclude
      BY <1>1 DEF Available, ReqRecord
    <2>3. /\ x \in ReqRecord
          /\ x.code = req[r].code /\ x.pool = req[r].pool /\ x.attempt = req[r].attempt
          /\ x.exclude = req[r].exclude /\ x.ids = req[r].ids
          /\ x.account = a /\ x.cands = {}
      BY <1>1, <2>2 DEF ReqRecord
    <2>4. \A b \in Account : sent[r][b] > 0 => b \in x.exclude
      BY <1>1, <2>1, <2>3 DEF RequestOK, Tries, Exchanged
    <2>5. x.code = None /\ (~x.pool => x.attempt = 0)
      BY <1>1, <2>1, <2>3 DEF RequestOK
    <2>6. (x.pool /\ x.ids # {}) => x.account \in x.ids
      BY <1>1, <2>2, <2>3 DEF RequestOK, KeepsToPool
    <2> HIDE DEF x
    <2> QED
      BY <1>1, <2>1, <2>2, <2>3, <2>4, <2>5, <2>6, MovesOn DEF ReqPC
  <1>4. CASE GetState(r)
    <2>1. /\ pc[r] = "state" /\ Goto(r, "limit") /\ req' = [req EXCEPT ![r] = req[r]]
      BY <1>4, RequestFacts DEF GetState
    <2> QED
      BY <1>1, <2>1, MovesOn DEF ReqPC, Chosen, Exchanged, RequestOK, Tries, KeepsToPool
  <1> QED BY <1>2, <1>3, <1>4

LEMMA Attempts ==
    ASSUME Inductive, NEW r \in Req,
           \/ WithinLimit(r) \/ RecordAttempt(r) \/ UpstreamFails(r)
           \/ \E code \in Codes : UpstreamAnswers(r, code)
    PROVE  Inductive'
  <1>1. req[r] \in ReqRecord /\ RequestOK(r) /\ UNCHANGED <<console, ghosts>>
    BY RequestFacts DEF WithinLimit, RecordAttempt, UpstreamFails, UpstreamAnswers
  <1>2. pc[r] \in Chosen /\ req[r].account \in Account
    BY <1>1 DEF WithinLimit, RecordAttempt, UpstreamFails, UpstreamAnswers, Chosen, RequestOK, Tries
  <1>3. total' \in [Account -> Nat] /\ failed' \in [Account -> Nat]
    BY <1>2, RequestFacts, RecordType
       DEF WithinLimit, RecordAttempt, UpstreamFails, UpstreamAnswers, usage
  <1>4. /\ req[r].account \notin req[r].exclude
        /\ \A a \in Account : sent[r][a] > 0 => a \in req[r].exclude \/ a = req[r].account
        /\ (req[r].pool /\ req[r].ids # {}) =>
              req[r].cands \subseteq req[r].ids /\ req[r].account \in req[r].ids
    <2>1. pc[r] # "done"
      BY <1>2 DEF Chosen
    <2> QED BY <1>1, <1>2, <2>1 DEF RequestOK, Tries, KeepsToPool
  <1>5. CASE WithinLimit(r)
    <2>1. /\ pc[r] = "limit" /\ Goto(r, "record") /\ req' = [req EXCEPT ![r] = req[r]]
      BY <1>5, RequestFacts DEF WithinLimit
    <2> QED
      BY <1>1, <1>3, <2>1, MovesOn DEF ReqPC, Chosen, Exchanged, RequestOK, Tries, KeepsToPool
  <1>6. CASE RecordAttempt(r)
    <2>1. /\ pc[r] = "record" /\ Goto(r, "send") /\ req' = [req EXCEPT ![r] = req[r]]
      BY <1>6, RequestFacts DEF RecordAttempt
    <2> QED
      BY <1>1, <1>3, <2>1, MovesOn DEF ReqPC, Chosen, Exchanged, RequestOK, Tries, KeepsToPool
  <1>7. CASE UpstreamFails(r)
    <2>1. /\ pc[r] = "waiting" /\ Goto(r, "failed") /\ req' = [req EXCEPT ![r] = req[r]]
      BY <1>7, RequestFacts DEF UpstreamFails
    <2> QED
      BY <1>1, <1>2, <1>3, <1>4, <2>1, MovesOn DEF ReqPC, Exchanged, RequestOK
  <1>8. ASSUME NEW code \in Codes, UpstreamAnswers(r, code) PROVE Inductive'
    <2> DEFINE x == [req[r] EXCEPT !.code = code]
    <2>1. /\ pc[r] = "waiting" /\ Goto(r, "answered") /\ req' = [req EXCEPT ![r] = x]
      BY <1>8 DEF UpstreamAnswers, Continue
    <2>2. /\ x \in ReqRecord
          /\ x.account = req[r].account /\ x.pool = req[r].pool /\ x.attempt = req[r].attempt
          /\ x.exclude = req[r].exclude /\ x.ids = req[r].ids /\ x.cands = req[r].cands
      BY <1>1 DEF ReqRecord
    <2>3. ~x.pool => x.attempt = 0
      BY <1>1, <2>2 DEF RequestOK
    <2>4. /\ x.account \in Account \ x.exclude
          /\ \A a \in Account : sent[r][a] > 0 => a \in x.exclude \/ a = x.account
          /\ (x.pool /\ x.ids # {}) => x.cands \subseteq x.ids /\ x.account \in x.ids
      BY <1>2, <1>4, <2>2
    <2>5. "answered" \in ReqPC \ {"new", "done"} /\ "answered" \in Exchanged /\ pc[r] # "done"
      BY <2>1 DEF ReqPC, Exchanged
    <2> HIDE DEF x
    <2> QED
      BY <1>1, <1>3, <2>1, <2>2, <2>3, <2>4, <2>5, MovesOn
  <1> QED BY <1>5, <1>6, <1>7, <1>8

\* The one step at which an account is sent the request: it has not been before.
LEMMA Sends == ASSUME Inductive, NEW r \in Req, Send(r) PROVE Inductive'
  <1> DEFINE a == req[r].account
  <1>1. /\ pc[r] = "send" /\ Goto(r, "waiting")
        /\ UNCHANGED <<console, usage, req, answers>>
        /\ sent' = [sent EXCEPT ![r][a] = @ + 1]
    BY DEF Send
  <1>2. RequestOK(r) /\ a \in Account /\ a \notin req[r].exclude
    BY <1>1, RequestFacts DEF RequestOK, Tries, Chosen
  <1>3. sent \in [Req -> [Account -> Nat]]
    BY DEF Inductive, TypeOK
  <1>4. /\ sent' \in [Req -> [Account -> Nat]]
        /\ \A q \in Req \ {r} : sent'[q] = sent[q]
        /\ sent'[r][a] = sent[r][a] + 1
        /\ \A b \in Account \ {a} : sent'[r][b] = sent[r][b]
    BY <1>1, <1>2, <1>3
  <1>5. sent[r][a] = 0
    <2>1. sent[r][a] \in Nat /\ ~(sent[r][a] > 0)
      BY <1>1, <1>2, <1>3 DEF RequestOK, Tries, Exchanged
    <2> QED BY <2>1
  <1>6. ASSUME pc'[r] = "waiting" PROVE RequestOK(r)'
    <2>1. Tries(r)'
      BY <1>1, <1>2, <1>4, <1>5, <1>6 DEF RequestOK, Tries, Chosen, Exchanged
    <2>2. KeepsToPool(r)'
      BY <1>1, <1>2, <1>6 DEF RequestOK, KeepsToPool, Chosen
    <2> QED BY <1>1, <1>2, <1>6, <2>1, <2>2 DEF RequestOK
  <1>7. req \in [Req -> ReqRecord] /\ answers \in [Req -> Nat]
        /\ total \in [Account -> Nat] /\ failed \in [Account -> Nat]
    BY DEF Inductive, TypeOK, ReqRecord
  <1> HIDE DEF a
  <1> QED BY <1>1, <1>4, <1>6, <1>7, OnlyThisRequest DEF ReqPC, usage

\* There is a retry only in a pool, and only while attempts are left.
LEMMA Retries ==
    ASSUME Inductive, NEW r \in Req, RetryAfterError(r) \/ RetryAfterStatus(r)
    PROVE  Inductive'
  <1> DEFINE x == [req[r] EXCEPT !.attempt = @ + 1, !.exclude = Excluded(r),
                                 !.account = None, !.code = BodyClosed(r)]
  <1>1. /\ pc[r] \in Exchanged /\ ~IsLast(r) /\ Record(req[r].account, TRUE)
        /\ Goto(r, "list") /\ req' = [req EXCEPT ![r] = x] /\ UNCHANGED <<console, ghosts>>
    BY DEF RetryAfterError, RetryAfterStatus, Retry, Continue, Exchanged
  <1>2. req[r] \in ReqRecord /\ RequestOK(r)
    BY RequestFacts
  <1>3. pc[r] \in Chosen /\ req[r].account \in Account
    BY <1>1, <1>2 DEF Chosen, Exchanged, RequestOK, Tries
  <1>4. total' \in [Account -> Nat] /\ failed' \in [Account -> Nat]
    BY <1>1, <1>3, RecordType
  <1>5. req[r].pool /\ req[r].attempt + 1 \in 0 .. MaxAttempts - 1
    <2>1. req[r].attempt \in 0 .. MaxAttempts - 1 /\ (~req[r].pool => req[r].attempt = 0)
      BY <1>2 DEF ReqRecord, RequestOK
    <2> QED BY <1>1, <2>1, AttemptsAssumption DEF IsLast
  <1>6. Excluded(r) = req[r].exclude \cup {req[r].account} /\ BodyClosed(r) = None
    BY DEF Excluded, BodyClosed
  <1>7. /\ x \in ReqRecord /\ x.code = None /\ x.pool
        /\ x.exclude = req[r].exclude \cup {req[r].account}
        /\ x.ids = req[r].ids /\ x.cands = req[r].cands
    BY <1>2, <1>3, <1>5, <1>6 DEF ReqRecord
  <1>8. \A a \in Account : sent[r][a] > 0 => a \in x.exclude
    <2>1. pc[r] # "done"
      BY <1>1 DEF Exchanged
    <2> QED BY <1>2, <1>7, <2>1 DEF RequestOK, Tries
  <1>9. (x.pool /\ x.ids # {}) => x.cands \subseteq x.ids
    BY <1>2, <1>7 DEF RequestOK, KeepsToPool
  <1>10. /\ pc[r] # "done" /\ "list" \in ReqPC \ {"new", "done"}
         /\ "list" \notin Chosen /\ "list" # "answered"
    BY <1>1 DEF ReqPC, Chosen, Exchanged
  <1> HIDE DEF x
  <1> QED
    BY <1>1, <1>4, <1>7, <1>8, <1>9, <1>10, MovesOn

LEMMA Answers ==
    ASSUME Inductive, NEW r \in Req,
           PickNone(r) \/ NoState(r) \/ OverLimit(r) \/ GiveUp(r) \/ Forward(r)
    PROVE  Inductive'
  <1>1. req[r] \in ReqRecord /\ RequestOK(r) /\ Reply(r) /\ UNCHANGED <<console, sent>>
    BY RequestFacts DEF PickNone, NoState, OverLimit, GiveUp, Forward
  <1>2. pc[r] # "done" /\ Goto(r, "done")
    BY DEF PickNone, NoState, OverLimit, OverLimitNext, GiveUp, Forward, Continue
  <1>3. total' \in [Account -> Nat] /\ failed' \in [Account -> Nat]
    <2>1. CASE GiveUp(r)
      BY <1>1, <2>1, RecordType DEF GiveUp, RequestOK, Tries, Chosen
    <2> QED BY <2>1, RequestFacts DEF PickNone, NoState, OverLimit, Forward, usage
  <1>4. CASE OverLimit(r)
    <2>1. req' = [req EXCEPT ![r] = req[r]] /\ pc[r] = "limit"
      BY <1>4, RequestFacts DEF OverLimit
    <2> QED BY <1>1, <1>2, <1>3, <2>1, Ends DEF RequestOK, KeepsToPool
  <1>5. CASE ~OverLimit(r)
    <2>1. req' = [req EXCEPT ![r] = NoReq]
      BY <1>5 DEF PickNone, NoState, GiveUp, Forward, Continue
    <2>2. NoReq.code = None /\ NoReq.attempt = 0 /\ NoReq.cands = {}
      BY DEF NoReq
    <2> QED BY <1>1, <1>2, <1>3, <2>1, <2>2, NoReqType, Ends
  <1> QED BY <1>4, <1>5

LEMMA ConsoleChanges ==
    ASSUME Inductive, NEW a \in Account,
           \/ \E s \in {"running", "stopped"} : ChangeStatus(a, s)
           \/ ChangeEnabled(a) \/ ChangeMembers(a)
    PROVE  Inductive'
  <1>1. UNCHANGED <<total, failed, pc, req, sent, answers>>
    BY DEF ChangeStatus, ChangeEnabled, ChangeMembers, usage, ghosts
  <1>2. edits' \in 0 .. Edits
    BY BoundAssumption DEF ChangeStatus, ChangeEnabled, ChangeMembers, Edit, Inductive, TypeOK
  <1>3. /\ status' \in [Account -> {"running", "stopped", "absent"}]
        /\ enabled' \in [Account -> BOOLEAN] /\ members' \subseteq Account
    BY DEF ChangeStatus, ChangeEnabled, ChangeMembers, Inductive, TypeOK
  <1> QED
    BY <1>1, <1>2, <1>3 DEF Inductive, TypeOK, RequestOK, Tries, KeepsToPool

LEMMA InductiveStep == Inductive /\ [Next]_vars => Inductive'
  <1> SUFFICES ASSUME Inductive, [Next]_vars PROVE Inductive'
    OBVIOUS
  <1>1. CASE UNCHANGED vars
    BY <1>1 DEF vars, console, usage, ghosts, Inductive, TypeOK, RequestOK, Tries, KeepsToPool
  <1>2. ASSUME NEW r \in Req, Handle(r) PROVE Inductive'
    BY <1>2, Chooses, Attempts, Sends, Retries, Answers DEF Handle
  <1>3. ASSUME NEW r \in Req, AuthPool(r) \/ Reject(r) \/ \E a \in Account : AuthAccount(r, a)
        PROVE  Inductive'
    BY <1>3, Authenticates
  <1>4. ASSUME NEW a \in Account,
               \/ \E s \in {"running", "stopped"} : ChangeStatus(a, s)
               \/ ChangeEnabled(a) \/ ChangeMembers(a)
        PROVE  Inductive'
    BY <1>4, ConsoleChanges
  <1> QED BY <1>1, <1>2, <1>3, <1>4 DEF Next

LEMMA InductiveImplies == Inductive => TypeOK /\ OneAnswer /\ NoAccountTwice /\ BodiesClosed
  BY DEF Inductive, RequestOK, Tries, OneAnswer, NoAccountTwice, BodiesClosed

-----------------------------------------------------------------------------
(***************************************************************************)
(* Records and exchanges.  The requests that a has been sent, or is about  *)
(* to be, are those that have a record of it that is no failure.           *)
(***************************************************************************)

Sending(r, a) == pc[r] = "send" /\ req[r].account = a
Recorded(a) == {r \in Req : sent[r][a] > 0 \/ Sending(r, a)}
EachHasRecord == \A a \in Account : total[a] - failed[a] = Cardinality(Recorded(a))

\* What holds of the empty set, and of a set as soon as it holds of the set
\* without one of its elements, holds of every finite set.
LEMMA FiniteInduction ==
    ASSUME NEW S, IsFiniteSet(S), NEW Good \in SUBSET SUBSET S,
           {} \in Good,
           \A s \in SUBSET S : s # {} => \E x \in s : s \ {x} \in Good => s \in Good
    PROVE  Good = SUBSET S
  <1> DEFINE Bad == (SUBSET S) \ Good
             Order == StrictSubsetOrdering(S)
  <1>1. SUFFICES ASSUME Bad # {} PROVE FALSE
    OBVIOUS
  <1>2. PICK s \in Bad : \A t \in Bad : ~ (<<t, s>> \in Order)
    <2>1. IsWellFoundedOn(Order, SUBSET S)
      BY FS_StrictSubsetOrderingWellFounded, FS_FiniteSubsetsOfFinite
    <2>2. Bad \subseteq SUBSET S
      OBVIOUS
    <2> HIDE DEF Order, Bad
    <2> QED BY <1>1, <2>1, <2>2, WFMin
  <1>3. PICK x \in s : s \ {x} \in Good => s \in Good
    <2>1. s \in SUBSET S /\ s \notin Good
      OBVIOUS
    <2>2. s # {}
      BY <2>1
    <2> QED BY <2>1, <2>2
  <1>4. <<s \ {x}, s>> \in Order
    BY <1>3 DEF StrictSubsetOrdering
  <1>5. s \ {x} \notin Bad
    BY <1>2, <1>4
  <1> QED BY <1>3, <1>5

\* No account having been sent a request twice, the sum of what a was sent is
\* how many requests it was sent.
LEMMA SentToCounts ==
    ASSUME NEW a \in Account, TypeOK, NoAccountTwice
    PROVE  SentTo(a) = Cardinality({r \in Req : sent[r][a] > 0})
  <1> DEFINE Some(s) == CHOOSE x \in s : TRUE
             Iter(s, g) == IF s = {} THEN 0 ELSE sent[Some(s)][a] + g[s \ {Some(s)}]
             sum == CHOOSE g : g = [s \in SUBSET Req |-> Iter(s, g)]
             Had(s) == {r \in s : sent[r][a] > 0}
             G == [s \in SUBSET Req |-> Cardinality(Had(s))]
  <1>1. SentTo(a) = sum[Req]
    BY DEF SentTo, MapThenSumSet, MapThenFoldSet
  <1>2. \A s : s # {} => Some(s) \in s
    OBVIOUS
  <1> HIDE DEF Some
  <1>3. ASSUME NEW s \in SUBSET Req, NEW x \in s
        PROVE  Cardinality(Had(s)) = sent[x][a] + Cardinality(Had(s \ {x}))
    <2>1. sent[x][a] \in Nat /\ sent[x][a] <= 1
      BY DEF TypeOK, NoAccountTwice
    <2>2. IsFiniteSet(Had(s)) /\ Cardinality(Had(s)) \in Nat
      BY ReqAssumption, FS_Subset, FS_CardinalityType
    <2>3. Had(s \ {x}) = Had(s) \ {x}
      OBVIOUS
    <2>4. x \in Had(s) <=> sent[x][a] = 1
      BY <2>1
    <2> HIDE DEF Had
    <2> DEFINE n == Cardinality(Had(s))
               m == Cardinality(Had(s \ {x}))
    <2>5. m = IF x \in Had(s) THEN n - 1 ELSE n
      BY <2>2, <2>3, FS_RemoveElement
    <2> HIDE DEF n, m
    <2>6. n \in Nat
      BY <2>2 DEF n
    <2>7. n = sent[x][a] + m
      BY <2>1, <2>4, <2>5, <2>6
    <2> QED BY <2>7 DEF n, m
  <1>4. Cardinality(Had({})) = 0
    BY FS_EmptySet
  <1> HIDE DEF Had
  <1>5. G = [s \in SUBSET Req |-> Iter(s, G)]
    <2> SUFFICES ASSUME NEW s \in SUBSET Req PROVE G[s] = Iter(s, G)
      OBVIOUS
    <2>1. CASE s = {}
      BY <2>1, <1>4
    <2>2. CASE s # {}
      BY <2>2, <1>2, <1>3
    <2> QED BY <2>1, <2>2
  <1>6. sum = [s \in SUBSET Req |-> Iter(s, sum)]
    <2> HIDE DEF G, Iter
    <2> QED BY <1>5
  <1> DEFINE Good == {s \in SUBSET Req : sum[s] = G[s]}
  <1> HIDE DEF sum, G
  <1>7. {} \in Good
    BY <1>5, <1>6
  <1>8. ASSUME NEW s \in SUBSET Req, s # {}
        PROVE  \E x \in s : s \ {x} \in Good => s \in Good
    <2>1. Some(s) \in s /\ s \ {Some(s)} \in SUBSET Req
      BY <1>2, <1>8
    <2>2. sum[s] = sent[Some(s)][a] + sum[s \ {Some(s)}] /\ G[s] = sent[Some(s)][a] + G[s \ {Some(s)}]
      BY <1>5, <1>6, <1>8, <2>1
    <2> QED BY <2>1, <2>2
  <1>9. Good = SUBSET Req
    <2>1. Good \in SUBSET SUBSET Req
      OBVIOUS
    <2> HIDE DEF Good
    <2> QED BY <1>7, <1>8, <2>1, ReqAssumption, FiniteInduction
  <1> QED BY <1>1, <1>9 DEF G, Had

\* A step that sends nothing unrecorded, and records nothing but failures.
LEMMA SameRecords ==
    ASSUME EachHasRecord,
           \A r \in Req, a \in Account :
               (sent'[r][a] > 0 \/ Sending(r, a)') <=> (sent[r][a] > 0 \/ Sending(r, a)),
           \A a \in Account : total'[a] - failed'[a] = total[a] - failed[a]
    PROVE  EachHasRecord'
  <1> SUFFICES ASSUME NEW a \in Account
               PROVE  total'[a] - failed'[a] = Cardinality(Recorded(a)')
    BY DEF EachHasRecord
  <1>1. Recorded(a)' = Recorded(a)
    BY DEF Recorded
  <1> QED BY <1>1 DEF EachHasRecord

\* A step of r between two stages that are not its sending.
LEMMA NotSending ==
    ASSUME EachHasRecord, Inductive, NEW r \in Req, pc[r] # "send",
           NEW label, label # "send", Goto(r, label),
           \A q \in Req \ {r} : req'[q] = req[q],
           UNCHANGED sent,
           \A a \in Account : total'[a] - failed'[a] = total[a] - failed[a]
    PROVE  EachHasRecord'
  <1>1. pc'[r] = label /\ \A q \in Req \ {r} : pc'[q] = pc[q]
    BY DEF Goto, Inductive, TypeOK
  <1>2. ASSUME NEW q \in Req, NEW a \in Account PROVE Sending(q, a)' <=> Sending(q, a)
    BY <1>1 DEF Sending
  <1> QED BY <1>2, SameRecords

LEMMA FailureIsExtra ==
    ASSUME Inductive, NEW b \in Account, Record(b, TRUE)
    PROVE  \A a \in Account : total'[a] - failed'[a] = total[a] - failed[a]
  <1>1. total \in [Account -> Nat] /\ failed \in [Account -> Nat]
    BY DEF Inductive, TypeOK
  <1>2. total' = [total EXCEPT ![b] = @ + 1] /\ failed' = [failed EXCEPT ![b] = @ + 1]
    BY DEF Record
  <1> QED BY <1>1, <1>2

\* The account of a request that is tried, which it was not sent before.
LEMMA AccountTried ==
    ASSUME Inductive, NEW r \in Req, pc[r] \in {"record", "send", "failed", "answered"}
    PROVE  /\ req[r].account \in Account
           /\ pc[r] \in {"record", "send"} => ~(sent[r][req[r].account] > 0)
  <1>1. RequestOK(r)
    BY DEF Inductive
  <1> QED BY <1>1 DEF RequestOK, Tries, Chosen, Exchanged

LEMMA AttemptIsRecorded ==
    ASSUME EachHasRecord, Inductive, NEW r \in Req, RecordAttempt(r)
    PROVE  EachHasRecord'
  <1> DEFINE b == req[r].account
  <1>1. /\ pc[r] = "record" /\ b \in Account /\ ~(sent[r][b] > 0)
        /\ total' = [total EXCEPT ![b] = @ + 1] /\ failed' = [failed EXCEPT ![b] = @ + 0]
        /\ pc' = [pc EXCEPT ![r] = "send"] /\ UNCHANGED <<req, sent>>
    BY AccountTried DEF RecordAttempt, Record, Goto, ghosts
  <1>2. /\ total \in [Account -> Nat] /\ failed \in [Account -> Nat] /\ pc \in [Req -> ReqPC]
    BY DEF Inductive, TypeOK
  <1> SUFFICES ASSUME NEW a \in Account
               PROVE  total'[a] - failed'[a] = Cardinality(Recorded(a)')
    BY DEF EachHasRecord
  <1>3. ASSUME NEW q \in Req PROVE Sending(q, a)' <=> Sending(q, a) \/ (q = r /\ a = b)
    BY <1>1, <1>2 DEF Sending
  <1>4. IsFiniteSet(Recorded(a)) /\ Cardinality(Recorded(a)) \in Nat
    BY ReqAssumption, FS_Subset, FS_CardinalityType DEF Recorded
  <1>5. total[a] - failed[a] = Cardinality(Recorded(a))
    BY DEF EachHasRecord
  <1>6. CASE a = b
    <2>1. Recorded(a)' = Recorded(a) \cup {r} /\ r \notin Recorded(a)
      BY <1>1, <1>3, <1>6 DEF Recorded, Sending
    <2>2. Cardinality(Recorded(a)') = Cardinality(Recorded(a)) + 1
      BY <1>4, <2>1, FS_AddElement
    <2> QED BY <1>1, <1>2, <1>4, <1>5, <1>6, <2>2
  <1>7. CASE a # b
    <2>1. Recorded(a)' = Recorded(a)
      BY <1>1, <1>3, <1>7 DEF Recorded
    <2>2. total'[a] = total[a] /\ failed'[a] = failed[a]
      BY <1>1, <1>2, <1>7
    <2> QED BY <1>5, <2>1, <2>2
  <1> QED BY <1>6, <1>7

LEMMA SendsRecorded ==
    ASSUME EachHasRecord, Inductive, NEW r \in Req, Send(r)
    PROVE  EachHasRecord'
  <1> DEFINE b == req[r].account
  <1>1. /\ pc[r] = "send" /\ b \in Account /\ UNCHANGED <<req, total, failed>>
        /\ sent' = [sent EXCEPT ![r][b] = @ + 1] /\ pc' = [pc EXCEPT ![r] = "waiting"]
    BY AccountTried DEF Send, Goto, usage
  <1>2. sent \in [Req -> [Account -> Nat]] /\ pc \in [Req -> ReqPC]
    BY DEF Inductive, TypeOK
  <1>3. ASSUME NEW q \in Req, NEW a \in Account
        PROVE  (sent'[q][a] > 0 \/ Sending(q, a)') <=> (sent[q][a] > 0 \/ Sending(q, a))
    <2>1. CASE q = r /\ a = b
      BY <1>1, <1>2, <2>1 DEF Sending
    <2>2. CASE ~(q = r /\ a = b)
      BY <1>1, <1>2, <2>2 DEF Sending
    <2> QED BY <2>1, <2>2
  <1> QED BY <1>1, <1>3, SameRecords

LEMMA RecordsStep ==
    ASSUME EachHasRecord, Inductive, [Next]_vars
    PROVE  EachHasRecord'
  <1>1. CASE UNCHANGED vars
    BY <1>1, SameRecords DEF vars, usage, ghosts, Sending
  <1>2. ASSUME NEW a \in Account,
               \/ \E s \in {"running", "stopped"} : ChangeStatus(a, s)
               \/ ChangeEnabled(a) \/ ChangeMembers(a)
        PROVE  EachHasRecord'
    BY <1>2, SameRecords DEF ChangeStatus, ChangeEnabled, ChangeMembers, usage, ghosts, Sending
  <1>3. ASSUME NEW r \in Req,
               \/ AuthPool(r) \/ Reject(r) \/ \E a \in Account : AuthAccount(r, a)
               \/ ListCandidates(r) \/ Pick(r) \/ PickNone(r) \/ GetState(r) \/ NoState(r)
               \/ WithinLimit(r) \/ OverLimit(r) \/ UpstreamFails(r)
               \/ \E code \in Codes : UpstreamAnswers(r, code)
               \/ Forward(r)
        PROVE  EachHasRecord'
    <2>1. pc[r] # "send" /\ UNCHANGED <<total, failed, sent>>
      BY <1>3 DEF AuthPool, Reject, AuthAccount, ListCandidates, Pick, PickNone, GetState, NoState,
              WithinLimit, OverLimit, UpstreamFails, UpstreamAnswers, Forward, usage, ghosts
    <2>2. PICK label : label # "send" /\ Goto(r, label)
      BY <1>3 DEF AuthPool, Reject, AuthAccount, ListCandidates, Pick, PickNone, GetState, NoState,
              WithinLimit, OverLimit, OverLimitNext, UpstreamFails, UpstreamAnswers, Forward,
              Continue
    <2>3. \A q \in Req \ {r} : req'[q] = req[q]
      <3>1. req \in [Req -> ReqRecord]
        BY DEF Inductive, TypeOK, ReqRecord
      <3> QED
        BY <1>3, <3>1 DEF AuthPool, Reject, AuthAccount, ListCandidates, Pick, PickNone, GetState,
              NoState, WithinLimit, OverLimit, UpstreamFails, UpstreamAnswers, Forward, Continue
    <2> QED BY <2>1, <2>2, <2>3, NotSending
  <1>4. ASSUME NEW r \in Req, RetryAfterError(r) \/ RetryAfterStatus(r) \/ GiveUp(r)
        PROVE  EachHasRecord'
    <2>1. /\ pc[r] \in {"failed", "answered"} /\ Record(req[r].account, TRUE) /\ UNCHANGED sent
      BY <1>4 DEF RetryAfterError, RetryAfterStatus, Retry, GiveUp, ghosts
    <2>2. req[r].account \in Account
      BY <2>1, AccountTried
    <2>3. PICK label : label # "send" /\ Goto(r, label)
      BY <1>4 DEF RetryAfterError, RetryAfterStatus, Retry, GiveUp, Continue
    <2>4. \A q \in Req \ {r} : req'[q] = req[q]
      <3>1. req \in [Req -> ReqRecord]
        BY DEF Inductive, TypeOK, ReqRecord
      <3> QED
        BY <1>4, <3>1 DEF RetryAfterError, RetryAfterStatus, Retry, GiveUp, Continue
    <2>5. \A a \in Account : total'[a] - failed'[a] = total[a] - failed[a]
      BY <2>1, <2>2, FailureIsExtra
    <2> QED BY <2>1, <2>3, <2>4, <2>5, NotSending
  <1> QED
    BY <1>1, <1>2, <1>3, <1>4, AttemptIsRecorded, SendsRecorded DEF Next, Handle

LEMMA RecordsInit == Init => EachHasRecord
  <1> SUFFICES ASSUME Init, NEW a \in Account PROVE total[a] - failed[a] = Cardinality(Recorded(a))
    BY DEF EachHasRecord
  <1>1. Recorded(a) = {}
    BY DEF Init, Recorded, Sending
  <1>2. total[a] = 0 /\ failed[a] = 0
    BY DEF Init
  <1> QED BY <1>1, <1>2, FS_EmptySet

LEMMA RecordsImply == Inductive /\ EachHasRecord => ExchangesAreRecorded
  <1> SUFFICES ASSUME Inductive, EachHasRecord, NEW a \in Account
               PROVE  total[a] - failed[a] =
                        SentTo(a) + Cardinality({r \in Req : pc[r] = "send" /\ req[r].account = a})
    BY DEF ExchangesAreRecorded
  <1> DEFINE Had == {r \in Req : sent[r][a] > 0}
             Has == {r \in Req : pc[r] = "send" /\ req[r].account = a}
  <1>1. SentTo(a) = Cardinality(Had)
    BY SentToCounts, InductiveImplies
  <1>2. Recorded(a) = Had \cup Has /\ Had \cap Has = {}
    <2>1. ASSUME NEW r \in Has PROVE r \notin Had
      BY AccountTried
    <2> QED BY <2>1 DEF Recorded, Sending
  <1>3. /\ IsFiniteSet(Had) /\ IsFiniteSet(Has)
        /\ Cardinality(Had) \in Nat /\ Cardinality(Has) \in Nat
    BY ReqAssumption, FS_Subset, FS_CardinalityType
  <1> HIDE DEF Had, Has
  <1>4. Cardinality(Recorded(a)) = Cardinality(Had) + Cardinality(Has)
    <2>1. Cardinality(Had \cup Has) = Cardinality(Had) + Cardinality(Has) - Cardinality(Had \cap Has)
      BY <1>3, FS_Union
    <2>2. Cardinality(Had \cap Has) = 0
      BY <1>2, FS_EmptySet
    <2> QED BY <1>2, <1>3, <2>1, <2>2
  <1>5. total[a] - failed[a] = SentTo(a) + Cardinality(Has)
    BY <1>1, <1>4 DEF EachHasRecord
  <1> QED BY <1>5 DEF Has
-----------------------------------------------------------------------------
(* Theorems *)

\* Type correctness; no request passes its last attempt.
THEOREM TypeCorrect == Spec => []TypeOK
  BY InductiveInit, InductiveStep, InductiveImplies, PTL DEF Spec

\* The client gets one response, when the handler is done.
THEOREM ClientGetsOneAnswer == Spec => []OneAnswer
  BY InductiveInit, InductiveStep, InductiveImplies, PTL DEF Spec

\* A retry never goes back to an account that has failed the request.
THEOREM NoAccountIsTriedTwice == Spec => []NoAccountTwice
  BY InductiveInit, InductiveStep, InductiveImplies, PTL DEF Spec

\* No response body is left open.
THEOREM NoBodyIsLeftOpen == Spec => []BodiesClosed
  BY InductiveInit, InductiveStep, InductiveImplies, PTL DEF Spec

\* Every exchange has a usage record of its own, and the other records are
\* failures (proxy.go:195, :202, :215).
THEOREM EveryExchangeIsRecorded == Spec => []ExchangesAreRecorded
  <1>1. Init => Inductive /\ EachHasRecord
    BY InductiveInit, RecordsInit
  <1>2. Inductive /\ EachHasRecord /\ [Next]_vars => (Inductive /\ EachHasRecord)'
    BY InductiveStep, RecordsStep
  <1> QED BY <1>1, <1>2, RecordsImply, PTL DEF Spec

\* A pool's key reaches no account outside the pool, unless the pool was empty.
THEOREM RequestsStayInTheirPool == Spec => PoolKeepsToItsAccounts
  <1>1. ASSUME Inductive, [Next]_vars
        PROVE  [\A r \in Req, a \in Account :
                  (sent'[r][a] > sent[r][a] /\ req[r].pool /\ req[r].ids # {})
                      => a \in req[r].ids]_vars
    <2> SUFFICES ASSUME NEW r \in Req, NEW a \in Account,
                        sent'[r][a] > sent[r][a], req[r].pool, req[r].ids # {}
                 PROVE  a \in req[r].ids
      OBVIOUS
    <2>1. sent[r][a] \in Nat /\ sent \in [Req -> [Account -> Nat]]
      BY <1>1 DEF Inductive, TypeOK
    <2>2. sent' # sent
      BY <2>1
    <2>3. PICK q \in Req : Send(q)
      BY <1>1, <2>2 DEF Next, Handle, AuthPool, Reject, AuthAccount, ListCandidates, Pick, PickNone,
              GetState, NoState, WithinLimit, OverLimit, RecordAttempt, UpstreamFails,
              UpstreamAnswers, RetryAfterError, GiveUp, RetryAfterStatus, Retry, Forward,
              ChangeStatus, ChangeEnabled, ChangeMembers, vars, ghosts
    <2>4. q = r /\ a = req[r].account /\ pc[r] = "send"
      BY <2>1, <2>3 DEF Send
    <2> QED
      BY <1>1, <2>4 DEF Inductive, RequestOK, KeepsToPool, Chosen
  <1> QED
    BY <1>1, InductiveInit, InductiveStep, PTL DEF Spec, PoolKeepsToItsAccounts
-----------------------------------------------------------------------------
(* Conversation: the names of models *)

\* A set of natural numbers that is not empty has its minimum.
LEMMA FirstIsMin == ASSUME NEW I \in SUBSET Nat, I # {} PROVE Min(I) \in I
  <1>1. PICK m \in I : \A k \in I : ~ (<<k, m>> \in OpToRel(<, Nat))
    BY NatLessThanWellFounded, WFMin
  <1>2. \A k \in I : ~ (k < m)
    BY <1>1 DEF OpToRel
  <1>3. \A k \in I : m <= k
    BY <1>2
  <1> QED BY <1>3 DEF Min

\* The pair that is found has the value, or none has it.
LEMMA FirstPairFits ==
    ASSUME NEW m, NEW f, NEW v, NEW d
    PROVE  \/ /\ FirstPair(m, f, v, d) = d
              /\ \A i \in 1 .. Len(m) : m[i][f] # v
           \/ \E i \in 1 .. Len(m) : m[i][f] = v /\ FirstPair(m, f, v, d) = m[i]
  <1> DEFINE I == {i \in 1 .. Len(m) : m[i][f] = v}
  <1>1. FirstPair(m, f, v, d) = IF (IF I # {} THEN Min(I) ELSE 0) = 0 THEN d
                                ELSE m[IF I # {} THEN Min(I) ELSE 0]
    BY DEF FirstPair, SelectInSeq
  <1>2. CASE I = {}
    BY <1>1, <1>2
  <1>3. CASE I # {}
    <2>1. I \in SUBSET Nat /\ 0 \notin I
      OBVIOUS
    <2>2. Min(I) \in I
      BY <1>3, <2>1, FirstIsMin
    <2> QED BY <1>1, <1>3, <2>1, <2>2
  <1> QED BY <1>2, <1>3

\* The model whose limit is given has the name, or the one that the map gives it.
LEMMA LimitModelFits ==
    ASSUME NEW m, NEW models, NEW name, NEW none
    PROVE  \/ LimitModel(m, models, name, none) = none
           \/ \E i \in 1 .. Len(models) :
                /\ LimitModel(m, models, name, none) = models[i]
                /\ models[i] \in {name, ToCopilotID(m, name)}
  <1> DEFINE I == {i \in 1 .. Len(models) : models[i] \in {name, ToCopilotID(m, name)}}
  <1>1. LimitModel(m, models, name, none) = IF (IF I # {} THEN Min(I) ELSE 0) = 0 THEN none
                                            ELSE models[IF I # {} THEN Min(I) ELSE 0]
    BY DEF LimitModel, SelectInSeq
  <1>2. CASE I = {}
    BY <1>1, <1>2
  <1>3. CASE I # {}
    <2>1. I \in SUBSET Nat /\ 0 \notin I
      OBVIOUS
    <2>2. Min(I) \in I
      BY <1>3, <2>1, FirstIsMin
    <2> QED BY <1>1, <1>3, <2>1, <2>2
  <1> QED BY <1>2, <1>3

\* The name a model is shown under: that of a pair of the model, or its own.
LEMMA DisplayIs ==
    ASSUME NEW m, NEW c
    PROVE  \/ ToDisplayID(m, c) = c /\ \A i \in 1 .. Len(m) : m[i].copilot # c
           \/ \E i \in 1 .. Len(m) : m[i].copilot = c /\ ToDisplayID(m, c) = m[i].display
  BY FirstPairFits DEF ToDisplayID

LEMMA ModelIs ==
    ASSUME NEW m, NEW d
    PROVE  \/ ToCopilotID(m, d) = d /\ \A i \in 1 .. Len(m) : m[i].display # d
           \/ \E i \in 1 .. Len(m) : m[i].display = d /\ ToCopilotID(m, d) = m[i].copilot
  BY FirstPairFits DEF ToCopilotID

LEMMA ModelsListed ==
    /\ \A c \in Models : Undated(c) = c
    /\ \A i \in 1 .. Len(ModelList) : ModelList[i] \in Models
  <1>1. DOMAIN ModelList = 1 .. Len(ModelList)
    BY ConstantsAssumption
  <1> QED BY <1>1, ConstantsAssumption DEF Models, ToSet

\* A sound map leads back from the name a model is shown under to the model.
LEMMA SoundMapLeadsBack ==
    ASSUME MapIsSound, NEW c \in Models
    PROVE  LET name == ToDisplayID(map, c)
           IN /\ ToCopilotID(map, name) = c
              /\ ToCopilotID(map, Undated(name)) = c
              /\ \A d \in Models : d \in {name, c} => d = c
  <1> DEFINE name == ToDisplayID(map, c)
  <1>1. \A i \in 1 .. Len(map) :
          /\ map[i].display \in Models => map[i].display = map[i].copilot
          /\ Undated(map[i].display) \in {map[i].display, map[i].copilot}
          /\ \A j \in 1 .. Len(map) :
               map[i].copilot = map[j].copilot \/ map[i].display = map[j].display => i = j
    BY DEF MapIsSound
  <1>2. ToCopilotID(map, c) = c
    BY <1>1, ModelIs
  <1>3. CASE name = c
    BY <1>2, <1>3, ModelsListed
  <1>4. CASE name # c
    <2> PICK i \in 1 .. Len(map) : map[i].copilot = c /\ name = map[i].display
      BY <1>4, DisplayIs
    <2> HIDE DEF name
    <2>1. ToCopilotID(map, name) = c
      BY <1>1, ModelIs
    <2>2. Undated(name) \in {name, c}
      BY <1>1
    <2>3. name \in Models => name = c
      BY <1>1
    <2> QED BY <1>2, <2>1, <2>2, <2>3 DEF name
  <1> QED BY <1>3, <1>4

\* A model picked is known by the name the map shows it under as long as it is
\* picked, and what was asked is what the map makes of that name.
NamesKept ==
    /\ picked # Nothing =>
         /\ picked.model \in Models
         /\ picked.name = ToDisplayID(map, picked.model)
    /\ asked # Nothing =>
         /\ picked # Nothing
         /\ asked.model \in {MessagesModel(map, picked.name), CompletionsModel(map, picked.name)}
         /\ asked.limit \in {Nothing, LimitModel(map, ModelList, picked.name, Nothing)}

LEMMA NamesInit == ConversationInit => NamesKept
  BY DEF ConversationInit, NamesKept

LEMMA NamesStep ==
    ASSUME NamesKept, [ConversationNext]_conversationVars
    PROVE  NamesKept'
  <1>1. CASE UNCHANGED <<map, picked, asked>>
    BY <1>1 DEF NamesKept
  <1>2. CASE SetModelMappings \/ AddModelMapping \/ DeleteModelMapping
    <2>1. picked' = Nothing /\ asked' = Nothing
      BY <1>2 DEF SetModelMappings, AddModelMapping, DeleteModelMapping, Between, NamesKept
    <2> QED BY <2>1 DEF NamesKept
  <1>3. CASE PickModel
    <2> PICK c \in Models : picked' = [model |-> c, name |-> ToDisplayID(map, c)]
      BY <1>3 DEF PickModel
    <2>1. map' = map /\ asked' = Nothing
      BY <1>3 DEF PickModel, Between, NamesKept
    <2> QED BY <2>1 DEF NamesKept
  <1>4. CASE Ask
    <2>1. /\ picked # Nothing /\ picked' = picked /\ map' = map
          /\ asked'.model = MessagesModel(map, picked.name) /\ asked'.limit = Nothing
      BY <1>4 DEF Ask, ClientsTurn
    <2> QED BY <2>1 DEF NamesKept
  <1>5. CASE AskCompletions \/ AskEmbeddings
    <2>1. /\ picked # Nothing /\ picked' = picked /\ map' = map
          /\ asked'.model = CompletionsModel(map, picked.name)
          /\ asked'.limit \in {Nothing, LimitModel(map, ModelList, picked.name, Nothing)}
      BY <1>5 DEF AskCompletions, AskEmbeddings, ClientsTurn
    <2> QED BY <2>1 DEF NamesKept
  <1>6. CASE Answer
    BY <1>1, <1>6 DEF Answer
  <1> QED BY <1>1, <1>2, <1>3, <1>4, <1>5, <1>6 DEF ConversationNext, conversationVars

LEMMA NamesImply == NamesKept => ServedAsListed
  <1> SUFFICES ASSUME NamesKept, asked # Nothing, MapIsSound
               PROVE  asked.model = picked.model /\ asked.limit \in {picked.model, Nothing}
    BY DEF ServedAsListed
  <1> PICK c \in Models : c = picked.model
    BY DEF NamesKept
  <1> PICK name : name = ToDisplayID(map, c)
    OBVIOUS
  <1>1. picked.name = name
    BY DEF NamesKept
  <1>2. /\ ToCopilotID(map, name) = c
        /\ ToCopilotID(map, Undated(name)) = c
        /\ \A d \in Models : d \in {name, c} => d = c
    BY SoundMapLeadsBack
  <1>3. asked.model = c
    BY <1>1, <1>2 DEF NamesKept, MessagesModel, CompletionsModel
  <1>4. LimitModel(map, ModelList, name, Nothing) \in {c, Nothing}
    BY <1>2, LimitModelFits, ModelsListed
  <1> QED BY <1>1, <1>3, <1>4 DEF NamesKept

\* A client is served by the model it picked from the list, through either API, as
\* long as the map is sound.
THEOREM ModelPickedServes == ConversationSpec => []ServedAsListed
  <1>1. ConversationInit => NamesKept
    BY NamesInit
  <1>2. NamesKept /\ [ConversationNext]_conversationVars => NamesKept'
    BY NamesStep
  <1>3. NamesKept => ServedAsListed
    BY NamesImply
  <1> QED BY <1>1, <1>2, <1>3, PTL DEF ConversationSpec

-----------------------------------------------------------------------------
(* Conversation: sequences flattened, and functions mapped over sequences *)

\* Induction over the natural numbers, the property being a set of them.
LEMMA NatInduct ==
    ASSUME NEW P \in SUBSET Nat, 0 \in P, \A n \in P : n + 1 \in P
    PROVE  Nat \subseteq P
  <1>1. SUFFICES ASSUME Nat \ P # {} PROVE FALSE
    OBVIOUS
  <1>2. PICK m \in Nat \ P : \A k \in Nat \ P : ~ (<<k, m>> \in OpToRel(<, Nat))
    BY <1>1, WFMin, NatLessThanWellFounded
  <1>3. m # 0
    BY <1>2
  <1>4. m - 1 \in Nat /\ m - 1 < m /\ m = (m - 1) + 1
    <2>1. m \in Nat
      BY <1>2
    <2> QED
      BY <2>1, <1>3
  <1>5. m - 1 \notin P
    BY <1>2, <1>4
  <1>6. <<m - 1, m>> \in OpToRel(<, Nat)
    BY <1>2, <1>4 DEF OpToRel
  <1> QED
    BY <1>2, <1>4, <1>5, <1>6

\* A function that flattens the first n of the sequences.
IsFlatten(f, seqs, n) ==
    f = [i \in 1 .. n |-> IF i = 1 THEN seqs[i] ELSE f[i - 1] \o seqs[i]]

\* FlattenSeq gives the last value of a function that flattens.
LEMMA FlattenIs ==
    ASSUME NEW seqs, Len(seqs) # 0
    PROVE  FlattenSeq(seqs) = (CHOOSE f : IsFlatten(f, seqs, Len(seqs)))[Len(seqs)]
  BY DEF FlattenSeq, IsFlatten

\* The flattening function exists for every prefix.
LEMMA FlattenExists ==
    ASSUME NEW S, NEW seqs \in Seq(Seq(S)), NEW n \in 0 .. Len(seqs)
    PROVE  \E f \in [1 .. n -> Seq(S)] : IsFlatten(f, seqs, n)
  <1> DEFINE P == {k \in Nat : k \in 0 .. Len(seqs) => \E f \in [1 .. k -> Seq(S)] : IsFlatten(f, seqs, k)}
  <1>1. P \in SUBSET Nat
    OBVIOUS
  <1>2. 0 \in P
    <2>1. [i \in 1 .. 0 |-> <<>>] \in [1 .. 0 -> Seq(S)]
      BY EmptySeq
    <2>2. IsFlatten([i \in 1 .. 0 |-> <<>>], seqs, 0)
      BY DEF IsFlatten
    <2> QED
      BY <2>1, <2>2
  <1>3. ASSUME NEW k \in P PROVE k + 1 \in P
    <2> SUFFICES ASSUME k + 1 \in 0 .. Len(seqs)
                 PROVE  \E f \in [1 .. k + 1 -> Seq(S)] : IsFlatten(f, seqs, k + 1)
      OBVIOUS
    <2>0. Len(seqs) \in Nat /\ k \in Nat /\ k \in 0 .. Len(seqs) /\ k + 1 \in 1 .. Len(seqs)
      BY LenProperties
    <2>1. PICK f \in [1 .. k -> Seq(S)] : IsFlatten(f, seqs, k)
      BY <2>0
    <2>2. \A i \in 1 .. k + 1 : seqs[i] \in Seq(S)
      BY <2>0, ElementOfSeq
    <2>3. \A i \in 1 .. k : f[i] = IF i = 1 THEN seqs[i] ELSE f[i - 1] \o seqs[i]
      BY <2>1 DEF IsFlatten
    <2> DEFINE last == IF k + 1 = 1 THEN seqs[k + 1] ELSE f[k] \o seqs[k + 1]
               g == [i \in 1 .. k + 1 |-> IF i = k + 1 THEN last ELSE f[i]]
    <2>4. last \in Seq(S)
      <3>1. CASE k = 0
        BY <3>1, <2>2
      <3>2. CASE k # 0
        <4>1. f[k] \in Seq(S) /\ seqs[k + 1] \in Seq(S)
          BY <3>2, <2>0, <2>1, <2>2
        <4> QED
          BY <4>1, <3>2, <2>0, ConcatProperties
      <3> QED
        BY <3>1, <3>2
    <2>5. g \in [1 .. k + 1 -> Seq(S)]
      BY <2>4, <2>1, <2>0
    <2>6. \A i \in 1 .. k + 1 : g[i] = IF i = 1 THEN seqs[i] ELSE g[i - 1] \o seqs[i]
      <3> SUFFICES ASSUME NEW i \in 1 .. k + 1
                   PROVE  g[i] = IF i = 1 THEN seqs[i] ELSE g[i - 1] \o seqs[i]
        OBVIOUS
      <3>1. CASE i = k + 1
        <4>1. g[i] = last
          BY <3>1
        <4>2. CASE k = 0
          BY <4>1, <4>2, <3>1
        <4>3. CASE k # 0
          <5>1. k \in 1 .. k + 1 /\ k # k + 1 /\ i - 1 = k
            BY <3>1, <4>3, <2>0
          <5>2. g[k] = f[k]
            BY <5>1
          <5> HIDE DEF g
          <5> QED
            BY <5>1, <5>2, <4>1, <3>1, <4>3, <2>0
        <4> QED
          BY <4>2, <4>3
      <3>2. CASE i # k + 1
        <4>1. i \in 1 .. k /\ g[i] = f[i]
          BY <3>2, <2>0
        <4>2. CASE i = 1
          BY <4>1, <4>2, <2>3
        <4>3. CASE i # 1
          <5>1. i - 1 \in 1 .. k + 1 /\ i - 1 # k + 1
            BY <4>1, <4>3, <2>0
          <5>2. g[i - 1] = f[i - 1]
            BY <5>1
          <5> HIDE DEF g
          <5> QED
            BY <5>2, <4>1, <4>3, <2>3
        <4> QED
          BY <4>2, <4>3
      <3> QED
        BY <3>1, <3>2
    <2>7. IsFlatten(g, seqs, k + 1)
      <3>1. g = [i \in 1 .. k + 1 |-> g[i]]
        OBVIOUS
      <3> HIDE DEF g
      <3> QED
        BY <3>1, <2>6 DEF IsFlatten
    <2> QED
      BY <2>5, <2>7
  <1> HIDE DEF P
  <1>4. Nat \subseteq P
    BY <1>1, <1>2, <1>3, NatInduct
  <1>5. n \in P
    BY <1>4, LenProperties
  <1> QED
    BY <1>5 DEF P

\* The two have the same first n values.
Agree(s, t, n) == \A i \in 1 .. n : s[i] = t[i]

\* Two flattening functions agree as far as both go.
LEMMA FlattenAgree ==
    ASSUME NEW s, NEW t, NEW m \in Nat, NEW n \in Nat, m <= n,
           NEW f, NEW g, IsFlatten(f, s, m), IsFlatten(g, t, n),
           Agree(s, t, m)
    PROVE  Agree(f, g, m)
  <1> DEFINE P == {k \in Nat : k \in 1 .. m => f[k] = g[k]}
  <1>1. P \in SUBSET Nat /\ 0 \in P
    OBVIOUS
  <1>2. /\ \A i \in 1 .. m : f[i] = IF i = 1 THEN s[i] ELSE f[i - 1] \o s[i]
        /\ \A i \in 1 .. n : g[i] = IF i = 1 THEN t[i] ELSE g[i - 1] \o t[i]
    BY DEF IsFlatten
  <1>3. ASSUME NEW k \in P PROVE k + 1 \in P
    <2> SUFFICES ASSUME k + 1 \in 1 .. m PROVE f[k + 1] = g[k + 1]
      OBVIOUS
    <2>1. k \in Nat /\ k + 1 \in 1 .. n /\ s[k + 1] = t[k + 1] /\ (k + 1) - 1 = k
      BY DEF Agree
    <2>2. CASE k = 0
      BY <2>1, <2>2, <1>2
    <2>3. CASE k # 0
      <3>1. k \in 1 .. m /\ k + 1 # 1
        BY <2>1, <2>3
      <3>2. f[k] = g[k]
        BY <3>1
      <3> QED
        BY <3>1, <3>2, <2>1, <1>2
    <2> QED
      BY <2>2, <2>3
  <1> HIDE DEF P
  <1>4. Nat \subseteq P
    BY <1>1, <1>3, NatInduct
  <1> QED
    BY <1>4 DEF P, Agree

\* What FlattenSeq takes the last value of.
LEMMA FlattenBy ==
    ASSUME NEW S, NEW seqs \in Seq(Seq(S)), seqs # <<>>
    PROVE  \E f \in [1 .. Len(seqs) -> Seq(S)] :
             IsFlatten(f, seqs, Len(seqs)) /\ FlattenSeq(seqs) = f[Len(seqs)]
  <1>1. Len(seqs) \in Nat \ {0}
    BY EmptySeq
  <1> DEFINE last == Len(seqs)
  <1>2. PICK f \in [1 .. last -> Seq(S)] : IsFlatten(f, seqs, last)
    <2> HIDE DEF last
    <2>1. last \in 0 .. Len(seqs)
      BY <1>1 DEF last
    <2> QED
      BY <2>1, FlattenExists
  <1> DEFINE g == CHOOSE h : IsFlatten(h, seqs, Len(seqs))
  <1>3. IsFlatten(g, seqs, Len(seqs))
    BY <1>2
  <1>4. FlattenSeq(seqs) = g[Len(seqs)]
    BY FlattenIs, <1>1
  <1> HIDE DEF g
  <1>5. f[Len(seqs)] = g[Len(seqs)]
    BY <1>1, <1>2, <1>3, FlattenAgree DEF Agree
  <1> QED
    BY <1>2, <1>4, <1>5

\* Nothing flattened.
LEMMA FlattenEmpty == FlattenSeq(<<>>) = <<>>
  BY DEF FlattenSeq

\* Flattened sequences of S are a sequence of S.
LEMMA FlattenType ==
    ASSUME NEW S, NEW seqs \in Seq(Seq(S))
    PROVE  FlattenSeq(seqs) \in Seq(S)
  <1>1. CASE seqs = <<>>
    BY <1>1, FlattenEmpty, EmptySeq
  <1>2. CASE seqs # <<>>
    <2>1. PICK f \in [1 .. Len(seqs) -> Seq(S)] : FlattenSeq(seqs) = f[Len(seqs)]
      BY <1>2, FlattenBy
    <2>2. Len(seqs) \in 1 .. Len(seqs)
      BY <1>2, EmptySeq
    <2> QED
      BY <2>1, <2>2
  <1> QED
    BY <1>1, <1>2

\* One more sequence is flattened by putting it at the end.
LEMMA FlattenAppend ==
    ASSUME NEW S, NEW seqs \in Seq(Seq(S)), NEW e \in Seq(S)
    PROVE  FlattenSeq(Append(seqs, e)) = FlattenSeq(seqs) \o e
  <1> DEFINE t == Append(seqs, e)
             n == Len(seqs)
  <1>1. /\ t \in Seq(Seq(S)) /\ t # <<>> /\ Len(t) = n + 1 /\ t[n + 1] = e
        /\ \A i \in 1 .. n : t[i] = seqs[i]
    BY AppendProperties
  <1>2. n \in Nat
    BY LenProperties
  <1> HIDE DEF t, n
  <1>3. PICK g \in [1 .. Len(t) -> Seq(S)] : IsFlatten(g, t, Len(t)) /\ FlattenSeq(t) = g[Len(t)]
    BY <1>1, FlattenBy
  <1>4. g[n + 1] = IF n = 0 THEN t[n + 1] ELSE g[n] \o t[n + 1]
    <2>1. n + 1 \in 1 .. n + 1 /\ IsFlatten(g, t, n + 1)
      BY <1>1, <1>2, <1>3
    <2>2. \A i \in 1 .. n + 1 : g[i] = IF i = 1 THEN t[i] ELSE g[i - 1] \o t[i]
      BY <2>1 DEF IsFlatten
    <2>3. PICK k \in 1 .. n + 1 : k = n + 1
      BY <1>2
    <2>4. g[k] = IF k = 1 THEN t[k] ELSE g[k - 1] \o t[k]
      BY <2>2
    <2>5. k - 1 = n /\ (k = 1 <=> n = 0)
      BY <1>2, <2>3
    <2> QED
      BY <2>3, <2>4, <2>5
  <1>5. CASE n = 0
    <2>1. seqs = <<>>
      BY <1>5, EmptySeq DEF n
    <2>2. <<>> \o e = e
      BY ConcatEmptySeq
    <2> QED
      BY <2>1, <2>2, <1>1, <1>3, <1>4, <1>5, FlattenEmpty DEF t
  <1>6. CASE n # 0
    <2>1. seqs # <<>>
      BY <1>6 DEF n
    <2>2. PICK f \in [1 .. n -> Seq(S)] : IsFlatten(f, seqs, n) /\ FlattenSeq(seqs) = f[n]
      BY <2>1, FlattenBy DEF n
    <2>3. Agree(f, g, n)
      <3>1. n + 1 \in Nat /\ n <= n + 1 /\ Agree(seqs, t, n)
        BY <1>1, <1>2 DEF Agree
      <3>2. IsFlatten(g, t, n + 1)
        BY <1>1, <1>3
      <3>3. IsFlatten(f, seqs, n)
        BY <2>2
      <3> HIDE <1>3, <2>2
      <3> QED
        BY <1>2, <3>1, <3>2, <3>3, FlattenAgree
    <2>4. f[n] = g[n]
      BY <2>3, <1>2, <1>6 DEF Agree
    <2>5. g[n + 1] = f[n] \o e
      BY <1>1, <1>4, <1>6, <2>4
    <2>6. FlattenSeq(t) = g[n + 1]
      BY <1>1, <1>3
    <2> QED
      BY <2>2, <2>5, <2>6 DEF t
  <1> QED
    BY <1>5, <1>6

\* Induction over sequences, the property being a set of them.
LEMMA SeqInduct ==
    ASSUME NEW A, NEW P \in SUBSET Seq(A), <<>> \in P,
           \A s \in P : \A e \in A : Append(s, e) \in P
    PROVE  Seq(A) \subseteq P
  <1> DEFINE N == {n \in Nat : \A s \in Seq(A) : Len(s) = n => s \in P}
  <1>1. N \in SUBSET Nat
    OBVIOUS
  <1>2. 0 \in N
    BY EmptySeq
  <1>3. ASSUME NEW n \in N PROVE n + 1 \in N
    <2> SUFFICES ASSUME NEW s \in Seq(A), Len(s) = n + 1 PROVE s \in P
      OBVIOUS
    <2>1. n \in Nat /\ s # <<>>
      BY EmptySeq
    <2>2. PICK t \in Seq(A), e \in A : s = Append(t, e)
      BY <2>1, SequenceEmptyOrAppend
    <2>3. Len(t) \in Nat /\ Len(s) = Len(t) + 1
      BY <2>2, AppendProperties, LenProperties
    <2>4. Len(t) = n
      BY <2>1, <2>3
    <2>5. t \in P
      BY <2>4
    <2> QED
      BY <2>2, <2>5
  <1>4. Nat \subseteq N
    <2> HIDE DEF N
    <2> QED
      BY <1>1, <1>2, <1>3, NatInduct
  <1>5. ASSUME NEW s \in Seq(A) PROVE s \in P
    <2>1. Len(s) \in N
      BY <1>4, LenProperties
    <2> QED
      BY <2>1
  <1> QED
    BY <1>5

\* The values of a function on a sequence, flattened.
Image(F, s) == [i \in DOMAIN s |-> F[s[i]]]
FlatMap(F, s) == FlattenSeq(Image(F, s))

\* The values are in the function's range, one for each.
LEMMA MapType ==
    ASSUME NEW A, NEW B, NEW F \in [A -> B], NEW s \in Seq(A)
    PROVE  Image(F, s) \in Seq(B) /\ Len(Image(F, s)) = Len(s)
  <1>1. Len(s) \in Nat /\ DOMAIN s = 1 .. Len(s) /\ \A i \in 1 .. Len(s) : s[i] \in A
    BY LenProperties, ElementOfSeq
  <1>2. [i \in DOMAIN s |-> F[s[i]]] \in [1 .. Len(s) -> B]
    BY <1>1
  <1> QED
    BY <1>1, <1>2 DEF Image

LEMMA MapLength ==
    ASSUME NEW A, NEW F, NEW s \in Seq(A)
    PROVE  Len(Image(F, s)) = Len(s)
  <1>1. Len(s) \in Nat /\ DOMAIN s = 1 .. Len(s)
    BY LenProperties
  <1> QED
    BY <1>1 DEF Image

LEMMA FlatMapType ==
    ASSUME NEW A, NEW S, NEW F \in [A -> Seq(S)], NEW s \in Seq(A)
    PROVE  FlatMap(F, s) \in Seq(S)
  BY MapType, FlattenType DEF FlatMap

LEMMA FlatMapEmpty == ASSUME NEW F PROVE FlatMap(F, <<>>) = <<>>
  <1>1. Image(F, <<>>) = <<>>
    BY DEF Image
  <1> QED
    BY <1>1, FlattenEmpty DEF FlatMap

\* One more at the end has its value at the end.
LEMMA MapAppend ==
    ASSUME NEW A, NEW B, NEW F \in [A -> B], NEW s \in Seq(A), NEW e \in A
    PROVE  Image(F, Append(s, e)) = Append(Image(F, s), F[e])
  <1> DEFINE t == Append(s, e)
             u == Image(F, s)
             v == Image(F, t)
             w == Append(u, F[e])
  <1>1. /\ t \in Seq(A) /\ Len(t) = Len(s) + 1 /\ t[Len(s) + 1] = e
        /\ \A i \in 1 .. Len(s) : t[i] = s[i]
    BY AppendProperties
  <1>2. Len(s) \in Nat /\ DOMAIN s = 1 .. Len(s) /\ DOMAIN t = 1 .. Len(s) + 1
    BY <1>1, LenProperties
  <1>3. u \in Seq(B) /\ Len(u) = Len(s) /\ v \in Seq(B) /\ Len(v) = Len(s) + 1
    <2>1. Image(F, s) \in Seq(B)
      BY MapType
    <2>2. t \in Seq(A) /\ Len(t) = Len(s) + 1
      BY <1>1
    <2> HIDE DEF t
    <2>3. Image(F, t) \in Seq(B)
      BY <2>2, MapType
    <2>4. Len(Image(F, t)) = Len(t) /\ Len(Image(F, s)) = Len(s)
      BY <2>2, MapLength
    <2> QED
      BY <2>1, <2>2, <2>3, <2>4
  <1>4. /\ w \in Seq(B) /\ Len(w) = Len(s) + 1 /\ w[Len(s) + 1] = F[e]
        /\ \A i \in 1 .. Len(s) : w[i] = u[i]
    BY <1>3, AppendProperties
  <1>5. ASSUME NEW i \in 1 .. Len(s) + 1 PROVE v[i] = w[i]
    <2>1. v[i] = F[t[i]]
      BY <1>2 DEF Image
    <2>2. CASE i = Len(s) + 1
      BY <2>1, <2>2, <1>1, <1>4
    <2>3. CASE i # Len(s) + 1
      <3>1. i \in 1 .. Len(s)
        BY <2>3, <1>2
      <3>2. u[i] = F[s[i]]
        BY <3>1, <1>2 DEF Image
      <3> HIDE DEF t, u, v, w
      <3> QED
        BY <2>1, <3>1, <3>2, <1>1, <1>4
    <2> QED
      BY <2>2, <2>3
  <1> HIDE DEF u, v, w, t
  <1>6. v = w
    BY <1>3, <1>4, <1>5, SeqEqual
  <1> QED
    BY <1>6 DEF u, v, w, t

LEMMA FlatMapAppend ==
    ASSUME NEW A, NEW S, NEW F \in [A -> Seq(S)], NEW s \in Seq(A), NEW e \in A
    PROVE  FlatMap(F, Append(s, e)) = FlatMap(F, s) \o F[e]
  <1>1. Image(F, s) \in Seq(Seq(S)) /\ F[e] \in Seq(S)
    BY MapType
  <1>2. Image(F, Append(s, e)) = Append(Image(F, s), F[e])
    BY MapAppend
  <1> QED
    BY <1>1, <1>2, FlattenAppend DEF FlatMap

\* What two sequences leave one after the other is what their concatenation leaves.
LEMMA FlatMapConcat ==
    ASSUME NEW A, NEW S, NEW F \in [A -> Seq(S)], NEW s \in Seq(A), NEW t \in Seq(A)
    PROVE  FlatMap(F, s \o t) = FlatMap(F, s) \o FlatMap(F, t)
  <1> DEFINE P == {u \in Seq(A) : FlatMap(F, s \o u) = FlatMap(F, s) \o FlatMap(F, u)}
  <1>1. P \in SUBSET Seq(A)
    OBVIOUS
  <1>2. <<>> \in P
    <2>1. s \o <<>> = s /\ FlatMap(F, s) \o <<>> = FlatMap(F, s)
      BY ConcatEmptySeq, FlatMapType
    <2> QED
      BY <2>1, FlatMapEmpty, EmptySeq
  <1>3. ASSUME NEW u \in P, NEW e \in A PROVE Append(u, e) \in P
    <2>1. u \in Seq(A) /\ FlatMap(F, s \o u) = FlatMap(F, s) \o FlatMap(F, u)
      OBVIOUS
    <2> HIDE DEF P
    <2>2. s \o u \in Seq(A) /\ Append(u, e) \in Seq(A)
      BY <2>1, ConcatProperties, AppendProperties
    <2>3. s \o Append(u, e) = Append(s \o u, e)
      <3>1. <<e>> \in Seq(A)
        OBVIOUS
      <3>2. s \o Append(u, e) = s \o (u \o <<e>>) /\ Append(s \o u, e) = (s \o u) \o <<e>>
        BY <2>1, <2>2, AppendIsConcat
      <3>3. s \o (u \o <<e>>) = (s \o u) \o <<e>>
        BY <2>1, <3>1, ConcatAssociative
      <3> QED
        BY <3>2, <3>3
    <2>4. FlatMap(F, Append(s \o u, e)) = FlatMap(F, s \o u) \o F[e]
      BY <2>2, FlatMapAppend
    <2>5. FlatMap(F, Append(u, e)) = FlatMap(F, u) \o F[e]
      BY <2>1, FlatMapAppend
    <2>6. FlatMap(F, s) \in Seq(S) /\ FlatMap(F, u) \in Seq(S) /\ F[e] \in Seq(S)
      BY <2>1, FlatMapType
    <2>7. (FlatMap(F, s) \o FlatMap(F, u)) \o F[e] = FlatMap(F, s) \o (FlatMap(F, u) \o F[e])
      <3>1. \A a, b, c \in Seq(S) : (a \o b) \o c = a \o (b \o c)
        BY ONLY ConcatAssociative
      <3> QED
        BY <2>6, <3>1
    <2> QED
      BY <2>1, <2>2, <2>3, <2>4, <2>5, <2>7 DEF P
  <1> HIDE DEF P
  <1>4. Seq(A) \subseteq P
    BY <1>1, <1>2, <1>3, SeqInduct
  <1> QED
    BY <1>4 DEF P

\* A function with a single value for each, and one with none.
Single(G, A) == [a \in A |-> <<G[a]>>]

LEMMA FlatMapSingles ==
    ASSUME NEW A, NEW S, NEW G \in [A -> S], NEW s \in Seq(A)
    PROVE  FlatMap(Single(G, A), s) = Image(G, s)
  <1> DEFINE F == Single(G, A)
  <1>0. F \in [A -> Seq(S)] /\ \A a \in A : F[a] = <<G[a]>>
    BY DEF Single
  <1> HIDE DEF F
  <1> DEFINE P == {u \in Seq(A) : FlatMap(F, u) = Image(G, u)}
  <1>1. P \in SUBSET Seq(A)
    OBVIOUS
  <1>2. <<>> \in P
    <2>1. Image(G, <<>>) = <<>>
      BY DEF Image
    <2> QED
      BY <2>1, FlatMapEmpty, EmptySeq
  <1>3. ASSUME NEW u \in P, NEW e \in A PROVE Append(u, e) \in P
    <2>1. u \in Seq(A) /\ FlatMap(F, u) = Image(G, u) /\ Append(u, e) \in Seq(A)
      BY AppendProperties
    <2>2. Image(G, u) \in Seq(S) /\ G[e] \in S /\ F[e] = <<G[e]>>
      BY <1>0, <2>1, MapType
    <2>3. FlatMap(F, Append(u, e)) = FlatMap(F, u) \o F[e]
      BY <1>0, <2>1, FlatMapAppend
    <2>4. Image(G, Append(u, e)) = Append(Image(G, u), G[e])
      <3>1. u \in Seq(A)
        OBVIOUS
      <3> HIDE DEF P
      <3> QED
        BY <3>1, MapAppend
    <2>5. Append(Image(G, u), G[e]) = Image(G, u) \o <<G[e]>>
      BY <2>2, AppendIsConcat
    <2> QED
      BY <2>1, <2>2, <2>3, <2>4, <2>5
  <1> HIDE DEF P
  <1>4. Seq(A) \subseteq P
    BY <1>1, <1>2, <1>3, SeqInduct
  <1> QED
    BY <1>4 DEF P, F

LEMMA FlatMapNones ==
    ASSUME NEW A, NEW S, NEW F \in [A -> Seq(S)], \A a \in A : F[a] = <<>>, NEW s \in Seq(A)
    PROVE  FlatMap(F, s) = <<>>
  <1> DEFINE P == {u \in Seq(A) : FlatMap(F, u) = <<>>}
  <1>1. P \in SUBSET Seq(A)
    OBVIOUS
  <1>2. <<>> \in P
    BY FlatMapEmpty, EmptySeq
  <1>3. ASSUME NEW u \in P, NEW e \in A PROVE Append(u, e) \in P
    <2>1. u \in Seq(A) /\ FlatMap(F, u) = <<>> /\ Append(u, e) \in Seq(A) /\ F[e] = <<>>
      BY AppendProperties
    <2>2. FlatMap(F, Append(u, e)) = FlatMap(F, u) \o F[e]
      BY <2>1, FlatMapAppend
    <2>3. <<>> \o <<>> = <<>>
      BY ConcatEmptySeq, EmptySeq
    <2> QED
      BY <2>1, <2>2, <2>3
  <1> HIDE DEF P
  <1>4. Seq(A) \subseteq P
    BY <1>1, <1>2, <1>3, SeqInduct
  <1> QED
    BY <1>4 DEF P

LEMMA FlatMapOne ==
    ASSUME NEW A, NEW S, NEW F \in [A -> Seq(S)], NEW a \in A
    PROVE  FlatMap(F, <<a>>) = F[a]
  <1>1. <<>> \in Seq(A) /\ Append(<<>>, a) = <<a>> /\ <<>> \o F[a] = F[a]
    BY EmptySeq, ConcatEmptySeq
  <1> QED
    BY <1>1, FlatMapAppend, FlatMapEmpty

-----------------------------------------------------------------------------
(* Conversation: what may be said, and the messages made of it *)

\* What may be said or sent, and the blocks and messages made of it.
Piece ==
    ({"system", "text", "image", "answer"} \X Nat) \cup ({"call", "result"} \X Nat \X Nat)
      \cup ({"emptied"} \X (({"image"} \X Nat) \cup ({"call"} \X Nat \X Nat)))

PlainTypes == {"text", "thinking", "tool_use"}
PlainBlock == [type : PlainTypes, piece : Piece]
PictureBlock == [type : {"image"}, piece : {"image"} \X Nat, source : {"base64", "url", "none"}]
ResultBlock == [type : {"tool_result"}, call : Piece, content : Seq(Piece)]
OtherBlock == PlainBlock \cup PictureBlock
AnyBlock == OtherBlock \cup ResultBlock
ClientMessage == [role : {"user", "assistant"}, content : Seq(AnyBlock)]
Roles == {"system", "user", "assistant", "tool"}
SentMessage == [role : Roles, parts : Seq(Piece), calls : Seq(Piece), answers : Piece \cup {NoCall}]

\* The functions which the translation maps over blocks and messages.
ContentIn == [b \in AnyBlock |-> ContentOf(b)]
PieceIn(types) == [b \in AnyBlock |-> IF b.type \in types THEN <<b.piece>> ELSE <<>>]
ToolMessageOf ==
    [b \in AnyBlock |-> IF b.type = "tool_result"
                        THEN << OpenAIMessage("tool", b.content, <<>>, b.call) >> ELSE <<>>]
MessagesFor == [m \in ClientMessage |-> MessagesOf(m)]
PiecesIn == [m \in SentMessage |-> m.parts \o m.calls]

LEMMA BlockTypes ==
    ASSUME NEW b \in AnyBlock
    PROVE  \/ b.type \in PlainTypes /\ b.piece \in Piece
           \/ b.type = "image" /\ b.piece \in {"image"} \X Nat /\ b.source \in {"base64", "url", "none"}
           \/ b.type = "tool_result" /\ b.call \in Piece /\ b.content \in Seq(Piece)
  BY DEF AnyBlock, OtherBlock, PlainBlock, PictureBlock, ResultBlock

\* The functions are on their types, and the translation maps them.
LEMMA PieceInType ==
    ASSUME NEW types \in SUBSET PlainTypes
    PROVE  PieceIn(types) \in [AnyBlock -> Seq(Piece)]
  <1>1. ASSUME NEW b \in AnyBlock
        PROVE  (IF b.type \in types THEN <<b.piece>> ELSE <<>>) \in Seq(Piece)
    <2>1. CASE b.type \in types
      <3>1. b.piece \in Piece
        BY <2>1, BlockTypes DEF PlainTypes
      <3> QED
        BY <2>1, <3>1
    <2>2. CASE b.type \notin types
      BY <2>2
    <2> QED
      BY <2>1, <2>2
  <1> QED
    BY <1>1 DEF PieceIn

LEMMA PiecesOfIs ==
    ASSUME NEW blocks \in Seq(AnyBlock), NEW types
    PROVE  PiecesOf(blocks, types) = FlatMap(PieceIn(types), blocks)
  <1>1. \A i \in DOMAIN blocks : blocks[i] \in AnyBlock
    BY LenProperties, ElementOfSeq
  <1>2. [i \in DOMAIN blocks |-> IF blocks[i].type \in types THEN << blocks[i].piece >> ELSE <<>>]
          = Image(PieceIn(types), blocks)
    BY <1>1 DEF Image, PieceIn
  <1> QED
    BY <1>2 DEF PiecesOf, FlatMap

LEMMA PiecesOfType ==
    ASSUME NEW blocks \in Seq(AnyBlock), NEW types \in SUBSET PlainTypes
    PROVE  PiecesOf(blocks, types) \in Seq(Piece)
  <1>1. PieceIn(types) \in [AnyBlock -> Seq(Piece)]
    BY PieceInType
  <1>2. FlatMap(PieceIn(types), blocks) \in Seq(Piece)
    BY <1>1, FlatMapType
  <1> QED
    BY <1>2, PiecesOfIs

LEMMA PiecesOfConcat ==
    ASSUME NEW s \in Seq(AnyBlock), NEW t \in Seq(AnyBlock), NEW types \in SUBSET PlainTypes
    PROVE  PiecesOf(s \o t, types) = PiecesOf(s, types) \o PiecesOf(t, types)
  <1>1. s \o t \in Seq(AnyBlock)
    BY ConcatProperties
  <1> QED
    <2>1. PieceIn(types) \in [AnyBlock -> Seq(Piece)]
      BY PieceInType
    <2> DEFINE F == PieceIn(types)
    <2> HIDE DEF F
    <2>2. FlatMap(F, s \o t) = FlatMap(F, s) \o FlatMap(F, t)
      <3>1. F \in [AnyBlock -> Seq(Piece)]
        BY <2>1 DEF F
      <3> QED
        BY <3>1, FlatMapConcat
    <2> QED
      BY <1>1, <2>2, PiecesOfIs DEF F

LEMMA OpenAIMessageType ==
    ASSUME NEW role \in Roles, NEW parts \in Seq(Piece), NEW calls \in Seq(Piece),
           NEW replies \in Piece \cup {NoCall}
    PROVE  OpenAIMessage(role, parts, calls, replies) \in SentMessage
  BY DEF OpenAIMessage, SentMessage

LEMMA ToolMessageOfType == ToolMessageOf \in [AnyBlock -> Seq(SentMessage)]
  <1>1. ASSUME NEW b \in AnyBlock, b.type = "tool_result"
        PROVE  OpenAIMessage("tool", b.content, <<>>, b.call) \in SentMessage
    <2>1. b.call \in Piece /\ b.content \in Seq(Piece)
      BY <1>1, BlockTypes DEF PlainTypes
    <2>2. <<>> \in Seq(Piece)
      BY EmptySeq
    <2> QED
      BY <2>1, <2>2, OpenAIMessageType DEF Roles
  <1>2. ASSUME NEW b \in AnyBlock
        PROVE (IF b.type = "tool_result" THEN << OpenAIMessage("tool", b.content, <<>>, b.call) >>
               ELSE <<>>) \in Seq(SentMessage)
    <2>1. CASE b.type = "tool_result"
      <3>1. PICK m \in SentMessage : m = OpenAIMessage("tool", b.content, <<>>, b.call)
        BY <1>1, <2>1
      <3> QED
        BY <2>1, <3>1
    <2>2. CASE b.type # "tool_result"
      BY <2>2
    <2> QED
      BY <2>1, <2>2
  <1> QED
    BY <1>2 DEF ToolMessageOf

\* The same of the messages of tool results.
LEMMA ToolMessagesIs ==
    ASSUME NEW blocks \in Seq(AnyBlock)
    PROVE  ToolMessages(blocks) = FlatMap(ToolMessageOf, blocks)
  <1>1. \A i \in DOMAIN blocks : blocks[i] \in AnyBlock
    BY LenProperties, ElementOfSeq
  <1>2. [i \in DOMAIN blocks |->
           IF blocks[i].type = "tool_result"
           THEN << OpenAIMessage("tool", blocks[i].content, <<>>, blocks[i].call) >> ELSE <<>>]
          = Image(ToolMessageOf, blocks)
    BY <1>1 DEF Image, ToolMessageOf
  <1> QED
    BY <1>2 DEF ToolMessages, FlatMap

LEMMA ToolMessagesType ==
    ASSUME NEW blocks \in Seq(AnyBlock)
    PROVE  ToolMessages(blocks) \in Seq(SentMessage)
  BY ToolMessagesIs, ToolMessageOfType, FlatMapType

LEMMA ToolMessagesConcat ==
    ASSUME NEW s \in Seq(AnyBlock), NEW t \in Seq(AnyBlock)
    PROVE  ToolMessages(s \o t) = ToolMessages(s) \o ToolMessages(t)
  <1>1. s \o t \in Seq(AnyBlock)
    BY ConcatProperties
  <1> QED
    <2>1. FlatMap(ToolMessageOf, s \o t) = FlatMap(ToolMessageOf, s) \o FlatMap(ToolMessageOf, t)
      BY ToolMessageOfType, FlatMapConcat
    <2> QED
      BY <1>1, <2>1, ToolMessagesIs

\* Blocks other than results make no tool messages, and those whose type is not asked
\* for leave nothing.
LEMMA OthersHaveNoResults ==
    ASSUME NEW blocks \in Seq(OtherBlock)
    PROVE  blocks \in Seq(AnyBlock) /\ ToolMessages(blocks) = <<>>
  <1>1. blocks \in Seq(AnyBlock)
    BY SeqMonotonic DEF AnyBlock
  <1> DEFINE F == [b \in OtherBlock |-> ToolMessageOf[b]]
  <1>2. \A b \in OtherBlock : b \in AnyBlock /\ ToolMessageOf[b] = <<>>
    BY DEF ToolMessageOf, AnyBlock, OtherBlock, PlainBlock, PictureBlock, PlainTypes
  <1>3. F \in [OtherBlock -> Seq(SentMessage)] /\ \A b \in OtherBlock : F[b] = <<>>
    BY <1>2, EmptySeq
  <1>4. \A i \in DOMAIN blocks : blocks[i] \in OtherBlock
    BY LenProperties, ElementOfSeq
  <1>5. Image(F, blocks) = Image(ToolMessageOf, blocks)
    BY <1>4 DEF Image
  <1> HIDE DEF F
  <1>6. FlatMap(F, blocks) = <<>>
    BY <1>3, FlatMapNones
  <1> QED
    BY <1>1, <1>5, <1>6, ToolMessagesIs DEF FlatMap

LEMMA OthersLeaveNothing ==
    ASSUME NEW types \in SUBSET PlainTypes, NEW A \in SUBSET AnyBlock,
           \A b \in A : b.type \notin types, NEW blocks \in Seq(A)
    PROVE  PiecesOf(blocks, types) = <<>>
  <1>1. blocks \in Seq(AnyBlock)
    BY SeqMonotonic
  <1> DEFINE F == [b \in A |-> PieceIn(types)[b]]
  <1>2. \A b \in A : PieceIn(types)[b] = <<>>
    BY DEF PieceIn
  <1>3. F \in [A -> Seq(Piece)] /\ \A b \in A : F[b] = <<>>
    BY <1>2, EmptySeq
  <1>4. \A i \in DOMAIN blocks : blocks[i] \in A
    BY LenProperties, ElementOfSeq
  <1>5. Image(F, blocks) = Image(PieceIn(types), blocks)
    BY <1>4 DEF Image
  <1> HIDE DEF F
  <1>6. FlatMap(F, blocks) = <<>>
    BY <1>3, FlatMapNones
  <1> QED
    BY <1>1, <1>5, <1>6, PiecesOfIs DEF FlatMap

\* Plain blocks of the types asked for leave a piece each.
LEMMA PlainLeavePieces ==
    ASSUME NEW types \in SUBSET PlainTypes,
           NEW blocks \in Seq({b \in PlainBlock : b.type \in types})
    PROVE  PiecesOf(blocks, types) = [i \in DOMAIN blocks |-> blocks[i].piece]
  <1> DEFINE A == {b \in PlainBlock : b.type \in types}
             F == [b \in A |-> PieceIn(types)[b]]
             G == [b \in A |-> b.piece]
  <1>1. \A b \in A : b \in AnyBlock /\ b.type \in types /\ b.piece \in Piece
    BY DEF AnyBlock, OtherBlock, PlainBlock
  <1>2. blocks \in Seq(AnyBlock) /\ \A i \in DOMAIN blocks : blocks[i] \in A
    <2>1. A \subseteq AnyBlock
      BY <1>1
    <2> QED
      BY <2>1, SeqMonotonic, LenProperties, ElementOfSeq
  <1>3. Image(F, blocks) = Image(PieceIn(types), blocks)
    BY <1>2 DEF Image
  <1>4. Image(G, blocks) = [i \in DOMAIN blocks |-> blocks[i].piece]
    BY <1>2 DEF Image
  <1>5. \A b \in A : PieceIn(types)[b] = <<b.piece>> /\ G[b] = b.piece
    BY <1>1 DEF PieceIn
  <1>6. F = Single(G, A)
    BY <1>5 DEF Single
  <1>7. G \in [A -> Piece] /\ blocks \in Seq(A)
    BY <1>1
  <1> HIDE DEF F, G, A
  <1>8. FlatMap(F, blocks) = Image(G, blocks)
    BY <1>6, <1>7, FlatMapSingles
  <1> QED
    BY <1>2, <1>3, <1>4, <1>8, PiecesOfIs DEF FlatMap

\* Blocks made of pieces, and what they leave.
LEMMA BlocksLeaveAll ==
    ASSUME NEW pieces \in Seq(Piece), NEW type \in PlainTypes,
           NEW types \in SUBSET PlainTypes, type \in types
    PROVE  /\ Blocks(type, pieces) \in Seq({b \in PlainBlock : b.type = type})
           /\ PiecesOf(Blocks(type, pieces), types) = pieces
  <1> DEFINE A == {b \in PlainBlock : b.type = type}
             B == {b \in PlainBlock : b.type \in types}
             blocks == Blocks(type, pieces)
  <1>1. Len(pieces) \in Nat /\ DOMAIN pieces = 1 .. Len(pieces) /\ \A i \in 1 .. Len(pieces) : pieces[i] \in Piece
    BY LenProperties, ElementOfSeq
  <1>2. \A i \in 1 .. Len(pieces) : [type |-> type, piece |-> pieces[i]] \in A
    BY <1>1 DEF PlainBlock
  <1>3. blocks \in [1 .. Len(pieces) -> A]
    BY <1>1, <1>2 DEF Blocks
  <1>4. blocks \in Seq(A) /\ DOMAIN blocks = 1 .. Len(pieces)
    BY <1>1, <1>3
  <1>5. blocks \in Seq(B)
    <2>1. A \subseteq B
      OBVIOUS
    <2> QED
      BY <1>4, <2>1, SeqMonotonic
  <1>6. [i \in DOMAIN blocks |-> blocks[i].piece] = pieces
    <2>1. \A i \in 1 .. Len(pieces) : blocks[i].piece = pieces[i]
      BY <1>1 DEF Blocks
    <2>2. pieces = [i \in 1 .. Len(pieces) |-> pieces[i]]
      BY LenProperties
    <2> QED
      BY <2>1, <2>2, <1>4
  <1> HIDE DEF blocks
  <1>7. PiecesOf(blocks, types) = pieces
    BY <1>5, <1>6, PlainLeavePieces
  <1> QED
    BY <1>4, <1>7 DEF blocks

\* What of a block goes into the content of a message.
LEMMA EmptiedType ==
    ASSUME NEW p \in ({"image"} \X Nat) \cup ({"call"} \X Nat \X Nat)
    PROVE  p \in Piece /\ Emptied(p) \in Piece
  BY DEF Emptied, Piece

\* The content of a message is mapped from its blocks.
LEMMA ContentInType == ContentIn \in [AnyBlock -> Seq(Piece)]
  <1>1. ASSUME NEW b \in AnyBlock PROVE ContentOf(b) \in Seq(Piece)
    <2>0. <<>> \in Seq(Piece)
      BY EmptySeq
    <2>1. CASE b.type \in PlainTypes
      <3>1. b.piece \in Piece /\ b.type # "image"
        BY <2>1, BlockTypes DEF PlainTypes
      <3> QED
        BY <2>0, <3>1 DEF ContentOf
    <2>2. CASE b.type = "image"
      <3>1. b.piece \in {"image"} \X Nat
        BY <2>2, BlockTypes DEF PlainTypes
      <3>2. b.piece \in Piece /\ Emptied(b.piece) \in Piece
        BY <3>1, EmptiedType
      <3>3. PICK p \in Piece : p = IF b.source = "base64" THEN b.piece ELSE Emptied(b.piece)
        BY <3>2
      <3> QED
        BY <2>0, <2>2, <3>3 DEF ContentOf
    <2>3. CASE b.type = "tool_result"
      BY <2>0, <2>3 DEF ContentOf
    <2> QED
      BY <2>1, <2>2, <2>3, BlockTypes
  <1> QED
    BY <1>1 DEF ContentIn

LEMMA ContentPiecesIs ==
    ASSUME NEW blocks \in Seq(AnyBlock)
    PROVE  ContentPieces(blocks) = FlatMap(ContentIn, blocks)
  <1>1. \A i \in DOMAIN blocks : blocks[i] \in AnyBlock
    BY LenProperties, ElementOfSeq
  <1>2. [i \in DOMAIN blocks |-> ContentOf(blocks[i])] = Image(ContentIn, blocks)
    BY <1>1 DEF Image, ContentIn
  <1> QED
    BY <1>2 DEF ContentPieces, FlatMap

LEMMA ContentPiecesType ==
    ASSUME NEW blocks \in Seq(AnyBlock)
    PROVE  ContentPieces(blocks) \in Seq(Piece)
  BY ContentPiecesIs, ContentInType, FlatMapType

LEMMA ContentPiecesConcat ==
    ASSUME NEW s \in Seq(AnyBlock), NEW t \in Seq(AnyBlock)
    PROVE  ContentPieces(s \o t) = ContentPieces(s) \o ContentPieces(t)
  <1>1. s \o t \in Seq(AnyBlock)
    BY ConcatProperties
  <1>2. FlatMap(ContentIn, s \o t) = FlatMap(ContentIn, s) \o FlatMap(ContentIn, t)
    BY ContentInType, FlatMapConcat
  <1> QED
    BY <1>1, <1>2, ContentPiecesIs

LEMMA ContentPiecesOne ==
    ASSUME NEW b \in AnyBlock
    PROVE  <<b>> \in Seq(AnyBlock) /\ ContentPieces(<<b>>) = ContentOf(b)
  <1>1. <<b>> \in Seq(AnyBlock)
    OBVIOUS
  <1>2. FlatMap(ContentIn, <<b>>) = ContentIn[b]
    BY ContentInType, FlatMapOne
  <1> QED
    BY <1>1, <1>2, ContentPiecesIs DEF ContentIn

\* A result leaves nothing in a content.
LEMMA ResultsLeaveNothing ==
    ASSUME NEW results \in Seq(ResultBlock)
    PROVE  ContentPieces(results) = <<>>
  <1> DEFINE F == [b \in ResultBlock |-> ContentIn[b]]
  <1>1. results \in Seq(AnyBlock)
    BY SeqMonotonic DEF AnyBlock
  <1>2. \A b \in ResultBlock : ContentIn[b] = <<>>
    BY DEF ContentIn, ContentOf, AnyBlock, ResultBlock
  <1>3. F \in [ResultBlock -> Seq(Piece)] /\ \A b \in ResultBlock : F[b] = <<>>
    BY <1>2, EmptySeq
  <1>4. \A i \in DOMAIN results : results[i] \in ResultBlock
    BY LenProperties, ElementOfSeq
  <1>5. Image(F, results) = Image(ContentIn, results)
    BY <1>4 DEF Image
  <1> HIDE DEF F
  <1>6. FlatMap(F, results) = <<>>
    BY <1>3, FlatMapNones
  <1> QED
    BY <1>1, <1>5, <1>6, ContentPiecesIs DEF FlatMap

-----------------------------------------------------------------------------
(* Conversation: sequences with each piece once *)

\* The sequence has each member of the set once, and no other.
OnceEach(s, X) ==
    /\ s \in Seq(Piece)
    /\ ToSet(s) = X
    /\ \A i, j \in DOMAIN s : s[i] = s[j] => i = j

\* There are as many as the set has.
LEMMA OnceEachCounts ==
    ASSUME NEW s, NEW X, OnceEach(s, X)
    PROVE  IsFiniteSet(X) /\ Len(s) = Cardinality(X) /\ Len(s) \in Nat
  <1>1. Len(s) \in Nat /\ DOMAIN s = 1 .. Len(s)
    BY LenProperties DEF OnceEach
  <1>2. s \in [1 .. Len(s) -> X]
    <2>1. s \in [1 .. Len(s) -> Piece]
      BY LenProperties DEF OnceEach
    <2>2. \A i \in 1 .. Len(s) : s[i] \in X
      BY <1>1 DEF OnceEach, ToSet
    <2> QED
      BY <2>1, <2>2
  <1>3. \A x \in X : \E i \in 1 .. Len(s) : s[i] = x
    BY <1>1 DEF OnceEach, ToSet
  <1>4. s \in Bijection(1 .. Len(s), X)
    BY <1>1, <1>2, <1>3 DEF OnceEach, Bijection, Injection, Surjection, IsInjective
  <1>5. ExistsBijection(1 .. Len(s), X)
    BY <1>4 DEF ExistsBijection
  <1>6. IsFiniteSet(1 .. Len(s)) /\ Cardinality(1 .. Len(s)) = Len(s)
    <2>1. Cardinality(1 .. Len(s)) = IF 1 > Len(s) THEN 0 ELSE Len(s) - 1 + 1
      BY <1>1, FS_Interval
    <2> QED
      BY <1>1, <2>1, FS_Interval
  <1> QED
    BY <1>1, <1>5, <1>6, FS_Bijection

LEMMA OnceEachEmpty == OnceEach(<<>>, {})
  <1>1. <<>> \in Seq(Piece) /\ ToSet(<<>>) = {}
    BY EmptySeq DEF ToSet
  <1> QED
    BY <1>1 DEF OnceEach

\* Two such sequences of sets with nothing in common make one of their union.
LEMMA OnceEachConcat ==
    ASSUME NEW s, NEW X, NEW t, NEW Y, OnceEach(s, X), OnceEach(t, Y), X \cap Y = {}
    PROVE  OnceEach(s \o t, X \cup Y)
  <1> DEFINE u == s \o t
             m == Len(s)
             n == Len(t)
  <1>1. /\ s \in Seq(Piece) /\ t \in Seq(Piece) /\ m \in Nat /\ n \in Nat
        /\ DOMAIN s = 1 .. m /\ DOMAIN t = 1 .. n
    BY LenProperties DEF OnceEach
  <1>2. /\ u \in Seq(Piece) /\ Len(u) = m + n
        /\ \A i \in 1 .. m + n : u[i] = IF i <= m THEN s[i] ELSE t[i - m]
    BY <1>1, ConcatProperties
  <1>3. DOMAIN u = 1 .. m + n
    BY <1>2, LenProperties
  <1> HIDE DEF u, m, n
  <1>4. \A i \in 1 .. m + n : \/ i \in 1 .. m /\ u[i] = s[i]
                              \/ i - m \in 1 .. n /\ u[i] = t[i - m]
    BY <1>1, <1>2
  <1>5. ASSUME NEW i \in 1 .. m PROVE i \in 1 .. m + n /\ u[i] = s[i]
    BY <1>1, <1>2
  <1>6. ASSUME NEW i \in 1 .. n PROVE i + m \in 1 .. m + n /\ u[i + m] = t[i]
    <2>1. i + m \in 1 .. m + n /\ ~ (i + m <= m) /\ (i + m) - m = i
      BY <1>1
    <2> QED
      BY <1>2, <2>1
  <1>7. \A i \in 1 .. m : s[i] \in X
    BY <1>1 DEF OnceEach, ToSet
  <1>8. \A i \in 1 .. n : t[i] \in Y
    BY <1>1 DEF OnceEach, ToSet
  <1>9. ToSet(u) = X \cup Y
    <2>1. ASSUME NEW i \in 1 .. m + n PROVE u[i] \in X \cup Y
      BY <1>4, <1>7, <1>8
    <2>2. ASSUME NEW x \in X PROVE \E i \in 1 .. m + n : u[i] = x
      <3>1. PICK i \in 1 .. m : s[i] = x
        BY <1>1 DEF OnceEach, ToSet
      <3> QED
        BY <3>1, <1>5
    <2>3. ASSUME NEW y \in Y PROVE \E i \in 1 .. m + n : u[i] = y
      <3>1. PICK i \in 1 .. n : t[i] = y
        BY <1>1 DEF OnceEach, ToSet
      <3> QED
        BY <3>1, <1>6
    <2> QED
      BY <2>1, <2>2, <2>3, <1>3 DEF ToSet
  <1>10. ASSUME NEW i \in 1 .. m + n, NEW j \in 1 .. m + n, u[i] = u[j] PROVE i = j
    <2>1. CASE i \in 1 .. m /\ j \in 1 .. m
      <3>1. s[i] = s[j]
        BY <2>1, <1>5, <1>10
      <3> QED
        BY <2>1, <3>1, <1>1 DEF OnceEach
    <2>2. CASE i \in 1 .. m /\ j \notin 1 .. m
      <3>1. u[i] = s[i] /\ j - m \in 1 .. n /\ u[j] = t[j - m]
        BY <2>2, <1>4, <1>5
      <3>2. u[i] \in X /\ u[j] \in Y
        BY <2>2, <3>1, <1>7, <1>8
      <3> QED
        BY <3>2, <1>10
    <2>3. CASE i \notin 1 .. m /\ j \in 1 .. m
      <3>1. u[j] = s[j] /\ i - m \in 1 .. n /\ u[i] = t[i - m]
        BY <2>3, <1>4, <1>5
      <3>2. u[i] \in Y /\ u[j] \in X
        BY <2>3, <3>1, <1>7, <1>8
      <3> QED
        BY <3>2, <1>10
    <2>4. CASE i \notin 1 .. m /\ j \notin 1 .. m
      <3>1. i - m \in 1 .. n /\ j - m \in 1 .. n /\ t[i - m] = t[j - m]
        BY <2>4, <1>4, <1>10
      <3>2. i - m = j - m
        BY <3>1, <1>1 DEF OnceEach
      <3> QED
        BY <3>2, <1>1
    <2> QED
      BY <2>1, <2>2, <2>3, <2>4
  <1> QED
    BY <1>2, <1>3, <1>9, <1>10 DEF OnceEach, u

\* An order of the members of a set, as the client may answer them.
LEMMA OrderIsOnceEach ==
    ASSUME NEW s, NEW X, OnceEach(s, X), NEW order \in SetToSeqs(X)
    PROVE  OnceEach(order, X) /\ Len(order) = Len(s)
  <1> DEFINE n == Len(s)
  <1>1. IsFiniteSet(X) /\ Cardinality(X) = n /\ n \in Nat
    BY OnceEachCounts
  <1>2. order \in [1 .. n -> X] /\ \A i, j \in 1 .. n : i # j => order[i] # order[j]
    BY <1>1 DEF SetToSeqs
  <1>3. X \subseteq Piece
    <2>1. \A i \in DOMAIN s : s[i] \in Piece
      BY LenProperties, ElementOfSeq DEF OnceEach
    <2> QED
      BY <2>1 DEF OnceEach, ToSet
  <1> HIDE DEF n
  <1>4. order \in Seq(Piece) /\ Len(order) = n /\ DOMAIN order = 1 .. n
    <2>1. order \in [1 .. n -> Piece]
      BY <1>2, <1>3
    <2> QED
      BY <2>1, <1>1
  <1>5. order \in Injection(1 .. n, X)
    BY <1>2, <1>4 DEF Injection, IsInjective
  <1>6. Cardinality(1 .. n) = n
    <2>1. Cardinality(1 .. n) = IF 1 > n THEN 0 ELSE n - 1 + 1
      BY <1>1, FS_Interval
    <2> QED
      BY <1>1, <2>1
  <1>7. order \in Surjection(1 .. n, X)
    BY <1>1, <1>5, <1>6, FS_Injection
  <1>8. ToSet(order) = X
    BY <1>2, <1>4, <1>7 DEF Surjection, ToSet
  <1> QED
    BY <1>2, <1>4, <1>8 DEF OnceEach, n

\* A message's pieces, in a sequence of messages.
LEMMA PiecesInType == PiecesIn \in [SentMessage -> Seq(Piece)]
  <1>1. \A m \in SentMessage : m.parts \in Seq(Piece) /\ m.calls \in Seq(Piece)
    BY DEF SentMessage
  <1>2. \A m \in SentMessage : m.parts \o m.calls \in Seq(Piece)
    BY <1>1, ConcatProperties
  <1> QED
    BY <1>2 DEF PiecesIn

LEMMA PiecesOfOneMessage ==
    ASSUME NEW m \in SentMessage
    PROVE  FlatMap(PiecesIn, <<m>>) = m.parts \o m.calls
  <1>1. FlatMap(PiecesIn, <<m>>) = PiecesIn[m]
    BY PiecesInType, FlatMapOne
  <1> QED
    BY <1>1 DEF PiecesIn

LEMMA PiecesInConcat ==
    ASSUME NEW s \in Seq(SentMessage), NEW t \in Seq(SentMessage)
    PROVE  FlatMap(PiecesIn, s \o t) = FlatMap(PiecesIn, s) \o FlatMap(PiecesIn, t)
  BY PiecesInType, FlatMapConcat

\* The content of blocks one after the other.
LEMMA ContentConcat ==
    ASSUME NEW s \in Seq(AnyBlock), NEW t \in Seq(AnyBlock)
    PROVE  PiecesOfContent(s \o t) = PiecesOfContent(s) \cup PiecesOfContent(t)
  <1> DEFINE u == s \o t
             m == Len(s)
             n == Len(t)
             Of(b) == PiecesToSend(b)
  <1>1. m \in Nat /\ n \in Nat /\ DOMAIN s = 1 .. m /\ DOMAIN t = 1 .. n
    BY LenProperties
  <1>2. /\ u \in Seq(AnyBlock) /\ Len(u) = m + n
        /\ \A i \in 1 .. m + n : u[i] = IF i <= m THEN s[i] ELSE t[i - m]
    BY <1>1, ConcatProperties
  <1>3. DOMAIN u = 1 .. m + n
    BY <1>2, LenProperties
  <1>4. \A v : PiecesOfContent(v) = UNION {Of(v[i]) : i \in DOMAIN v}
    BY DEF PiecesOfContent
  <1> HIDE DEF u, m, n, Of
  <1>5. \A i \in 1 .. m + n : \/ i \in 1 .. m /\ u[i] = s[i]
                              \/ i - m \in 1 .. n /\ u[i] = t[i - m]
    BY <1>1, <1>2
  <1>6. ASSUME NEW i \in 1 .. m PROVE i \in 1 .. m + n /\ u[i] = s[i]
    BY <1>1, <1>2
  <1>7. ASSUME NEW i \in 1 .. n PROVE i + m \in 1 .. m + n /\ u[i + m] = t[i]
    <2>1. i + m \in 1 .. m + n /\ ~ (i + m <= m) /\ (i + m) - m = i
      BY <1>1
    <2> QED
      BY <1>2, <2>1
  <1>8. ASSUME NEW i \in 1 .. m + n PROVE (\E j \in 1 .. m : u[i] = s[j]) \/ (\E j \in 1 .. n : u[i] = t[j])
    BY <1>5
  <1>9. ASSUME NEW p PROVE p \in PiecesOfContent(u) <=> p \in PiecesOfContent(s) \/ p \in PiecesOfContent(t)
    <2>1. ASSUME p \in PiecesOfContent(u) PROVE p \in PiecesOfContent(s) \/ p \in PiecesOfContent(t)
      <3>1. PICK i \in 1 .. m + n : p \in Of(u[i])
        BY <2>1, <1>3, <1>4
      <3> QED
        BY <3>1, <1>1, <1>4, <1>8
    <2>2. ASSUME p \in PiecesOfContent(s) PROVE p \in PiecesOfContent(u)
      <3>1. PICK i \in 1 .. m : p \in Of(s[i])
        BY <2>2, <1>1, <1>4
      <3> QED
        BY <3>1, <1>3, <1>4, <1>6
    <2>3. ASSUME p \in PiecesOfContent(t) PROVE p \in PiecesOfContent(u)
      <3>1. PICK i \in 1 .. n : p \in Of(t[i])
        BY <2>3, <1>1, <1>4
      <3> QED
        BY <3>1, <1>3, <1>4, <1>7
    <2> QED
      BY <2>1, <2>2, <2>3
  <1> QED
    BY <1>9 DEF u

-----------------------------------------------------------------------------
(* Conversation: what the client says in a turn, translated *)

\* The results of a client that runs the tools in that order, with content or not.
ResultsInOrder(n, order, full) ==
    [i \in DOMAIN order |->
       [type |-> "tool_result", call |-> order[i],
        content |-> IF full THEN << <<"result", n, i>> >> ELSE <<>>]]

ResultPieces(n) == {<<"result", n, i>> : i \in Nat}
ExtraPieces(n) == { <<"text", n>>, <<"image", n>>, Emptied(<<"image", n>>) }

\* Pieces of results, and of what is said besides, differ.
LEMMA PieceForms ==
    ASSUME NEW n \in Nat
    PROVE  /\ ResultPieces(n) \subseteq Piece /\ ExtraPieces(n) \subseteq Piece
           /\ ResultPieces(n) \cap ExtraPieces(n) = {}
           /\ <<"answer", n>> \in Piece
           /\ \A i \in Nat : <<"call", n, i>> \in Piece /\ <<"result", n, i>> \in Piece
  BY DEF Piece, ResultPieces, ExtraPieces, Emptied

LEMMA ResultsType ==
    ASSUME NEW n \in Nat, NEW X, NEW order, OnceEach(order, X), NEW full \in BOOLEAN
    PROVE  LET results == ResultsInOrder(n, order, full)
           IN  /\ results \in Seq(ResultBlock) /\ results \in Seq(AnyBlock)
               /\ DOMAIN results = 1 .. Len(order) /\ Len(results) = Len(order) /\ Len(order) \in Nat
  <1> DEFINE results == ResultsInOrder(n, order, full)
             k == Len(order)
  <1>1. /\ k \in Nat /\ DOMAIN order = 1 .. k /\ \A i \in 1 .. k : order[i] \in Piece
    BY LenProperties, ElementOfSeq DEF OnceEach
  <1>2. ASSUME NEW i \in 1 .. k
        PROVE  [type |-> "tool_result", call |-> order[i],
                content |-> IF full THEN << <<"result", n, i>> >> ELSE <<>>] \in ResultBlock
    <2>1. order[i] \in Piece /\ i \in Nat
      BY <1>1
    <2>2. <<"result", n, i>> \in Piece
      BY <2>1, PieceForms
    <2>3. PICK p \in Piece : p = <<"result", n, i>>
      BY <2>2
    <2>4. (IF full THEN << p >> ELSE <<>>) \in Seq(Piece)
      BY <2>3
    <2> QED
      BY <2>1, <2>3, <2>4 DEF ResultBlock
  <1>3. results \in [1 .. k -> ResultBlock]
    BY <1>1, <1>2 DEF ResultsInOrder
  <1> HIDE DEF k, results
  <1>4. results \in Seq(ResultBlock) /\ DOMAIN results = 1 .. k /\ Len(results) = k
    BY <1>1, <1>3
  <1>5. results \in Seq(AnyBlock)
    BY <1>4, SeqMonotonic DEF AnyBlock
  <1> QED
    BY <1>1, <1>4, <1>5 DEF k, results

\* The messages of such results answer the calls in that order.
LEMMA ResultMessages ==
    ASSUME NEW n \in Nat, NEW X, NEW order, OnceEach(order, X), NEW full \in BOOLEAN
    PROVE  LET results == ResultsInOrder(n, order, full)
               msgs == ToolMessages(results)
           IN  /\ msgs \in Seq(SentMessage) /\ Len(msgs) = Len(order)
               /\ \A i \in 1 .. Len(order) :
                    msgs[i] = OpenAIMessage("tool", results[i].content, <<>>, order[i])
  <1> DEFINE results == ResultsInOrder(n, order, full)
             G == [b \in ResultBlock |-> OpenAIMessage("tool", b.content, <<>>, b.call)]
             F == [b \in ResultBlock |-> ToolMessageOf[b]]
             k == Len(order)
  <1>1. /\ results \in Seq(ResultBlock) /\ results \in Seq(AnyBlock)
        /\ DOMAIN results = 1 .. k /\ Len(results) = k /\ k \in Nat
    BY ResultsType
  <1>2. \A i \in 1 .. k : results[i] \in ResultBlock /\ results[i].call = order[i]
    <2>1. DOMAIN order = 1 .. k
      BY LenProperties DEF OnceEach
    <2>2. \A i \in 1 .. k : results[i].call = order[i]
      BY <2>1 DEF ResultsInOrder
    <2> QED
      BY <1>1, <2>2, ElementOfSeq
  <1> HIDE DEF results
  <1>3. G \in [ResultBlock -> SentMessage]
    <2>1. ASSUME NEW b \in ResultBlock PROVE OpenAIMessage("tool", b.content, <<>>, b.call) \in SentMessage
      <3>1. b.content \in Seq(Piece) /\ b.call \in Piece \cup {NoCall}
        BY DEF ResultBlock
      <3>2. <<>> \in Seq(Piece)
        BY EmptySeq
      <3> QED
        BY <3>1, <3>2, OpenAIMessageType DEF Roles
    <2> QED
      BY <2>1
  <1>4. \A b \in ResultBlock : ToolMessageOf[b] = <<G[b]>>
    BY DEF ToolMessageOf, AnyBlock, ResultBlock
  <1>5. F = Single(G, ResultBlock)
    BY <1>4 DEF Single
  <1>6. Image(F, results) = Image(ToolMessageOf, results)
    BY <1>1, <1>2 DEF Image
  <1>7. \A i \in 1 .. k : Image(G, results)[i] = OpenAIMessage("tool", results[i].content, <<>>, order[i])
    BY <1>1, <1>2 DEF Image
  <1> HIDE DEF F, G, k
  <1>8. FlatMap(F, results) = Image(G, results)
    BY <1>1, <1>3, <1>5, FlatMapSingles
  <1>9. ToolMessages(results) = Image(G, results)
    BY <1>1, <1>6, <1>8, ToolMessagesIs DEF FlatMap
  <1>10. Image(G, results) \in Seq(SentMessage) /\ Len(Image(G, results)) = k
    <2>1. \A x \in Seq(ResultBlock) : Image(G, x) \in Seq(SentMessage) /\ Len(Image(G, x)) = Len(x)
      BY <1>3, MapType
    <2> QED
      BY <1>1, <2>1
  <1> QED
    BY <1>7, <1>9, <1>10 DEF results, k

\* Their pieces are the results' contents, each once.
LEMMA ResultPiecesOnce ==
    ASSUME NEW n \in Nat, NEW X, NEW order, OnceEach(order, X), NEW full \in BOOLEAN
    PROVE  LET results == ResultsInOrder(n, order, full)
           IN  /\ OnceEach(FlatMap(PiecesIn, ToolMessages(results)), PiecesOfContent(results))
               /\ PiecesOfContent(results) \subseteq ResultPieces(n)
  <1> DEFINE results == ResultsInOrder(n, order, full)
             msgs == ToolMessages(results)
             k == Len(order)
  <1>1. k \in Nat /\ DOMAIN results = 1 .. k /\ DOMAIN order = 1 .. k
    BY ResultsType, LenProperties DEF OnceEach
  <1>2. \A i \in 1 .. k : /\ results[i].type = "tool_result"
                          /\ results[i].content = IF full THEN << <<"result", n, i>> >> ELSE <<>>
    BY <1>1 DEF ResultsInOrder
  <1>3. /\ msgs \in Seq(SentMessage) /\ Len(msgs) = k
        /\ \A i \in 1 .. k : msgs[i] = OpenAIMessage("tool", results[i].content, <<>>, order[i])
    BY ResultMessages
  <1>4. PiecesOfContent(results) = UNION {ToSet(results[i].content) : i \in 1 .. k}
    BY <1>1, <1>2 DEF PiecesOfContent, PiecesToSend
  <1>5. \A p : ToSet(<<p>>) = {p}
    BY DEF ToSet
  <1>6. ToSet(<<>>) = {}
    BY DEF ToSet
  <1> HIDE DEF results, msgs, k
  <1>7. DOMAIN msgs = 1 .. k
    BY <1>3, LenProperties
  <1>8. CASE full
    <2> DEFINE A == {m \in SentMessage : m.calls = <<>> /\ \E p \in Piece : m.parts = <<p>>}
               G == [m \in A |-> m.parts[1]]
               F == [m \in A |-> PiecesIn[m]]
               pieces == [i \in 1 .. k |-> <<"result", n, i>>]
    <2>1. ASSUME NEW i \in 1 .. k
          PROVE  /\ msgs[i] \in A /\ msgs[i].parts = << <<"result", n, i>> >>
                 /\ <<"result", n, i>> \in Piece
      <3>1. msgs[i] \in SentMessage
        BY <1>3, ElementOfSeq
      <3>2. msgs[i].calls = <<>> /\ msgs[i].parts = << <<"result", n, i>> >>
        BY <1>2, <1>3, <1>8 DEF OpenAIMessage
      <3>3. <<"result", n, i>> \in Piece
        <4>1. i \in Nat
          BY <1>1
        <4> QED
          BY <4>1, PieceForms
      <3> QED
        BY <3>1, <3>2, <3>3
    <2>2. ASSUME NEW m \in A PROVE G[m] \in Piece /\ PiecesIn[m] = <<G[m]>>
      <3>1. PICK p \in Piece : m.parts = <<p>>
        OBVIOUS
      <3>2. <<p>> \o <<>> = <<p>>
        OBVIOUS
      <3>3. PiecesIn[m] = <<p>>
        BY <3>1, <3>2 DEF PiecesIn
      <3> QED
        BY <3>1, <3>3
    <2>3. G \in [A -> Piece] /\ F = Single(G, A)
      BY <2>2 DEF Single
    <2>4. msgs \in Seq(A)
      <3>1. msgs \in [1 .. k -> A]
        <4>1. msgs \in [1 .. k -> SentMessage]
          BY <1>3, LenProperties
        <4> QED
          BY <4>1, <2>1
      <3> QED
        BY <1>1, <3>1
    <2>5. Image(F, msgs) = Image(PiecesIn, msgs)
      BY <1>7, <2>1 DEF Image
    <2>6. Image(G, msgs) = pieces
      <3>1. ASSUME NEW i \in 1 .. k PROVE G[msgs[i]] = <<"result", n, i>>
        <4>1. msgs[i] \in A /\ msgs[i].parts = << <<"result", n, i>> >>
          BY <2>1
        <4>2. G[msgs[i]] = msgs[i].parts[1]
          BY <4>1
        <4> HIDE DEF G, A
        <4> QED
          BY <4>1, <4>2
      <3> HIDE DEF G
      <3> QED
        BY <1>7, <3>1 DEF Image
    <2>7. pieces \in Seq(Piece) /\ Len(pieces) = k /\ DOMAIN pieces = 1 .. k
      <3>1. pieces \in [1 .. k -> Piece]
        BY <2>1
      <3> QED
        BY <1>1, <3>1
    <2>8. \A i, j \in 1 .. k : pieces[i] = pieces[j] => i = j
      OBVIOUS
    <2>9. ToSet(pieces) = {<<"result", n, i>> : i \in 1 .. k}
      BY <2>7 DEF ToSet
    <2>10. PiecesOfContent(results) = {<<"result", n, i>> : i \in 1 .. k}
      <3>1. \A i \in 1 .. k : ToSet(results[i].content) = {<<"result", n, i>>}
        BY <1>2, <1>5, <1>8
      <3> QED
        BY <3>1, <1>4
    <2>11. PiecesOfContent(results) \subseteq ResultPieces(n)
      BY <2>10, <1>1 DEF ResultPieces
    <2> HIDE DEF A, F, G, pieces
    <2>12. FlatMap(PiecesIn, msgs) = pieces
      <3>1. FlatMap(F, msgs) = Image(G, msgs)
        BY <2>3, <2>4, FlatMapSingles
      <3> QED
        BY <3>1, <2>5, <2>6 DEF FlatMap
    <2> QED
      BY <2>7, <2>8, <2>9, <2>10, <2>11, <2>12 DEF OnceEach, results, msgs
  <1>9. CASE ~full
    <2> DEFINE A == {m \in SentMessage : m.calls = <<>> /\ m.parts = <<>>}
               F == [m \in A |-> PiecesIn[m]]
    <2>1. ASSUME NEW i \in 1 .. k PROVE msgs[i] \in A
      <3>1. msgs[i] \in SentMessage
        BY <1>3, ElementOfSeq
      <3> QED
        BY <3>1, <1>2, <1>3, <1>9 DEF OpenAIMessage
    <2>2. ASSUME NEW m \in A PROVE PiecesIn[m] = <<>>
      <3>1. <<>> \o <<>> = <<>>
        BY ConcatEmptySeq, EmptySeq
      <3> QED
        BY <3>1 DEF PiecesIn
    <2>3. F \in [A -> Seq(Piece)] /\ \A m \in A : F[m] = <<>>
      BY <2>2, EmptySeq
    <2>4. msgs \in Seq(A)
      <3>1. msgs \in [1 .. k -> A]
        <4>1. msgs \in [1 .. k -> SentMessage]
          BY <1>3, LenProperties
        <4> QED
          BY <4>1, <2>1
      <3> QED
        BY <1>1, <3>1
    <2>5. Image(F, msgs) = Image(PiecesIn, msgs)
      BY <1>7, <2>1 DEF Image
    <2>6. PiecesOfContent(results) = {}
      <3>1. \A i \in 1 .. k : ToSet(results[i].content) = {}
        BY <1>2, <1>6, <1>9
      <3> QED
        BY <3>1, <1>4
    <2> HIDE DEF A, F
    <2>7. FlatMap(PiecesIn, msgs) = <<>>
      <3>1. FlatMap(F, msgs) = <<>>
        BY <2>3, <2>4, FlatMapNones
      <3> QED
        BY <3>1, <2>5 DEF FlatMap
    <2> QED
      BY <2>6, <2>7, OnceEachEmpty DEF results, msgs
  <1> QED
    BY <1>8, <1>9

\* A text and an image of turn n, and what of them is sent.
SaidAlone(n, block) ==
    /\ block \in OtherBlock
    /\ OnceEach(ContentOf(block), PiecesToSend(block))
    /\ PiecesOfContent(<<block>>) = PiecesToSend(block)
    /\ PiecesToSend(block) \subseteq ExtraPieces(n)

\* One piece, and one block.
LEMMA OneOnceEach == ASSUME NEW p \in Piece PROVE OnceEach(<<p>>, {p})
  <1>1. <<p>> \in Seq(Piece) /\ ToSet(<<p>>) = {p} /\ DOMAIN <<p>> = {1}
    BY DEF ToSet
  <1> QED
    BY <1>1 DEF OnceEach

LEMMA ContentOfOne == ASSUME NEW block PROVE PiecesOfContent(<<block>>) = PiecesToSend(block)
  <1>1. DOMAIN <<block>> = {1} /\ <<block>>[1] = block
    OBVIOUS
  <1> QED
    BY <1>1 DEF PiecesOfContent

\* A text is sent whole, an image as its source allows.
LEMMA TextAlone ==
    ASSUME NEW n \in Nat
    PROVE  LET text == Block("text", <<"text", n>>)
           IN  SaidAlone(n, text) /\ PiecesToSend(text) = {<<"text", n>>}
  <1> DEFINE text == Block("text", <<"text", n>>)
  <1>1. PICK p \in Piece : p = <<"text", n>>
    BY PieceForms DEF ExtraPieces
  <1>2. text = [type |-> "text", piece |-> p]
    BY <1>1 DEF Block
  <1>3. text \in OtherBlock /\ text.type = "text" /\ text.piece = p
    BY <1>2 DEF OtherBlock, PlainBlock, PlainTypes
  <1>4. ContentOf(text) = <<p>> /\ PiecesToSend(text) = {p}
    BY <1>3 DEF ContentOf, PiecesToSend
  <1> HIDE DEF text
  <1>5. OnceEach(ContentOf(text), PiecesToSend(text))
    BY <1>4, OneOnceEach
  <1> QED
    BY <1>1, <1>3, <1>4, <1>5, ContentOfOne DEF SaidAlone, ExtraPieces, text

LEMMA ImageAlone ==
    ASSUME NEW n \in Nat, NEW source \in {"base64", "url", "none"}
    PROVE  LET image == ImageBlock(<<"image", n>>, source)
           IN  SaidAlone(n, image) /\ <<"text", n>> \notin PiecesToSend(image)
  <1> DEFINE image == ImageBlock(<<"image", n>>, source)
  <1>1. PICK p \in {"image"} \X Nat : p = <<"image", n>>
    OBVIOUS
  <1>2. p \in Piece /\ Emptied(p) \in Piece /\ p # <<"text", n>> /\ Emptied(p) # <<"text", n>>
    BY <1>1, EmptiedType DEF Emptied
  <1>3. image = [type |-> "image", piece |-> p, source |-> source]
    BY <1>1 DEF ImageBlock
  <1>4. image \in OtherBlock /\ image.type = "image" /\ image.piece = p /\ image.source = source
    BY <1>3 DEF OtherBlock, PictureBlock
  <1>5. p \in ExtraPieces(n) /\ Emptied(p) \in ExtraPieces(n)
    BY <1>1 DEF ExtraPieces
  <1> HIDE DEF image
  <1>6. CASE source = "base64"
    <2>1. ContentOf(image) = <<p>> /\ PiecesToSend(image) = {p}
      BY <1>4, <1>6 DEF ContentOf, PiecesToSend
    <2>2. OnceEach(ContentOf(image), PiecesToSend(image))
      BY <1>2, <2>1, OneOnceEach
    <2> QED
      BY <1>2, <1>4, <1>5, <2>1, <2>2, ContentOfOne DEF SaidAlone, image
  <1>7. CASE source = "url"
    <2>1. ContentOf(image) = <<Emptied(p)>> /\ PiecesToSend(image) = {Emptied(p)}
      BY <1>4, <1>7 DEF ContentOf, PiecesToSend
    <2>2. OnceEach(ContentOf(image), PiecesToSend(image))
      BY <1>2, <2>1, OneOnceEach
    <2> QED
      BY <1>2, <1>4, <1>5, <2>1, <2>2, ContentOfOne DEF SaidAlone, image
  <1>8. CASE source = "none"
    <2>1. ContentOf(image) = <<>> /\ PiecesToSend(image) = {}
      BY <1>4, <1>8 DEF ContentOf, PiecesToSend
    <2>2. OnceEach(ContentOf(image), PiecesToSend(image))
      BY <2>1, OnceEachEmpty
    <2> QED
      BY <1>4, <2>1, <2>2, ContentOfOne DEF SaidAlone, image
  <1> QED
    BY <1>6, <1>7, <1>8

\* Two in one sequence.
LEMMA TwoInOne ==
    ASSUME NEW S, NEW x \in S, NEW y \in S
    PROVE  <<x>> \o <<y>> = <<x, y>>
  <1>1. /\ <<x>> \in Seq(S) /\ <<y>> \in Seq(S) /\ <<x, y>> \in Seq(S)
        /\ Len(<<x>>) = 1 /\ Len(<<y>>) = 1 /\ Len(<<x, y>>) = 2
    OBVIOUS
  <1>2. /\ <<x>> \o <<y>> \in Seq(S) /\ Len(<<x>> \o <<y>>) = 2
        /\ \A i \in 1 .. 2 : (<<x>> \o <<y>>)[i] = IF i <= 1 THEN <<x>>[i] ELSE <<y>>[i - 1]
    BY <1>1, ConcatProperties
  <1>3. \A i \in 1 .. 2 : (<<x>> \o <<y>>)[i] = <<x, y>>[i]
    BY <1>2
  <1> QED
    BY <1>1, <1>2, <1>3, SeqEqual

\* What the client says besides its results: of each piece once what can be sent of it.
LEMMA ExtrasOnce ==
    ASSUME NEW n \in Nat, NEW extras \in Extras(n)
    PROVE  /\ extras \in Seq(OtherBlock) /\ extras \in Seq(AnyBlock)
           /\ OnceEach(ContentPieces(extras), PiecesOfContent(extras))
           /\ PiecesOfContent(extras) \subseteq ExtraPieces(n)
  <1>0. OtherBlock \subseteq AnyBlock
    BY DEF AnyBlock
  <1>1. PICK text : text = Block("text", <<"text", n>>)
    OBVIOUS
  <1>2. SaidAlone(n, text) /\ PiecesToSend(text) = {<<"text", n>>}
    BY <1>1, TextAlone
  <1>3. PICK images : images = { ImageBlock(<<"image", n>>, source) : source \in {"base64", "url", "none"} }
    OBVIOUS
  <1>4. \A image \in images : SaidAlone(n, image) /\ <<"text", n>> \notin PiecesToSend(image)
    BY <1>3, ImageAlone
  <1>5. \/ extras = <<>>
        \/ \E block : extras = <<block>> /\ SaidAlone(n, block)
        \/ \E image \in images : extras = <<text, image>>
    BY <1>1, <1>2, <1>3, <1>4 DEF Extras
  <1>6. CASE extras = <<>>
    <2>1. <<>> \in Seq(OtherBlock) /\ <<>> \in Seq(AnyBlock) /\ <<>> \in Seq(ResultBlock)
      BY EmptySeq
    <2>2. ContentPieces(<<>>) = <<>>
      BY <2>1, ResultsLeaveNothing
    <2>3. PiecesOfContent(<<>>) = {}
      BY DEF PiecesOfContent
    <2> QED
      BY <1>6, <2>1, <2>2, <2>3, OnceEachEmpty
  <1>7. CASE \E block : extras = <<block>> /\ SaidAlone(n, block)
    <2>1. PICK block : extras = <<block>> /\ SaidAlone(n, block)
      BY <1>7
    <2>2. block \in OtherBlock /\ block \in AnyBlock
      BY <1>0, <2>1 DEF SaidAlone
    <2>3. <<block>> \in Seq(OtherBlock)
      BY <2>2
    <2>4. <<block>> \in Seq(AnyBlock) /\ ContentPieces(<<block>>) = ContentOf(block)
      BY <2>2, ContentPiecesOne
    <2> QED
      BY <2>1, <2>3, <2>4 DEF SaidAlone
  <1>8. CASE \E image \in images : extras = <<text, image>>
    <2>1. PICK image \in images : extras = <<text, image>>
      BY <1>8
    <2>2. SaidAlone(n, image) /\ <<"text", n>> \notin PiecesToSend(image)
      BY <1>4
    <2>3. /\ text \in OtherBlock /\ text \in AnyBlock
          /\ image \in OtherBlock /\ image \in AnyBlock
      BY <1>0, <1>2, <2>2 DEF SaidAlone
    <2>4. /\ <<text, image>> \in Seq(OtherBlock) /\ <<text, image>> \in Seq(AnyBlock)
          /\ <<text>> \o <<image>> = <<text, image>>
      BY <2>3, TwoInOne
    <2>5. /\ <<text>> \in Seq(AnyBlock) /\ ContentPieces(<<text>>) = ContentOf(text)
          /\ <<image>> \in Seq(AnyBlock) /\ ContentPieces(<<image>>) = ContentOf(image)
      BY <2>3, ContentPiecesOne
    <2>6. ContentPieces(extras) = ContentOf(text) \o ContentOf(image)
      <3>1. ContentPieces(<<text>> \o <<image>>) = ContentPieces(<<text>>) \o ContentPieces(<<image>>)
        BY <2>5, ContentPiecesConcat
      <3> QED
        BY <2>1, <2>4, <2>5, <3>1
    <2>7. PiecesOfContent(extras) = PiecesToSend(text) \cup PiecesToSend(image)
      <3>1. PiecesOfContent(<<text>> \o <<image>>) = PiecesOfContent(<<text>>) \cup PiecesOfContent(<<image>>)
        BY <2>5, ContentConcat
      <3> QED
        BY <2>1, <2>4, <3>1, ContentOfOne
    <2>8. PiecesToSend(text) \cap PiecesToSend(image) = {}
      BY <1>2, <2>2
    <2>9. OnceEach(ContentPieces(extras), PiecesOfContent(extras))
      BY <1>2, <2>2, <2>6, <2>7, <2>8, OnceEachConcat DEF SaidAlone
    <2> QED
      BY <1>2, <2>1, <2>2, <2>4, <2>7, <2>9 DEF SaidAlone
  <1> QED
    BY <1>5, <1>6, <1>7, <1>8

\* Whether the results come first or last, what they and the rest are translated to
\* is the same.
LEMMA EitherOrder ==
    ASSUME NEW extras \in Seq(OtherBlock), NEW results \in Seq(ResultBlock),
           NEW content \in {extras \o results, results \o extras}
    PROVE  /\ content \in Seq(AnyBlock)
           /\ ToolMessages(content) = ToolMessages(results)
           /\ ContentPieces(content) = ContentPieces(extras)
           /\ PiecesOfContent(content) = PiecesOfContent(results) \cup PiecesOfContent(extras)
           /\ extras # <<>> => \E i \in DOMAIN content : content[i].type # "tool_result"
  <1>1. extras \in Seq(AnyBlock) /\ results \in Seq(AnyBlock)
    BY SeqMonotonic DEF AnyBlock
  <1>2. content \in Seq(AnyBlock)
    BY <1>1, ConcatProperties
  <1>3. ToolMessages(content) = ToolMessages(results)
    <2>1. ToolMessages(extras) = <<>>
      BY OthersHaveNoResults
    <2>2. PICK msgs \in Seq(SentMessage) : msgs = ToolMessages(results)
      BY <1>1, ToolMessagesType
    <2>3. msgs \o <<>> = msgs /\ <<>> \o msgs = msgs
      BY ConcatEmptySeq
    <2>4. /\ ToolMessages(extras \o results) = ToolMessages(extras) \o ToolMessages(results)
          /\ ToolMessages(results \o extras) = ToolMessages(results) \o ToolMessages(extras)
      BY <1>1, ToolMessagesConcat
    <2> QED
      BY <2>1, <2>2, <2>3, <2>4
  <1>4. ContentPieces(content) = ContentPieces(extras)
    <2>1. ContentPieces(results) = <<>>
      BY ResultsLeaveNothing
    <2>2. PICK p \in Seq(Piece) : p = ContentPieces(extras)
      BY <1>1, ContentPiecesType
    <2>3. p \o <<>> = p /\ <<>> \o p = p
      BY ConcatEmptySeq
    <2>4. /\ ContentPieces(extras \o results) = ContentPieces(extras) \o ContentPieces(results)
          /\ ContentPieces(results \o extras) = ContentPieces(results) \o ContentPieces(extras)
      BY <1>1, ContentPiecesConcat
    <2> QED
      BY <2>1, <2>2, <2>3, <2>4
  <1>5. PiecesOfContent(content) = PiecesOfContent(results) \cup PiecesOfContent(extras)
    <2>1. /\ PiecesOfContent(extras \o results) = PiecesOfContent(extras) \cup PiecesOfContent(results)
          /\ PiecesOfContent(results \o extras) = PiecesOfContent(results) \cup PiecesOfContent(extras)
      BY <1>1, ContentConcat
    <2>2. CASE content = extras \o results
      BY <2>1, <2>2
    <2>3. CASE content = results \o extras
      BY <2>1, <2>3
    <2> QED
      BY <2>2, <2>3
  <1>6. ASSUME extras # <<>> PROVE \E i \in DOMAIN content : content[i].type # "tool_result"
    <2>1. Len(extras) \in Nat /\ Len(extras) # 0 /\ Len(results) \in Nat
      BY <1>6, EmptySeq, LenProperties
    <2>2. extras[1] \in OtherBlock
      BY <2>1, ElementOfSeq
    <2>3. extras[1].type # "tool_result"
      BY <2>2 DEF OtherBlock, PlainBlock, PictureBlock, PlainTypes
    <2>4. CASE content = extras \o results
      <3>1. DOMAIN content = 1 .. Len(content) /\ Len(content) = Len(extras) + Len(results)
        BY <1>1, <1>2, <2>4, ConcatProperties, LenProperties
      <3>2. 1 \in DOMAIN content
        BY <3>1, <2>1
      <3>3. content[1] = extras[1]
        <4>1. 1 \in 1 .. Len(extras) + Len(results) /\ 1 <= Len(extras)
          BY <2>1
        <4> QED
          BY <4>1, <1>1, <2>4, ConcatProperties
      <3> QED
        BY <2>3, <3>2, <3>3
    <2>5. CASE content = results \o extras
      <3>1. DOMAIN content = 1 .. Len(content) /\ Len(content) = Len(results) + Len(extras)
        BY <1>1, <1>2, <2>5, ConcatProperties, LenProperties
      <3>2. PICK i \in 1 .. Len(results) + Len(extras) : i = Len(results) + 1
        BY <2>1
      <3>3. content[i] = extras[1]
        <4>1. ~ (i <= Len(results)) /\ i - Len(results) = 1
          BY <2>1, <3>2
        <4> QED
          BY <4>1, <1>1, <2>5, ConcatProperties
      <3> QED
        BY <2>3, <3>1, <3>3
    <2> QED
      BY <2>4, <2>5
  <1> QED
    BY <1>2, <1>3, <1>4, <1>5, <1>6

\* What a question of the client is translated to: the messages that answer the
\* calls, in some order, and one with the rest if there is any.
Answering(msgs, order) ==
    /\ msgs \in Seq(SentMessage) /\ Len(msgs) = Len(order)
    /\ \A i \in 1 .. Len(order) : msgs[i].calls = <<>> /\ msgs[i].answers = order[i]

\* None of the messages calls a tool or answers a call.
CallsNothing(msgs) ==
    /\ msgs \in Seq(SentMessage)
    /\ \A i \in DOMAIN msgs : msgs[i].calls = <<>> /\ msgs[i].answers = NoCall

\* A content of the client in turn n is translated to answers of all the pending
\* calls, then messages that neither call nor answer; each piece is in one place.
QuestionMade(n, content) ==
    LET message == [role |-> "user", content |-> content]
    IN  /\ message \in ClientMessage
        /\ PiecesOfContent(content) \subseteq ResultPieces(n) \cup ExtraPieces(n)
        /\ \E order, msgs, rest :
             /\ OnceEach(order, ToSet(pending)) /\ Len(order) = Len(pending)
             /\ Answering(msgs, order) /\ CallsNothing(rest)
             /\ MessagesOf(message) = msgs \o rest
             /\ OnceEach(FlatMap(PiecesIn, msgs \o rest), PiecesOfContent(content))

\* Whatever the client says in its turn is translated so.
LEMMA QuestionTranslated ==
    ASSUME NEW n \in Nat, OnceEach(pending, ToSet(pending)),
           NEW extras \in Extras(n), NEW results \in Results(n),
           NEW content \in {extras \o results, results \o extras}
    PROVE  QuestionMade(n, content)
  <1> DEFINE message == [role |-> "user", content |-> content]
  <1>1. PICK order \in SetToSeqs(ToSet(pending)), full \in BOOLEAN :
          results = ResultsInOrder(n, order, full)
    BY DEF Results, ResultsInOrder
  <1>2. OnceEach(order, ToSet(pending)) /\ Len(order) = Len(pending)
    BY OrderIsOnceEach
  <1>3. results \in Seq(ResultBlock) /\ results \in Seq(AnyBlock)
    BY <1>1, <1>2, ResultsType
  <1>4. /\ extras \in Seq(OtherBlock) /\ extras \in Seq(AnyBlock)
        /\ OnceEach(ContentPieces(extras), PiecesOfContent(extras))
        /\ PiecesOfContent(extras) \subseteq ExtraPieces(n)
    BY ExtrasOnce
  <1>5. /\ content \in Seq(AnyBlock)
        /\ ToolMessages(content) = ToolMessages(results)
        /\ ContentPieces(content) = ContentPieces(extras)
        /\ PiecesOfContent(content) = PiecesOfContent(results) \cup PiecesOfContent(extras)
        /\ extras # <<>> => \E i \in DOMAIN content : content[i].type # "tool_result"
    BY <1>3, <1>4, EitherOrder
  <1>6. message \in ClientMessage
    BY <1>5 DEF ClientMessage
  <1> DEFINE msgs == ToolMessages(results)
             said == OpenAIMessage("user", ContentPieces(content), <<>>, NoCall)
             hasOthers == \E i \in DOMAIN content : content[i].type # "tool_result"
             rest == IF hasOthers \/ content = <<>> THEN << said >> ELSE <<>>
  <1>7. MessagesOf(message) = msgs \o rest
    BY <1>5 DEF MessagesOf, UserMessages
  <1>8. Answering(msgs, order)
    <2>1. /\ msgs \in Seq(SentMessage) /\ Len(msgs) = Len(order)
          /\ \A i \in 1 .. Len(order) :
               msgs[i] = OpenAIMessage("tool", results[i].content, <<>>, order[i])
      BY <1>1, <1>2, ResultMessages
    <2> HIDE DEF msgs
    <2>2. ASSUME NEW i \in 1 .. Len(order) PROVE msgs[i].calls = <<>> /\ msgs[i].answers = order[i]
      <3>1. msgs[i] = OpenAIMessage("tool", results[i].content, <<>>, order[i])
        BY <2>1
      <3> QED
        BY <3>1 DEF OpenAIMessage
    <2> QED
      BY <2>1, <2>2 DEF Answering
  <1>9. said \in SentMessage /\ said.calls = <<>> /\ said.answers = NoCall /\ said.parts = ContentPieces(content)
    <2>1. ContentPieces(content) \in Seq(Piece)
      BY <1>4, <1>5 DEF OnceEach
    <2>2. <<>> \in Seq(Piece)
      BY EmptySeq
    <2>3. said \in SentMessage
      BY <2>1, <2>2, OpenAIMessageType DEF Roles
    <2> QED
      BY <2>3 DEF OpenAIMessage
  <1>10. /\ CallsNothing(rest) /\ rest \in Seq(SentMessage)
         /\ FlatMap(PiecesIn, rest) = ContentPieces(extras)
    <2> HIDE DEF said
    <2>1. CASE hasOthers \/ content = <<>>
      <3>1. rest = <<said>>
        BY <2>1
      <3>2. FlatMap(PiecesIn, <<said>>) = said.parts \o said.calls
        BY <1>9, PiecesOfOneMessage
      <3>3. ContentPieces(extras) \o <<>> = ContentPieces(extras)
        BY <1>4, ConcatEmptySeq DEF OnceEach
      <3>4. CallsNothing(<<said>>) /\ <<said>> \in Seq(SentMessage)
        BY <1>9 DEF CallsNothing
      <3> QED
        BY <3>1, <3>2, <3>3, <3>4, <1>5, <1>9
    <2>2. CASE ~ (hasOthers \/ content = <<>>)
      <3>1. rest = <<>> /\ extras = <<>>
        BY <2>2, <1>5
      <3>2. CallsNothing(<<>>) /\ <<>> \in Seq(SentMessage)
        BY EmptySeq DEF CallsNothing
      <3>3. ContentPieces(<<>>) = <<>>
        BY ResultsLeaveNothing, EmptySeq
      <3>4. FlatMap(PiecesIn, <<>>) = <<>>
        BY FlatMapEmpty
      <3> QED
        BY <3>1, <3>2, <3>3, <3>4
    <2> QED
      BY <2>1, <2>2
  <1>11. /\ OnceEach(FlatMap(PiecesIn, msgs), PiecesOfContent(results))
         /\ PiecesOfContent(results) \subseteq ResultPieces(n)
    BY <1>1, <1>2, ResultPiecesOnce
  <1>12. msgs \in Seq(SentMessage)
    BY <1>8 DEF Answering
  <1> HIDE DEF msgs, rest, message
  <1>13. FlatMap(PiecesIn, msgs \o rest) = FlatMap(PiecesIn, msgs) \o FlatMap(PiecesIn, rest)
    BY <1>10, <1>12, PiecesInConcat
  <1>14. PiecesOfContent(results) \cap PiecesOfContent(extras) = {}
    BY <1>4, <1>11, PieceForms
  <1>15. OnceEach(FlatMap(PiecesIn, msgs \o rest), PiecesOfContent(content))
    <2>1. OnceEach(FlatMap(PiecesIn, msgs) \o ContentPieces(extras),
                   PiecesOfContent(results) \cup PiecesOfContent(extras))
      BY <1>4, <1>11, <1>14, OnceEachConcat
    <2> QED
      BY <2>1, <1>5, <1>10, <1>13
  <1>16. PiecesOfContent(content) \subseteq ResultPieces(n) \cup ExtraPieces(n)
    BY <1>4, <1>5, <1>11
  <1> QED
    BY <1>2, <1>6, <1>7, <1>8, <1>10, <1>15, <1>16 DEF message, QuestionMade

-----------------------------------------------------------------------------
(* Conversation: what the upstream answers, kept and translated *)

\* One sequence, and two, flattened.
LEMMA FlattenOneOrTwo ==
    ASSUME NEW S, NEW x \in Seq(S), NEW y \in Seq(S)
    PROVE  FlattenSeq(<<x>>) = x /\ FlattenSeq(<<x, y>>) = x \o y
  <1>1. <<>> \in Seq(Seq(S)) /\ <<x>> \in Seq(Seq(S))
    <2>1. Append(<<>>, x) \in Seq(Seq(S)) /\ <<>> \in Seq(Seq(S))
      BY EmptySeq, AppendProperties
    <2>2. Append(<<>>, x) = <<x>>
      OBVIOUS
    <2> QED
      BY <2>1, <2>2
  <1>2. Append(<<>>, x) = <<x>> /\ Append(<<x>>, y) = <<x, y>>
    <2>1. <<x>> \in Seq(Seq(S)) /\ <<x, y>> \in Seq(Seq(S)) /\ Len(<<x, y>>) = 2 /\ Len(<<x>>) = 1
      OBVIOUS
    <2>2. /\ Append(<<x>>, y) \in Seq(Seq(S)) /\ Len(Append(<<x>>, y)) = 2
          /\ Append(<<x>>, y)[1] = x /\ Append(<<x>>, y)[2] = y
      BY <2>1, AppendProperties
    <2>3. \A i \in 1 .. 2 : Append(<<x>>, y)[i] = <<x, y>>[i]
      BY <2>2
    <2>4. Append(<<x>>, y) = <<x, y>>
      BY <2>1, <2>2, <2>3, SeqEqual
    <2>5. Append(<<>>, x) = <<x>>
      OBVIOUS
    <2> QED
      BY <2>4, <2>5
  <1>3. <<>> \o x = x
    BY ConcatEmptySeq
  <1>4. FlattenSeq(<<x>>) = x
    BY <1>1, <1>2, <1>3, FlattenAppend, FlattenEmpty
  <1> QED
    BY <1>1, <1>2, <1>4, FlattenAppend

\* The choices of an answer, and the calls in it.
Choice(message, text, calls, finish) ==
    [message |-> message, text |-> text, calls |-> calls, finish |-> finish]
RawCalls(n, k, bad) == [i \in 1 .. k |-> [piece |-> <<"call", n, i>>, valid |-> i \notin bad]]
TextsOf(n) == { <<>>, << <<"answer", n>> >> }
\* With a message or without, and the text in it.
SaidOf(n) == { <<TRUE, << <<"answer", n>> >> >>, <<TRUE, <<>> >>, <<FALSE, <<>> >> }
Finishes == {"stop", "length", "tool_calls", "none"}

\* One choice; or two, the calls in one of their own.
Alone(choices, text, calls, finish) ==
    \E message : choices = << Choice(message, text, calls, finish) >>
Apart(choices, text, calls, finish) ==
    \E message :
        \/ choices = << Choice(message, text, <<>>, finish), Choice(TRUE, <<>>, calls, "tool_calls") >>
        \/ choices = << Choice(TRUE, <<>>, calls, "tool_calls"), Choice(message, text, <<>>, finish) >>

WithCalls(n, k, bad, s, finish) ==
    { << Choice(TRUE, s[2], RawCalls(n, k, bad), "tool_calls") >>,
      << Choice(s[1], s[2], <<>>, finish), Choice(TRUE, <<>>, RawCalls(n, k, bad), "tool_calls") >>,
      << Choice(TRUE, <<>>, RawCalls(n, k, bad), "tool_calls"), Choice(s[1], s[2], <<>>, finish) >> }

\* The answers of the upstream have one of these forms.
LEMMA AnswerForms ==
    ASSUME NEW n \in Nat, NEW choices \in AnswersOf(n)
    PROVE  \E text \in TextsOf(n), k \in Nat, bad \in SUBSET Nat, finish \in Finishes :
             LET calls == RawCalls(n, k, bad)
             IN  \/ k = 0 /\ finish # "tool_calls" /\ Alone(choices, text, calls, finish)
                 \/ k # 0 /\ finish = "tool_calls" /\ Alone(choices, text, calls, finish)
                 \/ k # 0 /\ Apart(choices, text, calls, finish)
  <1>0. MaxCalls \in Nat
    BY ConstantsAssumption
  <1>1. ASSUME NEW s \in SaidOf(n) PROVE s[2] \in TextsOf(n)
    <2>1. PICK text : text = << <<"answer", n>> >>
      OBVIOUS
    <2>2. <<TRUE, text>>[2] = text /\ <<TRUE, <<>> >>[2] = <<>> /\ <<FALSE, <<>> >>[2] = <<>>
      OBVIOUS
    <2>3. s = <<TRUE, text>> \/ s = <<TRUE, <<>> >> \/ s = <<FALSE, <<>> >>
      BY <2>1 DEF SaidOf
    <2>4. s[2] = text \/ s[2] = <<>>
      BY <2>2, <2>3
    <2> QED
      BY <2>1, <2>4 DEF TextsOf
  <1>2. CASE \E s \in SaidOf(n), finish \in {"stop", "length", "none"} :
               choices = << Choice(s[1], s[2], <<>>, finish) >>
    <2>1. PICK s \in SaidOf(n), finish \in {"stop", "length", "none"} :
               choices = << Choice(s[1], s[2], <<>>, finish) >>
      BY <1>2
    <2>2. RawCalls(n, 0, {}) = <<>>
      BY DEF RawCalls
    <2>3. Alone(choices, s[2], RawCalls(n, 0, {}), finish)
      BY <2>1, <2>2 DEF Alone
    <2>4. finish \in Finishes /\ finish # "tool_calls" /\ {} \in SUBSET Nat
      BY DEF Finishes
    <2> QED
      BY <1>1, <2>3, <2>4
  <1>3. CASE \E k \in 1 .. MaxCalls : \E s \in SaidOf(n), bad \in SUBSET (1 .. k), finish \in Finishes :
               choices \in WithCalls(n, k, bad, s, finish)
    <2>1. PICK k \in 1 .. MaxCalls : \E s \in SaidOf(n), bad \in SUBSET (1 .. k), finish \in Finishes :
               choices \in WithCalls(n, k, bad, s, finish)
      BY <1>3
    <2>2. PICK s \in SaidOf(n), bad \in SUBSET (1 .. k), finish \in Finishes :
               choices \in WithCalls(n, k, bad, s, finish)
      BY <2>1
    <2>3. k \in Nat /\ k # 0 /\ bad \in SUBSET Nat /\ "tool_calls" \in Finishes
      BY <1>0 DEF Finishes
    <2>4. CASE choices = << Choice(TRUE, s[2], RawCalls(n, k, bad), "tool_calls") >>
      <3>1. Alone(choices, s[2], RawCalls(n, k, bad), "tool_calls")
        BY <2>4 DEF Alone
      <3> QED
        BY <1>1, <2>3, <3>1
    <2>5. CASE choices # << Choice(TRUE, s[2], RawCalls(n, k, bad), "tool_calls") >>
      <3>1. Apart(choices, s[2], RawCalls(n, k, bad), finish)
        BY <2>2, <2>5 DEF Apart, WithCalls
      <3> QED
        BY <1>1, <2>3, <3>1
    <2> QED
      BY <2>4, <2>5
  <1>4. \/ \E s \in SaidOf(n), finish \in {"stop", "length", "none"} :
             choices = << Choice(s[1], s[2], <<>>, finish) >>
        \/ \E k \in 1 .. MaxCalls : \E s \in SaidOf(n), bad \in SUBSET (1 .. k), finish \in Finishes :
             choices \in WithCalls(n, k, bad, s, finish)
    <2> DEFINE P == { << Choice(s[1], s[2], <<>>, finish) >> :
                      s \in SaidOf(n), finish \in {"stop", "length", "none"} }
               Q(k) == UNION { WithCalls(n, k, bad, s, finish) :
                               s \in SaidOf(n), bad \in SUBSET (1 .. k), finish \in Finishes }
    <2>1. AnswersOf(n) = P \cup UNION { Q(k) : k \in 1 .. MaxCalls }
      BY DEF AnswersOf, WithCalls, Choice, RawCalls, SaidOf, Finishes
    <2>2. CASE choices \in P
      BY <2>2
    <2>3. CASE choices \notin P
      <3>1. choices \in UNION { Q(k) : k \in 1 .. MaxCalls }
        BY <2>1, <2>3
      <3>2. PICK k \in 1 .. MaxCalls : choices \in Q(k)
        BY <3>1
      <3> QED
        BY <3>2
    <2> QED
      BY <2>2, <2>3
  <1> QED
    BY <1>2, <1>3, <1>4

\* The finish reason of one choice and of two.
Later(reason, choice) ==
    IF /\ choice.message /\ choice.finish # "none"
       /\ choice.finish = "tool_calls" \/ reason \in {"none", "stop"}
    THEN choice.finish ELSE reason

LaterOf(reason, choices) == FoldLeft(Later, reason, choices)

LEMMA LaterOfOne == ASSUME NEW r, NEW x PROVE LaterOf(r, <<x>>) = Later(r, x)
  <1> DEFINE choices == <<x>>
             Iter(s, g) == IF s = {} THEN r ELSE LET i == Max(s) IN Later(g[s \ {i}], choices[i])
             fold == CHOOSE g : g = [s \in SUBSET (DOMAIN choices) |-> Iter(s, g)]
             G == [s \in SUBSET (DOMAIN choices) |-> IF s = {} THEN r ELSE Later(r, x)]
  <1>1. LaterOf(r, choices) = fold[DOMAIN choices]
    BY DEF LaterOf, FoldLeft, MapThenFoldSet
  <1>2. DOMAIN choices = {1} /\ choices[1] = x
    OBVIOUS
  <1>3. Max({1}) = 1
    BY DEF Max
  <1> HIDE DEF choices
  <1>4. G = [s \in SUBSET (DOMAIN choices) |-> Iter(s, G)]
    <2> SUFFICES ASSUME NEW s \in SUBSET {1} PROVE G[s] = Iter(s, G)
      BY <1>2
    <2>1. CASE s = {}
      BY <2>1, <1>2
    <2>2. CASE s = {1}
      <3>1. Max(s) = 1 /\ s \ {1} = {}
        BY <2>2, <1>3
      <3> QED
        BY <3>1, <2>2, <1>2
    <2> QED
      BY <2>1, <2>2
  <1>5. fold = [s \in SUBSET (DOMAIN choices) |-> Iter(s, fold)]
    <2> HIDE DEF G, Iter
    <2> QED
      BY <1>4
  <1> HIDE DEF fold
  <1>6. fold[{}] = r
    BY <1>5
  <1>7. fold[{1}] = Later(fold[{}], choices[1])
    <2>1. {1} \ {1} = {} /\ {1} # {}
      OBVIOUS
    <2> QED
      BY <1>2, <1>3, <1>5, <2>1
  <1> QED
    BY <1>1, <1>2, <1>6, <1>7 DEF choices

LEMMA LaterOfTwo ==
    ASSUME NEW r, NEW x, NEW y PROVE LaterOf(r, <<x, y>>) = Later(Later(r, x), y)
  <1> DEFINE choices == <<x, y>>
             Iter(s, g) == IF s = {} THEN r ELSE LET i == Max(s) IN Later(g[s \ {i}], choices[i])
             fold == CHOOSE g : g = [s \in SUBSET (DOMAIN choices) |-> Iter(s, g)]
             G == [s \in SUBSET (DOMAIN choices) |->
                     IF s = {} THEN r
                     ELSE IF s = {1} THEN Later(r, x)
                     ELSE IF s = {2} THEN Later(r, y)
                     ELSE Later(Later(r, x), y)]
  <1>1. LaterOf(r, choices) = fold[DOMAIN choices]
    BY DEF LaterOf, FoldLeft, MapThenFoldSet
  <1>2. DOMAIN choices = {1, 2} /\ choices[1] = x /\ choices[2] = y
    OBVIOUS
  <1>3. Max({1}) = 1 /\ Max({2}) = 2 /\ Max({1, 2}) = 2
    BY DEF Max
  <1>4. /\ {1} \ {1} = {} /\ {2} \ {2} = {} /\ {1, 2} \ {2} = {1}
        /\ {1} # {} /\ {2} # {} /\ {1, 2} # {} /\ {1} # {2} /\ {1, 2} # {1} /\ {1, 2} # {2}
    OBVIOUS
  <1>5. \A s \in SUBSET {1, 2} : s = {} \/ s = {1} \/ s = {2} \/ s = {1, 2}
    <2> SUFFICES ASSUME NEW s \in SUBSET {1, 2} PROVE s = {} \/ s = {1} \/ s = {2} \/ s = {1, 2}
      OBVIOUS
    <2>1. CASE 1 \in s /\ 2 \in s
      BY <2>1
    <2>2. CASE 1 \in s /\ 2 \notin s
      BY <2>2
    <2>3. CASE 1 \notin s /\ 2 \in s
      BY <2>3
    <2>4. CASE 1 \notin s /\ 2 \notin s
      BY <2>4
    <2> QED
      BY <2>1, <2>2, <2>3, <2>4
  <1> HIDE DEF choices
  <1>6. G = [s \in SUBSET (DOMAIN choices) |-> Iter(s, G)]
    <2>1. {} \in SUBSET {1, 2} /\ {1} \in SUBSET {1, 2}
      OBVIOUS
    <2>2. G[{}] = r /\ G[{1}] = Later(r, x)
      BY <1>2, <1>4, <2>1
    <2> SUFFICES ASSUME NEW s \in SUBSET {1, 2} PROVE G[s] = Iter(s, G)
      BY <1>2
    <2>3. CASE s = {}
      BY <2>3, <1>2
    <2>4. CASE s = {1}
      <3>1. G[s] = Later(r, x)
        BY <1>2, <1>4, <2>4
      <3> HIDE DEF G
      <3> QED
        BY <3>1, <2>4, <2>2, <1>2, <1>3, <1>4
    <2>5. CASE s = {2}
      <3>1. G[s] = Later(r, y)
        BY <1>2, <1>4, <2>5
      <3> HIDE DEF G
      <3> QED
        BY <3>1, <2>5, <2>2, <1>2, <1>3, <1>4
    <2>6. CASE s = {1, 2}
      <3>1. G[s] = Later(Later(r, x), y)
        BY <1>2, <1>4, <2>6
      <3> HIDE DEF G
      <3> QED
        BY <3>1, <2>6, <2>2, <1>2, <1>3, <1>4
    <2> QED
      BY <1>5, <2>3, <2>4, <2>5, <2>6
  <1>7. fold = [s \in SUBSET (DOMAIN choices) |-> Iter(s, fold)]
    <2> HIDE DEF G, Iter
    <2> QED
      BY <1>6
  <1> HIDE DEF fold
  <1>8. \A s \in SUBSET {1, 2} : fold[s] = Iter(s, fold)
    BY <1>2, <1>7
  <1>9. fold[{}] = r
    BY <1>8
  <1>10. fold[{1}] = Later(r, x)
    <2>1. {1} \in SUBSET {1, 2}
      OBVIOUS
    <2>2. fold[{1}] = Iter({1}, fold)
      BY <1>8, <2>1
    <2> QED
      BY <1>2, <1>3, <1>4, <1>9, <2>2
  <1>11. fold[{1, 2}] = Later(Later(r, x), y)
    <2>1. fold[{1, 2}] = Iter({1, 2}, fold)
      BY <1>8
    <2> QED
      BY <1>2, <1>3, <1>4, <1>10, <2>1
  <1> QED
    BY <1>1, <1>2, <1>11 DEF choices

\* What an answer finishes with: tool_calls if it has calls, and only then.
LEMMA AnswerFinishes ==
    ASSUME NEW choices, NEW text, NEW calls, NEW finish \in Finishes
    PROVE  /\ Alone(choices, text, calls, finish) => FinishReason(choices) = finish
           /\ Apart(choices, text, calls, finish) => FinishReason(choices) = "tool_calls"
  <1>1. FinishReason(choices) = LaterOf(choices[1].finish, choices)
    BY DEF FinishReason, LaterOf, Later
  <1>2. ASSUME Alone(choices, text, calls, finish) PROVE FinishReason(choices) = finish
    <2>1. PICK message : choices = << Choice(message, text, calls, finish) >>
      BY <1>2 DEF Alone
    <2>2. PICK c : c = Choice(message, text, calls, finish)
      OBVIOUS
    <2>3. choices = <<c>> /\ c.finish = finish
      BY <2>1, <2>2 DEF Choice
    <2>4. FinishReason(choices) = Later(finish, c)
      BY <1>1, <2>3, LaterOfOne
    <2> QED
      BY <2>3, <2>4 DEF Later
  <1>3. ASSUME Apart(choices, text, calls, finish) PROVE FinishReason(choices) = "tool_calls"
    <2>1. PICK message :
            \/ choices = << Choice(message, text, <<>>, finish), Choice(TRUE, <<>>, calls, "tool_calls") >>
            \/ choices = << Choice(TRUE, <<>>, calls, "tool_calls"), Choice(message, text, <<>>, finish) >>
      BY <1>3 DEF Apart
    <2>2. PICK c, d : c = Choice(message, text, <<>>, finish) /\ d = Choice(TRUE, <<>>, calls, "tool_calls")
      OBVIOUS
    <2>3. /\ choices = <<c, d>> \/ choices = <<d, c>>
          /\ c.finish = finish /\ d.finish = "tool_calls" /\ d.message
      BY <2>1, <2>2 DEF Choice
    <2>4. CASE choices = <<c, d>>
      <3>1. FinishReason(choices) = Later(Later(finish, c), d)
        BY <1>1, <2>3, <2>4, LaterOfTwo
      <3> QED
        BY <2>3, <3>1 DEF Later
    <2>5. CASE choices = <<d, c>>
      <3>1. FinishReason(choices) = Later(Later("tool_calls", d), c)
        BY <1>1, <2>3, <2>5, LaterOfTwo
      <3>2. Later("tool_calls", d) = "tool_calls"
        BY <2>3 DEF Later
      <3>3. Later("tool_calls", c) = "tool_calls"
        BY <2>3 DEF Later
      <3> QED
        BY <3>1, <3>2, <3>3
    <2> QED
      BY <2>3, <2>4, <2>5
  <1> QED
    BY <1>2, <1>3

\* Blocks of pieces.
LEMMA NoBlocks == ASSUME NEW type PROVE Blocks(type, <<>>) = <<>>
  BY DEF Blocks

LEMMA BlocksAreAny ==
    ASSUME NEW pieces \in Seq(Piece), NEW type \in PlainTypes
    PROVE  Blocks(type, pieces) \in Seq(PlainBlock) /\ Blocks(type, pieces) \in Seq(AnyBlock)
  <1>1. {type} \in SUBSET PlainTypes /\ type \in {type}
    OBVIOUS
  <1>2. Blocks(type, pieces) \in Seq({b \in PlainBlock : b.type = type})
    BY <1>1, BlocksLeaveAll
  <1>3. {b \in PlainBlock : b.type = type} \subseteq PlainBlock /\ PlainBlock \subseteq AnyBlock
    BY DEF AnyBlock, OtherBlock
  <1>4. Blocks(type, pieces) \in Seq(PlainBlock)
    BY <1>2, <1>3, SeqMonotonic
  <1> QED
    BY <1>3, <1>4, SeqMonotonic

\* What has to be sent of calls, and of an answer.
CallsToSend(calls) == {CallToSend(calls[j]) : j \in DOMAIN calls}
SaidIn(choices) ==
    UNION {ToSet(choices[i].text) \cup CallsToSend(choices[i].calls) : i \in DOMAIN choices}

\* No calls leave nothing.
LEMMA NoCalls == ToolUseBlocks(<<>>) = <<>> /\ CallsToSend(<<>>) = {}
  <1>1. [i \in DOMAIN <<>> |-> ParseJSONSafe(<<>>[i])] = <<>>
    OBVIOUS
  <1>2. ToolUseBlocks(<<>>) = <<>>
    BY <1>1, NoBlocks DEF ToolUseBlocks
  <1> QED
    BY <1>2 DEF CallsToSend

\* However it is spread over choices, the client gets the text and then the calls.
LEMMA AnswerContent ==
    ASSUME NEW text \in Seq(Piece), NEW calls, ToolUseBlocks(calls) \in Seq(AnyBlock),
           NEW choices, NEW finish,
           Alone(choices, text, calls, finish) \/ Apart(choices, text, calls, finish)
    PROVE  /\ AnthropicAnswer(choices).content = Blocks("text", text) \o ToolUseBlocks(calls)
           /\ SaidIn(choices) = ToSet(text) \cup CallsToSend(calls)
  <1> DEFINE texts == [i \in DOMAIN choices |-> Blocks("text", choices[i].text)]
             uses == [i \in DOMAIN choices |-> ToolUseBlocks(choices[i].calls)]
             pieces == SaidIn(choices)
             t == Blocks("text", text)
             u == ToolUseBlocks(calls)
  <1>1. t \in Seq(AnyBlock) /\ u \in Seq(AnyBlock) /\ <<>> \in Seq(AnyBlock)
    BY BlocksAreAny, EmptySeq DEF PlainTypes
  <1>2. t \o <<>> = t /\ <<>> \o t = t /\ u \o <<>> = u /\ <<>> \o u = u
    BY <1>1, ConcatEmptySeq
  <1>3. ToSet(<<>>) = {} /\ CallsToSend(<<>>) = {} /\ ToolUseBlocks(<<>>) = <<>>
    BY NoCalls DEF ToSet
  <1>4. AnthropicAnswer(choices).content = FlattenSeq(texts) \o FlattenSeq(uses)
    BY DEF AnthropicAnswer
  <1>5. CASE Alone(choices, text, calls, finish)
    <2>1. PICK message : choices = << Choice(message, text, calls, finish) >>
      BY <1>5 DEF Alone
    <2>2. PICK c : c = Choice(message, text, calls, finish)
      OBVIOUS
    <2>3. choices = <<c>> /\ c.text = text /\ c.calls = calls
      BY <2>1, <2>2 DEF Choice
    <2>4. DOMAIN choices = {1} /\ choices[1] = c
      BY <2>3
    <2>5. texts = <<t>> /\ uses = <<u>>
      <3>1. texts = [i \in {1} |-> t] /\ uses = [i \in {1} |-> u]
        BY <2>3, <2>4
      <3> HIDE DEF t, u, texts, uses
      <3> QED
        BY <3>1
    <2>6. pieces = ToSet(text) \cup CallsToSend(calls)
      BY <2>3, <2>4 DEF SaidIn
    <2> HIDE DEF t, u, texts, uses, pieces
    <2>7. FlattenSeq(<<t>>) = t /\ FlattenSeq(<<u>>) = u
      BY <1>1, FlattenOneOrTwo
    <2> QED
      BY <1>4, <2>5, <2>6, <2>7 DEF pieces, t, u
  <1>6. CASE Apart(choices, text, calls, finish)
    <2>1. PICK message :
            \/ choices = << Choice(message, text, <<>>, finish), Choice(TRUE, <<>>, calls, "tool_calls") >>
            \/ choices = << Choice(TRUE, <<>>, calls, "tool_calls"), Choice(message, text, <<>>, finish) >>
      BY <1>6 DEF Apart
    <2>2. PICK c, d : c = Choice(message, text, <<>>, finish) /\ d = Choice(TRUE, <<>>, calls, "tool_calls")
      OBVIOUS
    <2>3. /\ choices = <<c, d>> \/ choices = <<d, c>>
          /\ c.text = text /\ c.calls = <<>> /\ d.text = <<>> /\ d.calls = calls
      BY <2>1, <2>2 DEF Choice
    <2>4. DOMAIN choices = {1, 2}
      BY <2>3
    <2>5. Blocks("text", <<>>) = <<>>
      BY NoBlocks
    <2>6. CASE choices = <<c, d>>
      <3>1. choices[1] = c /\ choices[2] = d
        BY <2>6
      <3>2. texts = <<t, <<>> >> /\ uses = << <<>>, u>>
        <4>1. /\ texts = [i \in {1, 2} |-> IF i = 1 THEN t ELSE <<>>]
              /\ uses = [i \in {1, 2} |-> IF i = 1 THEN <<>> ELSE u]
          BY <1>3, <2>3, <2>4, <2>5, <3>1
        <4> HIDE DEF t, u, texts, uses
        <4> QED
          BY <4>1
      <3>3. pieces = ToSet(text) \cup CallsToSend(calls)
        BY <2>3, <2>4, <3>1, <1>3 DEF SaidIn
      <3> HIDE DEF t, u, texts, uses, pieces
      <3>4. FlattenSeq(<<t, <<>> >>) = t \o <<>> /\ FlattenSeq(<< <<>>, u>>) = <<>> \o u
        BY <1>1, FlattenOneOrTwo
      <3> QED
        BY <1>2, <1>4, <3>2, <3>3, <3>4 DEF pieces, t, u
    <2>7. CASE choices = <<d, c>>
      <3>1. choices[1] = d /\ choices[2] = c
        BY <2>7
      <3>2. texts = << <<>>, t>> /\ uses = <<u, <<>> >>
        <4>1. /\ texts = [i \in {1, 2} |-> IF i = 1 THEN <<>> ELSE t]
              /\ uses = [i \in {1, 2} |-> IF i = 1 THEN u ELSE <<>>]
          BY <1>3, <2>3, <2>4, <2>5, <3>1
        <4> HIDE DEF t, u, texts, uses
        <4> QED
          BY <4>1
      <3>3. pieces = ToSet(text) \cup CallsToSend(calls)
        BY <2>3, <2>4, <3>1, <1>3 DEF SaidIn
      <3> HIDE DEF t, u, texts, uses, pieces
      <3>4. FlattenSeq(<<u, <<>> >>) = u \o <<>> /\ FlattenSeq(<< <<>>, t>>) = <<>> \o t
        BY <1>1, FlattenOneOrTwo
      <3> QED
        BY <1>2, <1>4, <3>2, <3>3, <3>4 DEF pieces, t, u
    <2> QED
      BY <2>3, <2>6, <2>7
  <1> QED
    BY <1>5, <1>6

\* The pieces of calls, and those an answer of turn n may have.
CallPieces(n) ==
    {<<"call", n, i>> : i \in Nat} \cup {Emptied(<<"call", n, i>>) : i \in Nat}
AnswerPieces(n) == { <<"answer", n>> } \cup CallPieces(n)

\* The calls as the client gets them, in turn n.
CallsOf(n, k, bad) ==
    [i \in 1 .. k |-> IF i \in bad THEN Emptied(<<"call", n, i>>) ELSE <<"call", n, i>>]

\* They are pieces of the turn, each once, and what the client gets is what has to
\* be sent again.
LEMMA CallsOfTypes ==
    ASSUME NEW n \in Nat, NEW k \in Nat, NEW bad \in SUBSET Nat
    PROVE  LET calls == CallsOf(n, k, bad)
           IN  /\ calls \in Seq(Piece) /\ (calls = <<>> <=> k = 0)
               /\ OnceEach(calls, ToSet(calls))
               /\ ToSet(calls) \subseteq CallPieces(n)
               /\ ToolUseBlocks(RawCalls(n, k, bad)) = Blocks("tool_use", calls)
               /\ CallsToSend(RawCalls(n, k, bad)) = ToSet(calls)
  <1> DEFINE calls == CallsOf(n, k, bad)
             raw == RawCalls(n, k, bad)
  <1>1. ASSUME NEW i \in 1 .. k
        PROVE  calls[i] \in Piece /\ calls[i] \in CallPieces(n)
    <2>0. i \in Nat
      OBVIOUS
    <2>1. PICK p \in {"call"} \X Nat \X Nat : p = <<"call", n, i>>
      BY <2>0
    <2>2. p \in Piece /\ Emptied(p) \in Piece
      BY EmptiedType
    <2>3. p \in CallPieces(n) /\ Emptied(p) \in CallPieces(n)
      BY <2>0, <2>1 DEF CallPieces
    <2>4. calls[i] = p \/ calls[i] = Emptied(p)
      BY <2>1 DEF CallsOf
    <2> QED
      BY <2>2, <2>3, <2>4
  <1>2. /\ calls \in Seq(Piece) /\ Len(calls) = k /\ DOMAIN calls = 1 .. k
        /\ calls = <<>> <=> k = 0
    <2>1. calls \in [1 .. k -> Piece]
      BY <1>1 DEF CallsOf
    <2> HIDE DEF calls
    <2>2. calls \in Seq(Piece) /\ Len(calls) = k /\ DOMAIN calls = 1 .. k
      BY <2>1
    <2> QED
      BY <2>2, EmptySeq
  <1>3. ASSUME NEW i \in 1 .. k, NEW j \in 1 .. k, calls[i] = calls[j] PROVE i = j
    <2>1. calls[i] = IF i \in bad THEN Emptied(<<"call", n, i>>) ELSE <<"call", n, i>>
      BY DEF CallsOf
    <2>2. calls[j] = IF j \in bad THEN Emptied(<<"call", n, j>>) ELSE <<"call", n, j>>
      BY DEF CallsOf
    <2>3. Emptied(<<"call", n, i>>) # <<"call", n, j>> /\ Emptied(<<"call", n, j>>) # <<"call", n, i>>
      BY DEF Emptied
    <2>4. Emptied(<<"call", n, i>>) = Emptied(<<"call", n, j>>) => i = j
      BY DEF Emptied
    <2> HIDE DEF calls
    <2> QED
      BY <1>3, <2>1, <2>2, <2>3, <2>4
  <1>4. OnceEach(calls, ToSet(calls))
    <2> HIDE DEF calls
    <2> QED
      BY <1>2, <1>3 DEF OnceEach
  <1>5. ToSet(calls) \subseteq CallPieces(n)
    <2> HIDE DEF calls
    <2> QED
      BY <1>1, <1>2 DEF ToSet
  <1>6. DOMAIN raw = 1 .. k
    BY DEF RawCalls
  <1>7. ASSUME NEW i \in 1 .. k PROVE ParseJSONSafe(raw[i]) = calls[i] /\ CallToSend(raw[i]) = calls[i]
    <2>1. raw[i].piece = <<"call", n, i>> /\ (raw[i].valid <=> i \notin bad)
      BY DEF RawCalls
    <2>2. calls[i] = IF i \in bad THEN Emptied(<<"call", n, i>>) ELSE <<"call", n, i>>
      BY DEF CallsOf
    <2> HIDE DEF raw, calls
    <2> QED
      BY <2>1, <2>2 DEF ParseJSONSafe, CallToSend
  <1> HIDE DEF raw, calls
  <1>8. [i \in DOMAIN raw |-> ParseJSONSafe(raw[i])] = calls
    <2>1. calls = [i \in 1 .. k |-> calls[i]]
      BY <1>2
    <2> QED
      BY <2>1, <1>6, <1>7
  <1>9. CallsToSend(raw) = ToSet(calls)
    BY <1>2, <1>6, <1>7 DEF CallsToSend, ToSet
  <1>10. ToolUseBlocks(raw) = Blocks("tool_use", calls)
    BY <1>8 DEF ToolUseBlocks
  <1> QED
    BY <1>2, <1>4, <1>5, <1>9, <1>10 DEF raw, calls

\* Texts and calls of an answer are pieces of its turn, each once.
LEMMA AnswerTypes ==
    ASSUME NEW n \in Nat, NEW text \in TextsOf(n), NEW calls,
           OnceEach(calls, ToSet(calls)), ToSet(calls) \subseteq CallPieces(n)
    PROVE  /\ text \in Seq(Piece)
           /\ OnceEach(text \o calls, ToSet(text) \cup ToSet(calls))
           /\ ToSet(text) \cup ToSet(calls) \subseteq AnswerPieces(n)
  <1>1. text \in Seq(Piece) /\ OnceEach(text, ToSet(text)) /\ ToSet(text) \subseteq { <<"answer", n>> }
    <2>1. CASE text = <<>>
      <3>1. ToSet(<<>>) = {}
        BY DEF ToSet
      <3> QED
        BY <2>1, <3>1, OnceEachEmpty, EmptySeq
    <2>2. CASE text = << <<"answer", n>> >>
      <3>1. PICK p \in Piece : p = <<"answer", n>>
        BY PieceForms
      <3>2. <<p>> \in Seq(Piece) /\ ToSet(<<p>>) = {p}
        BY DEF ToSet
      <3>3. OnceEach(<<p>>, {p})
        BY OneOnceEach
      <3> QED
        BY <2>2, <3>1, <3>2, <3>3
    <2> QED
      BY <2>1, <2>2 DEF TextsOf
  <1>2. ToSet(text) \cap ToSet(calls) = {}
    <2>1. <<"answer", n>> \notin CallPieces(n)
      BY DEF CallPieces, Emptied
    <2> QED
      BY <2>1, <1>1
  <1>3. OnceEach(text \o calls, ToSet(text) \cup ToSet(calls))
    BY <1>1, <1>2, OnceEachConcat
  <1> QED
    BY <1>1, <1>3 DEF AnswerPieces

\* What an answer is kept as, and translated to when it is sent again.
LEMMA AnswerTranslated ==
    ASSUME NEW n \in Nat, NEW choices \in AnswersOf(n)
    PROVE  LET answer == AnthropicAnswer(choices)
               message == [role |-> "assistant", content |-> answer.content]
               said == SaidIn(choices)
           IN  /\ message \in ClientMessage
               /\ \E text, calls :
                    LET msgs == OpenAIMessage("assistant", text, calls, NoCall)
                    IN  /\ msgs \in SentMessage
                        /\ MessagesOf(message) = <<msgs>>
                        /\ OnceEach(calls, ToSet(calls))
                        /\ OnceEach(text \o calls, said)
                        /\ (IF answer.stop = "tool_use"
                            THEN PiecesOf(answer.content, {"tool_use"}) ELSE <<>>) = calls
               /\ said \subseteq AnswerPieces(n)
  <1> DEFINE answer == AnthropicAnswer(choices)
             message == [role |-> "assistant", content |-> answer.content]
             said == SaidIn(choices)
  <1>1. PICK text \in TextsOf(n), k \in Nat, bad \in SUBSET Nat, finish \in Finishes :
               LET calls == RawCalls(n, k, bad)
               IN  \/ k = 0 /\ finish # "tool_calls" /\ Alone(choices, text, calls, finish)
                   \/ k # 0 /\ finish = "tool_calls" /\ Alone(choices, text, calls, finish)
                   \/ k # 0 /\ Apart(choices, text, calls, finish)
    BY AnswerForms
  <1>0. PICK raw : raw = RawCalls(n, k, bad)
    OBVIOUS
  <1> DEFINE calls == CallsOf(n, k, bad)
             t == Blocks("text", text)
             u == Blocks("tool_use", calls)
             msgs == OpenAIMessage("assistant", text, calls, NoCall)
  <1>3. /\ calls \in Seq(Piece) /\ (calls = <<>> <=> k = 0)
        /\ OnceEach(calls, ToSet(calls))
        /\ ToSet(calls) \subseteq CallPieces(n)
        /\ ToolUseBlocks(raw) = u
        /\ CallsToSend(raw) = ToSet(calls)
    BY <1>0, CallsOfTypes
  <1>2. /\ text \in Seq(Piece)
        /\ OnceEach(text \o calls, ToSet(text) \cup ToSet(calls))
        /\ ToSet(text) \cup ToSet(calls) \subseteq AnswerPieces(n)
    <2> HIDE DEF calls
    <2> QED
      BY <1>3, AnswerTypes
  <1> HIDE DEF calls
  <1>4. answer.content = t \o u /\ said = ToSet(text) \cup ToSet(calls)
    <2>1. Alone(choices, text, raw, finish) \/ Apart(choices, text, raw, finish)
      BY <1>0, <1>1
    <2>2. ToolUseBlocks(raw) \in Seq(AnyBlock)
      BY <1>3, BlocksAreAny DEF PlainTypes
    <2>3. AnthropicAnswer(choices).content = Blocks("text", text) \o ToolUseBlocks(raw)
      BY <1>2, <2>1, <2>2, AnswerContent
    <2>4. SaidIn(choices) = ToSet(text) \cup CallsToSend(raw)
      BY <1>2, <2>1, <2>2, AnswerContent
    <2> QED
      BY <1>3, <2>3, <2>4
  <1>5. answer.stop = "tool_use" <=> k # 0
    <2>1. answer.stop = StopReason(FinishReason(choices))
      BY DEF AnthropicAnswer
    <2>2. CASE k = 0
      <3>1. finish # "tool_calls" /\ FinishReason(choices) = finish
        BY <1>1, <2>2, AnswerFinishes
      <3> QED
        BY <2>1, <2>2, <3>1 DEF StopReason, Finishes
    <2>3. CASE k # 0
      <3>1. FinishReason(choices) = "tool_calls"
        BY <1>1, <2>3, AnswerFinishes
      <3> QED
        BY <2>1, <2>3, <3>1 DEF StopReason
    <2> QED
      BY <2>2, <2>3
  <1>6. t \in Seq(AnyBlock) /\ u \in Seq(AnyBlock) /\ t \o u \in Seq(AnyBlock)
    <2>1. t \in Seq(AnyBlock) /\ u \in Seq(AnyBlock)
      BY <1>2, <1>3, BlocksAreAny DEF PlainTypes
    <2> QED
      BY <2>1, ConcatProperties
  <1>7. message \in ClientMessage
    BY <1>4, <1>6 DEF ClientMessage
  <1>8. msgs \in SentMessage
    BY <1>2, <1>3, OpenAIMessageType DEF Roles
  <1>9. ASSUME NEW types \in SUBSET PlainTypes
        PROVE  PiecesOf(t \o u, types) = (IF "text" \in types THEN text ELSE <<>>)
                                         \o (IF "tool_use" \in types THEN calls ELSE <<>>)
    <2>1. PiecesOf(t \o u, types) = PiecesOf(t, types) \o PiecesOf(u, types)
      BY <1>6, PiecesOfConcat
    <2>2. ASSUME NEW type \in PlainTypes, NEW pieces \in Seq(Piece)
          PROVE  PiecesOf(Blocks(type, pieces), types) = IF type \in types THEN pieces ELSE <<>>
      <3>1. CASE type \in types
        BY <3>1, BlocksLeaveAll
      <3>2. CASE type \notin types
        <4> DEFINE A == {b \in PlainBlock : b.type = type}
        <4>1. {type} \in SUBSET PlainTypes /\ type \in {type}
          OBVIOUS
        <4>2. Blocks(type, pieces) \in Seq(A)
          BY <4>1, BlocksLeaveAll
        <4>3. A \in SUBSET AnyBlock /\ \A b \in A : b.type \notin types
          BY <3>2 DEF AnyBlock, OtherBlock
        <4> HIDE DEF A
        <4>4. PiecesOf(Blocks(type, pieces), types) = <<>>
          BY <4>2, <4>3, OthersLeaveNothing
        <4> QED
          BY <3>2, <4>4
      <3> QED
        BY <3>1, <3>2
    <2>3. "text" \in PlainTypes /\ "tool_use" \in PlainTypes
      BY DEF PlainTypes
    <2> QED
      BY <1>2, <1>3, <2>1, <2>2, <2>3
  <1>10. /\ PiecesOf(t \o u, {"text"}) = text /\ PiecesOf(t \o u, {"thinking"}) = <<>>
         /\ PiecesOf(t \o u, {"tool_use"}) = calls
    <2>1. /\ {"text"} \in SUBSET PlainTypes /\ {"thinking"} \in SUBSET PlainTypes
          /\ {"tool_use"} \in SUBSET PlainTypes
      BY DEF PlainTypes
    <2>2. text \o <<>> = text /\ <<>> \o calls = calls /\ <<>> \o <<>> = <<>>
      BY <1>2, <1>3, ConcatEmptySeq, EmptySeq
    <2> QED
      BY <1>9, <2>1, <2>2
  <1>11. MessagesOf(message) = <<msgs>>
    <2>1. text \o <<>> = text
      BY <1>2, ConcatEmptySeq
    <2>2. message.role = "assistant" /\ message.content = t \o u
      BY <1>4
    <2> HIDE DEF message, t, u
    <2> QED
      BY <1>10, <2>1, <2>2 DEF MessagesOf, AssistantMessage
  <1>12. (IF answer.stop = "tool_use" THEN PiecesOf(answer.content, {"tool_use"}) ELSE <<>>) = calls
    BY <1>3, <1>4, <1>5, <1>10
  <1> HIDE DEF message, answer, said, msgs
  <1> QED
    BY <1>2, <1>3, <1>4, <1>7, <1>8, <1>11, <1>12 DEF message, answer, said, msgs

-----------------------------------------------------------------------------
(* Conversation: the history translated, and the calls answered in it *)

\* Messages are translated to messages.
LEMMA MessagesForType == MessagesFor \in [ClientMessage -> Seq(SentMessage)]
  <1>1. ASSUME NEW message \in ClientMessage PROVE MessagesOf(message) \in Seq(SentMessage)
    <2> DEFINE blocks == message.content
    <2>1. blocks \in Seq(AnyBlock)
      BY DEF ClientMessage
    <2> HIDE DEF blocks
    <2>2. /\ {"text"} \in SUBSET PlainTypes /\ {"thinking"} \in SUBSET PlainTypes
          /\ {"tool_use"} \in SUBSET PlainTypes
      BY DEF PlainTypes
    <2>3. /\ PiecesOf(blocks, {"text"}) \in Seq(Piece) /\ PiecesOf(blocks, {"thinking"}) \in Seq(Piece)
          /\ PiecesOf(blocks, {"tool_use"}) \in Seq(Piece) /\ ContentPieces(blocks) \in Seq(Piece)
      BY <2>1, <2>2, PiecesOfType, ContentPiecesType
    <2>4. <<>> \in Seq(Piece) /\ <<>> \in Seq(SentMessage)
      BY EmptySeq
    <2>5. UserMessages(message) \in Seq(SentMessage)
      <3> DEFINE m == OpenAIMessage("user", ContentPieces(blocks), <<>>, NoCall)
                 rest == IF (\E i \in DOMAIN blocks : blocks[i].type # "tool_result") \/ blocks = <<>>
                         THEN <<m>> ELSE <<>>
      <3>1. m \in SentMessage
        BY <2>3, <2>4, OpenAIMessageType DEF Roles
      <3> HIDE DEF m
      <3>2. rest \in Seq(SentMessage)
        BY <3>1, <2>4
      <3> HIDE DEF rest
      <3>3. ToolMessages(blocks) \o rest \in Seq(SentMessage)
        BY <2>1, <3>2, ToolMessagesType, ConcatProperties
      <3> QED
        BY <3>3 DEF UserMessages, rest, m, blocks
    <2>6. AssistantMessage(message) \in Seq(SentMessage)
      <3>1. PiecesOf(blocks, {"text"}) \o PiecesOf(blocks, {"thinking"}) \in Seq(Piece)
        BY <2>3, ConcatProperties
      <3>2. PICK m \in SentMessage :
              m = OpenAIMessage("assistant", PiecesOf(blocks, {"text"}) \o PiecesOf(blocks, {"thinking"}),
                                PiecesOf(blocks, {"tool_use"}), NoCall)
        BY <2>3, <3>1, OpenAIMessageType DEF Roles
      <3>3. AssistantMessage(message) = <<m>>
        BY <3>2 DEF AssistantMessage, blocks
      <3> QED
        BY <3>3
    <2>7. message.role = "user" \/ message.role = "assistant"
      BY DEF ClientMessage
    <2> QED
      BY <2>5, <2>6, <2>7 DEF MessagesOf
  <1> QED
    BY <1>1 DEF MessagesFor

\* The system prompt is in a message that calls nothing, if there is one.
LEMMA SystemMessagesType ==
    /\ SystemPrompt \in Seq(Piece)
    /\ SystemMessages(SystemPrompt) \in Seq(SentMessage)
    /\ CallsNothing(SystemMessages(SystemPrompt))
    /\ OnceEach(FlatMap(PiecesIn, SystemMessages(SystemPrompt)), ToSet(SystemPrompt))
    /\ ToSet(SystemPrompt) \subseteq {<<"system", i>> : i \in Nat}
  <1> DEFINE system == SystemPrompt
             m == OpenAIMessage("system", system, <<>>, NoCall)
  <1>1. SystemLength \in Nat
    BY ConstantsAssumption
  <1>2. system \in [1 .. SystemLength -> Piece] /\ \A i \in 1 .. SystemLength : system[i] = <<"system", i>>
    BY <1>1 DEF SystemPrompt, Piece
  <1>3. system \in Seq(Piece) /\ DOMAIN system = 1 .. SystemLength
    BY <1>1, <1>2
  <1>4. ToSet(system) \subseteq {<<"system", i>> : i \in Nat}
    <2>1. \A i \in 1 .. SystemLength : i \in Nat
      BY <1>1
    <2>2. ToSet(system) = {system[i] : i \in 1 .. SystemLength}
      BY <1>3 DEF ToSet
    <2> HIDE DEF system
    <2> QED
      BY <1>2, <2>1, <2>2
  <1>5. OnceEach(system, ToSet(system))
    BY <1>2, <1>3 DEF OnceEach
  <1> HIDE DEF system
  <1>6. m \in SentMessage /\ m.parts = system /\ m.calls = <<>> /\ m.answers = NoCall
    <2>1. m \in SentMessage
      BY <1>3, EmptySeq, OpenAIMessageType DEF Roles
    <2> QED
      BY <2>1 DEF OpenAIMessage
  <1>7. CASE system = <<>>
    <2>1. SystemMessages(system) = <<>>
      BY <1>7 DEF SystemMessages
    <2>2. FlatMap(PiecesIn, <<>>) = <<>> /\ CallsNothing(<<>>) /\ <<>> \in Seq(SentMessage)
      BY FlatMapEmpty, EmptySeq DEF CallsNothing
    <2> QED
      BY <1>3, <1>4, <1>5, <1>7, <2>1, <2>2 DEF system
  <1>8. CASE system # <<>>
    <2>1. SystemMessages(system) = <<m>>
      BY <1>8 DEF SystemMessages
    <2> HIDE DEF m
    <2>2. system \o <<>> = system
      BY <1>3, ConcatEmptySeq
    <2>3. FlatMap(PiecesIn, <<m>>) = system
      BY <1>6, <2>2, PiecesOfOneMessage
    <2>4. CallsNothing(<<m>>) /\ <<m>> \in Seq(SentMessage)
      BY <1>6 DEF CallsNothing
    <2> QED
      BY <1>3, <1>4, <1>5, <2>1, <2>3, <2>4 DEF system
  <1> QED
    BY <1>7, <1>8

\* The messages the client has kept, as they are sent.
Translated == TranslatedMessages(SystemPrompt, history)

LEMMA TranslatedIs ==
    ASSUME NEW messages \in Seq(ClientMessage)
    PROVE  TranslatedMessages(SystemPrompt, messages)
             = SystemMessages(SystemPrompt) \o FlatMap(MessagesFor, messages)
  <1>1. \A i \in DOMAIN messages : messages[i] \in ClientMessage
    BY LenProperties, ElementOfSeq
  <1>2. [i \in DOMAIN messages |-> MessagesOf(messages[i])] = Image(MessagesFor, messages)
    BY <1>1 DEF Image, MessagesFor
  <1> QED
    BY <1>2 DEF TranslatedMessages, FlatMap

LEMMA TranslatedType ==
    ASSUME NEW messages \in Seq(ClientMessage)
    PROVE  TranslatedMessages(SystemPrompt, messages) \in Seq(SentMessage)
  <1>1. FlatMap(MessagesFor, messages) \in Seq(SentMessage)
    BY MessagesForType, FlatMapType
  <1>2. SystemMessages(SystemPrompt) \o FlatMap(MessagesFor, messages) \in Seq(SentMessage)
    BY <1>1, SystemMessagesType, ConcatProperties
  <1> QED
    BY <1>2, TranslatedIs

\* What is sent next begins with all that was sent before.
LEMMA TranslatedGrows ==
    ASSUME NEW messages \in Seq(ClientMessage), NEW message \in ClientMessage
    PROVE  /\ TranslatedMessages(SystemPrompt, Append(messages, message))
                = TranslatedMessages(SystemPrompt, messages) \o MessagesOf(message)
           /\ MessagesOf(message) \in Seq(SentMessage)
  <1> DEFINE s == SystemMessages(SystemPrompt)
             f == FlatMap(MessagesFor, messages)
             m == MessagesOf(message)
  <1>1. Append(messages, message) \in Seq(ClientMessage)
    BY AppendProperties
  <1>2. FlatMap(MessagesFor, Append(messages, message)) = f \o MessagesFor[message]
    BY MessagesForType, FlatMapAppend
  <1>3. MessagesFor[message] = m /\ m \in Seq(SentMessage)
    BY MessagesForType DEF MessagesFor
  <1>4. f \in Seq(SentMessage) /\ s \in Seq(SentMessage)
    BY MessagesForType, FlatMapType, SystemMessagesType
  <1>5. TranslatedMessages(SystemPrompt, Append(messages, message)) = s \o (f \o m)
    BY <1>1, <1>2, <1>3, TranslatedIs
  <1>6. TranslatedMessages(SystemPrompt, messages) = s \o f
    BY TranslatedIs
  <1> HIDE DEF s, f, m
  <1>7. (s \o f) \o m = s \o (f \o m)
    BY <1>3, <1>4, ConcatAssociative
  <1> QED
    BY <1>3, <1>5, <1>6, <1>7 DEF m
  -----------------------------------------------------------------------------
\* A sequence has finitely many values.
LEMMA SetOfSeqFinite ==
    ASSUME NEW s \in Seq(Piece) PROVE IsFiniteSet(ToSet(s)) /\ Cardinality(ToSet(s)) \in Nat
  <1>1. Len(s) \in Nat /\ DOMAIN s = 1 .. Len(s) /\ s \in [1 .. Len(s) -> Piece]
    BY LenProperties
  <1>2. s \in Surjection(1 .. Len(s), ToSet(s))
    BY <1>1 DEF Surjection, ToSet
  <1>3. IsFiniteSet(1 .. Len(s))
    BY <1>1, FS_Interval
  <1> QED
    BY <1>2, <1>3, FS_Surjection, FS_CardinalityType

\* The messages right after the i-th answer its calls.
AnsweredAt(msgs, i) ==
    LET calls == ToSet(msgs[i].calls)
        n == Cardinality(calls)
    IN  i + n <= Len(msgs) /\ {msgs[j].answers : j \in i + 1 .. i + n} = calls

\* If the i-th answers a call, it is one of a message just before.
FollowsCalls(msgs, i) ==
    msgs[i].answers # NoCall =>
        \E j \in 1 .. i - 1 :
            msgs[i].answers \in ToSet(msgs[j].calls) /\ i - j <= Len(msgs[j].calls)

\* An answered message stays answered, and an answer keeps following its call,
\* when more is sent.
LEMMA AnsweredStays ==
    ASSUME NEW msgs \in Seq(SentMessage), NEW more \in Seq(SentMessage), NEW i \in 1 .. Len(msgs)
    PROVE  /\ (msgs \o more)[i] = msgs[i]
           /\ AnsweredAt(msgs, i) => AnsweredAt(msgs \o more, i)
           /\ FollowsCalls(msgs, i) => FollowsCalls(msgs \o more, i)
  <1> DEFINE all == msgs \o more
             L == Len(msgs)
  <1>1. L \in Nat /\ Len(more) \in Nat
    BY LenProperties
  <1>2. Len(all) = L + Len(more) /\ \A j \in 1 .. L + Len(more) : all[j] = IF j <= L THEN msgs[j] ELSE more[j - L]
    BY ConcatProperties
  <1> HIDE DEF all, L
  <1>3. \A j \in 1 .. L : all[j] = msgs[j]
    BY <1>1, <1>2
  <1>4. i \in 1 .. L
    BY DEF L
  <1>5. ASSUME AnsweredAt(msgs, i) PROVE AnsweredAt(all, i)
    <2> DEFINE calls == ToSet(msgs[i].calls)
               n == Cardinality(calls)
    <2>1. n \in Nat
      <3>1. msgs[i].calls \in Seq(Piece)
        <4>1. msgs[i] \in SentMessage
          BY <1>4, ElementOfSeq DEF L
        <4> QED
          BY <4>1 DEF SentMessage
      <3> QED
        BY <3>1, SetOfSeqFinite
    <2>2. i + n <= L /\ {msgs[j].answers : j \in i + 1 .. i + n} = calls
      BY <1>5 DEF AnsweredAt, L
    <2> HIDE DEF n, calls
    <2>3. i + n <= Len(all)
      BY <1>1, <1>2, <1>4, <2>1, <2>2
    <2>4. \A j \in i + 1 .. i + n : all[j] = msgs[j]
      BY <1>1, <1>3, <1>4, <2>1, <2>2
    <2>5. {all[j].answers : j \in i + 1 .. i + n} = calls
      BY <2>2, <2>4
    <2>6. all[i].calls = msgs[i].calls
      BY <1>3, <1>4
    <2> QED
      BY <2>3, <2>5, <2>6 DEF AnsweredAt, n, calls
  <1>6. ASSUME FollowsCalls(msgs, i) PROVE FollowsCalls(all, i)
    <2>1. \A j \in 1 .. i - 1 : all[j] = msgs[j]
      BY <1>1, <1>3, <1>4
    <2> QED
      BY <1>3, <1>4, <1>6, <2>1 DEF FollowsCalls
  <1> QED
    BY <1>3, <1>4, <1>5, <1>6 DEF all

\* A message without calls has no call to be answered.
LEMMA NothingToAnswer ==
    ASSUME NEW msgs, NEW i \in Nat, Len(msgs) \in Nat, i <= Len(msgs), msgs[i].calls = <<>>
    PROVE  AnsweredAt(msgs, i)
  <1>1. ToSet(msgs[i].calls) = {} /\ Cardinality({}) = 0
    BY FS_EmptySet DEF ToSet
  <1>2. i + 0 <= Len(msgs) /\ {msgs[j].answers : j \in i + 1 .. i + 0} = {}
    OBVIOUS
  <1> QED
    BY <1>1, <1>2 DEF AnsweredAt

\* The client's question answers the calls of the last message.
LEMMA QuestionAnswers ==
    ASSUME NEW msgs \in Seq(SentMessage), NEW calls, NEW order, NEW replies, NEW rest,
           OnceEach(calls, ToSet(calls)), OnceEach(order, ToSet(calls)), Len(order) = Len(calls),
           Answering(replies, order), CallsNothing(rest),
           calls # <<>> => Len(msgs) > 0 /\ msgs[Len(msgs)].calls = calls
    PROVE  LET all == msgs \o (replies \o rest)
           IN  /\ (Len(msgs) > 0 /\ msgs[Len(msgs)].calls = calls) => AnsweredAt(all, Len(msgs))
               /\ \A i \in 1 .. Len(all) : i > Len(msgs) => AnsweredAt(all, i) /\ FollowsCalls(all, i)
  <1> DEFINE more == replies \o rest
             all == msgs \o more
             L == Len(msgs)
             k == Len(calls)
             M == Len(more)
  <1>1. L \in Nat /\ k \in Nat /\ Len(rest) \in Nat /\ Len(replies) = k
    BY LenProperties DEF OnceEach, Answering, CallsNothing
  <1>2. /\ more \in Seq(SentMessage) /\ M = k + Len(rest)
        /\ \A i \in 1 .. k + Len(rest) : more[i] = IF i <= k THEN replies[i] ELSE rest[i - k]
    <2>1. replies \in Seq(SentMessage) /\ rest \in Seq(SentMessage)
      BY DEF Answering, CallsNothing
    <2>2. /\ more \in Seq(SentMessage) /\ M = Len(replies) + Len(rest)
          /\ \A i \in 1 .. Len(replies) + Len(rest) :
               more[i] = IF i <= Len(replies) THEN replies[i] ELSE rest[i - Len(replies)]
      BY <2>1, ConcatProperties
    <2> HIDE DEF more, M, k
    <2> QED
      BY <1>1, <2>2
  <1> HIDE DEF more
  <1>3. M \in Nat /\ k <= M
    BY <1>1, <1>2
  <1>4. /\ all \in Seq(SentMessage) /\ Len(all) = L + M
        /\ \A i \in 1 .. L + M : all[i] = IF i <= L THEN msgs[i] ELSE more[i - L]
    <2>1. more \in Seq(SentMessage)
      BY <1>2
    <2> HIDE DEF k
    <2> QED
      BY <2>1, ConcatProperties
  <1> HIDE DEF all, M, L, k
  <1>5. ASSUME NEW i \in 1 .. M
        PROVE  /\ more[i].calls = <<>>
               /\ i <= k => more[i].answers = order[i]
               /\ i > k => more[i].answers = NoCall
    <2>1. CASE i <= k
      <3>1. i \in 1 .. k /\ more[i] = replies[i]
        BY <1>1, <1>2, <1>3, <2>1
      <3>2. k = Len(order)
        BY DEF k
      <3> QED
        BY <1>1, <2>1, <3>1, <3>2 DEF Answering
    <2>2. CASE ~ (i <= k)
      <3>1. i - k \in 1 .. Len(rest) /\ more[i] = rest[i - k]
        BY <1>1, <1>2, <1>3, <2>2
      <3>2. DOMAIN rest = 1 .. Len(rest)
        BY LenProperties DEF CallsNothing
      <3> QED
        BY <1>1, <2>2, <3>1, <3>2 DEF CallsNothing
    <2> QED
      BY <2>1, <2>2
  <1>6. ASSUME NEW i \in 1 .. M PROVE L + i \in 1 .. L + M /\ all[L + i] = more[i]
    <2>1. L + i \in 1 .. L + M /\ ~ (L + i <= L) /\ (L + i) - L = i
      BY <1>1, <1>3
    <2> QED
      BY <1>4, <2>1
  <1>7. ASSUME NEW i \in 1 .. L PROVE all[i] = msgs[i]
    BY <1>1, <1>3, <1>4
  <1>8. /\ Cardinality(ToSet(calls)) = k
        /\ DOMAIN order = 1 .. k /\ ToSet(order) = ToSet(calls)
    <2>1. Len(order) = k /\ Len(calls) = k
      BY DEF k
    <2>2. DOMAIN order = 1 .. k
      BY <2>1, LenProperties DEF OnceEach
    <2>3. Cardinality(ToSet(calls)) = k
      BY <2>1, OnceEachCounts
    <2> QED
      BY <2>2, <2>3 DEF OnceEach
  <1>9. ASSUME L > 0, msgs[L].calls = calls PROVE AnsweredAt(all, L)
    <2>1. all[L].calls = calls
      BY <1>1, <1>7, <1>9
    <2>2. L + k <= Len(all)
      BY <1>1, <1>3, <1>4
    <2>3. {all[j].answers : j \in L + 1 .. L + k} = ToSet(calls)
      <3>1. ASSUME NEW j \in L + 1 .. L + k PROVE all[j].answers \in ToSet(calls)
        <4>1. PICK i \in 1 .. k : j = L + i
          <5>1. j - L \in 1 .. k /\ j = L + (j - L)
            BY <1>1
          <5> QED
            BY <5>1
        <4>2. i \in 1 .. M
          BY <1>1, <1>3
        <4>3. all[j].answers = order[i]
          BY <1>1, <1>5, <1>6, <4>1, <4>2
        <4> QED
          BY <1>8, <4>3 DEF ToSet
      <3>2. ASSUME NEW c \in ToSet(calls) PROVE \E j \in L + 1 .. L + k : all[j].answers = c
        <4>1. PICK i \in 1 .. k : order[i] = c
          BY <1>8 DEF ToSet
        <4>2. i \in 1 .. M /\ L + i \in L + 1 .. L + k
          BY <1>1, <1>3
        <4>3. all[L + i].answers = c
          BY <1>1, <1>5, <1>6, <4>1, <4>2
        <4> QED
          BY <4>2, <4>3
      <3> QED
        BY <3>1, <3>2
    <2> QED
      BY <1>8, <2>1, <2>2, <2>3 DEF AnsweredAt
  <1>10. ASSUME NEW i \in 1 .. Len(all), i > L PROVE AnsweredAt(all, i) /\ FollowsCalls(all, i)
    <2>1. PICK j \in 1 .. M : i = L + j
      <3>1. i - L \in 1 .. M /\ i = L + (i - L)
        BY <1>1, <1>3, <1>4, <1>10
      <3> QED
        BY <3>1
    <2>2. all[i] = more[j]
      BY <2>1, <1>6
    <2>3. AnsweredAt(all, i)
      <3>1. all[i].calls = <<>>
        BY <2>2, <1>5
      <3>2. i \in Nat /\ Len(all) \in Nat /\ i <= Len(all)
        BY <1>1, <1>3, <1>4
      <3> QED
        BY <3>1, <3>2, NothingToAnswer
    <2>4. FollowsCalls(all, i)
      <3>1. CASE j <= k
        <4>1. all[i].answers = order[j] /\ order[j] \in ToSet(calls)
          <5>1. j \in 1 .. k
            BY <3>1, <1>1, <1>3
          <5> QED
            BY <2>2, <3>1, <1>5, <1>8, <5>1 DEF ToSet
        <4>2. calls # <<>>
          <5>1. k # 0
            BY <3>1, <1>1, <1>3
          <5> QED
            BY <5>1 DEF k
        <4>3. L > 0 /\ msgs[L].calls = calls
          BY <4>2 DEF L
        <4>4. L \in 1 .. i - 1 /\ all[L].calls = calls /\ i - L = j
          <5>1. L \in 1 .. L /\ L \in 1 .. i - 1 /\ i - L = j
            BY <4>3, <2>1, <1>1, <1>3
          <5>2. all[L] = msgs[L]
            BY <5>1, <1>7
          <5> QED
            BY <4>3, <5>1, <5>2
        <4>5. i - L <= Len(calls)
          BY <4>4, <3>1 DEF k
        <4> QED
          BY <4>1, <4>4, <4>5 DEF FollowsCalls
      <3>2. CASE ~ (j <= k)
        <4>1. j > k
          BY <3>2, <1>1, <1>3
        <4> QED
          BY <4>1, <2>2, <1>5 DEF FollowsCalls
      <3> QED
        BY <3>1, <3>2
    <2> QED
      BY <2>3, <2>4
  <1> QED
    BY <1>9, <1>10 DEF all, more, L

-----------------------------------------------------------------------------
(* Conversation: the inductive invariant *)

\* The pieces the client may say in turn n.
AskedPieces(n) == ResultPieces(n) \cup ExtraPieces(n)

\* The types of what is said.
TalkOK ==
    /\ history \in Seq(ClientMessage)
    /\ turn \in Nat
    /\ OnceEach(pending, ToSet(pending))

\* The translated history has each piece said once.
SaidOnce == OnceEach(FlatMap(PiecesIn, Translated), told)

\* What will be said is new: it names its turn.
NewPieces ==
    \A n \in Nat :
        /\ n >= turn => told \cap AskedPieces(n) = {}
        /\ (n > turn \/ (UpstreamsTurn /\ n >= turn)) => told \cap AnswerPieces(n) = {}

\* Every call is answered, except the last message's while the client runs its tools.
CallsFollowed ==
    /\ \A i \in 1 .. Len(Translated) :
         /\ FollowsCalls(Translated, i)
         /\ AnsweredAt(Translated, i)
              \/ (~UpstreamsTurn /\ i = Len(Translated) /\ Translated[i].calls = pending)
    /\ (~UpstreamsTurn /\ pending # <<>>) =>
         Len(Translated) > 0 /\ Translated[Len(Translated)].calls = pending

\* While the upstream answers, the request is the whole history.
AskedWhole == UpstreamsTurn => asked.messages = Translated

\* The inductive invariant.
TalkInductive == TalkOK /\ SaidOnce /\ NewPieces /\ CallsFollowed /\ AskedWhole

\* Pieces of different sides, of different turns and of the prompt differ.
LEMMA PiecesApart ==
    ASSUME NEW m \in Nat, NEW n \in Nat
    PROVE  /\ AskedPieces(m) \cap AnswerPieces(n) = {}
           /\ m # n => AskedPieces(m) \cap AskedPieces(n) = {}
           /\ m # n => AnswerPieces(m) \cap AnswerPieces(n) = {}
           /\ \A i \in Nat : <<"system", i>> \notin AskedPieces(n) \cup AnswerPieces(n)
  BY DEF AskedPieces, AnswerPieces, CallPieces, ResultPieces, ExtraPieces, Emptied

\* More is said, of which nothing was said before.
LEMMA SaidGrows ==
    ASSUME NEW msgs \in Seq(SentMessage), NEW more \in Seq(SentMessage), NEW X, NEW Y,
           OnceEach(FlatMap(PiecesIn, msgs), X), OnceEach(FlatMap(PiecesIn, more), Y), X \cap Y = {}
    PROVE  OnceEach(FlatMap(PiecesIn, msgs \o more), X \cup Y)
  <1>1. FlatMap(PiecesIn, msgs \o more) = FlatMap(PiecesIn, msgs) \o FlatMap(PiecesIn, more)
    BY PiecesInConcat
  <1> QED
    BY <1>1, OnceEachConcat

\* The sides take turns.
LEMMA TurnsAlternate ==
    ASSUME NEW s \in Seq(ClientMessage), NEW m \in ClientMessage
    PROVE  /\ Append(s, m) \in Seq(ClientMessage)
           /\ Len(s) % 2 = 1 => Len(Append(s, m)) % 2 # 1
           /\ Len(s) % 2 # 1 => Len(Append(s, m)) % 2 = 1
  <1>1. Append(s, m) \in Seq(ClientMessage) /\ Len(Append(s, m)) = Len(s) + 1 /\ Len(s) \in Nat
    BY AppendProperties, LenProperties
  <1>2. \A n \in Nat : (n % 2 = 1 => (n + 1) % 2 # 1) /\ (n % 2 # 1 => (n + 1) % 2 = 1)
    OBVIOUS
  <1> QED
    BY <1>1, <1>2

LEMMA TalkInit == ConversationInit => TalkInductive
  <1> SUFFICES ASSUME ConversationInit PROVE TalkInductive
    OBVIOUS
  <1> DEFINE system == SystemMessages(SystemPrompt)
  <1>1. /\ history = <<>> /\ told = ToSet(SystemPrompt) /\ pending = <<>> /\ turn = 0
    BY DEF ConversationInit
  <1>2. history \in Seq(ClientMessage) /\ Len(history) = 0
    BY <1>1, EmptySeq
  <1>3. ~UpstreamsTurn
    BY <1>2 DEF UpstreamsTurn
  <1>4. Translated = system
    <2>1. Translated = system \o FlatMap(MessagesFor, <<>>)
      BY <1>1, <1>2, TranslatedIs DEF Translated
    <2>2. system \o <<>> = system
      BY SystemMessagesType, ConcatEmptySeq
    <2> QED
      BY <2>1, <2>2, FlatMapEmpty
  <1>5. /\ system \in Seq(SentMessage) /\ CallsNothing(system)
        /\ OnceEach(FlatMap(PiecesIn, system), told)
        /\ told \subseteq {<<"system", i>> : i \in Nat}
    BY <1>1, SystemMessagesType
  <1> HIDE DEF system
  <1>6. TalkOK
    <2>1. ToSet(<<>>) = {}
      BY DEF ToSet
    <2> QED
      BY <1>1, <1>2, <2>1, OnceEachEmpty DEF TalkOK
  <1>7. SaidOnce
    BY <1>4, <1>5 DEF SaidOnce
  <1>8. NewPieces
    BY <1>5, PiecesApart DEF NewPieces
  <1>9. CallsFollowed
    <2>1. Len(system) \in Nat /\ DOMAIN system = 1 .. Len(system)
      BY <1>5, LenProperties
    <2>2. \A i \in 1 .. Len(system) : system[i].calls = <<>> /\ system[i].answers = NoCall
      BY <1>5, <2>1 DEF CallsNothing
    <2>3. ASSUME NEW i \in 1 .. Len(system) PROVE FollowsCalls(system, i) /\ AnsweredAt(system, i)
      <3>1. i \in Nat /\ i <= Len(system) /\ system[i].calls = <<>>
        BY <2>1, <2>2
      <3>2. AnsweredAt(system, i)
        BY <2>1, <3>1, NothingToAnswer
      <3> QED
        BY <2>2, <3>2 DEF FollowsCalls
    <2> QED
      BY <1>1, <1>4, <2>3 DEF CallsFollowed
  <1> QED
    BY <1>3, <1>6, <1>7, <1>8, <1>9 DEF TalkInductive, AskedWhole

\* A question keeps it: its results answer what is pending, and its pieces are new.
LEMMA AskKeeps == ASSUME TalkInductive, Ask PROVE TalkInductive'
  <1>1. PICK extras \in Extras(turn), results \in Results(turn) :
          \E content \in {extras \o results, results \o extras} :
            /\ history' = Append(history, [role |-> "user", content |-> content])
            /\ told' = told \cup PiecesOfContent(content)
    BY DEF Ask
  <1>2. PICK content \in {extras \o results, results \o extras} :
            /\ history' = Append(history, [role |-> "user", content |-> content])
            /\ told' = told \cup PiecesOfContent(content)
    BY <1>1
  <1> DEFINE message == [role |-> "user", content |-> content]
             said == PiecesOfContent(content)
  <1>3. /\ history \in Seq(ClientMessage) /\ turn \in Nat /\ OnceEach(pending, ToSet(pending))
        /\ SaidOnce /\ NewPieces /\ CallsFollowed
    BY DEF TalkInductive, TalkOK
  <1>4. /\ ~UpstreamsTurn /\ pending' = pending /\ turn' = turn + 1
        /\ asked'.messages = TranslatedMessages(SystemPrompt, history')
    BY DEF Ask, ClientsTurn
  <1>51. QuestionMade(turn, content)
    BY <1>3, QuestionTranslated
  <1>5. message \in ClientMessage /\ said \subseteq AskedPieces(turn)
    BY <1>51 DEF QuestionMade, AskedPieces
  <1>6. PICK order, replies, rest :
          /\ OnceEach(order, ToSet(pending)) /\ Len(order) = Len(pending)
          /\ Answering(replies, order) /\ CallsNothing(rest)
          /\ MessagesOf(message) = replies \o rest
          /\ OnceEach(FlatMap(PiecesIn, replies \o rest), said)
    BY <1>51 DEF QuestionMade
  <1> HIDE DEF message, said
  <1>7. history' = Append(history, message) /\ told' = told \cup said
    BY <1>2 DEF message, said
  <1> DEFINE msgs == Translated
             more == replies \o rest
             all == msgs \o more
  <1>8. msgs \in Seq(SentMessage) /\ more \in Seq(SentMessage) /\ Translated' = all
    <2>1. TranslatedMessages(SystemPrompt, Append(history, message))
            = TranslatedMessages(SystemPrompt, history) \o MessagesOf(message)
      BY <1>3, <1>5, TranslatedGrows
    <2>2. MessagesOf(message) \in Seq(SentMessage)
      BY <1>3, <1>5, TranslatedGrows
    <2>3. Translated \in Seq(SentMessage)
      BY <1>3, TranslatedType DEF Translated
    <2>4. Translated' = TranslatedMessages(SystemPrompt, Append(history, message))
      BY <1>7 DEF Translated
    <2> QED
      BY <1>6, <2>1, <2>2, <2>3, <2>4 DEF Translated
  <1>9. history' \in Seq(ClientMessage) /\ UpstreamsTurn'
    BY <1>3, <1>4, <1>5, <1>7, TurnsAlternate DEF UpstreamsTurn
  <1>10. TalkOK'
    BY <1>3, <1>4, <1>9 DEF TalkOK
  <1>11. SaidOnce'
    <2>1. told \cap said = {}
      BY <1>3, <1>5 DEF NewPieces
    <2>2. OnceEach(FlatMap(PiecesIn, msgs), told)
      BY <1>3 DEF SaidOnce
    <2> HIDE DEF msgs, more
    <2>3. OnceEach(FlatMap(PiecesIn, more), said)
      BY <1>6 DEF more
    <2>4. OnceEach(FlatMap(PiecesIn, msgs \o more), told \cup said)
      BY <1>8, <2>1, <2>2, <2>3, SaidGrows
    <2> QED
      BY <1>7, <1>8, <2>4 DEF SaidOnce
  <1>12. NewPieces'
    <2> SUFFICES ASSUME NEW n \in Nat, n >= turn + 1
                 PROVE  /\ (told \cup said) \cap AskedPieces(n) = {}
                        /\ (told \cup said) \cap AnswerPieces(n) = {}
      <3>1. \A n \in Nat : n > turn + 1 => n >= turn + 1
        BY <1>3
      <3> QED
        BY <1>4, <1>7, <3>1 DEF NewPieces
    <2>1. n >= turn /\ n > turn /\ turn # n
      BY <1>3
    <2>2. told \cap AskedPieces(n) = {} /\ told \cap AnswerPieces(n) = {}
      BY <1>3, <2>1 DEF NewPieces
    <2>3. said \cap AskedPieces(n) = {} /\ said \cap AnswerPieces(n) = {}
      BY <1>3, <1>5, <2>1, PiecesApart
    <2> QED
      BY <2>2, <2>3
  <1>13. CallsFollowed'
    <2> DEFINE L == Len(msgs)
    <2>1. L \in Nat /\ (pending # <<>> => L > 0 /\ msgs[L].calls = pending)
      BY <1>3, <1>4, <1>8, LenProperties DEF CallsFollowed
    <2>2. \A i \in 1 .. L : FollowsCalls(msgs, i) /\ (AnsweredAt(msgs, i) \/ (i = L /\ msgs[i].calls = pending))
      BY <1>3 DEF CallsFollowed
    <2> HIDE DEF msgs
    <2>3. /\ (L > 0 /\ msgs[L].calls = pending) => AnsweredAt(all, L)
          /\ \A i \in 1 .. Len(all) : i > L => AnsweredAt(all, i) /\ FollowsCalls(all, i)
      BY <1>3, <1>6, <1>8, <2>1, QuestionAnswers
    <2> HIDE DEF more
    <2>4. \A i \in 1 .. L : /\ AnsweredAt(msgs, i) => AnsweredAt(all, i)
                            /\ FollowsCalls(msgs, i) => FollowsCalls(all, i)
      BY <1>8, AnsweredStays
    <2> HIDE DEF all
    <2>5. ASSUME NEW i \in 1 .. Len(all) PROVE AnsweredAt(all, i) /\ FollowsCalls(all, i)
      <3>1. CASE i > L
        BY <3>1, <2>3
      <3>2. CASE ~ (i > L)
        <4>1. i \in 1 .. L
          BY <2>1, <3>2
        <4> QED
          BY <4>1, <2>1, <2>2, <2>3, <2>4
      <3> QED
        BY <3>1, <3>2
    <2> QED
      BY <1>8, <1>9, <2>5 DEF CallsFollowed
  <1>14. AskedWhole'
    BY <1>4 DEF AskedWhole, Translated
  <1> QED
    BY <1>10, <1>11, <1>12, <1>13, <1>14 DEF TalkInductive

\* An answer keeps it: what it calls is pending if the client is told to run tools,
\* and there is nothing to answer otherwise.
LEMMA AnswerKeeps == ASSUME TalkInductive, Answer PROVE TalkInductive'
  <1>1. PICK choices \in AnswersOf(turn) :
          LET answer == AnthropicAnswer(choices)
          IN /\ history' = Append(history, [role |-> "assistant", content |-> answer.content])
             /\ told' = told \cup SaidIn(choices)
             /\ pending' = IF answer.stop = "tool_use"
                           THEN PiecesOf(answer.content, {"tool_use"}) ELSE <<>>
    BY DEF Answer, SaidIn, CallsToSend
  <1> DEFINE message == [role |-> "assistant", content |-> AnthropicAnswer(choices).content]
             said == SaidIn(choices)
  <1>2. /\ history \in Seq(ClientMessage) /\ turn \in Nat
        /\ SaidOnce /\ NewPieces /\ CallsFollowed
    BY DEF TalkInductive, TalkOK
  <1>3. UpstreamsTurn /\ turn' = turn
    BY DEF Answer
  <1>4. message \in ClientMessage /\ said \subseteq AnswerPieces(turn)
    BY <1>2, AnswerTranslated
  <1>5. PICK text, calls :
          LET m == OpenAIMessage("assistant", text, calls, NoCall)
          IN  /\ m \in SentMessage
              /\ MessagesOf(message) = <<m>>
              /\ OnceEach(calls, ToSet(calls))
              /\ OnceEach(text \o calls, said)
              /\ (IF AnthropicAnswer(choices).stop = "tool_use"
                  THEN PiecesOf(AnthropicAnswer(choices).content, {"tool_use"}) ELSE <<>>) = calls
    BY <1>2, AnswerTranslated
  <1>6. pending' = calls
    BY <1>1, <1>5
  <1>7. history' = Append(history, message) /\ told' = told \cup said
    BY <1>1
  <1> DEFINE m == OpenAIMessage("assistant", text, calls, NoCall)
  <1>8. /\ m \in SentMessage /\ m.parts = text /\ m.calls = calls /\ m.answers = NoCall
        /\ MessagesOf(message) = <<m>>
    BY <1>5 DEF OpenAIMessage
  <1> HIDE DEF message, said, m
  <1> DEFINE msgs == Translated
             all == msgs \o <<m>>
  <1>9. msgs \in Seq(SentMessage) /\ <<m>> \in Seq(SentMessage) /\ Translated' = all
    <2>1. TranslatedMessages(SystemPrompt, Append(history, message))
            = TranslatedMessages(SystemPrompt, history) \o MessagesOf(message)
      BY <1>2, <1>4, TranslatedGrows
    <2>2. Translated \in Seq(SentMessage)
      BY <1>2, TranslatedType DEF Translated
    <2>3. Translated' = TranslatedMessages(SystemPrompt, Append(history, message))
      BY <1>7 DEF Translated
    <2>4. <<m>> \in Seq(SentMessage)
      BY <1>8
    <2> QED
      BY <1>8, <2>1, <2>2, <2>3, <2>4 DEF Translated
  <1>10. history' \in Seq(ClientMessage) /\ ~UpstreamsTurn'
    BY <1>2, <1>3, <1>4, <1>7, TurnsAlternate DEF UpstreamsTurn
  <1>11. TalkOK'
    BY <1>2, <1>3, <1>5, <1>6, <1>10 DEF TalkOK
  <1>12. SaidOnce'
    <2>1. told \cap said = {}
      BY <1>2, <1>3, <1>4 DEF NewPieces
    <2>2. OnceEach(FlatMap(PiecesIn, msgs), told)
      BY <1>2 DEF SaidOnce
    <2>3. FlatMap(PiecesIn, <<m>>) = text \o calls
      BY <1>8, PiecesOfOneMessage
    <2>4. OnceEach(FlatMap(PiecesIn, <<m>>), said)
      BY <1>5, <2>3
    <2> HIDE DEF msgs
    <2>5. OnceEach(FlatMap(PiecesIn, msgs \o <<m>>), told \cup said)
      BY <1>9, <2>1, <2>2, <2>4, SaidGrows
    <2> QED
      BY <1>7, <1>9, <2>5 DEF SaidOnce
  <1>13. NewPieces'
    <2> SUFFICES ASSUME NEW n \in Nat
                 PROVE  /\ n >= turn => (told \cup said) \cap AskedPieces(n) = {}
                        /\ n > turn => (told \cup said) \cap AnswerPieces(n) = {}
      BY <1>3, <1>7, <1>10 DEF NewPieces
    <2>1. said \cap AskedPieces(n) = {}
      BY <1>2, <1>4, PiecesApart
    <2>2. n >= turn => told \cap AskedPieces(n) = {}
      BY <1>2 DEF NewPieces
    <2>3. ASSUME n > turn PROVE told \cap AnswerPieces(n) = {} /\ said \cap AnswerPieces(n) = {}
      <3>1. turn # n
        BY <1>2, <2>3
      <3> QED
        BY <1>2, <1>4, <2>3, <3>1, PiecesApart DEF NewPieces
    <2> QED
      BY <2>1, <2>2, <2>3
  <1>14. CallsFollowed'
    <2> DEFINE L == Len(msgs)
    <2>1. L \in Nat
      BY <1>9, LenProperties
    <2>2. \A i \in 1 .. L : FollowsCalls(msgs, i) /\ AnsweredAt(msgs, i)
      BY <1>2, <1>3 DEF CallsFollowed
    <2> HIDE DEF msgs
    <2>3. \A i \in 1 .. L : AnsweredAt(all, i) /\ FollowsCalls(all, i)
      BY <1>9, <2>2, AnsweredStays
    <2>4. Len(all) = L + 1 /\ all[L + 1] = m
      <3>1. Append(msgs, m) = all
        BY <1>8, <1>9, AppendIsConcat
      <3>2. Len(Append(msgs, m)) = L + 1 /\ Append(msgs, m)[L + 1] = m
        BY <1>8, <1>9, AppendProperties
      <3> QED
        BY <3>1, <3>2
    <2> HIDE DEF all, L
    <2>5. FollowsCalls(all, L + 1) /\ all[L + 1].calls = pending'
      BY <1>6, <1>8, <2>4 DEF FollowsCalls
    <2>6. ASSUME NEW i \in 1 .. Len(all)
          PROVE  FollowsCalls(all, i) /\ (AnsweredAt(all, i) \/ (i = Len(all) /\ all[i].calls = pending'))
      <3>1. CASE i = L + 1
        BY <3>1, <2>4, <2>5
      <3>2. CASE i # L + 1
        <4>1. i \in 1 .. L
          BY <2>1, <2>4, <3>2
        <4> QED
          BY <4>1, <2>3
      <3> QED
        BY <3>1, <3>2
    <2>7. Len(all) > 0 /\ all[Len(all)].calls = pending'
      BY <2>1, <2>4, <2>5
    <2> QED
      BY <1>9, <1>10, <2>6, <2>7 DEF CallsFollowed
  <1>15. AskedWhole'
    BY <1>10 DEF AskedWhole
  <1> QED
    BY <1>11, <1>12, <1>13, <1>14, <1>15 DEF TalkInductive

\* The other API is asked once and for all, and leaves the messages alone.
LEMMA OtherAsksKeep ==
    ASSUME TalkInductive, AskCompletions \/ AskEmbeddings PROVE TalkInductive'
  <1>1. /\ turn = 0 /\ turn' = MaxTurns /\ ~UpstreamsTurn
        /\ UNCHANGED <<history, told, pending>>
    BY DEF AskCompletions, AskEmbeddings, ClientsTurn
  <1>2. MaxTurns \in Nat
    BY ConstantsAssumption
  <1>3. Translated' = Translated /\ ~UpstreamsTurn'
    BY <1>1 DEF Translated, UpstreamsTurn
  <1>4. NewPieces'
    <2>1. \A n \in Nat : (n >= MaxTurns => n >= 0) /\ (n > MaxTurns => n > 0)
      BY <1>2
    <2>2. NewPieces
      BY DEF TalkInductive
    <2> QED
      BY <1>1, <1>3, <2>1, <2>2 DEF NewPieces
  <1>5. SaidOnce' /\ TalkOK'
    BY <1>1, <1>2, <1>3 DEF SaidOnce, TalkOK, TalkInductive
  <1>6. CallsFollowed'
    BY <1>1, <1>3 DEF CallsFollowed, TalkInductive
  <1> QED
    BY <1>3, <1>4, <1>5, <1>6 DEF TalkInductive, AskedWhole

\* It is about these variables only.
LEMMA TalkStays ==
    ASSUME TalkInductive, UNCHANGED <<history, told, pending, turn, asked>> PROVE TalkInductive'
  <1>1. Translated' = Translated /\ UpstreamsTurn' = UpstreamsTurn
    BY DEF Translated, UpstreamsTurn
  <1> QED
    BY <1>1 DEF TalkInductive, TalkOK, SaidOnce, NewPieces, CallsFollowed, AskedWhole

LEMMA TalkStep == TalkInductive /\ [ConversationNext]_conversationVars => TalkInductive'
  <1> SUFFICES ASSUME TalkInductive, [ConversationNext]_conversationVars PROVE TalkInductive'
    OBVIOUS
  <1>1. CASE SetModelMappings \/ AddModelMapping \/ DeleteModelMapping \/ PickModel
    <2>1. UNCHANGED <<history, told, pending, turn, asked>>
      BY <1>1 DEF SetModelMappings, AddModelMapping, DeleteModelMapping, PickModel
    <2> QED
      BY <2>1, TalkStays
  <1>2. CASE Ask
    BY <1>2, AskKeeps
  <1>3. CASE AskCompletions \/ AskEmbeddings
    BY <1>3, OtherAsksKeep
  <1>4. CASE Answer
    BY <1>4, AnswerKeeps
  <1>5. CASE UNCHANGED conversationVars
    <2>1. UNCHANGED <<history, told, pending, turn, asked>>
      BY <1>5 DEF conversationVars
    <2> QED
      BY <2>1, TalkStays
  <1> QED
    BY <1>1, <1>2, <1>3, <1>4, <1>5 DEF ConversationNext

\* At the upstream's turn the request is all of the history, with every call answered.
LEMMA TalkImplies == TalkInductive => ResentOnce /\ ToolsAnswered
  <1> SUFFICES ASSUME TalkInductive PROVE ResentOnce /\ ToolsAnswered
    OBVIOUS
  <1>1. Translated \in Seq(SentMessage)
    BY TranslatedType DEF TalkInductive, TalkOK, Translated
  <1>2. Sent = IF UpstreamsTurn THEN Translated ELSE <<>>
    BY DEF Sent, TalkInductive, AskedWhole
  <1>3. Len(Translated) \in Nat /\ DOMAIN Translated = 1 .. Len(Translated)
    BY <1>1, LenProperties
  <1>4. ResentOnce
    <2> SUFFICES ASSUME Sent # <<>>
                 PROVE  LET pieces == FlattenSeq([i \in DOMAIN Sent |-> Sent[i].parts \o Sent[i].calls])
                        IN ToSet(pieces) = told /\ Len(pieces) = Cardinality(told)
      BY DEF ResentOnce
    <2>1. Sent = Translated
      BY <1>2
    <2>2. \A i \in DOMAIN Translated : Translated[i] \in SentMessage
      BY <1>1, <1>3, ElementOfSeq
    <2>3. [i \in DOMAIN Translated |-> Translated[i].parts \o Translated[i].calls]
            = Image(PiecesIn, Translated)
      BY <2>2 DEF Image, PiecesIn
    <2>4. OnceEach(FlattenSeq(Image(PiecesIn, Translated)), told)
      BY DEF TalkInductive, SaidOnce, FlatMap
    <2>5. Len(FlattenSeq(Image(PiecesIn, Translated))) = Cardinality(told)
      BY <2>4, OnceEachCounts
    <2> QED
      BY <2>1, <2>3, <2>4, <2>5 DEF OnceEach
  <1>5. ToolsAnswered
    <2>1. CASE UpstreamsTurn
      <3>1. Sent = Translated
        BY <1>2, <2>1
      <3>2. \A i \in DOMAIN Sent : AnsweredAt(Sent, i) /\ FollowsCalls(Sent, i)
        BY <1>3, <2>1, <3>1 DEF TalkInductive, CallsFollowed
      <3> QED
        BY <3>2 DEF ToolsAnswered, AnsweredAt, FollowsCalls
    <2>2. CASE ~UpstreamsTurn
      BY <1>2, <2>2 DEF ToolsAnswered
    <2> QED
      BY <2>1, <2>2
  <1> QED
    BY <1>4, <1>5

\* However long the conversation, the request has every text, result, base64 image and
\* parsable tool call of either side in one place of one message, every image by URL
\* and unparsable call emptied in one place, and nothing else.
THEOREM SaidIsResent == ConversationSpec => []ResentOnce
  <1>1. ConversationInit => TalkInductive
    BY TalkInit
  <1>2. TalkInductive /\ [ConversationNext]_conversationVars => TalkInductive'
    BY TalkStep
  <1>3. TalkInductive => ResentOnce
    BY TalkImplies
  <1> QED
    BY <1>1, <1>2, <1>3, PTL DEF ConversationSpec

\* The messages right after one with tool calls answer each of these calls, and no
\* other message answers a call, in whatever order the client puts its results.
THEOREM CallsAreAnswered == ConversationSpec => []ToolsAnswered
  <1>1. ConversationInit => TalkInductive
    BY TalkInit
  <1>2. TalkInductive /\ [ConversationNext]_conversationVars => TalkInductive'
    BY TalkStep
  <1>3. TalkInductive => ToolsAnswered
    BY TalkImplies
  <1> QED
    BY <1>1, <1>2, <1>3, PTL DEF ConversationSpec
=============================================================================
