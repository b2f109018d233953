---------------------------- MODULE ConsoleAccess ----------------------------
(***************************************************************************)
(* How the console lets people in and GitHub accounts be added: the        *)
(* administrator is set up once and logs in (store/admin.go), and adds     *)
(* accounts by GitHub's device flow, in which a goroutine polls for the    *)
(* token while the console asks for the session's status and completes it  *)
(* (auth/device_flow.go, handler/console_api.go).  Sessions of both kinds  *)
(* live in memory; the administrator and the accounts in files.            *)
(*                                                                         *)
(* GitHub is external.  Time is not counted: sessions and device codes     *)
(* expire at some moment.                                                  *)
(***************************************************************************)
EXTENDS Naturals, FiniteSets

CONSTANTS Users,     \* credentials a setup or a login may give
          Tokens,    \* bound: tokens of console sessions
          Flows,     \* bound: device flow sessions
          Requests,  \* console requests in flight
          Nobody,    \* no administrator, no session
          MaxAdded   \* bound: accounts added from one flow

ASSUME ConstantsAssumption ==
    /\ Nobody \notin Users
    /\ MaxAdded \in Nat

VARIABLES
    admin,     \* admin.json: the administrator's credentials, or Nobody
    sessions,  \* per token, whose session it is, or Nobody
    stale,     \* the tokens whose sessions have expired
    flow,      \* the device flow sessions, and their goroutines
    added,     \* history: accounts added from each flow
    request,   \* where each console request is
    rivals,    \* history: two setups have both passed the check, since the start
    shared     \* history: flows completed by two requests at once, or while the
               \* goroutine was still to list them

vars == <<admin, sessions, stale, flow, added, request, rivals, shared>>

\* at is the goroutine's stage: it waits for the ticker, asks GitHub, writes what
\* it got, lists the session again, and ends.
NoFlow == [at |-> "none", status |-> "none", token |-> FALSE, listed |-> FALSE, late |-> FALSE]
Flow == [at : {"none", "waiting", "asking", "writing", "ended"},
         status : {"none", "pending", "completed", "expired"},
         token : BOOLEAN,   \* AccessToken is set
         listed : BOOLEAN,  \* authSessions has the session
         late : BOOLEAN]    \* ExpiresAt has passed

Idle == [at |-> "idle"]
SettingUp == [at : {"checked", "stored"}, user : Users]
Completing == [at : {"loaded", "passed", "added"}, flow : Flows]

TypeOK ==
    /\ admin \in Users \cup {Nobody}
    /\ sessions \in [Tokens -> Users \cup {Nobody}]
    /\ stale \subseteq {t \in Tokens : sessions[t] # Nobody}
    /\ flow \in [Flows -> Flow]
    /\ added \in [Flows -> 0 .. MaxAdded]
    /\ request \in [Requests -> {Idle} \cup SettingUp \cup Completing]
    /\ rivals \in BOOLEAN
    /\ shared \subseteq Flows

NoSessions == [t \in Tokens |-> Nobody]

Init ==
    /\ admin = Nobody
    /\ sessions = NoSessions
    /\ stale = {}
    /\ flow = [d \in Flows |-> NoFlow]
    /\ added = [d \in Flows |-> 0]
    /\ request = [r \in Requests |-> Idle]
    /\ rivals = FALSE
    /\ shared = {}

At(r, stage) == request[r].at = stage
Ends(r) == request' = [request EXCEPT ![r] = Idle]
Goes(r, stage) == request' = [request EXCEPT ![r].at = stage]
-----------------------------------------------------------------------------
(* The administrator *)

\* Mutant form: handleSetup does not ask whether a setup is required.
SetupUnchecked(r) ==
    /\ At(r, "idle")
    /\ \E u \in Users : request' = [request EXCEPT ![r] = [at |-> "checked", user |-> u]]
    /\ rivals' = (rivals \/ \E q \in Requests : At(q, "checked"))
    /\ UNCHANGED <<admin, sessions, stale, flow, added, shared>>

\* handleSetup: IsSetupRequired, after which the lock is released.
SetupCheck(r) ==
    /\ At(r, "idle")
    /\ admin = Nobody
    /\ \E u \in Users : request' = [request EXCEPT ![r] = [at |-> "checked", user |-> u]]
    /\ rivals' = (rivals \/ \E q \in Requests : At(q, "checked"))
    /\ UNCHANGED <<admin, sessions, stale, flow, added, shared>>

\* SetupAdmin writes the administrator, whoever is there.
SetupStore(r) ==
    /\ At(r, "checked")
    /\ admin' = request[r].user
    /\ Goes(r, "stored")
    /\ UNCHANGED <<sessions, stale, flow, added, rivals, shared>>

\* LoginAdmin: a new session for whoever gives the administrator's credentials.
LoginAdmin(u) ==
    IF admin = u
    THEN \E t \in Tokens : sessions[t] = Nobody /\ sessions' = [sessions EXCEPT ![t] = u]
    ELSE UNCHANGED sessions

\* handleSetup then logs in with its own credentials.
SetupLogin(r) ==
    /\ At(r, "stored")
    /\ LoginAdmin(request[r].user)
    /\ Ends(r)
    /\ UNCHANGED <<admin, stale, flow, added, rivals, shared>>

\* handleLogin.
Login(r) ==
    /\ At(r, "idle")
    /\ \E u \in Users : LoginAdmin(u)
    /\ UNCHANGED <<admin, stale, flow, added, request, rivals, shared>>

SessionExpires(t) ==
    /\ sessions[t] # Nobody
    /\ stale' = stale \cup {t}
    /\ UNCHANGED <<admin, sessions, flow, added, request, rivals, shared>>

\* ValidateSession meets an expired session and deletes it; the request is
\* refused.  (It deletes under a read lock: meeting another reader, the runtime
\* may stop the process, which Crash allows.)
DropExpired(t) ==
    /\ t \in stale
    /\ sessions' = [sessions EXCEPT ![t] = Nobody]
    /\ stale' = stale \ {t}
    /\ UNCHANGED <<admin, flow, added, request, rivals, shared>>

\* adminAuthMiddleware lets a request in.
Admitted(r) == At(r, "idle") /\ \E t \in Tokens \ stale : sessions[t] # Nobody
-----------------------------------------------------------------------------
(* The device flow *)

\* StartDeviceFlow, once GitHub has given a code: the session is listed and a
\* goroutine polls.
StartDeviceFlow(r) ==
    /\ Admitted(r)
    /\ \E d \in Flows :
         /\ flow[d] = NoFlow
         /\ flow' = [flow EXCEPT ![d] =
              [at |-> "waiting", status |-> "pending", token |-> FALSE, listed |-> TRUE, late |-> FALSE]]
    /\ UNCHANGED <<admin, sessions, stale, added, request, rivals, shared>>

CodeExpires(d) ==
    /\ flow[d].at # "none"
    /\ ~ flow[d].late
    /\ flow' = [flow EXCEPT ![d].late = TRUE]
    /\ UNCHANGED <<admin, sessions, stale, added, request, rivals, shared>>

\* Mutant form: the time is not looked at.
TickForever(d) ==
    /\ flow[d].at = "waiting"
    /\ flow' = [flow EXCEPT ![d].at = "asking"]
    /\ UNCHANGED <<admin, sessions, stale, added, request, rivals, shared>>

\* pollForToken, on a tick: an expired session is marked, listed and left;
\* otherwise GitHub is asked.
Tick(d) ==
    /\ flow[d].at = "waiting"
    /\ flow' = [flow EXCEPT ![d] =
         IF @.late THEN [@ EXCEPT !.status = "expired", !.listed = TRUE, !.at = "ended"]
         ELSE [@ EXCEPT !.at = "asking"]]
    /\ UNCHANGED <<admin, sessions, stale, added, request, rivals, shared>>

\* requestToken ends: with an error (the user has not answered, slow_down, the
\* network), after which it polls on, or with the token.
Answer(d) ==
    /\ flow[d].at = "asking"
    /\ \E stage \in {"waiting", "writing"} : flow' = [flow EXCEPT ![d].at = stage]
    /\ UNCHANGED <<admin, sessions, stale, added, request, rivals, shared>>

\* Status and AccessToken are written without a lock; a handler may see either
\* before the other.
WriteField(d) ==
    /\ flow[d].at = "writing"
    /\ \/ /\ flow[d].status = "pending"
          /\ flow' = [flow EXCEPT ![d].status = "completed"]
       \/ /\ ~ flow[d].token
          /\ flow' = [flow EXCEPT ![d].token = TRUE]
    /\ UNCHANGED <<admin, sessions, stale, added, request, rivals, shared>>

\* Then the goroutine lists the session, which is listed already, or was until it
\* was completed, and ends.
ListAgain(d) ==
    /\ flow[d].at = "writing"
    /\ flow[d].status = "completed"
    /\ flow[d].token
    /\ flow' = [flow EXCEPT ![d].listed = TRUE, ![d].at = "ended"]
    /\ UNCHANGED <<admin, sessions, stale, added, request, rivals, shared>>
-----------------------------------------------------------------------------
(* handleCompleteAuth *)

BeingCompleted(d) == \E q \in Requests : request[q].at \in {"loaded", "passed", "added"} /\ request[q].flow = d

\* GetSession: the handler has a pointer to a listed session.
Load(r) ==
    /\ Admitted(r)
    /\ \E d \in Flows :
         /\ flow[d].listed
         /\ request' = [request EXCEPT ![r] = [at |-> "loaded", flow |-> d]]
         /\ shared' = IF BeingCompleted(d) THEN shared \cup {d} ELSE shared
    /\ UNCHANGED <<admin, sessions, stale, flow, added, rivals>>

\* Mutant form: the status is believed without a look at the token.
CheckStatus(r) ==
    /\ At(r, "loaded")
    /\ IF flow[request[r].flow].status = "completed" THEN Goes(r, "passed") ELSE Ends(r)
    /\ UNCHANGED <<admin, sessions, stale, flow, added, rivals, shared>>

\* It must be completed and have a token.
Check(r) ==
    /\ At(r, "loaded")
    /\ LET f == flow[request[r].flow]
       IN IF f.status = "completed" /\ f.token THEN Goes(r, "passed") ELSE Ends(r)
    /\ UNCHANGED <<admin, sessions, stale, flow, added, rivals, shared>>

\* AddAccount with the session's token.
AddAccount(r) ==
    /\ At(r, "passed")
    /\ added[request[r].flow] < MaxAdded
    /\ added' = [added EXCEPT ![request[r].flow] = @ + 1]
    /\ Goes(r, "added")
    /\ UNCHANGED <<admin, sessions, stale, flow, rivals, shared>>

\* Mutant form: the session stays listed.
KeepSession(r) ==
    /\ At(r, "added")
    /\ Ends(r)
    /\ UNCHANGED <<admin, sessions, stale, flow, added, rivals, shared>>

\* CleanupSession.
CleanupSession(r) ==
    /\ At(r, "added")
    /\ LET d == request[r].flow
       IN /\ flow' = [flow EXCEPT ![d].listed = FALSE]
          /\ shared' = IF flow[d].at # "ended" THEN shared \cup {d} ELSE shared
    /\ Ends(r)
    /\ UNCHANGED <<admin, sessions, stale, added, rivals>>
-----------------------------------------------------------------------------
\* The process ends and starts again: everything in memory is gone, and admin.json
\* is empty if it was being written.
Crash ==
    /\ admin' \in {admin} \cup {Nobody : r \in {q \in Requests : At(q, "checked")}}
    /\ sessions' = NoSessions
    /\ stale' = {}
    /\ flow' = [d \in Flows |-> NoFlow]
    /\ added' = [d \in Flows |-> 0]
    /\ request' = [r \in Requests |-> Idle]
    /\ rivals' = FALSE
    /\ shared' = {}

Next ==
    \/ Crash
    \/ \E t \in Tokens : SessionExpires(t) \/ DropExpired(t)
    \/ \E d \in Flows : CodeExpires(d) \/ Tick(d) \/ Answer(d) \/ WriteField(d) \/ ListAgain(d)
    \/ \E r \in Requests :
         \/ SetupCheck(r) \/ SetupStore(r) \/ SetupLogin(r) \/ Login(r)
         \/ StartDeviceFlow(r)
         \/ Load(r) \/ Check(r) \/ AddAccount(r) \/ CleanupSession(r)

Spec == Init /\ [][Next]_vars

\* The ticker ticks, a call to GitHub ends (its client has a timeout), the
\* goroutine goes on, and the code's lifetime passes.
FairSpec ==
    /\ Spec
    /\ \A d \in Flows : /\ WF_vars(Tick(d)) /\ WF_vars(Answer(d))
                        /\ WF_vars(WriteField(d)) /\ WF_vars(ListAgain(d))
                        /\ WF_vars(CodeExpires(d))
-----------------------------------------------------------------------------
(* Properties *)

\* Every session of the console is the administrator's that admin.json names:
\* nobody who set up or logged in before keeps a session under other credentials,
\* through crashes in the middle of a setup; unless two setups have both found
\* that there was no administrator, of which the second then replaces the first
\* (console_api.go:131, :137).
SessionsAreAdmins ==
    ~ rivals => \A t \in Tokens : sessions[t] \in {admin, Nobody}

\* An account is only made with a token, although the goroutine writes the
\* session's status and token without a lock (device_flow.go:150) and the handler
\* may see one of them before the other.
AccountHasToken ==
    \A r \in Requests : request[r].at \in {"passed", "added"} => flow[request[r].flow].token

\* One device flow makes one account, however often it is completed, unless two
\* requests complete it at the same time, or one does before the goroutine has
\* listed the session for the last time (device_flow.go:152).
AddedOnce ==
    \A d \in Flows \ shared : added[d] <= 1

\* Every polling goroutine ends, whatever GitHub answers.
PollingEnds ==
    \A d \in Flows : flow[d].at = "waiting" ~> flow[d].at \in {"ended", "none"}
=============================================================================
