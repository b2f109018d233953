------------------------ MODULE ConsoleAccess_proofs ------------------------
(***************************************************************************)
(* For any number of credentials, sessions, device flows and requests in   *)
(* flight: the types of ConsoleAccess; every session is the                *)
(* administrator's; an account is only made with a token, and once per     *)
(* flow.                                                                   *)
(***************************************************************************)
EXTENDS ConsoleAccess, TLAPS

\* Without rivals, at most one setup has passed the check and not yet written, and
\* there is no administrator then.
SetupIsAlone ==
    ~ rivals => \A q, r \in Requests :
        (At(q, "checked") /\ At(r, "checked")) => q = r /\ admin = Nobody

InCompletion(r, d) == request[r].at \in {"loaded", "passed", "added"} /\ request[r].flow = d

\* A flow that has not been shared is being completed by one request at most, which
\* has not added the account yet, or has added the only one.  Once it is done the
\* session is not listed, and its goroutine, having ended, will not list it again.
CompletionIsAlone ==
    \A d \in Flows \ shared :
        /\ \A q, r \in Requests : (InCompletion(q, d) /\ InCompletion(r, d)) => q = r
        /\ \A r \in Requests : InCompletion(r, d) =>
              added[d] = IF At(r, "added") THEN 1 ELSE 0
        /\ added[d] \in {0, 1}
        /\ (added[d] = 1 /\ \A r \in Requests : ~ InCompletion(r, d)) =>
              ~ flow[d].listed /\ flow[d].at = "ended"

\* A request completes a session that there is, and has seen its token.
CompletesASession ==
    \A r \in Requests, d \in Flows : InCompletion(r, d) =>
        /\ flow[d].at # "none"
        /\ ~ At(r, "loaded") => flow[d].token

\* Every flow that there is not has made nothing; one that is listed there is.
NoFlowNothing == \A d \in Flows : flow[d].at = "none" => flow[d] = NoFlow
-----------------------------------------------------------------------------
\* What the stage of a request says of its record.
LEMMA RequestType ==
    ASSUME TypeOK, NEW r \in Requests
    PROVE  /\ request[r].at \in {"idle", "checked", "stored", "loaded", "passed", "added"}
           /\ request[r].at \in {"checked", "stored"} => request[r] \in SettingUp
           /\ request[r].at \in {"loaded", "passed", "added"} => request[r] \in Completing
  BY DEF TypeOK, Idle, SettingUp, Completing

LEMMA TypeInit == Init => TypeOK
  <1> SUFFICES ASSUME Init PROVE TypeOK
    OBVIOUS
  <1>1. flow \in [Flows -> Flow]
    BY DEF Init, NoFlow, Flow
  <1>2. /\ added \in [Flows -> 0 .. MaxAdded]
        /\ request \in [Requests -> {Idle} \cup SettingUp \cup Completing]
    BY ConstantsAssumption DEF Init
  <1> QED
    BY <1>1, <1>2 DEF Init, TypeOK, NoSessions

\* Each step preserves the types.
LEMMA TypeStep == TypeOK /\ [Next]_vars => TypeOK'
  <1> SUFFICES ASSUME TypeOK, [Next]_vars PROVE TypeOK'
    OBVIOUS
  <1> USE DEF At, Ends, Goes
  <1>1. CASE UNCHANGED vars
    BY <1>1 DEF TypeOK, vars
  <1>2. CASE Crash
    <2>1. admin' \in Users \cup {Nobody}
      BY <1>2 DEF Crash, TypeOK
    <2>2. flow' \in [Flows -> Flow]
      BY <1>2 DEF Crash, NoFlow, Flow
    <2>3. /\ added' \in [Flows -> 0 .. MaxAdded]
          /\ request' \in [Requests -> {Idle} \cup SettingUp \cup Completing]
      BY <1>2, ConstantsAssumption DEF Crash
    <2> QED
      BY <1>2, <2>1, <2>2, <2>3 DEF Crash, TypeOK, NoSessions
  <1>3. ASSUME NEW t \in Tokens, SessionExpires(t) \/ DropExpired(t) PROVE TypeOK'
    BY <1>3 DEF SessionExpires, DropExpired, TypeOK
  <1>4. ASSUME NEW d \in Flows,
               CodeExpires(d) \/ Tick(d) \/ Answer(d) \/ WriteField(d) \/ ListAgain(d)
        PROVE  TypeOK'
    <2>1. flow[d] \in Flow /\ flow \in [Flows -> Flow]
      BY DEF TypeOK
    <2>2. flow' \in [Flows -> Flow]
      <3>1. CASE CodeExpires(d)
        BY <2>1, <3>1 DEF CodeExpires, Flow
      <3>2. CASE Tick(d)
        BY <2>1, <3>2 DEF Tick, Flow
      <3>3. CASE Answer(d)
        BY <2>1, <3>3 DEF Answer, Flow
      <3>4. CASE WriteField(d)
        <4>1. CASE flow' = [flow EXCEPT ![d].status = "completed"]
          BY <2>1, <4>1 DEF Flow
        <4>2. CASE flow' = [flow EXCEPT ![d].token = TRUE]
          BY <2>1, <4>2 DEF Flow
        <4> QED BY <3>4, <4>1, <4>2 DEF WriteField
      <3>5. CASE ListAgain(d)
        BY <2>1, <3>5 DEF ListAgain, Flow
      <3> QED BY <1>4, <3>1, <3>2, <3>3, <3>4, <3>5
    <2> QED
      BY <1>4, <2>2 DEF CodeExpires, Tick, Answer, WriteField, ListAgain, TypeOK
  <1>5. ASSUME NEW r \in Requests,
               SetupCheck(r) \/ SetupStore(r) \/ SetupLogin(r) \/ Login(r)
        PROVE  TypeOK'
    <2>1. CASE SetupCheck(r)
      BY <2>1, RequestType DEF SetupCheck, TypeOK, SettingUp
    <2>2. CASE SetupStore(r)
      BY <2>2, RequestType DEF SetupStore, TypeOK, SettingUp
    <2>3. CASE SetupLogin(r)
      BY <2>3, RequestType DEF SetupLogin, LoginAdmin, TypeOK, SettingUp
    <2>4. CASE Login(r)
      BY <2>4 DEF Login, LoginAdmin, TypeOK
    <2> QED BY <1>5, <2>1, <2>2, <2>3, <2>4
  <1>6. ASSUME NEW r \in Requests, StartDeviceFlow(r) PROVE TypeOK'
    BY <1>6 DEF StartDeviceFlow, TypeOK, Flow
  <1>7. ASSUME NEW r \in Requests, Load(r) \/ Check(r) \/ AddAccount(r) PROVE TypeOK'
    <2>1. CASE Load(r)
      BY <2>1 DEF Load, TypeOK, Completing
    <2>2. CASE Check(r)
      BY <2>2, RequestType DEF Check, TypeOK, Completing
    <2>3. CASE AddAccount(r)
      BY <2>3, RequestType, ConstantsAssumption DEF AddAccount, TypeOK, Completing
    <2> QED BY <1>7, <2>1, <2>2, <2>3
  <1>8. ASSUME NEW r \in Requests, CleanupSession(r) PROVE TypeOK'
    <2>1. request[r].flow \in Flows
      BY <1>8, RequestType DEF CleanupSession, Completing
    <2> QED
      BY <1>8, <2>1 DEF CleanupSession, TypeOK, Flow
  <1> QED
    BY <1>1, <1>2, <1>3, <1>4, <1>5, <1>6, <1>7, <1>8 DEF Next

\* Type correctness of the console's state, the bound on accounts included.
THEOREM TypeCorrect == Spec => []TypeOK
  BY TypeInit, TypeStep, PTL DEF Spec
-----------------------------------------------------------------------------
(* Setups and sessions *)

LEMMA SetupInit == Init => SessionsAreAdmins /\ SetupIsAlone
  BY DEF Init, SessionsAreAdmins, NoSessions, SetupIsAlone, At, Idle

LEMMA SetupStep ==
    TypeOK /\ SessionsAreAdmins /\ SetupIsAlone /\ [Next]_vars
        => SessionsAreAdmins' /\ SetupIsAlone'
  <1> SUFFICES ASSUME TypeOK, SessionsAreAdmins, SetupIsAlone, [Next]_vars
               PROVE  SessionsAreAdmins' /\ SetupIsAlone'
    OBVIOUS
  <1> USE DEF SessionsAreAdmins, SetupIsAlone
  <1> request \in [Requests -> {Idle} \cup SettingUp \cup Completing]
    BY DEF TypeOK
  <1> sessions \in [Tokens -> Users \cup {Nobody}]
    BY DEF TypeOK
  <1>1. CASE UNCHANGED vars
    BY <1>1 DEF vars, At
  <1>2. CASE Crash
    BY <1>2 DEF Crash, NoSessions, At, Idle
  <1>3. ASSUME NEW t \in Tokens, SessionExpires(t) \/ DropExpired(t)
        PROVE  SessionsAreAdmins' /\ SetupIsAlone'
    BY <1>3 DEF SessionExpires, DropExpired, At
  <1>4. ASSUME NEW d \in Flows,
               CodeExpires(d) \/ Tick(d) \/ Answer(d) \/ WriteField(d) \/ ListAgain(d)
        PROVE  SessionsAreAdmins' /\ SetupIsAlone'
    BY <1>4 DEF CodeExpires, Tick, Answer, WriteField, ListAgain, At
  <1>5. ASSUME NEW r \in Requests, SetupCheck(r) PROVE SessionsAreAdmins' /\ SetupIsAlone'
    <2>1. UNCHANGED <<admin, sessions>> /\ admin = Nobody
      BY <1>5 DEF SetupCheck
    <2>2. \A q \in Requests \ {r} : request'[q] = request[q]
      BY <1>5 DEF SetupCheck
    <2>3. ~ rivals' => ~ rivals /\ \A q \in Requests : ~ At(q, "checked")
      BY <1>5 DEF SetupCheck
    <2> QED BY <2>1, <2>2, <2>3 DEF At
  <1>6. ASSUME NEW r \in Requests, SetupStore(r) PROVE SessionsAreAdmins' /\ SetupIsAlone'
    <2>1. /\ \A q \in Requests \ {r} : request'[q] = request[q]
          /\ request'[r].at = "stored"
      BY <1>6, RequestType DEF SetupStore, Goes, At, SettingUp
    <2>2. ~ rivals => admin = Nobody /\ \A q \in Requests : At(q, "checked") => q = r
      BY <1>6 DEF SetupStore
    <2>3. UNCHANGED <<sessions, rivals>>
      BY <1>6 DEF SetupStore
    <2>4. SetupIsAlone'
      BY <2>1, <2>2, <2>3 DEF At
    <2>5. SessionsAreAdmins'
      BY <2>2, <2>3
    <2> QED BY <2>4, <2>5
  <1>7. ASSUME NEW r \in Requests, SetupLogin(r) PROVE SessionsAreAdmins' /\ SetupIsAlone'
    <2>1. /\ \A q \in Requests \ {r} : request'[q] = request[q]
          /\ request'[r].at = "idle"
          /\ UNCHANGED <<admin, rivals>>
      BY <1>7 DEF SetupLogin, Ends, Idle
    <2>2. \A t \in Tokens : sessions'[t] \in {sessions[t], admin}
      BY <1>7 DEF SetupLogin, LoginAdmin
    <2> QED BY <2>1, <2>2 DEF At
  <1>8. ASSUME NEW r \in Requests, Login(r) PROVE SessionsAreAdmins' /\ SetupIsAlone'
    <2>1. UNCHANGED <<admin, rivals, request>>
      BY <1>8 DEF Login
    <2>2. \A t \in Tokens : sessions'[t] \in {sessions[t], admin}
      BY <1>8 DEF Login, LoginAdmin
    <2> QED BY <2>1, <2>2 DEF At
  <1>9. ASSUME NEW r \in Requests,
               \/ StartDeviceFlow(r)
               \/ Load(r) \/ Check(r) \/ AddAccount(r) \/ CleanupSession(r)
        PROVE  SessionsAreAdmins' /\ SetupIsAlone'
    <2>1. UNCHANGED <<admin, sessions, rivals>>
      BY <1>9 DEF StartDeviceFlow, Load, Check, AddAccount, CleanupSession
    <2>2. \A q \in Requests : At(q, "checked")' => At(q, "checked")
      <3>1. CASE StartDeviceFlow(r)
        BY <3>1 DEF StartDeviceFlow, At
      <3>2. CASE Load(r)
        BY <3>2 DEF Load, At
      <3>3. CASE Check(r)
        BY <3>3, RequestType DEF Check, At, Goes, Ends, Idle, Completing
      <3>4. CASE AddAccount(r)
        BY <3>4, RequestType DEF AddAccount, At, Goes, Completing
      <3>5. CASE CleanupSession(r)
        BY <3>5 DEF CleanupSession, At, Ends, Idle
      <3> QED BY <1>9, <3>1, <3>2, <3>3, <3>4, <3>5
    <2> QED BY <2>1, <2>2
  <1> QED
    BY <1>1, <1>2, <1>3, <1>4, <1>5, <1>6, <1>7, <1>8, <1>9 DEF Next

\* A session is the administrator's, unless two setups have both found that there
\* was none.
THEOREM SessionsAreTheAdmins == Spec => []SessionsAreAdmins
  BY TypeInit, SetupInit, TypeStep, SetupStep, PTL DEF Spec
-----------------------------------------------------------------------------
(* Device flows and their completion *)

Completions == CompletionIsAlone /\ CompletesASession /\ NoFlowNothing

LEMMA CompletionsInit == Init => Completions
  BY DEF Init, Completions, CompletionIsAlone, CompletesASession, NoFlowNothing,
         InCompletion, Idle, NoFlow

\* A step that changes neither flows nor what is added from them, and moves no
\* request within a completion, preserves Completions.
LEMMA CompletionsElsewhere ==
    ASSUME Completions,
           UNCHANGED <<flow, added, shared>>,
           \A r \in Requests, d \in Flows :
               /\ InCompletion(r, d)' <=> InCompletion(r, d)
               /\ InCompletion(r, d) => request'[r] = request[r]
    PROVE  Completions'
  BY DEF Completions, CompletionIsAlone, CompletesASession, NoFlowNothing, At, InCompletion

\* The goroutine of d keeps what requests have seen of its session: it does not take
\* a token back, and it lists a session only before it ends.
LEMMA CompletionsGoOn ==
    ASSUME TypeOK, Completions, NEW d \in Flows,
           UNCHANGED <<request, added, shared>>,
           \A e \in Flows \ {d} : flow'[e] = flow[e],
           flow[d].at # "none", flow'[d].at # "none",
           flow[d].token => flow'[d].token,
           flow[d].at = "ended" => flow'[d].at = "ended" /\ flow'[d].listed = flow[d].listed
    PROVE  Completions'
  BY DEF Completions, CompletionIsAlone, CompletesASession, NoFlowNothing, At, InCompletion

LEMMA CompletionsStep == TypeOK /\ Completions /\ [Next]_vars => Completions'
  <1> SUFFICES ASSUME TypeOK, Completions, [Next]_vars PROVE Completions'
    OBVIOUS
  <1> request \in [Requests -> {Idle} \cup SettingUp \cup Completing]
    BY DEF TypeOK
  <1> flow \in [Flows -> Flow]
    BY DEF TypeOK
  <1>1. CASE UNCHANGED vars
    BY <1>1, CompletionsElsewhere DEF vars, InCompletion
  <1>2. CASE Crash
    BY <1>2 DEF Crash, Completions, CompletionIsAlone, CompletesASession, NoFlowNothing,
                InCompletion, Idle, NoFlow
  <1>3. ASSUME NEW t \in Tokens, SessionExpires(t) \/ DropExpired(t) PROVE Completions'
    BY <1>3, CompletionsElsewhere DEF SessionExpires, DropExpired, InCompletion
  <1>4. ASSUME NEW d \in Flows,
               CodeExpires(d) \/ Tick(d) \/ Answer(d) \/ WriteField(d) \/ ListAgain(d)
        PROVE  Completions'
    <2>1. UNCHANGED <<request, added, shared>>
      BY <1>4 DEF CodeExpires, Tick, Answer, WriteField, ListAgain
    <2>2. \A e \in Flows \ {d} : flow'[e] = flow[e]
      BY <1>4 DEF CodeExpires, Tick, Answer, WriteField, ListAgain
    <2>3. /\ flow[d].at # "none" /\ flow'[d].at # "none"
          /\ flow[d].token => flow'[d].token
          /\ flow[d].at = "ended" =>
                flow'[d].at = "ended" /\ flow'[d].listed = flow[d].listed
      <3> flow[d] \in Flow
        OBVIOUS
      <3>1. CASE CodeExpires(d)
        BY <3>1 DEF CodeExpires, Flow
      <3>2. CASE Tick(d)
        BY <3>2 DEF Tick, Flow
      <3>3. CASE Answer(d)
        BY <3>3 DEF Answer, Flow
      <3>4. CASE WriteField(d)
        <4>1. flow[d].at = "writing"
          BY <3>4 DEF WriteField
        <4>2. CASE flow' = [flow EXCEPT ![d].status = "completed"]
          BY <4>1, <4>2 DEF Flow
        <4>3. CASE flow' = [flow EXCEPT ![d].token = TRUE]
          BY <4>1, <4>3 DEF Flow
        <4> QED BY <3>4, <4>2, <4>3 DEF WriteField
      <3>5. CASE ListAgain(d)
        BY <3>5 DEF ListAgain, Flow
      <3> QED BY <1>4, <3>1, <3>2, <3>3, <3>4, <3>5
    <2> QED BY <2>1, <2>2, <2>3, CompletionsGoOn
  <1>5. ASSUME NEW r \in Requests,
               SetupCheck(r) \/ SetupStore(r) \/ SetupLogin(r) \/ Login(r)
        PROVE  Completions'
    <2>1. /\ UNCHANGED <<flow, added, shared>>
          /\ \A q \in Requests \ {r} : request'[q] = request[q]
      BY <1>5 DEF SetupCheck, SetupStore, SetupLogin, Login, Goes, Ends
    <2>2. \/ request'[r] = request[r]
          \/ request[r].at \notin {"loaded", "passed", "added"}
             /\ request'[r].at \notin {"loaded", "passed", "added"}
      <3>1. CASE SetupCheck(r)
        BY <3>1 DEF SetupCheck, At
      <3>2. CASE SetupStore(r)
        BY <3>2, RequestType DEF SetupStore, Goes, At, SettingUp
      <3>3. CASE SetupLogin(r)
        BY <3>3 DEF SetupLogin, Ends, At, Idle
      <3>4. CASE Login(r)
        BY <3>4 DEF Login
      <3> QED BY <1>5, <3>1, <3>2, <3>3, <3>4
    <2> QED BY <2>1, <2>2, CompletionsElsewhere DEF InCompletion
  <1>6. ASSUME NEW r \in Requests, StartDeviceFlow(r) PROVE Completions'
    <2> PICK d \in Flows :
          /\ flow[d] = NoFlow
          /\ flow' = [flow EXCEPT ![d] =
               [at |-> "waiting", status |-> "pending", token |-> FALSE, listed |-> TRUE, late |-> FALSE]]
      BY <1>6 DEF StartDeviceFlow
    <2>1. UNCHANGED <<request, added, shared>>
      BY <1>6 DEF StartDeviceFlow
    <2>2. \A q \in Requests : ~ InCompletion(q, d)
      BY DEF Completions, CompletesASession, NoFlow
    <2>3. d \notin shared => added[d] # 1
      BY <2>2 DEF Completions, CompletionIsAlone, NoFlow
    <2> QED
      BY <2>1, <2>2, <2>3 DEF Completions, CompletionIsAlone, CompletesASession,
                             NoFlowNothing, At, InCompletion
  <1>7. ASSUME NEW r \in Requests, Load(r) PROVE Completions'
    <2> PICK d \in Flows :
          /\ flow[d].listed
          /\ request' = [request EXCEPT ![r] = [at |-> "loaded", flow |-> d]]
          /\ shared' = IF BeingCompleted(d) THEN shared \cup {d} ELSE shared
      BY <1>7 DEF Load
    <2>1. UNCHANGED <<flow, added>> /\ At(r, "idle")
      BY <1>7 DEF Load, Admitted
    <2>2. /\ \A q \in Requests \ {r} : request'[q] = request[q]
          /\ request'[r] = [at |-> "loaded", flow |-> d]
      OBVIOUS
    <2>3. flow[d].at # "none"
      BY DEF Completions, NoFlowNothing, NoFlow
    <2>4. d \notin shared' => \A q \in Requests : ~ InCompletion(q, d)
      BY DEF BeingCompleted, InCompletion
    <2>5. d \notin shared' => added[d] = 0
      BY <2>4 DEF Completions, CompletionIsAlone
    <2>6. \A q \in Requests, e \in Flows : InCompletion(q, e)' <=>
              InCompletion(q, e) \/ (q = r /\ e = d)
      BY <2>1, <2>2 DEF InCompletion, At
    <2>7. CompletionIsAlone'
      BY <2>1, <2>2, <2>4, <2>5, <2>6 DEF Completions, CompletionIsAlone, At, InCompletion
    <2>8. CompletesASession' /\ NoFlowNothing'
      BY <2>1, <2>2, <2>3, <2>6 DEF Completions, CompletesASession, NoFlowNothing, At, InCompletion
    <2> QED BY <2>7, <2>8 DEF Completions
  <1>8. ASSUME NEW r \in Requests, Check(r) PROVE Completions'
    <2> DEFINE d == request[r].flow
    <2>1. /\ UNCHANGED <<flow, added, shared>>
          /\ At(r, "loaded") /\ d \in Flows
          /\ \A q \in Requests \ {r} : request'[q] = request[q]
      BY <1>8, RequestType DEF Check, At, Goes, Ends, Completing
    <2>2. CASE flow[d].token /\ Goes(r, "passed")
      <3>1. request'[r].at = "passed" /\ request'[r].flow = d
        BY <2>1, <2>2, RequestType DEF Goes, At, Completing
      <3>2. \A q \in Requests, e \in Flows : InCompletion(q, e)' <=> InCompletion(q, e)
        BY <2>1, <3>1 DEF InCompletion, At
      <3> QED
        BY <2>1, <2>2, <3>1, <3>2 DEF Completions, CompletionIsAlone, CompletesASession,
                                   NoFlowNothing, At, InCompletion
    <2>3. CASE Ends(r)
      <3>1. request'[r].at = "idle"
        BY <2>3 DEF Ends, Idle
      <3>2. \A q \in Requests, e \in Flows :
                InCompletion(q, e)' <=> InCompletion(q, e) /\ q # r
        BY <2>1, <3>1 DEF InCompletion
      <3>3. d \notin shared => added[d] = 0
        BY <2>1 DEF Completions, CompletionIsAlone, InCompletion, At
      <3> QED
        BY <2>1, <3>1, <3>2, <3>3 DEF Completions, CompletionIsAlone, CompletesASession,
                                   NoFlowNothing, At, InCompletion
    <2> QED BY <1>8, <2>2, <2>3 DEF Check
  <1>9. ASSUME NEW r \in Requests, AddAccount(r) PROVE Completions'
    <2> DEFINE d == request[r].flow
    <2>1. /\ UNCHANGED <<flow, shared>>
          /\ At(r, "passed") /\ d \in Flows
          /\ \A q \in Requests \ {r} : request'[q] = request[q]
          /\ request'[r].at = "added" /\ request'[r].flow = d
      BY <1>9, RequestType DEF AddAccount, At, Goes, Completing
    <2>2. /\ \A e \in Flows \ {d} : added'[e] = added[e]
          /\ added'[d] = added[d] + 1
      BY <1>9, <2>1 DEF AddAccount, TypeOK
    <2>3. \A q \in Requests, e \in Flows : InCompletion(q, e)' <=> InCompletion(q, e)
      BY <2>1 DEF InCompletion, At
    <2>4. d \notin shared => added[d] = 0 /\ \A q \in Requests : InCompletion(q, d) => q = r
      BY <2>1 DEF Completions, CompletionIsAlone, InCompletion, At
    <2>5. CompletionIsAlone'
      BY <2>1, <2>2, <2>3, <2>4 DEF Completions, CompletionIsAlone, At, InCompletion
    <2>6. CompletesASession' /\ NoFlowNothing'
      BY <2>1, <2>3 DEF Completions, CompletesASession, NoFlowNothing, At, InCompletion
    <2> QED BY <2>5, <2>6 DEF Completions
  <1>10. ASSUME NEW r \in Requests, CleanupSession(r) PROVE Completions'
    <2> DEFINE d == request[r].flow
    <2>1. /\ UNCHANGED added
          /\ At(r, "added") /\ d \in Flows
          /\ \A q \in Requests \ {r} : request'[q] = request[q]
          /\ request'[r].at = "idle"
      BY <1>10, RequestType DEF CleanupSession, At, Ends, Idle, Completing
    <2>2. /\ \A e \in Flows \ {d} : flow'[e] = flow[e]
          /\ flow'[d].at = flow[d].at /\ flow'[d].token = flow[d].token
          /\ ~ flow'[d].listed
      BY <1>10, <2>1 DEF CleanupSession, Flow
    <2>3. shared \subseteq shared' /\ (d \notin shared' => flow[d].at = "ended")
      BY <1>10 DEF CleanupSession
    <2>4. \A q \in Requests, e \in Flows :
              InCompletion(q, e)' <=> InCompletion(q, e) /\ q # r
      BY <2>1 DEF InCompletion
    <2>5. InCompletion(r, d) /\ flow[d].at # "none"
      BY <2>1 DEF InCompletion, At, Completions, CompletesASession
    <2>6. d \notin shared => added[d] = 1 /\ \A q \in Requests : InCompletion(q, d) => q = r
      BY <2>1, <2>5 DEF Completions, CompletionIsAlone
    <2>7. CompletionIsAlone'
      BY <2>1, <2>2, <2>3, <2>4, <2>6 DEF Completions, CompletionIsAlone, At, InCompletion
    <2>8. CompletesASession' /\ NoFlowNothing'
      BY <2>1, <2>2, <2>4, <2>5 DEF Completions, CompletesASession, NoFlowNothing, At, InCompletion
    <2> QED BY <2>7, <2>8 DEF Completions
  <1> QED
    BY <1>1, <1>2, <1>3, <1>4, <1>5, <1>6, <1>7, <1>8, <1>9, <1>10 DEF Next

LEMMA CompletionsImply == TypeOK /\ Completions => AccountHasToken /\ AddedOnce
  <1> SUFFICES ASSUME TypeOK, Completions PROVE AccountHasToken /\ AddedOnce
    OBVIOUS
  <1>1. AccountHasToken
    BY RequestType DEF AccountHasToken, Completions, CompletesASession, InCompletion, At, Completing
  <1>2. AddedOnce
    BY DEF AddedOnce, Completions, CompletionIsAlone
  <1> QED BY <1>1, <1>2

\* An account is only made with a token, although the handler reads the session's
\* fields while the goroutine writes them.
THEOREM AccountsHaveToken == Spec => []AccountHasToken
  BY TypeInit, CompletionsInit, TypeStep, CompletionsStep, CompletionsImply, PTL DEF Spec

\* One device flow makes one account at most, unless it is shared.
THEOREM OneAccountPerFlow == Spec => []AddedOnce
  BY TypeInit, CompletionsInit, TypeStep, CompletionsStep, CompletionsImply, PTL DEF Spec
=============================================================================
