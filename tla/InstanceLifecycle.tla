------------------------- MODULE InstanceLifecycle -------------------------
(***************************************************************************)
(* The life of a Copilot proxy instance (instance/manager.go): console     *)
(* handlers start, stop, delete and reconfigure accounts, one goroutine    *)
(* per request, while each started instance has a goroutine that refreshes *)
(* its Copilot token until its stop channel is closed.                     *)
(*                                                                         *)
(* A step is the code between two points where another goroutine may run:  *)
(* a critical section of mu or accountClientMu, a read or write of the     *)
(* account store, an HTTP exchange, a select.                              *)
(***************************************************************************)
EXTENDS Naturals, FiniteSets

CONSTANTS
    Account,     \* account IDs
    Proxy,       \* account proxy URLs
    Inst,        \* the ProxyInstance objects a behaviour may allocate (a bound)
    Caller,      \* console requests in flight, and the auto-start goroutines
    MaxRetries,  \* refreshCopilotTokenWithRetry's maxRetries
    Direct,      \* no account proxy configured: ProxyURL == ""
    Deleted,     \* the account's row is gone from accounts.json
    None         \* no dedicated client, no object, no owner

ASSUME MaxRetriesAssumption == MaxRetries \in Nat
ASSUME DistinctAssumption ==
    /\ Proxy \cap {Direct, Deleted, None} = {}
    /\ Direct # Deleted
    /\ None \notin Inst \cup Account

VARIABLES
    row,        \* row[a]: ProxyURL of account a in the store, or Deleted
    client,     \* client[a]: the proxy that a's dedicated HTTP clients use
    instances,  \* instances[a]: the object the map holds for account a
    owner,      \* owner[i]: Account.ID of object i (None: not allocated)
    status,     \* status[i]: Status ("new" until it is in the map)
    chan,       \* chan[i]: stopChan
    token,      \* token[i]: State.CopilotToken, as of its TokenExpiresAt
    loop,       \* loop[i]: where i's tokenRefreshLoop is
    attempt,    \* attempt[i]: attempt of refreshCopilotTokenWithRetry
    pc,         \* pc[c]: where caller c is
    arg,        \* arg[c]: c's arguments and what it has read
    overlapped, \* the accounts that two requests were ever about at once, and
    rivals,     \* those that two requests were ever starting at once (history)
    panicked    \* a close of a nil or closed channel

store   == <<row, client>>
objects == <<instances, owner, status, chan, token>>
loops   == <<loop, attempt>>
history == <<overlapped, rivals>>
callers == <<pc, arg, history>>
vars    == <<store, objects, loops, callers, panicked>>

CallerPC == {"idle", "check", "build", "token", "failed", "publish", "spawn",
             "unclient", "erase", "update", "reclient"}
LoopPC   == {"none", "top", "asleep", "check", "refresh", "failed", "models",
             "exited"}
Arg      == [account : Account \cup {None}, read : Proxy \cup {Direct},
             new : Proxy \cup {Direct}, inst : Inst \cup {None},
             delete : BOOLEAN]

\* What a caller has after reading proxy p of account a; q is its update.
ArgOf(a, p, q) == [account |-> a, read |-> p, new |-> q, inst |-> None,
                   delete |-> FALSE]
NoArg == ArgOf(None, Direct, Direct)

Init ==
    /\ row \in [Account -> Proxy \cup {Direct}]
    /\ client = [a \in Account |-> None]
    /\ instances = [a \in Account |-> None]
    /\ owner = [i \in Inst |-> None]
    /\ status = [i \in Inst |-> "new"]
    /\ chan = [i \in Inst |-> "nil"]
    /\ token = [i \in Inst |-> "none"]
    /\ loop = [i \in Inst |-> "none"]
    /\ attempt = [i \in Inst |-> 0]
    /\ pc = [c \in Caller |-> "idle"]
    /\ arg = [c \in Caller |-> NoArg]
    /\ overlapped = {} /\ rivals = {}
    /\ panicked = FALSE

Running(i) == i # None /\ status[i] = "running"
InFlight(a) == \E c \in Caller : arg[c].account = a
StartingPC == {"check", "build", "token", "failed", "publish"}
Starting(a) == \E c \in Caller : arg[c].account = a /\ pc[c] \in StartingPC

Stand(c, label, x) ==
    /\ pc' = [pc EXCEPT ![c] = label]
    /\ arg' = [arg EXCEPT ![c] = x]
\* The handler is called with x, while others may be at work on its account.
Receive(c, label, x) ==
    /\ Stand(c, label, x)
    /\ overlapped' = overlapped \cup {a \in {x.account} : InFlight(a)}
    /\ rivals' = rivals \cup {a \in {x.account} : label = "check" /\ Starting(a)}
\* It goes on with x in hand, and drops what it read when it returns.
Enter(c, label, x) == Stand(c, label, x) /\ UNCHANGED history
Goto(c, label) == Enter(c, label, IF label = "idle" THEN NoArg ELSE arg[c])
Advance(i, label) == loop' = [loop EXCEPT ![i] = label]

-----------------------------------------------------------------------------
(***************************************************************************)
(* StartInstance, called by handleStartAccount or by main's auto-start     *)
(* with a copy of the account read from the store.                         *)
(***************************************************************************)

StartRead(c, a) ==
    /\ pc[c] = "idle" /\ row[a] # Deleted
    /\ Receive(c, "check", ArgOf(a, row[a], row[a]))
    /\ UNCHANGED <<store, objects, loops, panicked>>

NotRunningUnchecked(a) == TRUE
NotRunning(a) == ~Running(instances[a])

\* Already running: nothing to do.
StartAlready(c) ==
    /\ pc[c] = "check" /\ ~NotRunning(arg[c].account)
    /\ Goto(c, "idle")
    /\ UNCHANGED <<store, objects, loops, panicked>>

\* The check under mu, which is released before anything is done about it.
StartCheck(c) ==
    /\ pc[c] = "check" /\ NotRunning(arg[c].account)
    /\ \E i \in {j \in Inst : owner[j] = None} :
          /\ owner' = [owner EXCEPT ![i] = arg[c].account]
          /\ Enter(c, "build", [arg[c] EXCEPT !.inst = i])
    /\ UNCHANGED <<store, instances, status, chan, token, loops, panicked>>

BuiltLazily(a, p) == client[a]
Built(a, p) == IF p = Direct THEN client[a] ELSE p

\* BuildAccountClients, called only when the copy of the account has a proxy.
StartBuild(c) ==
    /\ pc[c] = "build"
    /\ client' = [client EXCEPT ![arg[c].account] = Built(arg[c].account, arg[c].read)]
    /\ Goto(c, "token")
    /\ UNCHANGED <<row, objects, loops, panicked>>

\* The first token: refreshCopilotToken, not retried.
StartToken(c) ==
    /\ pc[c] = "token"
    /\ \/ /\ token' = [token EXCEPT ![arg[c].inst] = "valid"]
          /\ Goto(c, "publish")
       \/ /\ Goto(c, "failed")
          /\ UNCHANGED token
    /\ UNCHANGED <<store, instances, owner, status, chan, loops, panicked>>

\* No token: an object with no channel and no goroutine replaces the old one.
StartFailed(c) ==
    /\ pc[c] = "failed"
    /\ instances' = [instances EXCEPT ![arg[c].account] = arg[c].inst]
    /\ status' = [status EXCEPT ![arg[c].inst] = "error"]
    /\ Goto(c, "idle")
    /\ UNCHANGED <<store, owner, chan, token, loops, panicked>>

\* After fetchModels, whose failure is only logged.
StartPublish(c) ==
    /\ pc[c] = "publish"
    /\ chan' = [chan EXCEPT ![arg[c].inst] = "open"]
    /\ status' = [status EXCEPT ![arg[c].inst] = "running"]
    /\ instances' = [instances EXCEPT ![arg[c].account] = arg[c].inst]
    /\ Goto(c, "spawn")
    /\ UNCHANGED <<store, owner, token, loops, panicked>>

StartSpawn(c) ==
    /\ pc[c] = "spawn"
    /\ Advance(arg[c].inst, "top")
    /\ Goto(c, "idle")
    /\ UNCHANGED <<store, objects, attempt, panicked>>

-----------------------------------------------------------------------------
(***************************************************************************)
(* StopInstance, called by handleStopAccount and, first, by                *)
(* handleDeleteAccount, which then deletes the account's row.              *)
(***************************************************************************)

AfterStop(delete) == IF delete THEN "erase" ELSE "idle"

StopArg(a, delete) == [NoArg EXCEPT !.account = a, !.delete = delete]

\* No object in the map: StopInstance returns at once, and only a delete goes on.
DeleteUnstarted(c, a) ==
    /\ pc[c] = "idle" /\ instances[a] = None
    /\ Receive(c, "erase", StopArg(a, TRUE))
    /\ UNCHANGED <<store, objects, loops, panicked>>

StoppedStatusForgotten(i) == status[i]
StoppedStatus(i) == "stopped"

\* Under mu: close the channel if the object says running.
StopSignal(c, a, delete) ==
    /\ pc[c] = "idle" /\ instances[a] # None
    /\ LET i == instances[a] IN
          /\ status' = [status EXCEPT ![i] = StoppedStatus(i)]
          /\ chan' = [chan EXCEPT ![i] = IF Running(i) THEN "closed" ELSE @]
          /\ panicked' = (panicked \/ (Running(i) /\ chan[i] # "open"))
    /\ Receive(c, "unclient", StopArg(a, delete))
    /\ UNCHANGED <<store, instances, owner, token, loops>>

\* RemoveAccountClients, after mu is released.
StopClients(c) ==
    /\ pc[c] = "unclient"
    /\ client' = [client EXCEPT ![arg[c].account] = None]
    /\ Goto(c, AfterStop(arg[c].delete))
    /\ UNCHANGED <<row, objects, loops, panicked>>

DeleteRow(c) ==
    /\ pc[c] = "erase"
    /\ row' = [row EXCEPT ![arg[c].account] = Deleted]
    /\ Goto(c, "idle")
    /\ UNCHANGED <<client, objects, loops, panicked>>

-----------------------------------------------------------------------------
(***************************************************************************)
(* handleUpdateAccount with a new proxyURL q: the old row is read, the new *)
(* one is written in a critical section of its own, and the clients are    *)
(* rebuilt when the two differ.                                            *)
(***************************************************************************)

UpdateRead(c, a, q) ==
    /\ pc[c] = "idle" /\ row[a] # Deleted
    /\ Receive(c, "update", ArgOf(a, row[a], q))
    /\ UNCHANGED <<store, objects, loops, panicked>>

\* store.UpdateAccount returns nil when the row is gone: 404.
UpdateRow(c) ==
    LET a == arg[c].account IN
    /\ pc[c] = "update"
    /\ row' = [row EXCEPT ![a] = IF @ = Deleted THEN @ ELSE arg[c].new]
    /\ Goto(c, IF row[a] = Deleted \/ arg[c].new = arg[c].read
               THEN "idle" ELSE "reclient")
    /\ UNCHANGED <<client, objects, loops, panicked>>

\* RebuildAccountClients, which removes them when there is no proxy.
UpdateClients(c) ==
    /\ pc[c] = "reclient"
    /\ client' = [client EXCEPT ![arg[c].account] =
                     IF arg[c].new = Direct THEN None ELSE arg[c].new]
    /\ Goto(c, "idle")
    /\ UNCHANGED <<row, objects, loops, panicked>>

-----------------------------------------------------------------------------
(***************************************************************************)
(* tokenRefreshLoop.                                                       *)
(***************************************************************************)

LoopUnchanged == UNCHANGED <<store, instances, owner, chan, callers, panicked>>

\* The sleep is computed from the token's expiry; an expired one skips it.
LoopTop(i) ==
    /\ loop[i] = "top"
    /\ Advance(i, IF token[i] = "expired" THEN "check" ELSE "asleep")
    /\ UNCHANGED <<status, token, attempt>> /\ LoopUnchanged

SignalledWhileRunning(i) == chan[i] = "closed" /\ status[i] = "running"
Signalled(i) == chan[i] = "closed"

\* select: the channel may win, and so may the timer, even over a closed one.
LoopWoken(i) ==
    /\ loop[i] = "asleep" /\ Signalled(i)
    /\ Advance(i, "exited")
    /\ UNCHANGED <<status, token, attempt>> /\ LoopUnchanged

LoopTimer(i) ==
    /\ loop[i] = "asleep"
    /\ Advance(i, "check")
    /\ UNCHANGED <<status, token, attempt>> /\ LoopUnchanged

LoopCheck(i) ==
    /\ loop[i] = "check"
    /\ Advance(i, IF Signalled(i) THEN "exited" ELSE "refresh")
    /\ UNCHANGED <<status, token, attempt>> /\ LoopUnchanged

LoopRefreshed(i) ==
    /\ loop[i] = "refresh"
    /\ token' = [token EXCEPT ![i] = "valid"]
    /\ attempt' = [attempt EXCEPT ![i] = 0]
    /\ Advance(i, "models")
    /\ UNCHANGED status /\ LoopUnchanged

LastAttemptOffByOne(i) == attempt[i] > MaxRetries
LastAttempt(i) == attempt[i] = MaxRetries

\* One attempt fails; the stop channel is not consulted before the next one.
LoopRetry(i) ==
    /\ loop[i] = "refresh" /\ ~LastAttempt(i)
    /\ attempt' = [attempt EXCEPT ![i] = @ + 1]
    /\ UNCHANGED <<status, token, loop>> /\ LoopUnchanged

LoopGiveUp(i) ==
    /\ loop[i] = "refresh" /\ LastAttempt(i)
    /\ attempt' = [attempt EXCEPT ![i] = 0]
    /\ Advance(i, "failed")
    /\ UNCHANGED <<status, token>> /\ LoopUnchanged

FailedStatusForgotten(i) == status[i]
FailedStatus(i) == "error"

\* Under mu, whatever the status has become meanwhile; the loop continues.
LoopFailed(i) ==
    /\ loop[i] = "failed"
    /\ status' = [status EXCEPT ![i] = FailedStatus(i)]
    /\ Advance(i, "top")
    /\ UNCHANGED <<token, attempt>> /\ LoopUnchanged

RefreshedStatusRestored(i) == "running"
RefreshedStatus(i) == status[i]

\* fetchModels, whose failure is only logged; the status is left alone.
LoopModels(i) ==
    /\ loop[i] = "models"
    /\ status' = [status EXCEPT ![i] = RefreshedStatus(i)]
    /\ Advance(i, "top")
    /\ UNCHANGED <<token, attempt>> /\ LoopUnchanged

\* Time passes TokenExpiresAt; nobody refreshes the token of an exited loop.
Expire(i) ==
    /\ token[i] = "valid" /\ loop[i] # "exited"
    /\ token' = [token EXCEPT ![i] = "expired"]
    /\ UNCHANGED <<store, instances, owner, status, chan, loops, callers, panicked>>

-----------------------------------------------------------------------------
\* A handler that has begun goes on to its end.
CallerStep(c) ==
    \/ StartAlready(c) \/ StartCheck(c) \/ StartBuild(c) \/ StartToken(c)
    \/ StartFailed(c) \/ StartPublish(c) \/ StartSpawn(c)
    \/ StopClients(c) \/ DeleteRow(c)
    \/ UpdateRow(c) \/ UpdateClients(c)

Request(c) ==
    \E a \in Account :
        \/ StartRead(c, a)
        \/ DeleteUnstarted(c, a)
        \/ \E delete \in BOOLEAN : StopSignal(c, a, delete)
        \/ \E q \in Proxy \cup {Direct} : UpdateRead(c, a, q)

LoopStep(i) ==
    \/ LoopTop(i) \/ LoopWoken(i) \/ LoopTimer(i) \/ LoopCheck(i)
    \/ LoopRefreshed(i) \/ LoopRetry(i) \/ LoopGiveUp(i) \/ LoopFailed(i)
    \/ LoopModels(i)

Next ==
    \/ \E c \in Caller : Request(c) \/ CallerStep(c)
    \/ \E i \in Inst : LoopStep(i) \/ Expire(i)

Spec == Init /\ [][Next]_vars

\* The Go scheduler runs every goroutine that can run, a timer fires, and an
\* HTTP exchange ends within the client's 15 second timeout.
FairSpec ==
    /\ Spec
    /\ \A c \in Caller : WF_vars(CallerStep(c))
    /\ \A i \in Inst : WF_vars(LoopStep(i))

-----------------------------------------------------------------------------
(***************************************************************************)
(* Properties.                                                             *)
(***************************************************************************)

\* Every variable has its type; the retry counter never passes MaxRetries.
TypeOK ==
    /\ row \in [Account -> Proxy \cup {Direct, Deleted}]
    /\ client \in [Account -> Proxy \cup {None}]
    /\ instances \in [Account -> Inst \cup {None}]
    /\ owner \in [Inst -> Account \cup {None}]
    /\ status \in [Inst -> {"new", "running", "stopped", "error"}]
    /\ chan \in [Inst -> {"nil", "open", "closed"}]
    /\ token \in [Inst -> {"none", "valid", "expired"}]
    /\ loop \in [Inst -> LoopPC]
    /\ attempt \in [Inst -> 0 .. MaxRetries]
    /\ pc \in [Caller -> CallerPC]
    /\ arg \in [Caller -> Arg]
    /\ overlapped \in SUBSET Account /\ rivals \in SUBSET Account
    /\ panicked \in BOOLEAN

\* StopInstance never closes a nil or an already closed channel, however
\* starts, stops, deletes and failing refreshes interleave: a panic there
\* would leave mu locked for good.
NoClosePanic == ~panicked

\* An object that says "running" really is tended: its channel is still open,
\* it got a token, and its refresh goroutine lives or is about to be spawned
\* by the start that made it.
Tended(i) ==
    /\ chan[i] = "open" /\ token[i] # "none"
    /\ \/ loop[i] \notin {"none", "exited"}
       \/ loop[i] = "none" /\ \E c \in Caller : pc[c] = "spawn" /\ arg[c].inst = i
RunningIsTended == \A i \in Inst : Running(i) => Tended(i)

\* At most one instance of an account is running, whatever stops, deletes and
\* updates come while it is started, unless two starts of it were in flight at
\* once: a second instance would be out of the map, and no StopInstance could
\* reach its refresh goroutine.
OneRunningPerAccount ==
    \A i, j \in Inst :
        (Running(i) /\ Running(j) /\ owner[i] = owner[j] /\ owner[i] \notin rivals)
            => i = j

\* The two that follow are promised to an account whose console requests never
\* overlapped; those about other accounts may, and the loops always do.

\* With no request about it in flight, a running instance's account has
\* dedicated clients exactly when its row configures a proxy, and through that
\* proxy, as ProxyRequestWithBytesCtx needs: "account > pool > global".
RunningUsesAccountProxy ==
    \A a \in Account \ overlapped :
        (~InFlight(a) /\ Running(instances[a])) =>
            client[a] = IF row[a] \in Proxy THEN row[a] ELSE None

\* Deleting an account leaves no instance of it running.
DeletedIsNotRunning ==
    \A i \in Inst :
        (Running(i) /\ owner[i] \in Account \ overlapped /\ ~InFlight(owner[i]))
            => row[owner[i]] # Deleted

\* A closed stop channel ends the refresh goroutine.
ClosedEndsLoop == \A i \in Inst : chan[i] = "closed" ~> loop[i] = "exited"

\* The token of a running instance does not stay expired: it is refreshed, or
\* the instance stops claiming to be running.
ExpiredIsRefreshed ==
    \A i \in Inst : (Running(i) /\ token[i] = "expired")
                       ~> (token[i] = "valid" \/ ~Running(i))

\* Stopping an instance ends its refresh goroutine.
StopEndsLoop ==
    \A i \in Inst : status[i] = "stopped" ~> loop[i] \in {"none", "exited"}
=============================================================================
