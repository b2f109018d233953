---------------------- MODULE InstanceLifecycle_proofs ----------------------
(***************************************************************************)
(* Type correctness of InstanceLifecycle, and, for any number of accounts, *)
(* callers and objects: a running instance is tended, and StopInstance     *)
(* never closes a nil or an already closed stop channel.  An account whose *)
(* requests never overlapped, whatever the others' did, uses its own proxy *)
(* while it runs and has no running instance once deleted; one that two    *)
(* starts never met at has one running instance at most.                   *)
(***************************************************************************)
EXTENDS InstanceLifecycle, TLAPS

-----------------------------------------------------------------------------
(***************************************************************************)
(* Type correctness, one lemma per group of actions.                       *)
(***************************************************************************)

\* StartInstance's steps keep every variable's type.
LEMMA StartTypes ==
    ASSUME TypeOK, NEW c \in Caller,
           \/ \E a \in Account : StartRead(c, a)
           \/ StartAlready(c) \/ StartCheck(c) \/ StartBuild(c)
           \/ StartToken(c) \/ StartFailed(c) \/ StartPublish(c) \/ StartSpawn(c)
    PROVE  TypeOK'
  <1> USE DistinctAssumption DEF TypeOK, Arg, ArgOf, NoArg, Stand, Receive, Enter, Goto,
                                 CallerPC, LoopPC, store, objects, loops, callers, history
  <1>1. ASSUME NEW a \in Account, StartRead(c, a) PROVE TypeOK'
    BY <1>1 DEF StartRead
  <1>2. CASE StartAlready(c)
    BY <1>2 DEF StartAlready
  <1>3. CASE StartCheck(c)
    <2>1. PICK i \in Inst : /\ owner' = [owner EXCEPT ![i] = arg[c].account]
                            /\ Enter(c, "build", [arg[c] EXCEPT !.inst = i])
      BY <1>3 DEF StartCheck
    <2>2. arg[c] \in Arg /\ arg[c].account \in Account \cup {None}
      OBVIOUS
    <2>3. [arg[c] EXCEPT !.inst = i] \in Arg
      BY <2>2
    <2>4. arg' \in [Caller -> Arg] /\ pc' \in [Caller -> CallerPC]
      BY <2>1, <2>3
    <2>5. owner' \in [Inst -> Account \cup {None}]
      BY <2>1, <2>2
    <2> QED BY <1>3, <2>4, <2>5 DEF StartCheck
  <1>4. CASE StartBuild(c)
    BY <1>4 DEF StartBuild, Built
  <1>5. CASE StartToken(c)
    <2>1. CASE token' = [token EXCEPT ![arg[c].inst] = "valid"] /\ Goto(c, "publish")
      BY <1>5, <2>1 DEF StartToken
    <2>2. CASE UNCHANGED token /\ Goto(c, "failed")
      BY <1>5, <2>2 DEF StartToken
    <2> QED BY <1>5, <2>1, <2>2 DEF StartToken
  <1>6. CASE StartFailed(c)
    BY <1>6 DEF StartFailed
  <1>7. CASE StartPublish(c)
    BY <1>7 DEF StartPublish
  <1>8. CASE StartSpawn(c)
    BY <1>8 DEF StartSpawn, Advance
  <1> QED BY <1>1, <1>2, <1>3, <1>4, <1>5, <1>6, <1>7, <1>8

\* So do the steps of StopInstance and of the delete and update handlers.
LEMMA ConsoleTypes ==
    ASSUME TypeOK, NEW c \in Caller,
           \/ \E a \in Account : DeleteUnstarted(c, a)
           \/ \E a \in Account, delete \in BOOLEAN : StopSignal(c, a, delete)
           \/ StopClients(c) \/ DeleteRow(c)
           \/ \E a \in Account, q \in Proxy \cup {Direct} : UpdateRead(c, a, q)
           \/ UpdateRow(c) \/ UpdateClients(c)
    PROVE  TypeOK'
  <1> USE DistinctAssumption DEF TypeOK, Arg, ArgOf, NoArg, StopArg, Stand, Receive, Enter,
                                 Goto, CallerPC, LoopPC, store, objects, loops, callers,
                                 history, AfterStop
  <1>1. ASSUME NEW a \in Account, DeleteUnstarted(c, a) PROVE TypeOK'
    BY <1>1 DEF DeleteUnstarted
  <1>2. ASSUME NEW a \in Account, NEW delete \in BOOLEAN, StopSignal(c, a, delete)
        PROVE  TypeOK'
    BY <1>2 DEF StopSignal, StoppedStatus
  <1>3. CASE StopClients(c)
    BY <1>3 DEF StopClients
  <1>4. CASE DeleteRow(c)
    BY <1>4 DEF DeleteRow
  <1>5. ASSUME NEW a \in Account, NEW q \in Proxy \cup {Direct}, UpdateRead(c, a, q)
        PROVE  TypeOK'
    BY <1>5 DEF UpdateRead
  <1>6. CASE UpdateRow(c)
    BY <1>6 DEF UpdateRow
  <1>7. CASE UpdateClients(c)
    BY <1>7 DEF UpdateClients
  <1> QED BY <1>1, <1>2, <1>3, <1>4, <1>5, <1>6, <1>7

\* So do the refresh loop's steps and the passing of time.
LEMMA LoopTypes ==
    ASSUME TypeOK, NEW i \in Inst, LoopStep(i) \/ Expire(i)
    PROVE  TypeOK'
  <1> USE MaxRetriesAssumption DEF TypeOK, LoopPC, Advance, LoopUnchanged, store, objects,
                                   loops, callers, history
  <1>1. CASE LoopTop(i) \/ LoopWoken(i) \/ LoopTimer(i) \/ LoopCheck(i)
    BY <1>1 DEF LoopTop, LoopWoken, LoopTimer, LoopCheck
  <1>2. CASE LoopRefreshed(i) \/ LoopRetry(i) \/ LoopGiveUp(i)
    BY <1>2 DEF LoopRefreshed, LoopRetry, LoopGiveUp, LastAttempt
  <1>3. CASE LoopFailed(i) \/ LoopModels(i)
    BY <1>3 DEF LoopFailed, LoopModels, FailedStatus, RefreshedStatus
  <1>4. CASE Expire(i)
    BY <1>4 DEF Expire
  <1> QED BY <1>1, <1>2, <1>3, <1>4 DEF LoopStep

LEMMA TypeInit == Init => TypeOK
  <1> SUFFICES ASSUME Init PROVE TypeOK
    OBVIOUS
  <1>1. NoArg \in Arg
    BY DEF NoArg, ArgOf, Arg
  <1>2. arg \in [Caller -> Arg] /\ pc \in [Caller -> CallerPC]
    BY <1>1 DEF Init, CallerPC
  <1>3. loop \in [Inst -> LoopPC] /\ attempt \in [Inst -> 0 .. MaxRetries]
    BY MaxRetriesAssumption DEF Init, LoopPC
  <1>4. row \in [Account -> Proxy \cup {Direct, Deleted}]
    BY DEF Init
  <1> QED BY <1>2, <1>3, <1>4 DEF Init, TypeOK

LEMMA TypeStep == TypeOK /\ [Next]_vars => TypeOK'
  <1> SUFFICES ASSUME TypeOK, [Next]_vars PROVE TypeOK'
    OBVIOUS
  <1>1. ASSUME NEW c \in Caller, Request(c) PROVE TypeOK'
    BY <1>1, StartTypes, ConsoleTypes DEF Request
  <1>2. ASSUME NEW c \in Caller, CallerStep(c) PROVE TypeOK'
    BY <1>2, StartTypes, ConsoleTypes DEF CallerStep
  <1>3. ASSUME NEW i \in Inst, LoopStep(i) \/ Expire(i) PROVE TypeOK'
    BY <1>3, LoopTypes
  <1>4. CASE UNCHANGED vars
    BY <1>4 DEF TypeOK, vars, store, objects, loops, callers, history
  <1> QED BY <1>1, <1>2, <1>3, <1>4 DEF Next

\* Every reachable state is well typed, and no refresh retries more than
\* MaxRetries times.
THEOREM TypeCorrect == Spec => []TypeOK
  <1> QED BY TypeInit, TypeStep, PTL DEF Spec

-----------------------------------------------------------------------------
(***************************************************************************)
(* A running instance is tended.  Neither that nor the absence of a panic  *)
(* is inductive: what makes them so is that a start works on an object of  *)
(* its own, which nobody else reaches until it is published.               *)
(***************************************************************************)

\* The start of caller c has an object, not yet handed to a refresh loop.
HoldingPC == {"build", "token", "failed", "publish", "spawn"}
Holding(c) == pc[c] \in HoldingPC

\* Nothing has happened to object i but its allocation.
Fresh(i) == status[i] = "new" /\ chan[i] = "nil" /\ loop[i] = "none"

\* The object a start holds is allocated; until it is published it is fresh.
HeldObject ==
    \A c \in Caller : Holding(c) =>
        LET i == arg[c].inst IN
        /\ i \in Inst /\ arg[c].account \in Account /\ owner[i] \in Account
        /\ loop[i] = "none"
        /\ IF pc[c] = "spawn" THEN status[i] # "new" ELSE Fresh(i)
        /\ pc[c] = "publish" => token[i] # "none"

\* What the account argument of a start is, from its first step on.
AskedAccount == \A c \in Caller : pc[c] = "check" => arg[c].account \in Account

\* Two starts never hold the same object.
HeldApart ==
    \A c, d \in Caller :
        (Holding(c) /\ Holding(d) /\ arg[c].inst = arg[d].inst) => c = d

\* An object nobody allocated is fresh; one in the map no longer is.
UnallocatedFresh == \A i \in Inst : owner[i] = None => Fresh(i)
PublishedNotNew  == \A a \in Account : instances[a] # None => status[instances[a]] # "new"

\* A refresh goroutine belongs to a published object.
LoopPublished == \A i \in Inst : loop[i] # "none" => status[i] # "new"

Ownership ==
    /\ HeldObject /\ AskedAccount /\ HeldApart
    /\ UnallocatedFresh /\ PublishedNotNew /\ LoopPublished
Inductive == TypeOK /\ Ownership /\ RunningIsTended /\ NoClosePanic

\* The steps of a caller that holds no object and takes none, and that leave
\* the objects and the loops alone.
LEMMA HandlerKeeps ==
    ASSUME Inductive, NEW c \in Caller, pc[c] \notin HoldingPC,
           NEW label \in CallerPC, label \notin HoldingPC,
           NEW x, (label = "check") => x.account \in Account,
           Stand(c, label, x), UNCHANGED <<objects, loop, panicked>>
    PROVE  Ownership' /\ RunningIsTended' /\ NoClosePanic'
  <1> USE DEF Inductive, TypeOK, Stand, Holding, HoldingPC, objects
  <1>1. ~Holding(c)'
    OBVIOUS
  <1>2. \A d \in Caller : d # c => pc'[d] = pc[d] /\ arg'[d] = arg[d]
    OBVIOUS
  <1>3. HeldObject' /\ AskedAccount'
    BY <1>1, <1>2 DEF Ownership, HeldObject, AskedAccount, Fresh
  <1>4. HeldApart'
    BY <1>1, <1>2 DEF Ownership, HeldApart
  <1>5. UnallocatedFresh' /\ PublishedNotNew' /\ LoopPublished'
    BY DEF Ownership, UnallocatedFresh, PublishedNotNew, LoopPublished, Fresh
  <1>6. RunningIsTended'
    BY <1>1, <1>2 DEF RunningIsTended, Tended, Running
  <1>7. NoClosePanic'
    BY DEF NoClosePanic
  <1> QED BY <1>3, <1>4, <1>5, <1>6, <1>7 DEF Ownership

\* The handlers' steps of that kind.
LEMMA QuietKeeps ==
    ASSUME Inductive, NEW c \in Caller,
           \/ \E a \in Account : StartRead(c, a) \/ DeleteUnstarted(c, a)
           \/ \E a \in Account, q \in Proxy \cup {Direct} : UpdateRead(c, a, q)
           \/ StartAlready(c) \/ StopClients(c) \/ DeleteRow(c)
           \/ UpdateRow(c) \/ UpdateClients(c)
    PROVE  Ownership' /\ RunningIsTended' /\ NoClosePanic'
  <1> USE DEF HoldingPC, CallerPC, store, loops, objects, Receive, Enter
  <1>1. ASSUME NEW a \in Account, StartRead(c, a)
        PROVE  Ownership' /\ RunningIsTended' /\ NoClosePanic'
    <2>1. ArgOf(a, row[a], row[a]).account \in Account
      BY DEF ArgOf
    <2> QED BY <1>1, <2>1, HandlerKeeps DEF StartRead
  <1>2. ASSUME NEW a \in Account, DeleteUnstarted(c, a)
        PROVE  Ownership' /\ RunningIsTended' /\ NoClosePanic'
    BY <1>2, HandlerKeeps DEF DeleteUnstarted
  <1>3. ASSUME NEW a \in Account, NEW q \in Proxy \cup {Direct}, UpdateRead(c, a, q)
        PROVE  Ownership' /\ RunningIsTended' /\ NoClosePanic'
    BY <1>3, HandlerKeeps DEF UpdateRead
  <1>4. CASE StartAlready(c)
    BY <1>4, HandlerKeeps DEF StartAlready, Goto
  <1>5. CASE StopClients(c)
    BY <1>5, HandlerKeeps DEF StopClients, Goto, AfterStop
  <1>6. CASE DeleteRow(c)
    BY <1>6, HandlerKeeps DEF DeleteRow, Goto
  <1>7. CASE UpdateRow(c)
    BY <1>7, HandlerKeeps DEF UpdateRow, Goto
  <1>8. CASE UpdateClients(c)
    BY <1>8, HandlerKeeps DEF UpdateClients, Goto
  <1> QED BY <1>1, <1>2, <1>3, <1>4, <1>5, <1>6, <1>7, <1>8
\* Building the clients touches no object.
LEMMA BuildKeeps ==
    ASSUME Inductive, TypeOK', NEW c \in Caller, StartBuild(c)
    PROVE  Ownership' /\ RunningIsTended' /\ NoClosePanic'
  <1> DEFINE i == arg[c].inst
  <1> USE DistinctAssumption DEF Inductive, Ownership, TypeOK, Goto, Enter, Stand, Holding,
      HoldingPC, store, objects, loops, StartBuild
  <1>1. pc'[c] # "idle" => arg'[c] = arg[c]
    OBVIOUS
  <1>2. \A d \in Caller : d # c => pc'[d] = pc[d] /\ arg'[d] = arg[d]
    OBVIOUS
  <1>3. HeldObject' /\ AskedAccount'
    BY <1>1, <1>2 DEF HeldObject, HeldApart, AskedAccount, Fresh
  <1>4. HeldApart'
    BY <1>1, <1>2 DEF HeldApart
  <1>5. UnallocatedFresh' /\ PublishedNotNew' /\ LoopPublished'
    BY DEF UnallocatedFresh, PublishedNotNew, LoopPublished, Fresh, HeldObject
  <1>6. RunningIsTended'
    BY <1>1, <1>2 DEF RunningIsTended, Tended, Running, HeldObject, HeldApart, Fresh
  <1>7. NoClosePanic'
    BY DEF NoClosePanic
  <1> QED BY <1>3, <1>4, <1>5, <1>6, <1>7 DEF Ownership

\* The first token goes to the object the start holds.
LEMMA TokenKeeps ==
    ASSUME Inductive, TypeOK', NEW c \in Caller, StartToken(c)
    PROVE  Ownership' /\ RunningIsTended' /\ NoClosePanic'
  <1> DEFINE i == arg[c].inst
  <1> USE DistinctAssumption DEF Inductive, Ownership, TypeOK, Goto, Enter, Stand, Holding,
      HoldingPC, store, objects, loops, StartToken
  <1>1. pc'[c] # "idle" => arg'[c] = arg[c]
    OBVIOUS
  <1>2. \A d \in Caller : d # c => pc'[d] = pc[d] /\ arg'[d] = arg[d]
    OBVIOUS
  <1>3. HeldObject' /\ AskedAccount'
    BY <1>1, <1>2 DEF HeldObject, HeldApart, AskedAccount, Fresh
  <1>4. HeldApart'
    BY <1>1, <1>2 DEF HeldApart
  <1>5. UnallocatedFresh' /\ PublishedNotNew' /\ LoopPublished'
    BY DEF UnallocatedFresh, PublishedNotNew, LoopPublished, Fresh, HeldObject
  <1>6. RunningIsTended'
    BY <1>1, <1>2 DEF RunningIsTended, Tended, Running, HeldObject, HeldApart, Fresh
  <1>7. NoClosePanic'
    BY DEF NoClosePanic
  <1> QED BY <1>3, <1>4, <1>5, <1>6, <1>7 DEF Ownership

\* A failed start publishes an object that claims nothing.
LEMMA FailedKeeps ==
    ASSUME Inductive, TypeOK', NEW c \in Caller, StartFailed(c)
    PROVE  Ownership' /\ RunningIsTended' /\ NoClosePanic'
  <1> DEFINE i == arg[c].inst
  <1> USE DistinctAssumption DEF Inductive, Ownership, TypeOK, Goto, Enter, Stand, Holding,
      HoldingPC, store, objects, loops, StartFailed
  <1>1. pc'[c] # "idle" => arg'[c] = arg[c]
    OBVIOUS
  <1>2. \A d \in Caller : d # c => pc'[d] = pc[d] /\ arg'[d] = arg[d]
    OBVIOUS
  <1>3. HeldObject' /\ AskedAccount'
    BY <1>1, <1>2 DEF HeldObject, HeldApart, AskedAccount, Fresh
  <1>4. HeldApart'
    BY <1>1, <1>2 DEF HeldApart
  <1>5. UnallocatedFresh' /\ PublishedNotNew' /\ LoopPublished'
    BY DEF UnallocatedFresh, PublishedNotNew, LoopPublished, Fresh, HeldObject
  <1>6. RunningIsTended'
    BY <1>1, <1>2 DEF RunningIsTended, Tended, Running, HeldObject, HeldApart, Fresh
  <1>7. NoClosePanic'
    BY DEF NoClosePanic
  <1> QED BY <1>3, <1>4, <1>5, <1>6, <1>7 DEF Ownership

\* The published object has its token and an open channel.
LEMMA PublishKeeps ==
    ASSUME Inductive, TypeOK', NEW c \in Caller, StartPublish(c)
    PROVE  Ownership' /\ RunningIsTended' /\ NoClosePanic'
  <1> DEFINE i == arg[c].inst
  <1> USE DistinctAssumption DEF Inductive, Ownership, TypeOK, Goto, Enter, Stand, Holding,
      HoldingPC, store, objects, loops, StartPublish
  <1>1. pc'[c] # "idle" => arg'[c] = arg[c]
    OBVIOUS
  <1>2. \A d \in Caller : d # c => pc'[d] = pc[d] /\ arg'[d] = arg[d]
    OBVIOUS
  <1>3. HeldObject' /\ AskedAccount'
    BY <1>1, <1>2 DEF HeldObject, HeldApart, AskedAccount, Fresh
  <1>4. HeldApart'
    BY <1>1, <1>2 DEF HeldApart
  <1>5. UnallocatedFresh' /\ PublishedNotNew' /\ LoopPublished'
    BY DEF UnallocatedFresh, PublishedNotNew, LoopPublished, Fresh, HeldObject
  <1>6. RunningIsTended'
    BY <1>1, <1>2 DEF RunningIsTended, Tended, Running, HeldObject, HeldApart, Fresh
  <1>7. NoClosePanic'
    BY DEF NoClosePanic
  <1> QED BY <1>3, <1>4, <1>5, <1>6, <1>7 DEF Ownership

\* The spawned goroutine takes over from the start.
LEMMA SpawnKeeps ==
    ASSUME Inductive, TypeOK', NEW c \in Caller, StartSpawn(c)
    PROVE  Ownership' /\ RunningIsTended' /\ NoClosePanic'
  <1> DEFINE i == arg[c].inst
  <1> USE DistinctAssumption DEF Inductive, Ownership, TypeOK, Goto, Enter, Stand, Holding,
      HoldingPC, store, objects, loops, StartSpawn, Advance
  <1>1. pc'[c] # "idle" => arg'[c] = arg[c]
    OBVIOUS
  <1>2. \A d \in Caller : d # c => pc'[d] = pc[d] /\ arg'[d] = arg[d]
    OBVIOUS
  <1>3. HeldObject' /\ AskedAccount'
    BY <1>1, <1>2 DEF HeldObject, HeldApart, AskedAccount, Fresh
  <1>4. HeldApart'
    BY <1>1, <1>2 DEF HeldApart
  <1>5. UnallocatedFresh' /\ PublishedNotNew' /\ LoopPublished'
    BY DEF UnallocatedFresh, PublishedNotNew, LoopPublished, Fresh, HeldObject
  <1>6. RunningIsTended'
    BY <1>1, <1>2 DEF RunningIsTended, Tended, Running, HeldObject, HeldApart, Fresh
  <1>7. NoClosePanic'
    BY DEF NoClosePanic
  <1> QED BY <1>3, <1>4, <1>5, <1>6, <1>7 DEF Ownership
\* The start takes an unallocated object, which no other start holds.
LEMMA CheckKeeps ==
    ASSUME Inductive, TypeOK', NEW c \in Caller, StartCheck(c)
    PROVE  Ownership' /\ RunningIsTended' /\ NoClosePanic'
  <1> USE DistinctAssumption DEF Inductive, Ownership, TypeOK, Enter, Stand, Receive,
      Holding, HoldingPC, store, objects, loops
  <1>1. PICK i \in Inst : /\ owner[i] = None
                          /\ owner' = [owner EXCEPT ![i] = arg[c].account]
                          /\ Enter(c, "build", [arg[c] EXCEPT !.inst = i])
    BY DEF StartCheck
  <1>2. pc[c] = "check" /\ UNCHANGED <<instances, status, chan, token, loop, panicked>>
    BY DEF StartCheck
  <1>3. \A d \in Caller : d # c => pc'[d] = pc[d] /\ arg'[d] = arg[d]
    BY <1>1
  <1>4. /\ arg[c] \in Arg /\ arg[c].account \in Account
        /\ pc'[c] = "build" /\ arg'[c].inst = i /\ arg'[c].account = arg[c].account
        /\ owner'[i] = arg[c].account
    BY <1>1, <1>2 DEF AskedAccount, Arg
  <1>5. \A d \in Caller : (d # c /\ Holding(d)) => arg[d].inst # i
    BY <1>1 DEF HeldObject
  <1>6. Fresh(i)
    BY <1>1 DEF UnallocatedFresh
  <1>7. HeldObject' /\ AskedAccount'
    BY <1>1, <1>2, <1>3, <1>4, <1>5, <1>6 DEF HeldObject, AskedAccount, Fresh
  <1>8. HeldApart'
    BY <1>3, <1>4, <1>5 DEF HeldApart
  <1>9. UnallocatedFresh' /\ PublishedNotNew' /\ LoopPublished'
    BY <1>1, <1>2, <1>4 DEF UnallocatedFresh, PublishedNotNew, LoopPublished, Fresh
  <1>10. RunningIsTended'
    BY <1>2, <1>3, <1>4 DEF RunningIsTended, Tended, Running
  <1>11. NoClosePanic'
    BY <1>2 DEF NoClosePanic
  <1> QED BY <1>7, <1>8, <1>9, <1>10, <1>11

\* StopInstance finds a published object, whose channel is open if it runs.
LEMMA SignalKeeps ==
    ASSUME Inductive, TypeOK', NEW c \in Caller, NEW a \in Account,
           NEW delete \in BOOLEAN, StopSignal(c, a, delete)
    PROVE  Ownership' /\ RunningIsTended' /\ NoClosePanic'
  <1> DEFINE i == instances[a]
  <1> USE DistinctAssumption DEF Inductive, Ownership, TypeOK, Enter, Stand, Receive,
      Holding, HoldingPC, StopArg, StoppedStatus, store, objects, loops, StopSignal
  <1>1. i \in Inst /\ status[i] # "new" /\ status'[i] = "stopped"
    BY DEF PublishedNotNew
  <1>2. \A d \in Caller : d # c => pc'[d] = pc[d] /\ arg'[d] = arg[d]
    OBVIOUS
  <1>3. \A j \in Inst : j # i => status'[j] = status[j] /\ chan'[j] = chan[j]
    OBVIOUS
  <1>4. pc'[c] = "unclient" /\ pc[c] = "idle" /\ UNCHANGED <<loop, owner, instances, token>>
    OBVIOUS
  <1>5. HeldObject' /\ AskedAccount'
    BY <1>1, <1>2, <1>3, <1>4 DEF HeldObject, AskedAccount, Fresh
  <1>6. HeldApart'
    BY <1>2, <1>4 DEF HeldApart
  <1>7. UnallocatedFresh' /\ PublishedNotNew' /\ LoopPublished'
    BY <1>1, <1>3, <1>4 DEF UnallocatedFresh, PublishedNotNew, LoopPublished, Fresh
  <1>8. RunningIsTended'
    BY <1>1, <1>2, <1>3, <1>4 DEF RunningIsTended, Tended, Running
  <1>9. NoClosePanic'
    BY <1>1 DEF NoClosePanic, RunningIsTended, Tended, Running
  <1> QED BY <1>5, <1>6, <1>7, <1>8, <1>9

\* The refresh loop moves only an object whose start has let go of it, exits
\* only on a closed channel, and makes no object running.
LEMMA LoopKeeps ==
    ASSUME Inductive, NEW i \in Inst, LoopStep(i)
    PROVE  Ownership' /\ RunningIsTended' /\ NoClosePanic'
  <1> USE DEF Inductive, Ownership, TypeOK, Holding, HoldingPC, store, objects, loops, callers
  <1>1. UNCHANGED <<instances, owner, chan, pc, arg, panicked>>
    BY DEF LoopStep, LoopTop, LoopWoken, LoopTimer, LoopCheck, LoopRefreshed, LoopRetry,
           LoopGiveUp, LoopFailed, LoopModels, LoopUnchanged
  <1>2. loop[i] # "none" /\ loop'[i] # "none" /\ status[i] # "new"
    BY DEF LoopPublished, LoopStep, LoopTop, LoopWoken, LoopTimer, LoopCheck, LoopRefreshed,
           LoopRetry, LoopGiveUp, LoopFailed, LoopModels, Advance
  <1>3. loop'[i] = "exited" => chan[i] = "closed"
    BY DEF LoopStep, LoopTop, LoopWoken, LoopTimer, LoopCheck, LoopRefreshed,
           LoopRetry, LoopGiveUp, LoopFailed, LoopModels, Advance, Signalled
  <1>4. /\ status'[i] \in {status[i], "error"}
        /\ token'[i] = "none" => token[i] = "none"
    BY DEF LoopStep, LoopTop, LoopWoken, LoopTimer, LoopCheck, LoopRefreshed, LoopRetry,
           LoopGiveUp, LoopFailed, LoopModels, FailedStatus, RefreshedStatus
  <1>5. \A j \in Inst : j # i => /\ status'[j] = status[j] /\ token'[j] = token[j]
                                 /\ loop'[j] = loop[j]
    BY DEF LoopStep, LoopTop, LoopWoken, LoopTimer, LoopCheck, LoopRefreshed, LoopRetry,
           LoopGiveUp, LoopFailed, LoopModels, FailedStatus, RefreshedStatus, Advance
  <1>6. HeldObject' /\ AskedAccount' /\ HeldApart'
    BY <1>1, <1>2, <1>5 DEF HeldObject, AskedAccount, HeldApart, Fresh
  <1>7. UnallocatedFresh' /\ PublishedNotNew' /\ LoopPublished'
    BY <1>1, <1>2, <1>4, <1>5 DEF UnallocatedFresh, PublishedNotNew, LoopPublished, Fresh
  <1>8. RunningIsTended'
    BY <1>1, <1>2, <1>3, <1>4, <1>5 DEF RunningIsTended, Tended, Running
  <1>9. NoClosePanic'
    BY <1>1 DEF NoClosePanic
  <1> QED BY <1>6, <1>7, <1>8, <1>9

\* An expired token is still a token.
LEMMA ExpireKeeps ==
    ASSUME Inductive, NEW i \in Inst, Expire(i)
    PROVE  Ownership' /\ RunningIsTended' /\ NoClosePanic'
  <1> USE DEF Inductive, Ownership, TypeOK, Holding, HoldingPC, store, objects, loops,
      callers, Expire
  <1>1. HeldObject' /\ AskedAccount' /\ HeldApart'
    BY DEF HeldObject, AskedAccount, HeldApart, Fresh
  <1>2. UnallocatedFresh' /\ PublishedNotNew' /\ LoopPublished'
    BY DEF UnallocatedFresh, PublishedNotNew, LoopPublished, Fresh
  <1>3. RunningIsTended' /\ NoClosePanic'
    BY DEF RunningIsTended, Tended, Running, NoClosePanic
  <1> QED BY <1>1, <1>2, <1>3

-----------------------------------------------------------------------------
LEMMA InductiveInit == Init => Inductive
  <1> SUFFICES ASSUME Init PROVE Inductive
    OBVIOUS
  <1>1. TypeOK
    BY TypeInit
  <1>2. Ownership
    BY DEF Init, Ownership, HeldObject, AskedAccount, HeldApart, UnallocatedFresh,
           PublishedNotNew, LoopPublished, Fresh, Holding, HoldingPC
  <1>3. RunningIsTended /\ NoClosePanic
    BY DEF Init, RunningIsTended, Running, NoClosePanic
  <1> QED BY <1>1, <1>2, <1>3 DEF Inductive

LEMMA InductiveStep == Inductive /\ [Next]_vars => Inductive'
  <1> SUFFICES ASSUME Inductive, [Next]_vars PROVE Inductive'
    OBVIOUS
  <1>1. TypeOK'
    BY TypeStep DEF Inductive
  <1>2. ASSUME NEW c \in Caller, Request(c) \/ CallerStep(c) PROVE Inductive'
    BY <1>1, <1>2, QuietKeeps, CheckKeeps, BuildKeeps, TokenKeeps, FailedKeeps,
       PublishKeeps, SpawnKeeps, SignalKeeps DEF Request, CallerStep, Inductive
  <1>3. ASSUME NEW i \in Inst, LoopStep(i) \/ Expire(i) PROVE Inductive'
    BY <1>1, <1>3, LoopKeeps, ExpireKeeps DEF Inductive
  <1>4. CASE UNCHANGED vars
    <2>1. Ownership'
      BY <1>4 DEF Inductive, Ownership, HeldObject, AskedAccount, HeldApart,
         UnallocatedFresh, PublishedNotNew, LoopPublished, Fresh, Holding, HoldingPC,
         vars, store, objects, loops, callers
    <2>2. RunningIsTended' /\ NoClosePanic'
      BY <1>4 DEF Inductive, RunningIsTended, Tended, Running, NoClosePanic, vars, store,
         objects, loops, callers
    <2> QED BY <1>1, <2>1, <2>2 DEF Inductive
  <1> QED BY <1>2, <1>3, <1>4 DEF Next

\* Whatever the interleaving of starts, stops, deletes and failing refreshes,
\* an instance that says "running" has its token, an open channel and a
\* refresh goroutine, or one about to be spawned.
THEOREM RunningTended == Spec => []RunningIsTended
  <1>1. Inductive => RunningIsTended
    BY DEF Inductive
  <1> QED BY <1>1, InductiveInit, InductiveStep, PTL DEF Spec

\* StopInstance never panics on its stop channel.
THEOREM StopNeverPanics == Spec => []NoClosePanic
  <1>1. Inductive => NoClosePanic
    BY DEF Inductive
  <1> QED BY <1>1, InductiveInit, InductiveStep, PTL DEF Spec

-----------------------------------------------------------------------------
(***************************************************************************)
(* Accounts whose requests never overlapped.  The client of such an        *)
(* account is the one its row asks for while it runs, and that one or none *)
(* while it does not, except while an update is about to rebuild it.  What *)
(* is done about other accounts disturbs none of this.                     *)
(***************************************************************************)

\* What holds of every account: a start's object is its account's, so is the
\* object in the map, and a handler that has returned is about no account.
HeldOwn == \A c \in Caller : Holding(c) => owner[arg[c].inst] = arg[c].account
MapOwn  == \A a \in Account : instances[a] # None => owner[instances[a]] = a
About   == \A c \in Caller : IF pc[c] = "idle" THEN arg[c].account = None
                                               ELSE arg[c].account \in Account
Books == HeldOwn /\ MapOwn /\ About

Want(a) == IF row[a] \in Proxy THEN row[a] ELSE None

Settled(a) ==
    /\ row[a] # Deleted => client[a] \in {None, Want(a)}
    /\ Running(instances[a]) => row[a] # Deleted /\ client[a] = Want(a)

Rebuilding(a) == \E c \in Caller : pc[c] = "reclient" /\ arg[c].account = a

BuildingPC == {"build", "token", "failed", "publish"}

\* What a handler knows where it stands, when it is alone at its account.
Knows(c) ==
    LET a == arg[c].account IN
    /\ pc[c] \in BuildingPC \cup {"check", "update"} => row[a] # Deleted /\ arg[c].read = row[a]
    /\ pc[c] \in BuildingPC \cup {"unclient", "erase"} => ~Running(instances[a])
    /\ pc[c] \in {"token", "failed", "publish"} => client[a] = Want(a)
    /\ pc[c] = "reclient" => row[a] = arg[c].new /\ row[a] # Deleted

\* One request about a at most; the map has a's running object.
AloneAt(a)  == \A c, d \in Caller : (arg[c].account = a /\ arg[d].account = a) => c = d
MappedAt(a) == \A i \in Inst : (Running(i) /\ owner[i] = a) => instances[a] = i

Good(a) ==
    /\ AloneAt(a) /\ MappedAt(a)
    /\ \A c \in Caller : arg[c].account = a => Knows(c)
    /\ Settled(a) \/ Rebuilding(a)

Apart == Inductive /\ Books /\ \A a \in Account \ overlapped : Good(a)

\* The step of caller c leaves the others' handlers as they are.
LEMMA BooksStep == Inductive /\ Inductive' /\ Books /\ [Next]_vars => Books'
  <1> SUFFICES ASSUME Inductive, Inductive', Books, [Next]_vars PROVE Books'
    OBVIOUS
  <1>t. /\ TypeOK /\ TypeOK' /\ HeldObject /\ HeldApart /\ AskedAccount
        /\ None \notin Account \cup Inst
    BY DistinctAssumption DEF Inductive, Ownership
  <1>1. ASSUME NEW c \in Caller, NEW label \in CallerPC, NEW x,
               Stand(c, label, x), UNCHANGED <<instances, owner>>,
               IF label = "idle" THEN x.account = None ELSE x.account \in Account,
               label \in HoldingPC => Holding(c) /\ x = arg[c]
        PROVE  Books'
    <2>1. /\ pc'[c] = label /\ arg'[c] = x
          /\ \A d \in Caller : d # c => pc'[d] = pc[d] /\ arg'[d] = arg[d]
      BY <1>t, <1>1 DEF Stand, TypeOK
    <2>2. HeldOwn'
      BY <1>1, <2>1 DEF Books, HeldOwn, Holding
    <2>3. MapOwn'
      BY <1>1 DEF Books, MapOwn
    <2>4. About'
      BY <1>1, <2>1 DEF Books, About
    <2> QED BY <2>2, <2>3, <2>4 DEF Books
  <1>2. NoArg.account = None
    BY DEF NoArg, ArgOf
  <1>3. ASSUME NEW c \in Caller, Request(c) PROVE Books'
    <2>1. ASSUME NEW a \in Account, StartRead(c, a) PROVE Books'
      <3>1. ArgOf(a, row[a], row[a]).account = a
        BY DEF ArgOf
      <3> QED BY <1>1, <2>1, <3>1 DEF StartRead, Receive, CallerPC, HoldingPC, objects
    <2>2. ASSUME NEW a \in Account, NEW delete \in BOOLEAN PROVE StopArg(a, delete).account = a
      BY DEF StopArg, NoArg, ArgOf
    <2>3. ASSUME NEW a \in Account, DeleteUnstarted(c, a) PROVE Books'
      BY <1>1, <2>2, <2>3 DEF DeleteUnstarted, Receive, CallerPC, HoldingPC, objects
    <2>4. ASSUME NEW a \in Account, NEW delete \in BOOLEAN, StopSignal(c, a, delete) PROVE Books'
      BY <1>1, <2>2, <2>4 DEF StopSignal, Receive, CallerPC, HoldingPC
    <2>5. ASSUME NEW a \in Account, NEW q \in Proxy \cup {Direct}, UpdateRead(c, a, q) PROVE Books'
      <3>1. ArgOf(a, row[a], q).account = a
        BY DEF ArgOf
      <3> QED BY <1>1, <2>5, <3>1 DEF UpdateRead, Receive, CallerPC, HoldingPC, objects
    <2> QED BY <1>3, <2>1, <2>3, <2>4, <2>5 DEF Request
  <1>4. ASSUME NEW c \in Caller, NEW label \in CallerPC, pc[c] # "idle",
               Goto(c, label), UNCHANGED <<instances, owner>>, label \in HoldingPC => Holding(c)
        PROVE  Books'
    <2>1. arg[c].account \in Account
      BY <1>4 DEF Books, About
    <2>2. CASE label = "idle"
      <3>1. Stand(c, label, NoArg) /\ label \notin HoldingPC
        BY <1>4, <2>2 DEF Goto, Enter, HoldingPC
      <3> QED BY <1>1, <1>2, <1>4, <2>2, <3>1
    <2>3. CASE label # "idle"
      <3>1. Stand(c, label, arg[c])
        BY <1>4, <2>3 DEF Goto, Enter
      <3> QED BY <1>1, <1>4, <2>1, <2>3, <3>1
    <2> QED BY <2>2, <2>3
  <1>5. ASSUME NEW c \in Caller, NEW label \in CallerPC, Holding(c),
               Goto(c, label), owner' = owner,
               instances' = [instances EXCEPT ![arg[c].account] = arg[c].inst],
               label \in {"idle", "spawn"}
        PROVE  Books'
    <2>1. arg[c].account \in Account /\ owner[arg[c].inst] = arg[c].account /\ pc[c] # "idle"
      BY <1>5 DEF Books, About, HeldOwn, Holding, HoldingPC
    <2>2. MapOwn'
      BY <1>t, <1>5, <2>1 DEF Books, MapOwn, TypeOK
    <2>3. /\ \A d \in Caller : d # c => pc'[d] = pc[d] /\ arg'[d] = arg[d]
          /\ pc'[c] = label /\ IF label = "idle" THEN arg'[c] = NoArg ELSE arg'[c] = arg[c]
      BY <1>t, <1>5 DEF Goto, Enter, Stand, TypeOK
    <2>4. HeldOwn'
      BY <1>5, <2>1, <2>3 DEF Books, HeldOwn, Holding, HoldingPC
    <2>5. About'
      BY <1>2, <1>5, <2>1, <2>3 DEF Books, About
    <2> QED BY <2>2, <2>4, <2>5 DEF Books
  <1>6. ASSUME NEW c \in Caller, StartCheck(c) PROVE Books'
    <2>1. PICK i \in Inst : /\ owner[i] = None /\ owner' = [owner EXCEPT ![i] = arg[c].account]
                            /\ Stand(c, "build", [arg[c] EXCEPT !.inst = i])
      BY <1>6 DEF StartCheck, Enter
    <2>2. pc[c] = "check" /\ instances' = instances /\ arg[c].account \in Account
      BY <1>t, <1>6 DEF StartCheck, AskedAccount
    <2>3. /\ pc'[c] = "build" /\ arg'[c].inst = i /\ arg'[c].account = arg[c].account
          /\ \A d \in Caller : d # c => pc'[d] = pc[d] /\ arg'[d] = arg[d]
      BY <1>t, <2>1 DEF Stand, TypeOK, Arg
    <2>4. owner'[i] = arg[c].account /\ \A j \in Inst : j # i => owner'[j] = owner[j]
      BY <1>t, <2>1 DEF TypeOK
    <2>5. \A d \in Caller : (d # c /\ Holding(d)) => arg[d].inst \in Inst /\ arg[d].inst # i
      BY <1>t, <2>1 DEF HeldObject
    <2>6. HeldOwn'
      BY <2>3, <2>4, <2>5 DEF Books, HeldOwn, Holding
    <2>7. MapOwn'
      BY <1>t, <2>1, <2>2, <2>4 DEF Books, MapOwn, TypeOK
    <2>8. About'
      BY <2>2, <2>3 DEF Books, About
    <2> QED BY <2>6, <2>7, <2>8 DEF Books
  <1>7. ASSUME NEW c \in Caller, CallerStep(c) PROVE Books'
    <2> USE DEF CallerPC, HoldingPC, Holding, store, objects, loops
    <2>1. CASE StartAlready(c)
      BY <1>4, <2>1 DEF StartAlready
    <2>2. CASE StartCheck(c)
      BY <1>6, <2>2
    <2>3. CASE StartBuild(c)
      BY <1>4, <2>3 DEF StartBuild
    <2>4. CASE StartToken(c)
      BY <1>4, <2>4 DEF StartToken
    <2>5. CASE StartFailed(c)
      BY <1>5, <2>5 DEF StartFailed
    <2>6. CASE StartPublish(c)
      BY <1>5, <2>6 DEF StartPublish
    <2>7. CASE StartSpawn(c)
      BY <1>4, <2>7 DEF StartSpawn
    <2>8. CASE StopClients(c)
      BY <1>4, <2>8 DEF StopClients, AfterStop
    <2>9. CASE DeleteRow(c)
      BY <1>4, <2>9 DEF DeleteRow
    <2>10. CASE UpdateRow(c)
      BY <1>4, <2>10 DEF UpdateRow
    <2>11. CASE UpdateClients(c)
      BY <1>4, <2>11 DEF UpdateClients
    <2> QED BY <1>7, <2>1, <2>2, <2>3, <2>4, <2>5, <2>6, <2>7, <2>8, <2>9, <2>10, <2>11
             DEF CallerStep
  <1>8. ASSUME NEW i \in Inst, LoopStep(i) \/ Expire(i) PROVE Books'
    <2>1. UNCHANGED <<instances, owner, pc, arg>>
      BY <1>8 DEF LoopStep, LoopTop, LoopWoken, LoopTimer, LoopCheck, LoopRefreshed, LoopRetry,
         LoopGiveUp, LoopFailed, LoopModels, Expire, LoopUnchanged, store, objects, loops, callers
    <2> QED BY <2>1 DEF Books, HeldOwn, MapOwn, About, Holding
  <1>9. CASE UNCHANGED vars
    BY <1>9 DEF vars, store, objects, loops, callers, Books, HeldOwn, MapOwn, About, Holding
  <1> QED BY <1>3, <1>7, <1>8, <1>9 DEF Next

\* A step leaves account a alone: its row, its clients, its objects and the
\* handlers of requests about it.
Untouched(a) ==
    /\ row'[a] = row[a] /\ client'[a] = client[a] /\ instances'[a] = instances[a]
    /\ \A i \in Inst : (owner[i] = a \/ owner'[i] = a)
                           => owner'[i] = owner[i] /\ status'[i] = status[i]
    /\ \A c \in Caller : (arg[c].account = a \/ arg'[c].account = a)
                           => arg'[c] = arg[c] /\ pc'[c] = pc[c]

\* What is good of such an account stays so.
LEMMA Elsewhere ==
    ASSUME Inductive, Books, NEW a \in Account, Good(a), Untouched(a)
    PROVE  Good(a)'
  <1>1. AloneAt(a)'
    BY DEF Good, AloneAt, Untouched
  <1>2. MappedAt(a)'
    BY DEF Good, MappedAt, Untouched, Running
  <1>3. Running(instances[a])' <=> Running(instances[a])
    <2>1. CASE instances[a] = None
      BY <2>1 DEF Untouched, Running
    <2>2. CASE instances[a] # None
      <3>1. instances[a] \in Inst /\ owner[instances[a]] = a
        BY <2>2 DEF Inductive, TypeOK, Books, MapOwn
      <3> QED BY <2>2, <3>1 DEF Untouched, Running
    <2> QED BY <2>1, <2>2
  <1>4. ASSUME NEW c \in Caller, arg'[c].account = a PROVE Knows(c)'
    <2>1. arg'[c] = arg[c] /\ pc'[c] = pc[c] /\ arg[c].account = a
      BY <1>4 DEF Untouched
    <2> QED BY <1>3, <2>1 DEF Good, Untouched, Knows, Want
  <1>5. (Settled(a) \/ Rebuilding(a))'
    BY <1>3 DEF Good, Untouched, Settled, Rebuilding, Want
  <1> QED BY <1>1, <1>2, <1>4, <1>5 DEF Good

\* So it is enough to look at the account the step is about.
LEMMA AccountAlone ==
    ASSUME Apart, Inductive', Books', NEW b \in Account, overlapped \subseteq overlapped',
           \A a \in Account \ {b} : Untouched(a),
           b \notin overlapped' => Good(b)'
    PROVE  Apart'
  BY Elsewhere DEF Apart

\* And there, at the one handler.
LEMMA OneHandler ==
    ASSUME NEW c \in Caller, NEW b \in Account,
           \A d \in Caller : d # c => arg'[d].account # b,
           MappedAt(b)', Knows(c)',
           Settled(b)' \/ (pc'[c] = "reclient" /\ arg'[c].account = b)
    PROVE  Good(b)'
  BY DEF Good, AloneAt, Rebuilding

\* A request is about an account whose others, if any, put it among the
\* overlapped: if it is not there, the account is good and quiet.
LEMMA Received ==
    ASSUME Apart, NEW c \in Caller, NEW b \in Account, NEW label, NEW x,
           pc[c] = "idle", x.account = b, Receive(c, label, x),
           row' = row, client' = client, instances' = instances, owner' = owner,
           \A i \in Inst : status'[i] = status[i] \/ (status'[i] = "stopped" /\ i = instances[b]),
           Inductive', Books',
           (Good(b) /\ pc'[c] = label /\ arg'[c] = x /\ arg'[c].account = b) => Knows(c)'
    PROVE  Apart'
  <1>1. /\ arg[c].account = None /\ Stand(c, label, x) /\ Inductive
        /\ arg[c].account \in {b, None} /\ x.account \in {b, None}
    BY DEF Apart, Books, About, Receive
  <1>2. /\ pc'[c] = label /\ arg'[c] = x
        /\ \A d \in Caller : d # c => arg'[d] = arg[d] /\ pc'[d] = pc[d]
        /\ \A a \in Account \ {b}, d \in Caller :
               (arg[d].account = a \/ arg'[d].account = a)
                   => arg'[d] = arg[d] /\ pc'[d] = pc[d]
    <2>1. /\ pc'[c] = label /\ arg'[c] = x
          /\ \A d \in Caller : d # c => arg'[d] = arg[d] /\ pc'[d] = pc[d]
      BY <1>1 DEF Inductive, TypeOK, Stand
    <2> QED BY <1>1, <2>1, DistinctAssumption
  <1>3. overlapped \subseteq overlapped'
    BY DEF Receive
  <1>4. ASSUME NEW a \in Account \ {b} PROVE Untouched(a)
    <2>1. ASSUME NEW i \in Inst, owner[i] = a PROVE status'[i] = status[i]
      BY <2>1, DistinctAssumption DEF Apart, Books, MapOwn
    <2> QED BY <1>2, <2>1 DEF Untouched
  <1>5. ASSUME b \notin overlapped' PROVE Good(b)'
    <2>1. b \notin overlapped /\ ~InFlight(b)
      BY <1>5 DEF Receive
    <2>2. Good(b) /\ Settled(b)
      BY <2>1 DEF Apart, Good, Rebuilding, InFlight
    <2>3. \A d \in Caller : d # c => arg'[d].account # b
      BY <1>2, <2>1 DEF InFlight
    <2>4. \A i \in Inst : Running(i)' => Running(i)
      BY DEF Running
    <2>5. MappedAt(b)'
      BY <2>2, <2>4 DEF Good, MappedAt
    <2>6. instances[b] \in Inst \cup {None}
      BY <1>1 DEF Inductive, TypeOK
    <2>7. Running(instances[b])' => Running(instances[b])
      BY <2>4, <2>6 DEF Running
    <2>8. Settled(b)'
      BY <2>2, <2>7 DEF Settled, Want
    <2>9. Knows(c)'
      BY <1>2, <2>2
    <2> QED BY <2>3, <2>5, <2>8, <2>9, OneHandler
  <1> QED BY <1>3, <1>4, <1>5, AccountAlone

\* A handler amid its work, about b.
LEMMA AtWork ==
    ASSUME Apart, NEW c \in Caller, pc[c] # "idle"
    PROVE  /\ arg[c].account \in Account
           /\ arg[c].account \notin overlapped =>
                /\ Good(arg[c].account) /\ Knows(c) /\ MappedAt(arg[c].account)
                /\ pc[c] # "reclient" => Settled(arg[c].account)
                /\ \A d \in Caller : d # c => arg[d].account # arg[c].account
  BY DEF Apart, Books, About, Good, AloneAt, Rebuilding

\* Its step, to label with x in hand, changes what is the account's only, and
\* leaves that good.
LEMMA Worked ==
    ASSUME Apart, Inductive', Books', NEW c \in Caller, NEW b \in Account, NEW label, NEW x,
           b = arg[c].account, Enter(c, label, x), x.account \in {b, None},
           \A a \in Account \ {b} : row'[a] = row[a] /\ client'[a] = client[a]
                                        /\ instances'[a] = instances[a],
           \A i \in Inst : \/ owner'[i] = owner[i] /\ status'[i] = status[i]
                           \/ owner[i] \in {b, None} /\ owner'[i] = b,
           (b \notin overlapped /\ pc'[c] = label /\ arg'[c] = x)
               => /\ MappedAt(b)' /\ Knows(c)'
                  /\ Settled(b)' \/ (label = "reclient" /\ x.account = b)
    PROVE  Apart'
  <1>1. /\ arg[c].account \in {b, None} /\ Stand(c, label, x)
        /\ overlapped' = overlapped /\ Inductive
    BY DEF Apart, Enter, history
  <1>2. /\ pc'[c] = label /\ arg'[c] = x
        /\ \A d \in Caller : d # c => arg'[d] = arg[d] /\ pc'[d] = pc[d]
    BY <1>1 DEF Inductive, TypeOK, Stand
  <1>3. \A a \in Account \ {b}, d \in Caller :
               (arg[d].account = a \/ arg'[d].account = a)
                   => arg'[d] = arg[d] /\ pc'[d] = pc[d]
    BY <1>1, <1>2, DistinctAssumption
  <1>4. ASSUME NEW a \in Account \ {b} PROVE Untouched(a)
    <2>1. ASSUME NEW i \in Inst, owner[i] = a \/ owner'[i] = a
          PROVE  owner'[i] = owner[i] /\ status'[i] = status[i]
      BY <2>1, DistinctAssumption
    <2> QED BY <1>3, <2>1 DEF Untouched
  <1>5. ASSUME b \notin overlapped PROVE Good(b)'
    <2>1. \A d \in Caller : d # c => arg'[d].account # b
      BY <1>2, <1>5 DEF Apart, Good, AloneAt
    <2>2. MappedAt(b)' /\ Knows(c)'
      BY <1>2, <1>5
    <2>3. Settled(b)' \/ (pc'[c] = "reclient" /\ arg'[c].account = b)
      BY <1>2, <1>5
    <2> QED BY <2>1, <2>2, <2>3, OneHandler
  <1> QED BY <1>1, <1>4, <1>5, AccountAlone

\* The same, when it has nothing new in hand.
LEMMA WentOn ==
    ASSUME Apart, Inductive', Books', NEW c \in Caller, NEW b \in Account, NEW label,
           b = arg[c].account, Goto(c, label),
           \A a \in Account \ {b} : row'[a] = row[a] /\ client'[a] = client[a]
                                        /\ instances'[a] = instances[a],
           \A i \in Inst : \/ owner'[i] = owner[i] /\ status'[i] = status[i]
                           \/ owner[i] = b /\ owner'[i] = b,
           (b \notin overlapped /\ pc'[c] = label /\ (label # "idle" => arg'[c] = arg[c]))
               => /\ MappedAt(b)' /\ Knows(c)'
                  /\ Settled(b)' \/ label = "reclient"
    PROVE  Apart'
  <1>1. PICK x : x = IF label = "idle" THEN NoArg ELSE arg[c]
    OBVIOUS
  <1>2. Enter(c, label, x)
    BY <1>1 DEF Goto
  <1>3. x.account \in {b, None} /\ (label # "idle" => x = arg[c] /\ x.account = b)
    BY <1>1 DEF NoArg, ArgOf
  <1>4. ASSUME b \notin overlapped, pc'[c] = label, arg'[c] = x
        PROVE  /\ MappedAt(b)' /\ Knows(c)'
               /\ Settled(b)' \/ (label = "reclient" /\ x.account = b)
    BY <1>3, <1>4
  <1> QED BY <1>2, <1>3, <1>4, Worked

\* The beginning of a request.
LEMMA ApartRequest ==
    ASSUME Apart, Inductive', Books', NEW c \in Caller, Request(c)
    PROVE  Apart'
  <1> USE DEF store, objects, loops
  <1>1. ASSUME NEW b \in Account, StartRead(c, b) PROVE Apart'
    <2>1. PICK x : x = ArgOf(b, row[b], row[b])
      OBVIOUS
    <2>2. x.account = b /\ x.read = row[b] /\ row[b] # Deleted
      BY <1>1, <2>1 DEF ArgOf, StartRead
    <2>3. Receive(c, "check", x) /\ pc[c] = "idle"
      BY <1>1, <2>1 DEF StartRead
    <2>4. (pc'[c] = "check" /\ arg'[c] = x) => Knows(c)'
      BY <1>1, <2>2 DEF StartRead, Knows, BuildingPC
    <2> QED BY <1>1, <2>2, <2>3, <2>4, Received DEF StartRead
  <1>2. ASSUME NEW b \in Account, NEW delete \in BOOLEAN
        PROVE  StopArg(b, delete).account = b
    BY DEF StopArg, NoArg, ArgOf
  <1>3. ASSUME NEW b \in Account, DeleteUnstarted(c, b) PROVE Apart'
    <2>1. PICK x : x = StopArg(b, TRUE)
      OBVIOUS
    <2>2. x.account = b /\ Receive(c, "erase", x) /\ pc[c] = "idle" /\ instances[b] = None
      BY <1>2, <1>3, <2>1 DEF DeleteUnstarted
    <2>3. (pc'[c] = "erase" /\ arg'[c] = x) => Knows(c)'
      BY <1>3, <2>2 DEF DeleteUnstarted, Knows, BuildingPC, Running
    <2> QED BY <1>3, <2>2, <2>3, Received DEF DeleteUnstarted
  <1>4. ASSUME NEW b \in Account, NEW delete \in BOOLEAN, StopSignal(c, b, delete) PROVE Apart'
    <2>1. PICK x : x = StopArg(b, delete)
      OBVIOUS
    <2>2. x.account = b /\ Receive(c, "unclient", x) /\ pc[c] = "idle"
      BY <1>2, <1>4, <2>1 DEF StopSignal
    <2>3. PICK i \in Inst : i = instances[b]
      BY <1>4 DEF StopSignal, Apart, Inductive, TypeOK
    <2>4. /\ status' = [status EXCEPT ![i] = "stopped"]
          /\ row' = row /\ client' = client /\ instances' = instances /\ owner' = owner
      BY <1>4, <2>3 DEF StopSignal, StoppedStatus
    <2>5. \A j \in Inst : status'[j] = IF j = i THEN "stopped" ELSE status[j]
      BY <2>4 DEF Apart, Inductive, TypeOK
    <2>6. (pc'[c] = "unclient" /\ arg'[c] = x) => Knows(c)'
      BY <2>2, <2>3, <2>4, <2>5 DEF Knows, BuildingPC, Running
    <2> QED BY <2>2, <2>3, <2>4, <2>5, <2>6, Received
  <1>5. ASSUME NEW b \in Account, NEW q \in Proxy \cup {Direct}, UpdateRead(c, b, q) PROVE Apart'
    <2>1. PICK x : x = ArgOf(b, row[b], q)
      OBVIOUS
    <2>2. x.account = b /\ x.read = row[b] /\ row[b] # Deleted
      BY <1>5, <2>1 DEF ArgOf, UpdateRead
    <2>3. Receive(c, "update", x) /\ pc[c] = "idle"
      BY <1>5, <2>1 DEF UpdateRead
    <2>4. (pc'[c] = "update" /\ arg'[c] = x) => Knows(c)'
      BY <1>5, <2>2 DEF UpdateRead, Knows, BuildingPC
    <2> QED BY <1>5, <2>2, <2>3, <2>4, Received DEF UpdateRead
  <1> QED BY <1>1, <1>3, <1>4, <1>5 DEF Request

\* The steps that leave the account as it is.
LEMMA Looked ==
    ASSUME Apart, Inductive', Books', NEW c \in Caller, pc[c] \notin {"idle", "reclient"},
           NEW label, Goto(c, label),
           UNCHANGED <<row, client, instances, owner, status>>,
           (arg[c].account \notin overlapped /\ Knows(c) /\ pc'[c] = label
               /\ (label # "idle" => arg'[c] = arg[c])) => Knows(c)'
    PROVE  Apart'
  <1>1. PICK b \in Account : b = arg[c].account
    BY AtWork
  <1>2. ASSUME b \notin overlapped PROVE Settled(b) /\ MappedAt(b) /\ Knows(c)
    BY <1>1, <1>2, AtWork
  <1>3. Settled(b)' <=> Settled(b)
    BY DEF Settled, Want, Running
  <1>4. MappedAt(b)' <=> MappedAt(b)
    BY DEF MappedAt, Running
  <1> QED BY <1>1, <1>2, <1>3, <1>4, WentOn

\* StartInstance's steps.
LEMMA ApartStart ==
    ASSUME Apart, Inductive', Books', NEW c \in Caller,
           \/ StartAlready(c) \/ StartCheck(c) \/ StartBuild(c)
           \/ StartToken(c) \/ StartFailed(c) \/ StartPublish(c) \/ StartSpawn(c)
    PROVE  Apart'
  <1> USE DEF store, objects, loops
  <1>0. PICK b : b = arg[c].account
    OBVIOUS
  <1>t. TypeOK
    BY DEF Apart, Inductive
  <1>1. CASE StartAlready(c)
    BY <1>1, Looked DEF StartAlready, Knows, BuildingPC
  <1>2. CASE StartCheck(c)
    <2>0. b \in Account /\ pc[c] = "check" /\ UNCHANGED <<row, client, instances, status>>
      BY <1>0, <1>2, AtWork DEF StartCheck
    <2>1. PICK i \in Inst : /\ owner[i] = None /\ owner' = [owner EXCEPT ![i] = b]
                            /\ Enter(c, "build", [arg[c] EXCEPT !.inst = i])
      BY <1>0, <1>2 DEF StartCheck
    <2>2. PICK x : x = [arg[c] EXCEPT !.inst = i]
      OBVIOUS
    <2>3. x.account = b /\ x.read = arg[c].read /\ x.inst = i
      BY <1>0, <1>t, <2>2 DEF TypeOK, Arg
    <2>4. \A j \in Inst : owner'[j] = IF j = i THEN b ELSE owner[j]
      BY <1>t, <2>1 DEF TypeOK
    <2>5. Fresh(i)
      BY <2>1 DEF Apart, Inductive, Ownership, UnallocatedFresh
    <2>6. ASSUME b \notin overlapped, pc'[c] = "build", arg'[c] = x
          PROVE  MappedAt(b)' /\ Knows(c)' /\ Settled(b)'
      <3>1. Settled(b) /\ MappedAt(b) /\ Knows(c)
        BY <1>0, <2>0, <2>6, AtWork
      <3>2. MappedAt(b)'
        BY <2>0, <2>4, <2>5, <3>1 DEF MappedAt, Running, Fresh
      <3>3. Settled(b)'
        BY <2>0, <3>1 DEF Settled, Want, Running
      <3>4. row[b] # Deleted /\ arg[c].read = row[b] /\ ~Running(instances[b])
        BY <1>0, <1>2, <2>0, <3>1 DEF StartCheck, NotRunning, Knows
      <3>5. ~Running(instances[b])'
        BY <2>0, <3>4 DEF Running
      <3>6. Knows(c)'
        BY <2>0, <2>3, <2>6, <3>4, <3>5 DEF Knows, BuildingPC
      <3> QED BY <3>2, <3>3, <3>6
    <2>7. Enter(c, "build", x) /\ x.account \in {b, None}
      BY <2>1, <2>2, <2>3
    <2>8. \A a \in Account \ {b} : row'[a] = row[a] /\ client'[a] = client[a]
                                       /\ instances'[a] = instances[a]
      BY <2>0
    <2>9. \A j \in Inst : \/ owner'[j] = owner[j] /\ status'[j] = status[j]
                          \/ owner[j] \in {b, None} /\ owner'[j] = b
      BY <2>0, <2>1, <2>4
    <2> QED BY <1>0, <2>0, <2>6, <2>7, <2>8, <2>9, Worked
  <1>3. CASE StartBuild(c)
    <2>1. b \in Account /\ pc[c] = "build" /\ UNCHANGED <<row, instances, status, owner>>
      BY <1>0, <1>3, AtWork DEF StartBuild
    <2>2. /\ client'[b] = Built(b, arg[c].read)
          /\ \A a \in Account \ {b} : client'[a] = client[a]
      BY <1>0, <1>3, <1>t, <2>1 DEF StartBuild, TypeOK
    <2>3. ASSUME b \notin overlapped, pc'[c] = "token", arg'[c] = arg[c]
          PROVE  MappedAt(b)' /\ Knows(c)' /\ Settled(b)'
      <3>1. Settled(b) /\ MappedAt(b) /\ Knows(c)
        BY <1>0, <2>1, <2>3, AtWork
      <3>2. row[b] # Deleted /\ arg[c].read = row[b] /\ ~Running(instances[b])
        BY <1>0, <2>1, <3>1 DEF Knows, BuildingPC
      <3>3. client'[b] = Want(b)
        BY <1>t, <2>1, <2>2, <3>1, <3>2, DistinctAssumption DEF Built, Want, Settled, TypeOK
      <3>4. ~Running(instances[b])'
        BY <2>1, <3>2 DEF Running
      <3>5. MappedAt(b)'
        BY <2>1, <3>1 DEF MappedAt, Running
      <3>6. Settled(b)'
        BY <2>1, <3>2, <3>3, <3>4 DEF Settled, Want
      <3>7. Knows(c)'
        BY <1>0, <2>1, <2>3, <3>2, <3>3, <3>4 DEF Knows, BuildingPC, Want
      <3> QED BY <3>5, <3>6, <3>7
    <2>4. Goto(c, "token")
      BY <1>3 DEF StartBuild
    <2> QED BY <1>0, <2>1, <2>2, <2>3, <2>4, WentOn
  <1>4. CASE StartToken(c)
    <2>1. PICK label \in {"publish", "failed"} : Goto(c, label)
      BY <1>4 DEF StartToken
    <2>2. pc[c] = "token" /\ UNCHANGED <<row, client, instances, owner, status>>
      BY <1>4 DEF StartToken
    <2>3. ASSUME Knows(c), pc'[c] = label, arg'[c] = arg[c] PROVE Knows(c)'
      BY <2>1, <2>2, <2>3 DEF Knows, BuildingPC, Running, Want
    <2> QED BY <2>1, <2>2, <2>3, Looked
  <1>5. ASSUME NEW s \in {"running", "error"}, NEW label \in {"spawn", "idle"},
               pc[c] \in {"failed", "publish"}, Goto(c, label),
               UNCHANGED <<row, client, owner>>,
               status' = [status EXCEPT ![arg[c].inst] = s],
               instances' = [instances EXCEPT ![b] = arg[c].inst]
        PROVE  Apart'
    <2>1. PICK i : i = arg[c].inst
      OBVIOUS
    <2>2. i \in Inst /\ b \in Account /\ owner[i] = b
      BY <1>0, <1>5, <2>1, AtWork
         DEF Apart, Inductive, Ownership, HeldObject, Books, HeldOwn, Holding, HoldingPC
    <2>3. /\ \A j \in Inst : status'[j] = IF j = i THEN s ELSE status[j]
          /\ \A a \in Account : instances'[a] = IF a = b THEN i ELSE instances[a]
      BY <1>t, <1>5, <2>1, <2>2 DEF TypeOK
    <2>4. ASSUME b \notin overlapped, pc'[c] = label
          PROVE  MappedAt(b)' /\ Knows(c)' /\ Settled(b)'
      <3>1. MappedAt(b) /\ Knows(c)
        BY <1>0, <1>5, <2>4, AtWork
      <3>2. row[b] # Deleted /\ ~Running(instances[b]) /\ client[b] = Want(b)
        BY <1>0, <1>5, <3>1 DEF Knows, BuildingPC
      <3>3. MappedAt(b)'
        BY <1>5, <2>2, <2>3, <3>1, <3>2 DEF MappedAt, Running
      <3>4. Settled(b)'
        BY <1>5, <3>2 DEF Settled, Want
      <3>5. Knows(c)'
        BY <2>4 DEF Knows, BuildingPC
      <3> QED BY <3>3, <3>4, <3>5
    <2> QED BY <1>0, <1>5, <2>2, <2>3, <2>4, WentOn
  <1>6. CASE StartFailed(c)
    BY <1>0, <1>5, <1>6 DEF StartFailed
  <1>7. CASE StartPublish(c)
    BY <1>0, <1>5, <1>7 DEF StartPublish
  <1>8. CASE StartSpawn(c)
    BY <1>8, Looked DEF StartSpawn, Knows, BuildingPC
  <1> QED BY <1>1, <1>2, <1>3, <1>4, <1>6, <1>7, <1>8

\* The steps of the stop, delete and update handlers.
LEMMA ApartConsole ==
    ASSUME Apart, Inductive', Books', NEW c \in Caller,
           \/ StopClients(c) \/ DeleteRow(c) \/ UpdateRow(c) \/ UpdateClients(c)
    PROVE  Apart'
  <1> USE DEF store, objects, loops
  <1>0. PICK b : b = arg[c].account
    OBVIOUS
  <1>t. TypeOK
    BY DEF Apart, Inductive
  <1>1. CASE StopClients(c)
    <2>1. b \in Account /\ pc[c] = "unclient" /\ UNCHANGED <<row, instances, status, owner>>
      BY <1>0, <1>1, AtWork DEF StopClients
    <2>2. \A a \in Account : client'[a] = IF a = b THEN None ELSE client[a]
      BY <1>0, <1>t, <1>1, <2>1 DEF StopClients, TypeOK
    <2>3. PICK label \in {"erase", "idle"} : Goto(c, label)
      BY <1>1 DEF StopClients, AfterStop
    <2>4. ASSUME b \notin overlapped, pc'[c] = label, label # "idle" => arg'[c] = arg[c]
          PROVE  MappedAt(b)' /\ Knows(c)' /\ Settled(b)'
      <3>1. MappedAt(b) /\ Knows(c)
        BY <1>0, <2>1, <2>4, AtWork
      <3>2. ~Running(instances[b])
        BY <1>0, <2>1, <3>1 DEF Knows
      <3>3. ~Running(instances[b])'
        BY <2>1, <3>2 DEF Running
      <3>4. MappedAt(b)'
        BY <2>1, <3>1 DEF MappedAt, Running
      <3>5. Settled(b)' /\ Knows(c)'
        BY <1>0, <2>1, <2>2, <2>3, <2>4, <3>3 DEF Settled, Knows, BuildingPC
      <3> QED BY <3>4, <3>5
    <2> QED BY <1>0, <2>1, <2>2, <2>3, <2>4, WentOn
  <1>2. CASE DeleteRow(c)
    <2>1. b \in Account /\ pc[c] = "erase" /\ UNCHANGED <<client, instances, status, owner>>
      BY <1>0, <1>2, AtWork DEF DeleteRow
    <2>2. \A a \in Account : row'[a] = IF a = b THEN Deleted ELSE row[a]
      BY <1>0, <1>t, <1>2, <2>1 DEF DeleteRow, TypeOK
    <2>3. Goto(c, "idle")
      BY <1>2 DEF DeleteRow
    <2>4. ASSUME b \notin overlapped, pc'[c] = "idle"
          PROVE  MappedAt(b)' /\ Knows(c)' /\ Settled(b)'
      <3>1. MappedAt(b) /\ Knows(c)
        BY <1>0, <2>1, <2>4, AtWork
      <3>2. ~Running(instances[b])
        BY <1>0, <2>1, <3>1 DEF Knows
      <3>3. ~Running(instances[b])'
        BY <2>1, <3>2 DEF Running
      <3>4. MappedAt(b)'
        BY <2>1, <3>1 DEF MappedAt, Running
      <3>5. Settled(b)' /\ Knows(c)'
        BY <2>1, <2>2, <2>4, <3>3 DEF Settled, Knows, BuildingPC
      <3> QED BY <3>4, <3>5
    <2> QED BY <1>0, <2>1, <2>2, <2>3, <2>4, WentOn
  <1>3. CASE UpdateRow(c)
    <2>1. b \in Account /\ pc[c] = "update" /\ UNCHANGED <<client, instances, status, owner>>
      BY <1>0, <1>3, AtWork DEF UpdateRow
    <2>2. /\ row'[b] = IF row[b] = Deleted THEN Deleted ELSE arg[c].new
          /\ \A a \in Account \ {b} : row'[a] = row[a]
      BY <1>0, <1>t, <1>3, <2>1 DEF UpdateRow, TypeOK
    <2>3. PICK label : label = IF row[b] = Deleted \/ arg[c].new = arg[c].read
                               THEN "idle" ELSE "reclient"
      OBVIOUS
    <2>4. Goto(c, label)
      BY <1>0, <1>3, <2>3 DEF UpdateRow
    <2>5. ASSUME b \notin overlapped, pc'[c] = label, label # "idle" => arg'[c] = arg[c]
          PROVE  MappedAt(b)' /\ Knows(c)' /\ (Settled(b)' \/ label = "reclient")
      <3>1. MappedAt(b) /\ Knows(c) /\ Settled(b)
        BY <1>0, <2>1, <2>5, AtWork
      <3>2. row[b] # Deleted /\ arg[c].read = row[b] /\ row'[b] = arg[c].new
        BY <1>0, <2>1, <2>2, <3>1 DEF Knows, BuildingPC
      <3>3. MappedAt(b)'
        BY <2>1, <3>1 DEF MappedAt, Running
      <3>4. CASE label = "idle"
        <4>1. row'[b] = row[b]
          BY <2>3, <3>2, <3>4
        <4> QED BY <2>1, <2>5, <3>1, <3>3, <3>4, <4>1 DEF Settled, Want, Running, Knows, BuildingPC
      <3>5. CASE label # "idle"
        <4>1. label = "reclient" /\ arg'[c] = arg[c] /\ arg[c].new # Deleted
          BY <1>t, <2>3, <2>5, <3>5, DistinctAssumption DEF TypeOK, Arg
        <4>2. Knows(c)'
          BY <1>0, <2>5, <3>2, <4>1 DEF Knows, BuildingPC
        <4> QED BY <3>3, <4>1, <4>2
      <3> QED BY <3>4, <3>5
    <2> QED BY <1>0, <2>1, <2>2, <2>4, <2>5, WentOn
  <1>4. CASE UpdateClients(c)
    <2>1. b \in Account /\ pc[c] = "reclient" /\ UNCHANGED <<row, instances, status, owner>>
      BY <1>0, <1>4, AtWork DEF UpdateClients
    <2>2. /\ client'[b] = IF arg[c].new = Direct THEN None ELSE arg[c].new
          /\ \A a \in Account \ {b} : client'[a] = client[a]
      BY <1>0, <1>t, <1>4, <2>1 DEF UpdateClients, TypeOK
    <2>3. Goto(c, "idle")
      BY <1>4 DEF UpdateClients
    <2>4. ASSUME b \notin overlapped, pc'[c] = "idle"
          PROVE  MappedAt(b)' /\ Knows(c)' /\ Settled(b)'
      <3>1. MappedAt(b) /\ Knows(c)
        BY <1>0, <2>1, <2>4, AtWork
      <3>2. row[b] = arg[c].new /\ row[b] # Deleted /\ arg[c].new \in Proxy \cup {Direct}
        BY <1>0, <1>t, <2>1, <3>1 DEF Knows, TypeOK, Arg
      <3>3. client'[b] = Want(b)
        BY <2>2, <3>2, DistinctAssumption DEF Want
      <3>4. MappedAt(b)'
        BY <2>1, <3>1 DEF MappedAt, Running
      <3>5. Settled(b)' /\ Knows(c)'
        BY <2>1, <2>4, <3>2, <3>3 DEF Settled, Want, Knows, BuildingPC
      <3> QED BY <3>4, <3>5
    <2> QED BY <1>0, <2>1, <2>2, <2>3, <2>4, WentOn
  <1> QED BY <1>1, <1>2, <1>3, <1>4

\* A loop makes no instance run, and leaves the rest to the handlers.
LEMMA ApartLoop ==
    ASSUME Apart, Inductive', Books', NEW i \in Inst, LoopStep(i) \/ Expire(i)
    PROVE  Apart'
  <1> USE DEF store, objects, loops, callers, history, LoopUnchanged
  <1>1. UNCHANGED <<row, client, instances, owner, pc, arg, overlapped>>
    BY DEF LoopStep, LoopTop, LoopWoken, LoopTimer, LoopCheck, LoopRefreshed, LoopRetry,
           LoopGiveUp, LoopFailed, LoopModels, Expire
  <1>2. \A j \in Inst : status'[j] = "running" => status[j] = "running"
    BY DEF LoopStep, LoopTop, LoopWoken, LoopTimer, LoopCheck, LoopRefreshed, LoopRetry,
           LoopGiveUp, LoopFailed, LoopModels, Expire, FailedStatus, RefreshedStatus,
           Apart, Inductive, TypeOK
  <1>3. ASSUME NEW a \in Account \ overlapped PROVE Good(a)'
    <2>1. Good(a)
      BY DEF Apart
    <2>2. Running(instances[a])' => Running(instances[a])
      BY <1>1, <1>2 DEF Apart, Inductive, TypeOK, Running
    <2>3. AloneAt(a)' /\ MappedAt(a)'
      BY <1>1, <1>2, <2>1 DEF Good, AloneAt, MappedAt, Running
    <2>4. ASSUME NEW c \in Caller, arg[c].account = a PROVE Knows(c)'
      BY <1>1, <2>1, <2>2, <2>4 DEF Good, Knows, BuildingPC, Want
    <2>5. (Settled(a) \/ Rebuilding(a))'
      BY <1>1, <2>1, <2>2 DEF Good, Settled, Rebuilding, Want
    <2> QED BY <1>1, <2>3, <2>4, <2>5 DEF Good
  <1> QED BY <1>1, <1>3 DEF Apart

LEMMA ApartInit == Init => Apart
  <1> SUFFICES ASSUME Init PROVE Apart
    OBVIOUS
  <1>1. Inductive
    BY InductiveInit
  <1>2. NoArg.account = None
    BY DEF NoArg, ArgOf
  <1>3. Books
    BY <1>2 DEF Init, Books, HeldOwn, MapOwn, About, Holding, HoldingPC
  <1>4. ASSUME NEW a \in Account PROVE Good(a)
    <2>1. AloneAt(a) /\ \A c \in Caller : arg[c].account # a
      BY <1>2, DistinctAssumption DEF Init, AloneAt
    <2>2. MappedAt(a) /\ Settled(a)
      BY DEF Init, MappedAt, Settled, Running
    <2> QED BY <2>1, <2>2 DEF Good
  <1> QED BY <1>1, <1>3, <1>4 DEF Apart

LEMMA ApartStep == Apart /\ [Next]_vars => Apart'
  <1> SUFFICES ASSUME Apart, [Next]_vars PROVE Apart'
    OBVIOUS
  <1>1. Inductive' /\ Books'
    BY InductiveStep, BooksStep DEF Apart
  <1>2. ASSUME NEW c \in Caller, Request(c) \/ CallerStep(c) PROVE Apart'
    BY <1>1, <1>2, ApartRequest, ApartStart, ApartConsole DEF CallerStep
  <1>3. ASSUME NEW i \in Inst, LoopStep(i) \/ Expire(i) PROVE Apart'
    BY <1>1, <1>3, ApartLoop
  <1>4. CASE UNCHANGED vars
    BY <1>1, <1>4 DEF Apart, Good, AloneAt, MappedAt, Knows, BuildingPC, Settled, Rebuilding,
       Want, Running, vars, store, objects, loops, callers, history
  <1> QED BY <1>2, <1>3, <1>4 DEF Next

\* With no request about it in flight, such an account is settled.
LEMMA QuietGood ==
    ASSUME Apart, NEW a \in Account \ overlapped
    PROVE  MappedAt(a) /\ (~InFlight(a) => Settled(a))
  BY DEF Apart, Good, Rebuilding, InFlight

\* Whatever requests about other accounts and the refresh loops do, an account
\* whose own requests never overlapped runs with the proxy of its row.
THEOREM RunningHasItsProxy == Spec => []RunningUsesAccountProxy
  <1>1. Apart => RunningUsesAccountProxy
    BY QuietGood DEF RunningUsesAccountProxy, Settled, Want
  <1> QED BY <1>1, ApartInit, ApartStep, PTL DEF Spec

\* Nor does an instance of it run once the account is deleted.
THEOREM DeletedStaysStopped == Spec => []DeletedIsNotRunning
  <1>1. Apart => DeletedIsNotRunning
    BY QuietGood DEF DeletedIsNotRunning, MappedAt, Settled
  <1> QED BY <1>1, ApartInit, ApartStep, PTL DEF Spec

-----------------------------------------------------------------------------
(***************************************************************************)
(* Accounts that were never being started twice at once.  Their stops,     *)
(* deletes and updates may overlap a start and each other: an object is    *)
(* made running only by the start that has the account for itself, and     *)
(* that found none running.                                                *)
(***************************************************************************)

StartsAlone(a) ==
    \A c, d \in Caller :
        (/\ arg[c].account = a /\ pc[c] \in StartingPC
         /\ arg[d].account = a /\ pc[d] \in StartingPC) => c = d

FoundNone(a) ==
    \A c \in Caller : (arg[c].account = a /\ pc[c] \in BuildingPC) => ~Running(instances[a])

Single(a) == StartsAlone(a) /\ FoundNone(a) /\ MappedAt(a)

Lone == Inductive /\ Books /\ \A a \in Account \ rivals : Single(a)

\* A step of c to label, with x in hand, that makes no object run and leaves
\* the map, keeps this if it starts nothing, or goes on with a start, or is the
\* first to start an account.
LEMMA LoneStand ==
    ASSUME Lone, Inductive', Books', NEW c \in Caller, NEW label, NEW x, Stand(c, label, x),
           rivals \subseteq rivals', instances' = instances,
           \A i \in Inst : status'[i] = "running" => status[i] = "running" /\ owner'[i] = owner[i],
           \A a \in Account \ rivals' : (x.account = a /\ label \in StartingPC) =>
               \/ label = "check" /\ ~Starting(a)
               \/ /\ pc[c] \in StartingPC /\ arg[c].account = a
                  /\ label \in BuildingPC => pc[c] \in BuildingPC \/ ~Running(instances[a])
    PROVE  Lone'
  <1>1. /\ pc'[c] = label /\ arg'[c] = x
        /\ \A d \in Caller : d # c => arg'[d] = arg[d] /\ pc'[d] = pc[d]
    BY DEF Lone, Inductive, TypeOK, Stand
  <1>2. ASSUME NEW a \in Account \ rivals' PROVE Single(a)'
    <2>1. Single(a)
      BY DEF Lone
    <2>2. Running(instances[a])' => Running(instances[a])
      BY DEF Running, Lone, Inductive, TypeOK
    <2>3. MappedAt(a)'
      BY <2>1 DEF Single, MappedAt, Running
    <2>4. StartsAlone(a)'
      <3> SUFFICES ASSUME NEW d \in Caller, NEW e \in Caller,
                          arg'[d].account = a, pc'[d] \in StartingPC,
                          arg'[e].account = a, pc'[e] \in StartingPC, d # e
                   PROVE  FALSE
        BY DEF StartsAlone
      <3>1. PICK f \in {d, e} : f # c
        OBVIOUS
      <3>2. CASE c \notin {d, e}
        BY <1>1, <2>1, <3>2 DEF Single, StartsAlone
      <3>3. CASE c \in {d, e}
        <4>1. /\ f # c /\ arg[f].account = a /\ pc[f] \in StartingPC
              /\ x.account = a /\ label \in StartingPC
          BY <1>1, <3>1, <3>3
        <4>2. pc[c] \in StartingPC /\ arg[c].account = a
          BY <4>1 DEF Starting
        <4> QED BY <2>1, <4>1, <4>2 DEF Single, StartsAlone
      <3> QED BY <3>2, <3>3
    <2>5. FoundNone(a)'
      <3> SUFFICES ASSUME NEW d \in Caller, arg'[d].account = a, pc'[d] \in BuildingPC
                   PROVE  ~Running(instances[a])
        BY <2>2 DEF FoundNone
      <3>1. CASE d # c
        BY <1>1, <2>1, <3>1 DEF Single, FoundNone
      <3>2. CASE d = c
        <4>1. x.account = a /\ label \in BuildingPC /\ label \in StartingPC /\ label # "check"
          BY <1>1, <3>2 DEF BuildingPC, StartingPC
        <4>2. arg[c].account = a /\ (pc[c] \in BuildingPC \/ ~Running(instances[a]))
          BY <4>1
        <4> QED BY <2>1, <4>2 DEF Single, FoundNone
      <3> QED BY <3>1, <3>2
    <2> QED BY <2>3, <2>4, <2>5 DEF Single
  <1> QED BY <1>2 DEF Lone

\* A handler that goes on, and starts nothing.
LEMMA LoneGoto ==
    ASSUME Lone, Inductive', Books', NEW c \in Caller, NEW label, Goto(c, label),
           UNCHANGED <<instances, owner, status>>,
           label \in StartingPC => label \in BuildingPC /\ pc[c] \in BuildingPC
    PROVE  Lone'
  <1>1. PICK x : x = IF label = "idle" THEN NoArg ELSE arg[c]
    OBVIOUS
  <1>2. Stand(c, label, x) /\ rivals' = rivals
    BY <1>1 DEF Goto, Enter, history
  <1>3. ASSUME label \in StartingPC
        PROVE  x = arg[c] /\ pc[c] \in StartingPC /\ pc[c] \in BuildingPC
    BY <1>1, <1>3 DEF StartingPC, BuildingPC
  <1> QED BY <1>2, <1>3, LoneStand

\* A handler that is called to stop, delete or update.
LEMMA LoneReceive ==
    ASSUME Lone, Inductive', Books', NEW c \in Caller, NEW label, NEW x, Receive(c, label, x),
           label \notin StartingPC, instances' = instances,
           \A i \in Inst : status'[i] = "running" => status[i] = "running" /\ owner'[i] = owner[i]
    PROVE  Lone'
  <1>1. Stand(c, label, x) /\ rivals \subseteq rivals'
    BY DEF Receive
  <1> QED BY <1>1, LoneStand

LEMMA LoneRequest ==
    ASSUME Lone, Inductive', Books', NEW c \in Caller, Request(c)
    PROVE  Lone'
  <1> USE DEF store, objects, loops, StartingPC
  <1>1. ASSUME NEW b \in Account, StartRead(c, b) PROVE Lone'
    <2>1. PICK x : x = ArgOf(b, row[b], row[b])
      OBVIOUS
    <2>2. Receive(c, "check", x) /\ UNCHANGED <<instances, owner, status>>
      BY <1>1, <2>1 DEF StartRead
    <2>3. ASSUME NEW a \in Account \ rivals', x.account = a PROVE ~Starting(a)
      BY <2>2, <2>3 DEF Receive
    <2>4. Stand(c, "check", x) /\ rivals \subseteq rivals'
      BY <2>2 DEF Receive
    <2> QED BY <2>2, <2>3, <2>4, LoneStand
  <1>2. ASSUME NEW b \in Account, DeleteUnstarted(c, b) PROVE Lone'
    <2>1. PICK x : x = StopArg(b, TRUE)
      OBVIOUS
    <2>2. Receive(c, "erase", x) /\ UNCHANGED <<instances, owner, status>>
      BY <1>2, <2>1 DEF DeleteUnstarted
    <2> QED BY <2>2, LoneReceive
  <1>3. ASSUME NEW b \in Account, NEW delete \in BOOLEAN, StopSignal(c, b, delete) PROVE Lone'
    <2>1. PICK x : x = StopArg(b, delete)
      OBVIOUS
    <2>2. Receive(c, "unclient", x) /\ UNCHANGED <<instances, owner>>
      BY <1>3, <2>1 DEF StopSignal
    <2>3. PICK i \in Inst : i = instances[b]
      BY <1>3 DEF StopSignal, Lone, Inductive, TypeOK
    <2>4. \A j \in Inst : status'[j] = IF j = i THEN "stopped" ELSE status[j]
      BY <1>3, <2>3 DEF StopSignal, StoppedStatus, Lone, Inductive, TypeOK
    <2> QED BY <2>2, <2>4, LoneReceive
  <1>4. ASSUME NEW b \in Account, NEW q \in Proxy \cup {Direct}, UpdateRead(c, b, q) PROVE Lone'
    <2>1. PICK x : x = ArgOf(b, row[b], q)
      OBVIOUS
    <2>2. Receive(c, "update", x) /\ UNCHANGED <<instances, owner, status>>
      BY <1>4, <2>1 DEF UpdateRead
    <2> QED BY <2>2, LoneReceive
  <1> QED BY <1>1, <1>2, <1>3, <1>4 DEF Request

\* The start that has found none running puts its object in the map.
LEMMA LonePut ==
    ASSUME Lone, Inductive', Books', NEW c \in Caller, StartFailed(c) \/ StartPublish(c)
    PROVE  Lone'
  <1> USE DEF store, objects, loops
  <1>1. PICK i, b : i = arg[c].inst /\ b = arg[c].account
    OBVIOUS
  <1>t. TypeOK /\ pc[c] \in {"failed", "publish"}
    BY DEF Lone, Inductive, StartFailed, StartPublish
  <1>2. i \in Inst /\ b \in Account /\ owner[i] = b
    BY <1>1, <1>t DEF Lone, Inductive, Ownership, HeldObject, Books, HeldOwn, Holding, HoldingPC
  <1>3. PICK s \in {"running", "error"}, label \in {"spawn", "idle"} :
            /\ status' = [status EXCEPT ![i] = s] /\ instances' = [instances EXCEPT ![b] = i]
            /\ owner' = owner /\ Goto(c, label)
    BY <1>1 DEF StartFailed, StartPublish
  <1>4. PICK x : x = IF label = "idle" THEN NoArg ELSE arg[c]
    OBVIOUS
  <1>5. rivals' = rivals /\ Stand(c, label, x)
    BY <1>3, <1>4 DEF Goto, Enter, history
  <1>6. /\ pc'[c] = label
        /\ \A d \in Caller : d # c => arg'[d] = arg[d] /\ pc'[d] = pc[d]
    BY <1>t, <1>5 DEF TypeOK, Stand
  <1>7. /\ \A j \in Inst : status'[j] = IF j = i THEN s ELSE status[j]
        /\ \A a \in Account : instances'[a] = IF a = b THEN i ELSE instances[a]
    BY <1>t, <1>2, <1>3 DEF TypeOK
  <1>8. ASSUME NEW a \in Account \ rivals PROVE Single(a)'
    <2>1. Single(a)
      BY DEF Lone
    <2>2. label \notin StartingPC /\ label \notin BuildingPC
      BY DEF StartingPC, BuildingPC
    <2>3. StartsAlone(a)'
      BY <1>6, <2>1, <2>2 DEF Single, StartsAlone
    <2>4. CASE a = b
      <3>1. pc[c] \in BuildingPC /\ pc[c] \in StartingPC
        BY <1>t DEF BuildingPC, StartingPC
      <3>2. ~Running(instances[b])
        BY <1>1, <2>1, <2>4, <3>1 DEF Single, FoundNone
      <3>3. MappedAt(b)'
        BY <1>2, <1>3, <1>7, <2>1, <2>4, <3>2 DEF Single, MappedAt, Running
      <3>4. \A d \in Caller : (arg'[d].account = b /\ pc'[d] \in BuildingPC) => FALSE
        <4> SUFFICES ASSUME NEW d \in Caller, arg'[d].account = b, pc'[d] \in BuildingPC
                     PROVE  FALSE
          OBVIOUS
        <4>1. d # c /\ arg[d].account = b /\ pc[d] \in StartingPC
          BY <1>6, <2>2 DEF BuildingPC, StartingPC
        <4> QED BY <1>1, <2>1, <2>4, <3>1, <4>1 DEF Single, StartsAlone
      <3> QED BY <2>3, <2>4, <3>3, <3>4 DEF Single, FoundNone
    <2>5. CASE a # b
      <3>1. instances'[a] = instances[a]
        BY <1>7, <2>5
      <3>2. ASSUME NEW j \in Inst, owner[j] = a PROVE status'[j] = status[j]
        BY <1>2, <1>7, <2>5, <3>2
      <3>3. MappedAt(a)'
        BY <1>3, <2>1, <3>1, <3>2 DEF Single, MappedAt, Running
      <3>4. Running(instances[a])' <=> Running(instances[a])
        <4>1. instances[a] # None => instances[a] \in Inst /\ owner[instances[a]] = a
          BY <1>t DEF TypeOK, Lone, Books, MapOwn
        <4> QED BY <3>1, <3>2, <4>1 DEF Running
      <3>5. FoundNone(a)'
        BY <1>6, <2>1, <2>2, <3>4 DEF Single, FoundNone
      <3> QED BY <2>3, <3>3, <3>5 DEF Single
    <2> QED BY <2>4, <2>5
  <1> QED BY <1>5, <1>8 DEF Lone

LEMMA LoneCaller ==
    ASSUME Lone, Inductive', Books', NEW c \in Caller, CallerStep(c)
    PROVE  Lone'
  <1> USE DEF store, objects, loops, StartingPC, BuildingPC
  <1>1. CASE StartCheck(c)
    <2>1. PICK i \in Inst : /\ owner[i] = None /\ owner' = [owner EXCEPT ![i] = arg[c].account]
                            /\ Enter(c, "build", [arg[c] EXCEPT !.inst = i])
      BY <1>1 DEF StartCheck
    <2>2. PICK x : x = [arg[c] EXCEPT !.inst = i]
      OBVIOUS
    <2>3. x.account = arg[c].account /\ Stand(c, "build", x) /\ rivals' = rivals
      BY <2>1, <2>2 DEF Lone, Inductive, TypeOK, Arg, Enter, history
    <2>4. Fresh(i)
      BY <2>1 DEF Lone, Inductive, Ownership, UnallocatedFresh
    <2>5. /\ UNCHANGED <<instances, status>> /\ pc[c] = "check"
          /\ ~Running(instances[arg[c].account])
      BY <1>1 DEF StartCheck, NotRunning
    <2>6. \A j \in Inst : status'[j] = "running" => status[j] = "running" /\ owner'[j] = owner[j]
      BY <2>1, <2>4, <2>5 DEF Fresh, Lone, Inductive, TypeOK
    <2> QED BY <2>3, <2>5, <2>6, LoneStand
  <1>2. CASE StartFailed(c) \/ StartPublish(c)
    BY <1>2, LonePut
  <1>3. CASE StartAlready(c) \/ StartBuild(c) \/ StartSpawn(c) \/ DeleteRow(c) \/ UpdateClients(c)
    BY <1>3, LoneGoto DEF StartAlready, StartBuild, StartSpawn, DeleteRow, UpdateClients
  <1>4. CASE StartToken(c)
    <2>1. PICK label \in {"publish", "failed"} : Goto(c, label)
      BY <1>4 DEF StartToken
    <2> QED BY <1>4, <2>1, LoneGoto DEF StartToken
  <1>5. CASE StopClients(c)
    <2>1. PICK label \in {"erase", "idle"} : Goto(c, label)
      BY <1>5 DEF StopClients, AfterStop
    <2> QED BY <1>5, <2>1, LoneGoto DEF StopClients
  <1>6. CASE UpdateRow(c)
    <2>1. PICK label \in {"idle", "reclient"} : Goto(c, label)
      BY <1>6 DEF UpdateRow
    <2> QED BY <1>6, <2>1, LoneGoto DEF UpdateRow
  <1> QED BY <1>1, <1>2, <1>3, <1>4, <1>5, <1>6 DEF CallerStep

LEMMA LoneLoop ==
    ASSUME Lone, Inductive', Books', NEW i \in Inst, LoopStep(i) \/ Expire(i)
    PROVE  Lone'
  <1>1. UNCHANGED <<instances, owner, pc, arg, rivals>>
    BY DEF LoopStep, LoopTop, LoopWoken, LoopTimer, LoopCheck, LoopRefreshed, LoopRetry,
           LoopGiveUp, LoopFailed, LoopModels, Expire, LoopUnchanged, store, objects, loops,
           callers, history
  <1>2. \A j \in Inst : status'[j] = "running" => status[j] = "running"
    BY DEF LoopStep, LoopTop, LoopWoken, LoopTimer, LoopCheck, LoopRefreshed, LoopRetry,
           LoopGiveUp, LoopFailed, LoopModels, Expire, FailedStatus, RefreshedStatus,
           Lone, Inductive, TypeOK, objects
  <1>3. ASSUME NEW a \in Account \ rivals PROVE Single(a)'
    <2>1. Running(instances[a])' => Running(instances[a])
      BY <1>1, <1>2 DEF Lone, Inductive, TypeOK, Running
    <2> QED BY <1>1, <1>2, <2>1 DEF Lone, Single, StartsAlone, FoundNone, MappedAt, Running
  <1> QED BY <1>1, <1>3 DEF Lone

LEMMA LoneStep == Lone /\ [Next]_vars => Lone'
  <1> SUFFICES ASSUME Lone, [Next]_vars PROVE Lone'
    OBVIOUS
  <1>1. Inductive' /\ Books'
    BY InductiveStep, BooksStep DEF Lone
  <1>2. ASSUME NEW c \in Caller, Request(c) \/ CallerStep(c) PROVE Lone'
    BY <1>1, <1>2, LoneRequest, LoneCaller
  <1>3. ASSUME NEW i \in Inst, LoopStep(i) \/ Expire(i) PROVE Lone'
    BY <1>1, <1>3, LoneLoop
  <1>4. CASE UNCHANGED vars
    BY <1>1, <1>4 DEF Lone, Single, StartsAlone, FoundNone, MappedAt, Running, vars, store,
       objects, loops, callers, history
  <1> QED BY <1>2, <1>3, <1>4 DEF Next

LEMMA LoneInit == Init => Lone
  <1> SUFFICES ASSUME Init PROVE Lone
    OBVIOUS
  <1>1. Inductive /\ Books
    BY ApartInit DEF Apart
  <1>2. \A a \in Account : Single(a)
    BY DEF Init, Single, StartsAlone, FoundNone, MappedAt, Running, StartingPC, BuildingPC
  <1> QED BY <1>1, <1>2 DEF Lone

\* One instance of an account runs at most, however stops, deletes, updates and
\* refresh loops interleave with its starts, if no two starts of it met.
THEOREM OneRuns == Spec => []OneRunningPerAccount
  <1>1. ASSUME Lone, NEW i \in Inst, Running(i) PROVE owner[i] \in Account
    <2>1. owner[i] # None
      BY <1>1 DEF Lone, Inductive, Ownership, UnallocatedFresh, Fresh, Running
    <2> QED BY <1>1, <2>1 DEF Lone, Inductive, TypeOK
  <1>2. Lone => OneRunningPerAccount
    BY <1>1 DEF OneRunningPerAccount, Lone, Single, MappedAt
  <1> QED BY <1>2, LoneInit, LoneStep, PTL DEF Spec
=============================================================================
