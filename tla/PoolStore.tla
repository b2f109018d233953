----------------------------- MODULE PoolStore -----------------------------
(***************************************************************************)
(* The files accounts.json and pools.json and the handlers that change     *)
(* them (store/account.go, store/pool.go, handler/console_api.go).  Every  *)
(* store operation reads a whole file, changes its copy and writes it back *)
(* under the file's lock; os.WriteFile truncates the file and then writes. *)
(* An empty file reads as no accounts, or no pools.                        *)
(***************************************************************************)
EXTENDS Naturals

CONSTANTS
    Account, Pool,
    Caller,    \* console requests in flight
    None,
    Crashes    \* bound: how often the process dies and is started again

ASSUME NoneAssumption == None \notin Account \cup Pool \cup Caller
ASSUME CrashAssumption == Crashes \in Nat

VARIABLES
    accounts,    \* what accounts.json lists
    pools,       \* what pools.json lists: the pools and <<pool, account>> pairs
    accountMu,   \* who holds accountMu for writing
    poolsMu,     \* who holds poolsMu for writing
    ids,         \* the IDs given so far: a uuid is never given twice
    pc, op,      \* op[c]: what c does, to which account and pool
    copy,        \* copy[c]: the file contents c is about to write
    old,         \* ghost: old[c], the contents c read
    crashes

disk   == <<accounts, pools>>
locks  == <<accountMu, poolsMu>>
locals == <<copy, old>>
vars   == <<disk, locks, ids, pc, op, locals, crashes>>

NoPools == [pools |-> {}, member |-> {}]
NoOp    == [kind |-> "none", account |-> None, pool |-> None]
NoCopy  == [accounts |-> {}, pools |-> NoPools]

AccountKinds == {"addAccount", "deleteAccount", "updateAccount"}
PoolKinds    == {"addPool", "deletePool", "updatePool", "leave"}

\* Files as the program leaves them: listed members exist, each in one pool.
Init ==
    /\ accounts \in SUBSET Account
    /\ pools \in [pools : SUBSET Pool, member : SUBSET (Pool \X Account)]
    /\ pools.member \subseteq pools.pools \X accounts
    /\ \A m, n \in pools.member : m[2] = n[2] => m = n
    /\ accountMu = None /\ poolsMu = None
    /\ ids = accounts \cup pools.pools
    /\ pc = [c \in Caller |-> "idle"]
    /\ op = [c \in Caller |-> NoOp]
    /\ copy = [c \in Caller |-> NoCopy] /\ old = copy
    /\ crashes = 0

Goto(c, label) == pc' = [pc EXCEPT ![c] = label]

\* The operation returns; its deferred unlocks have run.
Return(c) ==
    /\ Goto(c, "idle")
    /\ op' = [op EXCEPT ![c] = NoOp]
    /\ copy' = [copy EXCEPT ![c] = NoCopy] /\ old' = [old EXCEPT ![c] = NoCopy]
    /\ accountMu' = IF accountMu = c THEN None ELSE accountMu
    /\ poolsMu' = IF poolsMu = c THEN None ELSE poolsMu

-----------------------------------------------------------------------------
(* Requests. *)

Start(c, label, kind, a, p) ==
    /\ pc[c] = "idle"
    /\ Goto(c, label)
    /\ op' = [op EXCEPT ![c] = [kind |-> kind, account |-> a, pool |-> p]]
    /\ UNCHANGED <<disk, locks, locals, crashes>>

\* AddAccount, with a new ID; DeleteAccount; UpdateAccount and
\* RegenerateApiKey, which rewrite a row that is there.
AccountRequest(c, kind, a) ==
    /\ kind = "addAccount" <=> a \notin ids
    /\ Start(c, "lockAccounts", kind, a, None)
    /\ ids' = ids \cup {a}

\* AddPool, with a new ID; DeletePool; UpdatePool and RegeneratePoolKey.
PoolRequest(c, kind, p) ==
    /\ kind = "addPool" <=> p \notin ids
    /\ kind # "leave"
    /\ Start(c, "lockPools", kind, None, p)
    /\ ids' = ids \cup {p}

\* handleRemoveAccountFromPool.
LeaveRequest(c, a, p) ==
    /\ {a, p} \subseteq ids
    /\ Start(c, "lockPools", "leave", a, p)
    /\ UNCHANGED ids

\* handleAddAccountToPool first verifies that the account exists.
JoinRequest(c, a, p) ==
    /\ {a, p} \subseteq ids
    /\ Start(c, "verify", "join", a, p)
    /\ UNCHANGED ids

\* GetAccount, a whole read under RLock; 404 when there is no such account.
Verify(c) ==
    /\ pc[c] = "verify" /\ accountMu = None
    /\ IF op[c].account \in accounts
       THEN Goto(c, "lockPools") /\ UNCHANGED <<op, locals, locks>>
       ELSE Return(c)
    /\ UNCHANGED <<disk, ids, crashes>>

-----------------------------------------------------------------------------
(* accounts.json. *)

AccountsShared == TRUE
AccountsFree == accountMu = None

LockAccounts(c) ==
    /\ pc[c] = "lockAccounts" /\ AccountsFree
    /\ accountMu' = c
    /\ Goto(c, "readAccounts")
    /\ UNCHANGED <<disk, poolsMu, ids, op, locals, crashes>>

NewAccounts(c, f) ==
    CASE op[c].kind = "addAccount"    -> f \cup {op[c].account}
      [] op[c].kind = "deleteAccount" -> f \ {op[c].account}
      [] OTHER                        -> f

\* An update of a row that is gone returns without writing.
ReadAccounts(c) ==
    /\ pc[c] = "readAccounts"
    /\ IF op[c].kind = "updateAccount" /\ op[c].account \notin accounts
       THEN Return(c)
       ELSE /\ copy' = [copy EXCEPT ![c].accounts = NewAccounts(c, accounts)]
            /\ old' = [old EXCEPT ![c].accounts = accounts]
            /\ Goto(c, "truncateAccounts")
            /\ UNCHANGED <<op, locks>>
    /\ UNCHANGED <<disk, ids, crashes>>

TruncateAccounts(c) ==
    /\ pc[c] = "truncateAccounts"
    /\ accounts' = {}
    /\ Goto(c, "writeAccounts")
    /\ UNCHANGED <<pools, locks, ids, op, locals, crashes>>

\* DeleteAccount goes on to RemoveAccountFromAllPools with accountMu held.
AfterWrite(c) == IF op[c].kind = "deleteAccount" THEN "lockPools" ELSE "idle"

WriteAccounts(c) ==
    /\ pc[c] = "writeAccounts"
    /\ accounts' = copy[c].accounts
    /\ IF AfterWrite(c) = "idle"
       THEN Return(c)
       ELSE Goto(c, AfterWrite(c)) /\ UNCHANGED <<op, locals, locks>>
    /\ UNCHANGED <<pools, ids, crashes>>

-----------------------------------------------------------------------------
(* pools.json. *)

PoolsFree == poolsMu = None

LockPools(c) ==
    /\ pc[c] = "lockPools" /\ PoolsFree
    /\ poolsMu' = c
    /\ Goto(c, "readPools")
    /\ UNCHANGED <<disk, accountMu, ids, op, locals, crashes>>

(* Below, f is the file as the operation has read it. *)

Listed(f, p, a) == <<p, a>> \in f.member

InOtherPoolUnchecked(c, f) == FALSE
InOtherPool(c, f) == \E p \in f.pools \ {op[c].pool} : Listed(f, p, op[c].account)

PoolGoneUnchecked(c, f) == FALSE
PoolGone(c, f) == op[c].pool \notin f.pools

MembersAfterDelete(c, f) == {m \in f.member : m[2] # op[c].account}

NewPools(c, f) ==
    LET p == op[c].pool
        a == op[c].account
    IN  CASE op[c].kind = "addPool" -> [f EXCEPT !.pools = @ \cup {p}]
          [] op[c].kind = "deletePool" ->
                [pools |-> f.pools \ {p}, member |-> {m \in f.member : m[1] # p}]
          [] op[c].kind = "join" -> [f EXCEPT !.member = @ \cup {<<p, a>>}]
          [] op[c].kind = "leave" -> [f EXCEPT !.member = @ \ {<<p, a>>}]
          [] op[c].kind = "deleteAccount" -> [f EXCEPT !.member = MembersAfterDelete(c, f)]
          [] OTHER -> f

\* Nothing to write: the account is listed already or by another pool (409),
\* the pool is gone, or no pool lists the deleted account.
NothingToWrite(c, f) ==
    LET a == op[c].account
    IN  CASE op[c].kind = "join" ->
                InOtherPool(c, f) \/ Listed(f, op[c].pool, a) \/ PoolGone(c, f)
          [] op[c].kind \in {"leave", "updatePool"} -> PoolGone(c, f)
          [] op[c].kind = "deleteAccount" -> \A q \in f.pools : ~Listed(f, q, a)
          [] OTHER -> FALSE

ReadPools(c) ==
    /\ pc[c] = "readPools"
    /\ IF NothingToWrite(c, pools)
       THEN Return(c)
       ELSE /\ copy' = [copy EXCEPT ![c].pools = NewPools(c, pools)]
            /\ old' = [old EXCEPT ![c].pools = pools]
            /\ Goto(c, "truncatePools")
            /\ UNCHANGED <<op, locks>>
    /\ UNCHANGED <<disk, ids, crashes>>

TruncatePools(c) ==
    /\ pc[c] = "truncatePools"
    /\ pools' = NoPools
    /\ Goto(c, "writePools")
    /\ UNCHANGED <<accounts, locks, ids, op, locals, crashes>>

WritePools(c) ==
    /\ pc[c] = "writePools"
    /\ pools' = copy[c].pools
    /\ Return(c)
    /\ UNCHANGED <<accounts, ids, crashes>>

-----------------------------------------------------------------------------
\* The process dies, at any point, and is started again on the files as they
\* are.  (The migration of a legacy pool is not part of this module.)
Crash ==
    /\ crashes < Crashes
    /\ crashes' = crashes + 1
    /\ accountMu' = None /\ poolsMu' = None
    /\ pc' = [c \in Caller |-> "idle"]
    /\ op' = [c \in Caller |-> NoOp]
    /\ copy' = [c \in Caller |-> NoCopy] /\ old' = [c \in Caller |-> NoCopy]
    /\ UNCHANGED <<disk, ids>>

Step(c) ==
    \/ Verify(c)
    \/ LockAccounts(c) \/ ReadAccounts(c) \/ TruncateAccounts(c) \/ WriteAccounts(c)
    \/ LockPools(c) \/ ReadPools(c) \/ TruncatePools(c) \/ WritePools(c)

Request(c) ==
    \/ \E a \in Account, kind \in AccountKinds : AccountRequest(c, kind, a)
    \/ \E p \in Pool, kind \in PoolKinds : PoolRequest(c, kind, p)
    \/ \E a \in Account, p \in Pool : LeaveRequest(c, a, p) \/ JoinRequest(c, a, p)

Next == Crash \/ \E c \in Caller : Request(c) \/ Step(c)

Spec == Init /\ [][Next]_vars

-----------------------------------------------------------------------------
CallerPC == {"idle", "verify", "lockAccounts", "readAccounts", "truncateAccounts",
             "writeAccounts", "lockPools", "readPools", "truncatePools", "writePools"}
File == {f \in [pools : SUBSET Pool, member : SUBSET (Pool \X Account)] :
            f.member \subseteq f.pools \X Account}

\* Every variable has its type; only a pool that is there lists accounts.
TypeOK ==
    /\ accounts \subseteq Account /\ pools \in File
    /\ accountMu \in Caller \cup {None} /\ poolsMu \in Caller \cup {None}
    /\ ids \subseteq Account \cup Pool
    /\ pc \in [Caller -> CallerPC]
    /\ op \in [Caller -> [kind : AccountKinds \cup PoolKinds \cup {"join", "none"},
                          account : Account \cup {None}, pool : Pool \cup {None}]]
    /\ copy \in [Caller -> [accounts : SUBSET Account, pools : File]]
    /\ old \in [Caller -> [accounts : SUBSET Account, pools : File]]
    /\ crashes \in 0 .. Crashes

\* An account belongs to at most one pool, even after a crash.
Exclusive ==
    \A p, q \in Pool, a \in Account : (Listed(pools, p, a) /\ Listed(pools, q, a)) => p = q

\* With no request in flight, the accounts that pools list exist ("Verify account
\* exists", console_api.go:592).  Refuted: the check and the addition are two steps.
NoDanglingMember ==
    (\A c \in Caller : pc[c] = "idle") => \A m \in pools.member : m[2] \in accounts

(***************************************************************************)
(* The two files as PoolRegistry sees them: one that is being written      *)
(* still counts as what it was before, and an operation that has deleted   *)
(* its account has yet to be forgotten by the pools.                       *)
(***************************************************************************)
AccountsNow == IF \E c \in Caller : pc[c] = "writeAccounts"
               THEN old[CHOOSE c \in Caller : pc[c] = "writeAccounts"].accounts
               ELSE accounts
PoolsNow == IF \E c \in Caller : pc[c] = "writePools"
            THEN old[CHOOSE c \in Caller : pc[c] = "writePools"].pools
            ELSE pools
Forgetting(c) == /\ op[c].kind = "deleteAccount"
              /\ pc[c] \in {"lockPools", "readPools", "truncatePools", "writePools"}
AskedNow == [c \in Caller |-> IF Forgetting(c) THEN [op[c] EXCEPT !.kind = "forgetAccount"]
                                           ELSE op[c]]

Registry == INSTANCE PoolRegistry WITH accounts <- AccountsNow, asked <- AskedNow,
                                       pools <- PoolsNow.pools, member <- PoolsNow.member

\* Every operation takes effect at one moment between its request and its end,
\* as it was asked for: no update is lost, undone or half seen.
StoreIsRegistry == Registry!Spec
=============================================================================
