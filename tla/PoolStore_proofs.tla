-------------------------- MODULE PoolStore_proofs --------------------------
(***************************************************************************)
(* For any number of accounts, pools and requests in flight: the types of  *)
(* PoolStore; an account belongs to at most one pool; and the two files    *)
(* implement the registry of PoolRegistry, whenever the process dies.      *)
(***************************************************************************)
EXTENDS PoolStore, TLAPS

\* No account is listed by two pools of the file contents f.
ExclusiveIn(f) ==
    \A p, q \in Pool, a \in Account : (Listed(f, p, a) /\ Listed(f, q, a)) => p = q

\* Where an operation holds the lock of pools.json, and where that of
\* accounts.json: DeleteAccount holds it to the end.
InPools(c) == pc[c] \in {"readPools", "truncatePools", "writePools"}
InAccounts(c) == pc[c] \in {"readAccounts", "truncateAccounts", "writeAccounts"} \/ Forgetting(c)

\* Only the holder of a lock is between taking it and returning.
LocksHeld ==
    \A c \in Caller : /\ InPools(c) => poolsMu = c
                      /\ InAccounts(c) => accountMu = c

\* What a caller is about to write is what its operation makes of the file it
\* has read; until the file is truncated that is what the file holds, and then
\* the file is empty.
PoolCopies ==
    \A c \in Caller :
        /\ pc[c] = "truncatePools" => old[c].pools = pools
        /\ pc[c] = "writePools" => pools = NoPools
        /\ pc[c] \in {"truncatePools", "writePools"} =>
              /\ copy[c].pools = NewPools(c, old[c].pools)
              /\ ~NothingToWrite(c, old[c].pools)
              /\ ExclusiveIn(old[c].pools)

AccountCopies ==
    \A c \in Caller :
        /\ pc[c] = "truncateAccounts" => old[c].accounts = accounts
        /\ pc[c] = "writeAccounts" => accounts = {}
        /\ pc[c] \in {"truncateAccounts", "writeAccounts"} =>
              copy[c].accounts = NewAccounts(c, old[c].accounts)

\* What an operation knows of its arguments.
Arguments ==
    \A c \in Caller :
        /\ op[c].kind \in AccountKinds \cup {"leave", "join"} => op[c].account \in Account
        /\ op[c].kind \in PoolKinds \cup {"join"} => op[c].pool \in Pool
        /\ pc[c] \in {"lockAccounts", "readAccounts", "truncateAccounts", "writeAccounts"} =>
              op[c].kind \in AccountKinds
        /\ pc[c] = "verify" => op[c].kind = "join"
        /\ pc[c] \in {"lockPools", "readPools", "truncatePools", "writePools"} =>
              op[c].kind \in PoolKinds \cup {"join", "deleteAccount"}
        /\ Forgetting(c) => op[c].account \notin accounts
        /\ pc[c] = "idle" => op[c] = NoOp

\* The strengthening of Exclusive that every step preserves.
Inductive == /\ TypeOK /\ LocksHeld /\ PoolCopies /\ AccountCopies /\ Arguments
             /\ ExclusiveIn(pools)

-----------------------------------------------------------------------------
(***************************************************************************)
(* What an operation makes of a file.                                      *)
(***************************************************************************)

\* The new contents of pools.json are a file's contents again.
LEMMA NewPoolsType ==
    ASSUME NEW c \in Caller, NEW f \in File,
           op[c].kind \in PoolKinds \cup {"join"} => op[c].pool \in Pool,
           op[c].kind \in AccountKinds \cup {"leave", "join"} => op[c].account \in Account,
           ~NothingToWrite(c, f)
    PROVE  NewPools(c, f) \in File
  <1> USE DEF NewPools, File, PoolKinds, AccountKinds
  <1>1. CASE op[c].kind = "addPool"
    BY <1>1
  <1>2. CASE op[c].kind = "deletePool"
    BY <1>2
  <1>3. CASE op[c].kind = "join"
    BY <1>3 DEF NothingToWrite, PoolGone
  <1>4. CASE op[c].kind = "leave"
    BY <1>4
  <1>5. CASE op[c].kind = "deleteAccount"
    BY <1>5 DEF MembersAfterDelete
  <1>6. CASE op[c].kind \notin {"addPool", "deletePool", "join", "leave", "deleteAccount"}
    BY <1>6
  <1> QED BY <1>1, <1>2, <1>3, <1>4, <1>5, <1>6

\* An operation that writes leaves every account in at most one pool: the
\* check of handleAddAccountToPool for another pool is the one that matters.
LEMMA NewPoolsExclusive ==
    ASSUME NEW c \in Caller, NEW f \in File, ExclusiveIn(f), ~NothingToWrite(c, f)
    PROVE  ExclusiveIn(NewPools(c, f))
  <1> USE DEF NewPools, File, ExclusiveIn, Listed
  <1>1. CASE op[c].kind = "addPool"
    BY <1>1
  <1>2. CASE op[c].kind = "deletePool"
    BY <1>2
  <1>3. CASE op[c].kind = "join"
    <2>1. \A p \in f.pools \ {op[c].pool} : <<p, op[c].account>> \notin f.member
      BY <1>3 DEF NothingToWrite, InOtherPool
    <2>2. \A p, a : <<p, a>> \in f.member => p \in f.pools
      OBVIOUS
    <2>3. NewPools(c, f).member = f.member \cup {<<op[c].pool, op[c].account>>}
      BY <1>3
    <2> QED BY <2>1, <2>2, <2>3
  <1>4. CASE op[c].kind = "leave"
    BY <1>4
  <1>5. CASE op[c].kind = "deleteAccount"
    BY <1>5 DEF MembersAfterDelete
  <1>6. CASE op[c].kind \notin {"addPool", "deletePool", "join", "leave", "deleteAccount"}
    BY <1>6
  <1> QED BY <1>1, <1>2, <1>3, <1>4, <1>5, <1>6

-----------------------------------------------------------------------------
(***************************************************************************)
(* Type correctness.                                                       *)
(***************************************************************************)

\* The end of an operation keeps every variable's type.
LEMMA ReturnTypes ==
    ASSUME TypeOK, NEW c \in Caller, Return(c)
    PROVE  /\ pc' \in [Caller -> CallerPC]
           /\ op' \in [Caller -> [kind : AccountKinds \cup PoolKinds \cup {"join", "none"},
                                  account : Account \cup {None}, pool : Pool \cup {None}]]
           /\ copy' \in [Caller -> [accounts : SUBSET Account, pools : File]]
           /\ old' \in [Caller -> [accounts : SUBSET Account, pools : File]]
           /\ accountMu' \in Caller \cup {None} /\ poolsMu' \in Caller \cup {None}
  <1>1. NoOp \in [kind : AccountKinds \cup PoolKinds \cup {"join", "none"},
                  account : Account \cup {None}, pool : Pool \cup {None}]
    BY DEF NoOp
  <1>2. NoCopy \in [accounts : SUBSET Account, pools : File]
    BY DEF NoCopy, NoPools, File
  <1>3. "idle" \in CallerPC
    BY DEF CallerPC
  <1> QED BY <1>1, <1>2, <1>3 DEF TypeOK, Return, Goto

\* A request keeps every variable's type, and so does its first step.
LEMMA RequestTypes ==
    ASSUME TypeOK, NEW c \in Caller, Request(c)
    PROVE  TypeOK'
  <1> USE DEF TypeOK, Start, Goto, CallerPC, disk, locks, locals
  <1>1. ASSUME NEW a \in Account, NEW kind \in AccountKinds, AccountRequest(c, kind, a)
        PROVE  TypeOK'
    BY <1>1 DEF AccountRequest
  <1>2. ASSUME NEW p \in Pool, NEW kind \in PoolKinds, PoolRequest(c, kind, p)
        PROVE  TypeOK'
    BY <1>2 DEF PoolRequest
  <1>3. ASSUME NEW a \in Account, NEW p \in Pool, LeaveRequest(c, a, p)
        PROVE  TypeOK'
    BY <1>3 DEF LeaveRequest, PoolKinds
  <1>4. ASSUME NEW a \in Account, NEW p \in Pool, JoinRequest(c, a, p)
        PROVE  TypeOK'
    BY <1>4 DEF JoinRequest
  <1> QED BY <1>1, <1>2, <1>3, <1>4 DEF Request

\* What is written to accounts.json is a set of accounts.
LEMMA NewAccountsType ==
    ASSUME NEW c \in Caller, NEW f \in SUBSET Account,
           op[c].kind \in AccountKinds => op[c].account \in Account
    PROVE  NewAccounts(c, f) \in SUBSET Account
  <1>1. CASE op[c].kind = "addAccount"
    BY <1>1 DEF NewAccounts, AccountKinds
  <1>2. CASE op[c].kind = "deleteAccount"
    BY <1>2 DEF NewAccounts
  <1>3. CASE op[c].kind \notin {"addAccount", "deleteAccount"}
    BY <1>3 DEF NewAccounts
  <1> QED BY <1>1, <1>2, <1>3

\* So do the steps of an operation.
LEMMA StepTypes ==
    ASSUME TypeOK, Arguments, NEW c \in Caller, Step(c)
    PROVE  TypeOK'
  <1> USE DEF TypeOK, Goto, CallerPC, disk, locks, locals
  <1>0. ASSUME Return(c), UNCHANGED <<pools, accounts, ids, crashes>> PROVE TypeOK'
    BY <1>0, ReturnTypes
  <1>1. CASE Verify(c)
    BY <1>1, <1>0 DEF Verify
  <1>2. CASE LockAccounts(c)
    BY <1>2 DEF LockAccounts
  <1>3. CASE ReadAccounts(c)
    <2>1. CASE Return(c)
      BY <1>3, <1>0, <2>1 DEF ReadAccounts
    <2>2. CASE ~Return(c)
      <3>1. NewAccounts(c, accounts) \in SUBSET Account
        BY NewAccountsType DEF Arguments
      <3>2. copy[c] \in [accounts : SUBSET Account, pools : File]
            /\ old[c] \in [accounts : SUBSET Account, pools : File]
        OBVIOUS
      <3>3. /\ copy' = [copy EXCEPT ![c].accounts = NewAccounts(c, accounts)]
            /\ old' = [old EXCEPT ![c].accounts = accounts]
        BY <1>3, <2>2 DEF ReadAccounts
      <3>4. {[copy[c] EXCEPT !.accounts = NewAccounts(c, accounts)], [old[c] EXCEPT !.accounts = accounts]}
               \subseteq [accounts : SUBSET Account, pools : File]
        BY <3>1, <3>2
      <3>5. /\ copy' \in [Caller -> [accounts : SUBSET Account, pools : File]]
            /\ old' \in [Caller -> [accounts : SUBSET Account, pools : File]]
        BY <3>3, <3>4
      <3> QED BY <1>3, <2>2, <3>5 DEF ReadAccounts
    <2> QED BY <2>1, <2>2
  <1>4. CASE TruncateAccounts(c)
    BY <1>4 DEF TruncateAccounts
  <1>5. CASE WriteAccounts(c)
    <2>1. accounts' \in SUBSET Account
      BY <1>5 DEF WriteAccounts
    <2>2. CASE Return(c)
      BY <1>5, <2>1, <2>2, ReturnTypes DEF WriteAccounts
    <2>3. CASE ~Return(c)
      BY <1>5, <2>1, <2>3 DEF WriteAccounts, AfterWrite
    <2> QED BY <2>2, <2>3
  <1>6. CASE LockPools(c)
    BY <1>6 DEF LockPools
  <1>7. CASE ReadPools(c)
    <2>1. CASE NothingToWrite(c, pools)
      BY <1>7, <1>0, <2>1 DEF ReadPools
    <2>2. CASE ~NothingToWrite(c, pools)
      <3>1. NewPools(c, pools) \in File
        BY <2>2, NewPoolsType DEF Arguments
      <3>2. copy[c] \in [accounts : SUBSET Account, pools : File]
            /\ old[c] \in [accounts : SUBSET Account, pools : File]
        OBVIOUS
      <3>3. /\ copy' = [copy EXCEPT ![c].pools = NewPools(c, pools)]
            /\ old' = [old EXCEPT ![c].pools = pools]
        BY <1>7, <2>2 DEF ReadPools
      <3>4. {[copy[c] EXCEPT !.pools = NewPools(c, pools)], [old[c] EXCEPT !.pools = pools]}
               \subseteq [accounts : SUBSET Account, pools : File]
        BY <3>1, <3>2
      <3>5. /\ copy' \in [Caller -> [accounts : SUBSET Account, pools : File]]
            /\ old' \in [Caller -> [accounts : SUBSET Account, pools : File]]
        BY <3>3, <3>4
      <3> QED BY <1>7, <2>2, <3>5 DEF ReadPools
    <2> QED BY <2>1, <2>2
  <1>8. CASE TruncatePools(c)
    BY <1>8 DEF TruncatePools, NoPools, File
  <1>9. CASE WritePools(c)
    BY <1>9, ReturnTypes DEF WritePools
  <1> QED BY <1>1, <1>2, <1>3, <1>4, <1>5, <1>6, <1>7, <1>8, <1>9 DEF Step

\* And so does a crash.
LEMMA CrashTypes ==
    ASSUME TypeOK, Crash
    PROVE  TypeOK'
  <1>1. crashes' \in 0 .. Crashes
    BY CrashAssumption DEF TypeOK, Crash
  <1> QED BY <1>1 DEF TypeOK, Crash, CallerPC, NoOp, NoCopy, NoPools, File, disk

-----------------------------------------------------------------------------
(***************************************************************************)
(* The other parts of the invariant, one lemma each.                       *)
(***************************************************************************)

\* A request's own steps disturb nobody else's program counter and locals.
LEMMA OthersUntouched ==
    ASSUME TypeOK, NEW c \in Caller, Request(c) \/ Step(c), NEW d \in Caller, d # c
    PROVE  pc'[d] = pc[d] /\ op'[d] = op[d] /\ copy'[d] = copy[d] /\ old'[d] = old[d]
  <1> USE DEF TypeOK, Goto, locks, locals, Return
  <1>1. CASE Request(c)
    BY <1>1 DEF Request, AccountRequest, PoolRequest, LeaveRequest, JoinRequest, Start
  <1>2. CASE Verify(c)
    BY <1>2 DEF Verify
  <1>3. CASE LockAccounts(c) \/ TruncateAccounts(c) \/ LockPools(c) \/ TruncatePools(c)
    BY <1>3 DEF LockAccounts, TruncateAccounts, LockPools, TruncatePools
  <1>4. CASE ReadAccounts(c)
    BY <1>4 DEF ReadAccounts
  <1>5. CASE WriteAccounts(c)
    BY <1>5 DEF WriteAccounts
  <1>6. CASE ReadPools(c)
    BY <1>6 DEF ReadPools
  <1>7. CASE WritePools(c)
    BY <1>7 DEF WritePools
  <1> QED BY <1>1, <1>2, <1>3, <1>4, <1>5, <1>6, <1>7 DEF Step

\* A lock is taken only when it is free and given up only at the end.
LEMMA LocksStep ==
    ASSUME TypeOK, LocksHeld, Arguments, NEW c \in Caller, Request(c) \/ Step(c)
    PROVE  LocksHeld'
  <1> SUFFICES ASSUME NEW d \in Caller
               PROVE  /\ InPools(d)' => poolsMu' = d
                      /\ InAccounts(d)' => accountMu' = d
    BY DEF LocksHeld
  <1> USE DEF TypeOK, Goto, locks, locals, InPools, InAccounts, Forgetting, LocksHeld
  <1>0. d # c => pc'[d] = pc[d] /\ op'[d] = op[d]
    BY OthersUntouched
  <1>1. CASE Request(c)
    BY <1>0, <1>1 DEF Request, AccountRequest, PoolRequest, LeaveRequest, JoinRequest, Start,
                      PoolKinds
  <1>2. ASSUME Return(c), pc[c] # "idle" PROVE /\ InPools(d)' => poolsMu' = d
                                               /\ InAccounts(d)' => accountMu' = d
    <2>1. CASE d = c
      BY <1>2, <2>1 DEF Return
    <2>2. CASE d # c
      BY <1>0, <1>2, <2>2 DEF Return
    <2> QED BY <2>1, <2>2
  <1>3. CASE Verify(c)
    BY <1>0, <1>2, <1>3 DEF Verify, Arguments
  <1>4. CASE LockAccounts(c)
    BY <1>0, <1>4, NoneAssumption DEF LockAccounts, AccountsFree
  <1>5. CASE ReadAccounts(c)
    BY <1>0, <1>2, <1>5 DEF ReadAccounts
  <1>6. CASE TruncateAccounts(c)
    BY <1>0, <1>6 DEF TruncateAccounts
  <1>7. CASE WriteAccounts(c)
    BY <1>0, <1>2, <1>7 DEF WriteAccounts, AfterWrite
  <1>8. CASE LockPools(c)
    BY <1>0, <1>8, NoneAssumption DEF LockPools, PoolsFree
  <1>9. CASE ReadPools(c)
    BY <1>0, <1>2, <1>9 DEF ReadPools
  <1>10. CASE TruncatePools(c)
    BY <1>0, <1>10 DEF TruncatePools
  <1>11. CASE WritePools(c)
    BY <1>0, <1>2, <1>11 DEF WritePools
  <1> QED BY <1>1, <1>3, <1>4, <1>5, <1>6, <1>7, <1>8, <1>9, <1>10, <1>11 DEF Step

\* What an operation would write depends on what it has read, not on the disk.
LEMMA CopyKept ==
    ASSUME NEW d \in Caller, op'[d] = op[d], old'[d] = old[d]
    PROVE  /\ NewPools(d, old[d].pools)' = NewPools(d, old[d].pools)
           /\ NothingToWrite(d, old[d].pools)' <=> NothingToWrite(d, old[d].pools)
           /\ NewAccounts(d, old[d].accounts)' = NewAccounts(d, old[d].accounts)
           /\ ExclusiveIn(old[d].pools)' <=> ExclusiveIn(old[d].pools)
  BY DEF NewPools, NothingToWrite, NewAccounts, MembersAfterDelete, InOtherPool, PoolGone,
         Listed, ExclusiveIn

\* A caller's copy of pools.json stays what its operation makes of the file.
LEMMA PoolCopiesStep ==
    ASSUME Inductive, NEW c \in Caller, Request(c) \/ Step(c)
    PROVE  PoolCopies'
  <1> SUFFICES ASSUME NEW d \in Caller
               PROVE  /\ pc'[d] = "truncatePools" => old'[d].pools = pools'
                      /\ pc'[d] = "writePools" => pools' = NoPools
                      /\ pc'[d] \in {"truncatePools", "writePools"} =>
                            /\ copy'[d].pools = NewPools(d, old[d].pools)'
                            /\ ~NothingToWrite(d, old[d].pools)'
                            /\ ExclusiveIn(old[d].pools)'
    BY DEF PoolCopies
  <1> USE DEF Inductive, TypeOK, Goto, locks, locals
  <1>0. d # c => pc'[d] = pc[d] /\ op'[d] = op[d] /\ copy'[d] = copy[d] /\ old'[d] = old[d]
    BY OthersUntouched
  <1>1. CASE pc'[d] \notin {"truncatePools", "writePools"}
    BY <1>1
  <1>2. CASE d # c /\ pc'[d] \in {"truncatePools", "writePools"}
    <2>1. poolsMu = d
      BY <1>0, <1>2 DEF LocksHeld, InPools
    <2>2. UNCHANGED pools
      <3>1. pc[c] \notin {"truncatePools", "writePools"}
        BY <1>2, <2>1 DEF LocksHeld, InPools
      <3> QED BY <3>1 DEF Request, AccountRequest, PoolRequest, LeaveRequest, JoinRequest, Start,
                 Step, Verify, LockAccounts, ReadAccounts, TruncateAccounts, WriteAccounts,
                 LockPools, ReadPools, TruncatePools, WritePools, disk
    <2> QED BY <1>0, <1>2, <2>2, CopyKept DEF PoolCopies
  <1>3. CASE d = c /\ pc'[c] = "truncatePools"
    <2>1. ReadPools(c) /\ ~NothingToWrite(c, pools)
      BY <1>3 DEF Request, AccountRequest, PoolRequest, LeaveRequest, JoinRequest, Start, Return,
                  Step, Verify, LockAccounts, ReadAccounts, TruncateAccounts, WriteAccounts,
                  AfterWrite, LockPools, ReadPools, TruncatePools, WritePools
    <2>2. /\ copy'[c].pools = NewPools(c, pools) /\ old'[c].pools = pools
          /\ op'[c] = op[c] /\ pools' = pools
      BY <2>1 DEF ReadPools, disk
    <2>3. NewPools(c, old[c].pools)' = NewPools(c, pools)
      BY <2>2 DEF NewPools, MembersAfterDelete
    <2>4. NothingToWrite(c, old[c].pools)' <=> NothingToWrite(c, pools)
      BY <2>2 DEF NothingToWrite, InOtherPool, PoolGone, Listed
    <2>5. ExclusiveIn(old[c].pools)'
      BY <2>2 DEF ExclusiveIn, Listed
    <2> QED BY <1>3, <2>1, <2>2, <2>3, <2>4, <2>5
  <1>4. CASE d = c /\ pc'[c] = "writePools"
    <2>1. TruncatePools(c)
      BY <1>4 DEF Request, AccountRequest, PoolRequest, LeaveRequest, JoinRequest, Start, Return,
                  Step, Verify, LockAccounts, ReadAccounts, TruncateAccounts, WriteAccounts,
                  AfterWrite, LockPools, ReadPools, TruncatePools, WritePools
    <2>2. /\ op' = op /\ copy' = copy /\ old' = old /\ pc[c] = "truncatePools"
          /\ pools' = NoPools
      BY <2>1 DEF TruncatePools
    <2> QED BY <1>4, <2>2, CopyKept DEF PoolCopies
  <1> QED BY <1>1, <1>2, <1>3, <1>4

\* So does its copy of accounts.json.
LEMMA AccountCopiesStep ==
    ASSUME Inductive, NEW c \in Caller, Request(c) \/ Step(c)
    PROVE  AccountCopies'
  <1> SUFFICES ASSUME NEW d \in Caller
               PROVE  /\ pc'[d] = "truncateAccounts" => old'[d].accounts = accounts'
                      /\ pc'[d] = "writeAccounts" => accounts' = {}
                      /\ pc'[d] \in {"truncateAccounts", "writeAccounts"} =>
                            copy'[d].accounts = NewAccounts(d, old[d].accounts)'
    BY DEF AccountCopies
  <1> USE DEF Inductive, TypeOK, Goto, locks, locals
  <1>0. d # c => pc'[d] = pc[d] /\ op'[d] = op[d] /\ copy'[d] = copy[d] /\ old'[d] = old[d]
    BY OthersUntouched
  <1>1. CASE pc'[d] \notin {"truncateAccounts", "writeAccounts"}
    BY <1>1
  <1>2. CASE d # c /\ pc'[d] \in {"truncateAccounts", "writeAccounts"}
    <2>1. accountMu = d
      BY <1>0, <1>2 DEF LocksHeld, InAccounts
    <2>2. UNCHANGED accounts
      <3>1. pc[c] \notin {"truncateAccounts", "writeAccounts"}
        BY <1>2, <2>1 DEF LocksHeld, InAccounts
      <3> QED BY <3>1 DEF Request, AccountRequest, PoolRequest, LeaveRequest, JoinRequest, Start,
                 Step, Verify, LockAccounts, ReadAccounts, TruncateAccounts, WriteAccounts,
                 LockPools, ReadPools, TruncatePools, WritePools, disk
    <2> QED BY <1>0, <1>2, <2>2, CopyKept DEF AccountCopies
  <1>3. CASE d = c /\ pc'[c] = "truncateAccounts"
    <2>1. ReadAccounts(c) /\ ~Return(c)
      BY <1>3 DEF Request, AccountRequest, PoolRequest, LeaveRequest, JoinRequest, Start, Return,
                  Step, Verify, LockAccounts, ReadAccounts, TruncateAccounts, WriteAccounts,
                  AfterWrite, LockPools, ReadPools, TruncatePools, WritePools
    <2>2. /\ copy'[c].accounts = NewAccounts(c, accounts) /\ old'[c].accounts = accounts
          /\ op'[c] = op[c] /\ accounts' = accounts
      BY <2>1 DEF ReadAccounts, disk
    <2>3. NewAccounts(c, old[c].accounts)' = NewAccounts(c, accounts)
      BY <2>2 DEF NewAccounts
    <2> QED BY <1>3, <2>2, <2>3
  <1>4. CASE d = c /\ pc'[c] = "writeAccounts"
    <2>1. TruncateAccounts(c)
      BY <1>4 DEF Request, AccountRequest, PoolRequest, LeaveRequest, JoinRequest, Start, Return,
                  Step, Verify, LockAccounts, ReadAccounts, TruncateAccounts, WriteAccounts,
                  AfterWrite, LockPools, ReadPools, TruncatePools, WritePools
    <2>2. /\ op' = op /\ copy' = copy /\ old' = old /\ pc[c] = "truncateAccounts"
          /\ accounts' = {}
      BY <2>1 DEF TruncateAccounts
    <2> QED BY <1>4, <2>2, CopyKept DEF AccountCopies
  <1> QED BY <1>1, <1>2, <1>3, <1>4

\* An operation keeps its arguments, and the account it deletes stays deleted.
LEMMA ArgumentsStep ==
    ASSUME Inductive, NEW c \in Caller, Request(c) \/ Step(c)
    PROVE  Arguments'
  <1> USE DEF Inductive, TypeOK, Goto, locks, locals, disk
  <1>1. ASSUME NEW d \in Caller, d # c,
               pc'[d] = pc[d] /\ op'[d] = op[d],
               Forgetting(d) => accounts' = accounts
        PROVE  /\ op'[d].kind \in AccountKinds \cup {"leave", "join"} => op'[d].account \in Account
               /\ op'[d].kind \in PoolKinds \cup {"join"} => op'[d].pool \in Pool
               /\ pc'[d] \in {"lockAccounts", "readAccounts", "truncateAccounts",
                              "writeAccounts"} => op'[d].kind \in AccountKinds
               /\ pc'[d] = "verify" => op'[d].kind = "join"
               /\ pc'[d] \in {"lockPools", "readPools", "truncatePools", "writePools"} =>
                     op'[d].kind \in PoolKinds \cup {"join", "deleteAccount"}
               /\ Forgetting(d)' => op'[d].account \notin accounts'
               /\ pc'[d] = "idle" => op'[d] = NoOp
    BY <1>1 DEF Arguments, Forgetting
  <1>2. ASSUME NEW d \in Caller, d # c, Forgetting(d)
        PROVE  accounts' = accounts
    <2>1. pc[c] \notin {"truncateAccounts", "writeAccounts"}
      BY <1>2 DEF LocksHeld, InAccounts
    <2> QED BY <2>1 DEF Request, AccountRequest, PoolRequest, LeaveRequest, JoinRequest, Start,
               Step, Verify, LockAccounts, ReadAccounts, TruncateAccounts, WriteAccounts,
               LockPools, ReadPools, TruncatePools, WritePools
  <1>3. /\ op'[c].kind \in AccountKinds \cup {"leave", "join"} => op'[c].account \in Account
        /\ op'[c].kind \in PoolKinds \cup {"join"} => op'[c].pool \in Pool
        /\ pc'[c] \in {"lockAccounts", "readAccounts", "truncateAccounts",
                       "writeAccounts"} => op'[c].kind \in AccountKinds
        /\ pc'[c] = "verify" => op'[c].kind = "join"
        /\ pc'[c] \in {"lockPools", "readPools", "truncatePools", "writePools"} =>
              op'[c].kind \in PoolKinds \cup {"join", "deleteAccount"}
        /\ Forgetting(c)' => op'[c].account \notin accounts'
        /\ pc'[c] = "idle" => op'[c] = NoOp
    <2> USE DEF Arguments, Forgetting, AccountKinds, PoolKinds
    <2>0. CASE Return(c)
      BY <2>0 DEF Return, NoOp
    <2>1. CASE Request(c)
      BY <2>1 DEF Request, AccountRequest, PoolRequest, LeaveRequest, JoinRequest, Start
    <2>2. CASE Verify(c)
      BY <2>0, <2>2 DEF Verify
    <2>3. CASE LockAccounts(c) \/ TruncateAccounts(c) \/ LockPools(c) \/ TruncatePools(c)
      BY <2>3 DEF LockAccounts, TruncateAccounts, LockPools, TruncatePools
    <2>4. CASE ReadAccounts(c)
      BY <2>0, <2>4 DEF ReadAccounts
    <2>5. CASE WriteAccounts(c)
      <3>1. CASE op[c].kind = "deleteAccount"
        <4>1. accounts' = old[c].accounts \ {op[c].account}
          BY <2>5, <3>1 DEF WriteAccounts, AccountCopies, NewAccounts
        <4> QED BY <2>5, <3>1, <4>1 DEF WriteAccounts, AfterWrite
      <3>2. CASE op[c].kind # "deleteAccount"
        BY <2>0, <2>5, <3>2 DEF WriteAccounts, AfterWrite
      <3> QED BY <3>1, <3>2
    <2>6. CASE ReadPools(c)
      BY <2>0, <2>6 DEF ReadPools
    <2>7. CASE WritePools(c)
      BY <2>0, <2>7 DEF WritePools
    <2> QED BY <2>1, <2>2, <2>3, <2>4, <2>5, <2>6, <2>7 DEF Step
  <1>4. \A d \in Caller : d # c => pc'[d] = pc[d] /\ op'[d] = op[d]
    BY OthersUntouched
  <1> QED BY <1>1, <1>2, <1>3, <1>4 DEF Arguments

\* No step gives an account a second pool.
LEMMA ExclusiveStep ==
    ASSUME Inductive, NEW c \in Caller, Request(c) \/ Step(c)
    PROVE  ExclusiveIn(pools)'
  <1> USE DEF Inductive, disk
  <1>1. CASE TruncatePools(c)
    BY <1>1 DEF TruncatePools, NoPools, ExclusiveIn, Listed
  <1>2. CASE WritePools(c)
    <2>1. /\ pc[c] = "writePools" /\ pools' = copy[c].pools /\ old[c].pools \in File
      BY <1>2 DEF WritePools, TypeOK
    <2>2. pools' = NewPools(c, old[c].pools) /\ ~NothingToWrite(c, old[c].pools)
          /\ ExclusiveIn(old[c].pools)
      BY <2>1 DEF PoolCopies
    <2>3. ExclusiveIn(NewPools(c, old[c].pools))
      BY <2>1, <2>2, NewPoolsExclusive
    <2> QED BY <2>2, <2>3 DEF ExclusiveIn, Listed
  <1>3. CASE ~TruncatePools(c) /\ ~WritePools(c)
    <2>1. pools' = pools
      BY <1>3 DEF Request, AccountRequest, PoolRequest, LeaveRequest, JoinRequest, Start,
                  Step, Verify, LockAccounts, ReadAccounts, TruncateAccounts, WriteAccounts,
                  LockPools, ReadPools
    <2> QED BY <2>1 DEF ExclusiveIn, Listed
  <1> QED BY <1>1, <1>2, <1>3

-----------------------------------------------------------------------------
(***************************************************************************)
(* The invariant.                                                          *)
(***************************************************************************)

\* The invariant holds of the files as the program leaves them.
LEMMA InductiveInit == Init => Inductive
  <1> SUFFICES ASSUME Init PROVE Inductive
    OBVIOUS
  <1>1. pools \in File
    BY DEF Init, File
  <1>2. ExclusiveIn(pools)
    <2>1. ASSUME NEW p \in Pool, NEW q \in Pool, NEW a \in Account,
                 <<p, a>> \in pools.member, <<q, a>> \in pools.member
          PROVE  p = q
      BY <2>1 DEF Init
    <2> QED BY <2>1 DEF ExclusiveIn, Listed
  <1>3. TypeOK
    BY <1>1, CrashAssumption DEF TypeOK, Init, NoOp, NoCopy, NoPools, File, CallerPC
  <1>4. LocksHeld /\ PoolCopies /\ AccountCopies
    BY DEF Init, LocksHeld, InPools, InAccounts, Forgetting, PoolCopies, AccountCopies
  <1>5. Arguments
    BY DEF Init, Arguments, Forgetting, NoOp, AccountKinds, PoolKinds
  <1> QED BY <1>2, <1>3, <1>4, <1>5 DEF Inductive

\* A crash ends every operation, whatever it has written so far.
LEMMA InductiveCrash == Inductive /\ Crash => Inductive'
  <1> SUFFICES ASSUME Inductive, Crash PROVE Inductive'
    OBVIOUS
  <1>1. TypeOK'
    BY CrashTypes DEF Inductive
  <1>2. LocksHeld' /\ PoolCopies' /\ AccountCopies'
    BY DEF Crash, LocksHeld, InPools, InAccounts, Forgetting, PoolCopies, AccountCopies
  <1>3. Arguments'
    BY DEF Crash, Arguments, Forgetting, NoOp, AccountKinds, PoolKinds
  <1>4. ExclusiveIn(pools)'
    BY DEF Inductive, Crash, disk, ExclusiveIn, Listed
  <1> QED BY <1>1, <1>2, <1>3, <1>4 DEF Inductive

\* Every step preserves the invariant.
LEMMA InductiveStep == Inductive /\ [Next]_vars => Inductive'
  <1> SUFFICES ASSUME Inductive, [Next]_vars PROVE Inductive'
    OBVIOUS
  <1>1. CASE Crash
    BY <1>1, InductiveCrash
  <1>2. ASSUME NEW c \in Caller, Request(c) \/ Step(c) PROVE Inductive'
    <2>1. TypeOK'
      BY <1>2, RequestTypes, StepTypes DEF Inductive
    <2>2. LocksHeld'
      BY <1>2, LocksStep DEF Inductive
    <2>3. PoolCopies' /\ AccountCopies'
      BY <1>2, PoolCopiesStep, AccountCopiesStep
    <2>4. Arguments' /\ ExclusiveIn(pools)'
      BY <1>2, ArgumentsStep, ExclusiveStep
    <2> QED BY <2>1, <2>2, <2>3, <2>4 DEF Inductive
  <1>3. CASE UNCHANGED vars
    <2> USE <1>3 DEF vars, disk, locks, locals, Inductive
    <2>1. TypeOK' /\ LocksHeld' /\ Arguments'
      BY DEF TypeOK, LocksHeld, InPools, InAccounts, Forgetting, Arguments
    <2>2. PoolCopies'
      BY CopyKept DEF PoolCopies
    <2>3. AccountCopies'
      BY CopyKept DEF AccountCopies
    <2>4. ExclusiveIn(pools)'
      BY DEF ExclusiveIn, Listed
    <2> QED BY <2>1, <2>2, <2>3, <2>4
  <1> QED BY <1>1, <1>2, <1>3 DEF Next

\* The invariant holds in every reachable state.
LEMMA InductiveHolds == Spec => []Inductive
  BY InductiveInit, InductiveStep, PTL DEF Spec

\* The files and the operations on them are always what TypeOK says: in
\* particular only a pool that is there ever lists an account.
THEOREM TypeCorrect == Spec => []TypeOK
  <1>1. Inductive => TypeOK
    BY DEF Inductive
  <1> QED BY <1>1, InductiveHolds, PTL

\* An account belongs to at most one pool, with any number of console requests
\* in flight and whenever the process dies: the check in AddAccountToPool and
\* the write after it are under one lock.
THEOREM AtMostOnePool == Spec => []Exclusive
  <1>1. Inductive => Exclusive
    BY DEF Inductive, ExclusiveIn, Exclusive
  <1> QED BY <1>1, InductiveHolds, PTL

-----------------------------------------------------------------------------
(***************************************************************************)
(* The refinement.                                                         *)
(***************************************************************************)

\* While a file is being written it still counts as what its writer has read;
\* otherwise it counts as what it is.
LEMMA PoolsNowIs ==
    ASSUME LocksHeld
    PROVE  /\ \A c \in Caller : pc[c] = "writePools" => PoolsNow = old[c].pools
           /\ (\A c \in Caller : pc[c] # "writePools") => PoolsNow = pools
  <1>1. ASSUME NEW c \in Caller, pc[c] = "writePools" PROVE PoolsNow = old[c].pools
    <2>1. \A d \in Caller : pc[d] = "writePools" => d = c
      BY <1>1 DEF LocksHeld, InPools
    <2>2. (CHOOSE d \in Caller : pc[d] = "writePools") = c
      BY <1>1, <2>1
    <2> QED BY <1>1, <2>2 DEF PoolsNow
  <1>2. ASSUME \A c \in Caller : pc[c] # "writePools" PROVE PoolsNow = pools
    BY <1>2 DEF PoolsNow
  <1> QED BY <1>1, <1>2

LEMMA AccountsNowIs ==
    ASSUME LocksHeld
    PROVE  /\ \A c \in Caller : pc[c] = "writeAccounts" => AccountsNow = old[c].accounts
           /\ (\A c \in Caller : pc[c] # "writeAccounts") => AccountsNow = accounts
  <1>1. ASSUME NEW c \in Caller, pc[c] = "writeAccounts" PROVE AccountsNow = old[c].accounts
    <2>1. \A d \in Caller : pc[d] = "writeAccounts" => d = c
      BY <1>1 DEF LocksHeld, InAccounts
    <2>2. (CHOOSE d \in Caller : pc[d] = "writeAccounts") = c
      BY <1>1, <2>1
    <2> QED BY <1>1, <2>2 DEF AccountsNow
  <1>2. ASSUME \A c \in Caller : pc[c] # "writeAccounts" PROVE AccountsNow = accounts
    BY <1>2 DEF AccountsNow
  <1> QED BY <1>1, <1>2

\* The same of the next state.
LEMMA PoolsNowWillBe ==
    ASSUME LocksHeld'
    PROVE  /\ \A c \in Caller : pc'[c] = "writePools" => PoolsNow' = old'[c].pools
           /\ (\A c \in Caller : pc'[c] # "writePools") => PoolsNow' = pools'
  <1>1. ASSUME NEW c \in Caller, pc'[c] = "writePools" PROVE PoolsNow' = old'[c].pools
    <2>1. \A d \in Caller : pc'[d] = "writePools" => d = c
      BY <1>1 DEF LocksHeld, InPools
    <2>2. (CHOOSE d \in Caller : pc'[d] = "writePools") = c
      BY <1>1, <2>1
    <2> QED BY <1>1, <2>2 DEF PoolsNow
  <1>2. ASSUME \A c \in Caller : pc'[c] # "writePools" PROVE PoolsNow' = pools'
    BY <1>2 DEF PoolsNow
  <1> QED BY <1>1, <1>2

LEMMA AccountsNowWillBe ==
    ASSUME LocksHeld'
    PROVE  /\ \A c \in Caller : pc'[c] = "writeAccounts" => AccountsNow' = old'[c].accounts
           /\ (\A c \in Caller : pc'[c] # "writeAccounts") => AccountsNow' = accounts'
  <1>1. ASSUME NEW c \in Caller, pc'[c] = "writeAccounts" PROVE AccountsNow' = old'[c].accounts
    <2>1. \A d \in Caller : pc'[d] = "writeAccounts" => d = c
      BY <1>1 DEF LocksHeld, InAccounts
    <2>2. (CHOOSE d \in Caller : pc'[d] = "writeAccounts") = c
      BY <1>1, <2>1
    <2> QED BY <1>1, <2>2 DEF AccountsNow
  <1>2. ASSUME \A c \in Caller : pc'[c] # "writeAccounts" PROVE AccountsNow' = accounts'
    BY <1>2 DEF AccountsNow
  <1> QED BY <1>1, <1>2

\* The contents of pools.json change only when a write ends, and then to what
\* the writer's operation makes of them.
LEMMA PoolsNowStep ==
    ASSUME Inductive, Inductive', NEW c \in Caller, Request(c) \/ Step(c)
    PROVE  /\ WritePools(c) => PoolsNow' = NewPools(c, PoolsNow) /\ PoolsNow = old[c].pools
           /\ ~WritePools(c) => PoolsNow' = PoolsNow
  <1> USE DEF Inductive, TypeOK, Goto, disk, locks, locals
  <1>0. \A d \in Caller : d # c => pc'[d] = pc[d] /\ old'[d] = old[d]
    BY OthersUntouched
  <1>1. CASE WritePools(c)
    <2>1. pc[c] = "writePools" /\ pc'[c] = "idle" /\ pools' = NewPools(c, old[c].pools)
      BY <1>1 DEF WritePools, Return, PoolCopies
    <2>2. \A d \in Caller : pc'[d] # "writePools"
      BY <1>0, <2>1 DEF LocksHeld, InPools
    <2> QED BY <1>1, <2>1, <2>2, PoolsNowIs, PoolsNowWillBe
  <1>2. CASE TruncatePools(c)
    <2>1. pc[c] = "truncatePools" /\ pc'[c] = "writePools" /\ old'[c].pools = pools
      BY <1>2 DEF TruncatePools, PoolCopies
    <2>2. \A d \in Caller : pc[d] # "writePools"
      BY <2>1 DEF LocksHeld, InPools
    <2>3. ~WritePools(c)
      BY <2>1 DEF WritePools
    <2> QED BY <2>1, <2>2, <2>3, PoolsNowIs, PoolsNowWillBe
  <1>3. CASE ~WritePools(c) /\ ~TruncatePools(c)
    <2>1. pools' = pools /\ pc[c] # "writePools" /\ pc'[c] # "writePools"
      BY <1>3 DEF Request, AccountRequest, PoolRequest, LeaveRequest, JoinRequest, Start, Return,
                  Step, Verify, LockAccounts, ReadAccounts, TruncateAccounts, WriteAccounts,
                  AfterWrite, LockPools, ReadPools
    <2>2. CASE \E d \in Caller : pc[d] = "writePools"
      <3>1. PICK d \in Caller : pc[d] = "writePools"
        BY <2>2
      <3>2. d # c /\ pc'[d] = "writePools" /\ old'[d] = old[d]
        BY <1>0, <2>1, <3>1
      <3>3. PoolsNow = old[d].pools
        BY <3>1, PoolsNowIs
      <3>4. PoolsNow' = old'[d].pools
        BY <3>2, PoolsNowWillBe
      <3> QED BY <1>3, <3>2, <3>3, <3>4
    <2>3. CASE \A d \in Caller : pc[d] # "writePools"
      BY <1>0, <1>3, <2>1, <2>3, PoolsNowIs, PoolsNowWillBe
    <2> QED BY <2>2, <2>3
  <1> QED BY <1>1, <1>2, <1>3

\* So do those of accounts.json.
LEMMA AccountsNowStep ==
    ASSUME Inductive, Inductive', NEW c \in Caller, Request(c) \/ Step(c)
    PROVE  /\ WriteAccounts(c) => AccountsNow' = NewAccounts(c, AccountsNow)
           /\ ~WriteAccounts(c) => AccountsNow' = AccountsNow
  <1> USE DEF Inductive, TypeOK, Goto, disk, locks, locals
  <1>0. \A d \in Caller : d # c => pc'[d] = pc[d] /\ old'[d] = old[d]
    BY OthersUntouched
  <1>1. CASE WriteAccounts(c)
    <2>1. /\ pc[c] = "writeAccounts" /\ pc'[c] # "writeAccounts"
          /\ accounts' = NewAccounts(c, old[c].accounts)
      BY <1>1 DEF WriteAccounts, AfterWrite, Return, AccountCopies
    <2>2. \A d \in Caller : pc'[d] # "writeAccounts"
      BY <1>0, <2>1 DEF LocksHeld, InAccounts
    <2> QED BY <1>1, <2>1, <2>2, AccountsNowIs, AccountsNowWillBe
  <1>2. CASE TruncateAccounts(c)
    <2>1. /\ pc[c] = "truncateAccounts" /\ pc'[c] = "writeAccounts"
          /\ old'[c].accounts = accounts
      BY <1>2 DEF TruncateAccounts, AccountCopies
    <2>2. \A d \in Caller : pc[d] # "writeAccounts"
      BY <2>1 DEF LocksHeld, InAccounts
    <2>3. ~WriteAccounts(c)
      BY <2>1 DEF WriteAccounts
    <2> QED BY <2>1, <2>2, <2>3, AccountsNowIs, AccountsNowWillBe
  <1>3. CASE ~WriteAccounts(c) /\ ~TruncateAccounts(c)
    <2>1. accounts' = accounts /\ pc[c] # "writeAccounts" /\ pc'[c] # "writeAccounts"
      BY <1>3 DEF Request, AccountRequest, PoolRequest, LeaveRequest, JoinRequest, Start, Return,
                  Step, Verify, LockAccounts, ReadAccounts, LockPools, ReadPools, TruncatePools,
                  WritePools
    <2>2. CASE \E d \in Caller : pc[d] = "writeAccounts"
      <3>1. PICK d \in Caller : pc[d] = "writeAccounts"
        BY <2>2
      <3>2. d # c /\ pc'[d] = "writeAccounts" /\ old'[d] = old[d]
        BY <1>0, <2>1, <3>1
      <3>3. AccountsNow = old[d].accounts
        BY <3>1, AccountsNowIs
      <3>4. AccountsNow' = old'[d].accounts
        BY <3>2, AccountsNowWillBe
      <3> QED BY <1>3, <3>2, <3>3, <3>4
    <2>3. CASE \A d \in Caller : pc[d] # "writeAccounts"
      BY <1>0, <1>3, <2>1, <2>3, AccountsNowIs, AccountsNowWillBe
    <2> QED BY <2>2, <2>3
  <1> QED BY <1>1, <1>2, <1>3

\* A step of one caller changes only what that caller asks for.
LEMMA AskedNowStep ==
    ASSUME TypeOK, NEW c \in Caller, Request(c) \/ Step(c)
    PROVE  /\ crashes' = crashes
           /\ AskedNow' = [AskedNow EXCEPT ![c] =
                              IF Forgetting(c)' THEN [op'[c] EXCEPT !.kind = "forgetAccount"]
                                                ELSE op'[c]]
  <1>1. \A d \in Caller : d # c => pc'[d] = pc[d] /\ op'[d] = op[d]
    BY OthersUntouched
  <1>2. crashes' = crashes
    BY DEF Request, AccountRequest, PoolRequest, LeaveRequest, JoinRequest, Start, Step, Verify,
           LockAccounts, ReadAccounts, TruncateAccounts, WriteAccounts, LockPools, ReadPools,
           TruncatePools, WritePools
  <1> QED BY <1>1, <1>2 DEF AskedNow, Forgetting

\* What the caller of a step has asked for; and when it returns, nothing.
LEMMA AskedNowIs ==
    ASSUME TypeOK, NEW c \in Caller
    PROVE  /\ ~Forgetting(c) => AskedNow[c] = op[c]
           /\ Forgetting(c) => AskedNow[c] = [op[c] EXCEPT !.kind = "forgetAccount"]
  BY DEF AskedNow

LEMMA AskedNowReturned ==
    ASSUME TypeOK, NEW c \in Caller, Request(c) \/ Step(c), Return(c)
    PROVE  AskedNow' = [AskedNow EXCEPT ![c] = Registry!Nothing]
  <1>1. pc'[c] = "idle" /\ op'[c] = NoOp
    BY DEF TypeOK, Return, Goto
  <1> QED BY <1>1, AskedNowStep DEF Forgetting, NoOp, Registry!Nothing

\* A request begins.
LEMMA RequestAsks ==
    ASSUME Inductive, Inductive', NEW c \in Caller, Request(c)
    PROVE  [Registry!Next]_(Registry!vars)
  <1> DEFINE x == op'[c]
  <1>1. pc[c] = "idle" /\ pc'[c] \in {"lockAccounts", "lockPools", "verify"}
    BY DEF Inductive, TypeOK, Request, AccountRequest, PoolRequest, LeaveRequest, JoinRequest,
           Start, Goto
  <1>2. /\ x \in [kind : Registry!Kinds, account : Account \cup {None}, pool : Pool \cup {None}]
        /\ x.kind = "deleteAccount" => pc'[c] = "lockAccounts"
    BY DEF Inductive, TypeOK, Request, AccountRequest, PoolRequest, LeaveRequest, JoinRequest,
           Start, Goto, Registry!Kinds, AccountKinds, PoolKinds
  <1>3. AskedNow[c] = Registry!Nothing
    BY <1>1, AskedNowIs DEF Inductive, Arguments, Forgetting, NoOp, Registry!Nothing
  <1>4. ~Forgetting(c)'
    BY <1>1, <1>2 DEF Forgetting
  <1>5. AskedNow' = [AskedNow EXCEPT ![c] = x] /\ crashes' = crashes
    BY <1>4, AskedNowStep DEF Inductive
  <1>6. PoolsNow' = PoolsNow /\ AccountsNow' = AccountsNow
    <2>1. ~WritePools(c) /\ ~WriteAccounts(c)
      BY <1>1 DEF WritePools, WriteAccounts
    <2> QED BY <2>1, PoolsNowStep, AccountsNowStep
  <1>7. Registry!Ask(c, x)
    BY <1>3, <1>5, <1>6 DEF Registry!Ask
  <1> QED BY <1>2, <1>7 DEF Registry!Next

\* A step in the middle of an operation changes nothing that can be seen.
LEMMA MiddleStutters ==
    ASSUME Inductive, Inductive', NEW c \in Caller, Step(c),
           ~WritePools(c), ~WriteAccounts(c), op'[c] = op[c], Forgetting(c)' <=> Forgetting(c)
    PROVE  UNCHANGED Registry!vars
  <1>1. PoolsNow' = PoolsNow /\ AccountsNow' = AccountsNow
    BY PoolsNowStep, AccountsNowStep
  <1>2. crashes' = crashes /\ AskedNow' = [AskedNow EXCEPT ![c] = AskedNow[c]]
    BY AskedNowStep, AskedNowIs DEF Inductive
  <1>3. AskedNow' = AskedNow
    BY <1>2 DEF AskedNow
  <1> QED BY <1>1, <1>2, <1>3 DEF Registry!vars

\* handleAddAccountToPool's check passes unseen, or the request is refused.
LEMMA VerifyRefines ==
    ASSUME Inductive, Inductive', NEW c \in Caller, Verify(c)
    PROVE  [Registry!Next]_(Registry!vars)
  <1>1. Step(c) /\ ~WritePools(c) /\ ~WriteAccounts(c) /\ op[c].kind = "join"
    BY DEF Step, Verify, WritePools, WriteAccounts, Inductive, Arguments
  <1>2. CASE op[c].account \in accounts
    <2>1. op' = op
      BY <1>2 DEF Verify
    <2>2. ~Forgetting(c) /\ ~Forgetting(c)'
      BY <1>1, <2>1 DEF Forgetting
    <2> QED BY <1>1, <2>1, <2>2, MiddleStutters
  <1>3. CASE op[c].account \notin accounts
    <2>1. Return(c)
      BY <1>3 DEF Verify
    <2>2. AccountsNow = accounts
      <3>1. \A d \in Caller : pc[d] # "writeAccounts"
        BY NoneAssumption DEF Verify, Inductive, LocksHeld, InAccounts
      <3> QED BY <3>1, AccountsNowIs DEF Inductive
    <2>3. AskedNow[c] = op[c]
      BY <1>1, AskedNowIs DEF Inductive, Forgetting
    <2>4. /\ AskedNow' = [AskedNow EXCEPT ![c] = Registry!Nothing] /\ crashes' = crashes
          /\ PoolsNow' = PoolsNow /\ AccountsNow' = AccountsNow
      BY <1>1, <2>1, AskedNowReturned, AskedNowStep, PoolsNowStep, AccountsNowStep DEF Inductive
    <2>5. Registry!RefuseJoin(c)
      BY <1>1, <1>3, <2>2, <2>3, <2>4 DEF Registry!RefuseJoin, Registry!Done
    <2> QED BY <2>5 DEF Registry!Next
  <1> QED BY <1>2, <1>3

\* The updates that find their row gone, in accounts.json.
LEMMA ReadAccountsRefines ==
    ASSUME Inductive, Inductive', NEW c \in Caller, ReadAccounts(c)
    PROVE  [Registry!Next]_(Registry!vars)
  <1>1. Step(c) /\ ~WritePools(c) /\ ~WriteAccounts(c) /\ ~Forgetting(c)
    BY DEF Step, ReadAccounts, WritePools, WriteAccounts, Forgetting
  <1>2. CASE op[c].kind = "updateAccount" /\ op[c].account \notin accounts
    <2>1. Return(c)
      BY <1>2 DEF ReadAccounts
    <2>2. /\ AskedNow' = [AskedNow EXCEPT ![c] = Registry!Nothing] /\ crashes' = crashes
          /\ PoolsNow' = PoolsNow /\ AccountsNow' = AccountsNow /\ AskedNow[c] = op[c]
      BY <1>1, <2>1, AskedNowReturned, AskedNowStep, AskedNowIs, PoolsNowStep, AccountsNowStep
         DEF Inductive
    <2>3. Registry!Update(c)
      BY <1>2, <2>2 DEF Registry!Update, Registry!Done
    <2> QED BY <2>3 DEF Registry!Next
  <1>3. CASE ~(op[c].kind = "updateAccount" /\ op[c].account \notin accounts)
    <2>1. op' = op /\ pc'[c] = "truncateAccounts"
      BY <1>3 DEF ReadAccounts, Goto, Inductive, TypeOK
    <2>2. ~Forgetting(c)'
      BY <2>1 DEF Forgetting
    <2> QED BY <1>1, <2>1, <2>2, MiddleStutters
  <1> QED BY <1>2, <1>3

\* The operations that have nothing to write to pools.json.
LEMMA ReadPoolsRefines ==
    ASSUME Inductive, Inductive', NEW c \in Caller, ReadPools(c)
    PROVE  [Registry!Next]_(Registry!vars)
  <1> DEFINE p == op[c].pool
             a == op[c].account
  <1>1. Step(c) /\ ~WritePools(c) /\ ~WriteAccounts(c)
    BY DEF Step, ReadPools, WritePools, WriteAccounts
  <1>2. PoolsNow = pools
    <2>1. \A d \in Caller : pc[d] # "writePools"
      BY DEF ReadPools, Inductive, LocksHeld, InPools
    <2> QED BY <2>1, PoolsNowIs DEF Inductive
  <1>3. CASE ~NothingToWrite(c, pools)
    <2>1. op' = op /\ pc[c] = "readPools" /\ pc'[c] = "truncatePools"
      BY <1>3 DEF ReadPools, Goto, Inductive, TypeOK
    <2>2. Forgetting(c)' <=> Forgetting(c)
      BY <2>1 DEF Forgetting
    <2> QED BY <1>1, <2>1, <2>2, MiddleStutters
  <1>4. CASE NothingToWrite(c, pools)
    <2>1. /\ AskedNow' = [AskedNow EXCEPT ![c] = Registry!Nothing] /\ crashes' = crashes
          /\ PoolsNow' = PoolsNow /\ AccountsNow' = AccountsNow
      <3>1. Return(c)
        BY <1>4 DEF ReadPools
      <3> QED BY <1>1, <3>1, AskedNowReturned, AskedNowStep, PoolsNowStep, AccountsNowStep
              DEF Inductive
    <2>2. pools \in File
      BY DEF Inductive, TypeOK
    <2>3. op[c].kind # "deleteAccount" => AskedNow[c] = op[c]
      BY AskedNowIs DEF Inductive, Forgetting
    <2>4. CASE op[c].kind = "join"
      <3>1. CASE InOtherPool(c, pools) \/ PoolGone(c, pools)
        <4>1. Registry!RefuseJoin(c)
          BY <1>2, <2>1, <2>3, <2>4, <3>1
             DEF Registry!RefuseJoin, Registry!Done, Registry!ListedElsewhere, InOtherPool,
                 PoolGone, Listed
        <4> QED BY <4>1 DEF Registry!Next
      <3>2. CASE ~InOtherPool(c, pools) /\ ~PoolGone(c, pools)
        <4>1. <<p, a>> \in pools.member
          BY <1>4, <2>4, <3>2 DEF NothingToWrite, Listed
        <4>2. Registry!Join(c)
          BY <1>2, <2>1, <2>3, <2>4, <3>2, <4>1
             DEF Registry!Join, Registry!Done, Registry!ListedElsewhere, InOtherPool, PoolGone,
                 Listed
        <4> QED BY <4>2 DEF Registry!Next
      <3> QED BY <3>1, <3>2
    <2>5. CASE op[c].kind = "leave"
      <3>1. <<p, a>> \notin pools.member
        <4>1. p \notin pools.pools
          BY <1>4, <2>5 DEF NothingToWrite, PoolGone
        <4> QED BY <2>2, <4>1 DEF File
      <3>2. Registry!Leave(c)
        BY <1>2, <2>1, <2>3, <2>5, <3>1 DEF Registry!Leave, Registry!Done
      <3> QED BY <3>2 DEF Registry!Next
    <2>6. CASE op[c].kind = "updatePool"
      <3>1. Registry!Update(c)
        BY <1>2, <2>1, <2>3, <2>6 DEF Registry!Update, Registry!Done
      <3> QED BY <3>1 DEF Registry!Next
    <2>7. CASE op[c].kind = "deleteAccount"
      <3>1. Forgetting(c)
        BY <2>7 DEF Forgetting, ReadPools
      <3>2. AskedNow[c].kind = "forgetAccount" /\ AskedNow[c].account = a
        BY <3>1, AskedNowIs DEF Inductive, TypeOK
      <3>3. a \notin AccountsNow
        <4>1. a \notin accounts /\ accountMu = c
          BY <3>1 DEF Inductive, Arguments, LocksHeld, InAccounts
        <4>2. \A d \in Caller : pc[d] # "writeAccounts"
          BY <4>1 DEF Inductive, LocksHeld, InAccounts, ReadPools
        <4> QED BY <4>1, <4>2, AccountsNowIs DEF Inductive
      <3>4. {m \in pools.member : m[2] # a} = pools.member
        <4>1. \A q \in pools.pools : <<q, a>> \notin pools.member
          BY <1>4, <2>7 DEF NothingToWrite, Listed
        <4> QED BY <2>2, <4>1 DEF File
      <3>5. Registry!ForgetAccount(c)
        BY <1>2, <2>1, <3>2, <3>3, <3>4 DEF Registry!ForgetAccount, Registry!Done
      <3> QED BY <3>5 DEF Registry!Next
    <2>8. op[c].kind \in {"join", "leave", "updatePool", "deleteAccount"}
      BY <1>4 DEF NothingToWrite
    <2> QED BY <2>4, <2>5, <2>6, <2>7, <2>8
  <1> QED BY <1>3, <1>4

\* The end of a write of pools.json is the operation's effect.
LEMMA PoolsWritten ==
    ASSUME Inductive, Inductive', NEW c \in Caller, WritePools(c)
    PROVE  [Registry!Next]_(Registry!vars)
  <1> DEFINE p == op[c].pool
             a == op[c].account
             f == PoolsNow
  <1>1. Step(c) /\ Return(c) /\ ~WriteAccounts(c) /\ pc[c] = "writePools"
    BY DEF Step, WritePools, WriteAccounts
  <1>2. f = old[c].pools /\ PoolsNow' = NewPools(c, f)
    BY <1>1, PoolsNowStep
  <1>3. /\ AskedNow' = [AskedNow EXCEPT ![c] = Registry!Nothing] /\ crashes' = crashes
        /\ AccountsNow' = AccountsNow
    BY <1>1, AskedNowReturned, AskedNowStep, AccountsNowStep DEF Inductive
  <1>4. f \in File /\ ~NothingToWrite(c, f)
    BY <1>1, <1>2 DEF Inductive, TypeOK, PoolCopies
  <1>5. op[c].kind # "deleteAccount" => AskedNow[c] = op[c]
    BY AskedNowIs DEF Inductive, Forgetting
  <1>6. CASE op[c].kind = "addPool"
    <2>1. Registry!AddPool(c)
      BY <1>2, <1>3, <1>4, <1>5, <1>6 DEF Registry!AddPool, Registry!Done, NewPools, File
    <2> QED BY <2>1 DEF Registry!Next
  <1>7. CASE op[c].kind = "deletePool"
    <2>1. Registry!RemovePool(c)
      BY <1>2, <1>3, <1>4, <1>5, <1>7 DEF Registry!RemovePool, Registry!Done, NewPools, File
    <2> QED BY <2>1 DEF Registry!Next
  <1>8. CASE op[c].kind = "join"
    <2>1. p \in f.pools /\ ~(\E q \in f.pools \ {p} : <<q, a>> \in f.member)
      BY <1>4, <1>8 DEF NothingToWrite, InOtherPool, PoolGone, Listed
    <2>2. PoolsNow'.pools = f.pools /\ PoolsNow'.member = f.member \cup {<<p, a>>}
      BY <1>2, <1>4, <1>8 DEF NewPools, File
    <2>3. Registry!Join(c)
      BY <1>3, <1>5, <1>8, <2>1, <2>2 DEF Registry!Join, Registry!Done, Registry!ListedElsewhere
    <2> QED BY <2>3 DEF Registry!Next
  <1>9. CASE op[c].kind = "leave"
    <2>1. Registry!Leave(c)
      BY <1>2, <1>3, <1>4, <1>5, <1>9 DEF Registry!Leave, Registry!Done, NewPools, File
    <2> QED BY <2>1 DEF Registry!Next
  <1>10. CASE op[c].kind = "updatePool"
    <2>1. Registry!Update(c)
      BY <1>2, <1>3, <1>5, <1>10 DEF Registry!Update, Registry!Done, NewPools
    <2> QED BY <2>1 DEF Registry!Next
  <1>11. CASE op[c].kind = "deleteAccount"
    <2>1. Forgetting(c)
      BY <1>1, <1>11 DEF Forgetting
    <2>2. AskedNow[c].kind = "forgetAccount" /\ AskedNow[c].account = a
      BY <2>1, AskedNowIs DEF Inductive, TypeOK
    <2>3. a \notin AccountsNow
      <3>1. a \notin accounts /\ accountMu = c
        BY <2>1 DEF Inductive, Arguments, LocksHeld, InAccounts
      <3>2. \A d \in Caller : pc[d] # "writeAccounts"
        BY <1>1, <3>1 DEF Inductive, LocksHeld, InAccounts
      <3> QED BY <3>1, <3>2, AccountsNowIs DEF Inductive
    <2>4. PoolsNow'.pools = f.pools /\ PoolsNow'.member = {m \in f.member : m[2] # a}
      BY <1>2, <1>4, <1>11 DEF NewPools, MembersAfterDelete, File
    <2>5. Registry!ForgetAccount(c)
      BY <1>3, <2>2, <2>3, <2>4 DEF Registry!ForgetAccount, Registry!Done
    <2> QED BY <2>5 DEF Registry!Next
  <1>12. op[c].kind \in PoolKinds \cup {"join", "deleteAccount"}
    BY <1>1 DEF Inductive, Arguments
  <1> QED BY <1>6, <1>7, <1>8, <1>9, <1>10, <1>11, <1>12 DEF PoolKinds

\* So is the end of a write of accounts.json, a deletion's first half included.
LEMMA AccountsWritten ==
    ASSUME Inductive, Inductive', NEW c \in Caller, WriteAccounts(c)
    PROVE  [Registry!Next]_(Registry!vars)
  <1>1. /\ Step(c) /\ ~WritePools(c) /\ pc[c] = "writeAccounts" /\ ~Forgetting(c)
        /\ op[c].kind \in AccountKinds
    BY DEF Step, WriteAccounts, WritePools, Forgetting, Inductive, Arguments
  <1>2. AccountsNow' = NewAccounts(c, AccountsNow) /\ PoolsNow' = PoolsNow /\ crashes' = crashes
    BY <1>1, AccountsNowStep, PoolsNowStep, AskedNowStep DEF Inductive
  <1>3. AskedNow[c] = op[c]
    BY <1>1, AskedNowIs DEF Inductive
  <1>4. CASE op[c].kind = "deleteAccount"
    <2>1. op' = op /\ pc'[c] = "lockPools"
      BY <1>1, <1>4 DEF WriteAccounts, AfterWrite, Goto, Inductive, TypeOK
    <2>2. Forgetting(c)'
      BY <1>4, <2>1 DEF Forgetting
    <2>3. AskedNow' = [AskedNow EXCEPT ![c].kind = "forgetAccount"]
      BY <1>1, <1>3, <2>1, <2>2, AskedNowStep DEF Inductive, AskedNow
    <2>4. Registry!RemoveAccount(c)
      BY <1>2, <1>3, <1>4, <2>3 DEF Registry!RemoveAccount, NewAccounts
    <2> QED BY <2>4 DEF Registry!Next
  <1>5. CASE op[c].kind # "deleteAccount"
    <2>1. AskedNow' = [AskedNow EXCEPT ![c] = Registry!Nothing]
      <3>1. Return(c)
        BY <1>5 DEF WriteAccounts, AfterWrite
      <3> QED BY <1>1, <3>1, AskedNowReturned DEF Inductive
    <2>2. CASE op[c].kind = "addAccount"
      <3>1. Registry!AddAccount(c)
        BY <1>2, <1>3, <2>1, <2>2 DEF Registry!AddAccount, Registry!Done, NewAccounts
      <3> QED BY <3>1 DEF Registry!Next
    <2>3. CASE op[c].kind = "updateAccount"
      <3>1. Registry!Update(c)
        BY <1>2, <1>3, <2>1, <2>3 DEF Registry!Update, Registry!Done, NewAccounts
      <3> QED BY <3>1 DEF Registry!Next
    <2> QED BY <1>1, <1>5, <2>2, <2>3 DEF AccountKinds
  <1> QED BY <1>4, <1>5

\* A crash in the middle of a write leaves the file empty; in any other place
\* it leaves the file as it was.
LEMMA CrashRefines ==
    ASSUME Inductive, Inductive', Crash
    PROVE  [Registry!Next]_(Registry!vars)
  <1>1. /\ \A c \in Caller : pc'[c] = "idle" /\ op'[c] = NoOp
        /\ crashes' = crashes + 1 /\ pools' = pools /\ accounts' = accounts
    BY DEF Crash, disk
  <1>2. AskedNow' = [c \in Caller |-> Registry!Nothing]
    BY <1>1 DEF AskedNow, Forgetting, NoOp, Registry!Nothing
  <1>3. PoolsNow' = pools /\ AccountsNow' = accounts
    BY <1>1, PoolsNowWillBe, AccountsNowWillBe DEF Inductive
  <1>4. accounts \in {AccountsNow, {}}
    <2>1. CASE \E c \in Caller : pc[c] = "writeAccounts"
      BY <2>1 DEF Inductive, AccountCopies
    <2>2. CASE \A c \in Caller : pc[c] # "writeAccounts"
      BY <2>2, AccountsNowIs DEF Inductive
    <2> QED BY <2>1, <2>2
  <1>5. pools = PoolsNow \/ (pools.pools = {} /\ pools.member = {})
    <2>1. CASE \E c \in Caller : pc[c] = "writePools"
      BY <2>1 DEF Inductive, PoolCopies, NoPools
    <2>2. CASE \A c \in Caller : pc[c] # "writePools"
      BY <2>2, PoolsNowIs DEF Inductive
    <2> QED BY <2>1, <2>2
  <1>6. Registry!Crash
    BY <1>1, <1>2, <1>3, <1>4, <1>5 DEF Registry!Crash
  <1> QED BY <1>6 DEF Registry!Next

\* The files as the program leaves them are a registry.
LEMMA RegistryInit == Init => Registry!Init
  <1> SUFFICES ASSUME Init PROVE Registry!Init
    OBVIOUS
  <1>1. PoolsNow = pools /\ AccountsNow = accounts
    BY DEF Init, PoolsNow, AccountsNow
  <1>2. ASSUME NEW p \in pools.pools, NEW q \in pools.pools, NEW a \in accounts,
               <<p, a>> \in pools.member, <<q, a>> \in pools.member
        PROVE  p = q
    BY <1>2 DEF Init
  <1>3. AskedNow = [c \in Caller |-> Registry!Nothing]
    BY DEF Init, AskedNow, Forgetting, NoOp, Registry!Nothing
  <1> QED BY <1>1, <1>2, <1>3 DEF Init, Registry!Init

\* Every operation on the two files takes effect at one moment, as it was asked
\* for, however the operations of any number of callers interleave and whenever
\* the process dies: the files implement the registry.
THEOREM StoreImplementsRegistry == Spec => StoreIsRegistry
  <1>1. Init => Registry!Init
    BY RegistryInit
  <1>2. Inductive /\ Inductive' /\ [Next]_vars => [Registry!Next]_(Registry!vars)
    <2> SUFFICES ASSUME Inductive, Inductive', [Next]_vars
                 PROVE  [Registry!Next]_(Registry!vars)
      OBVIOUS
    <2>1. CASE Crash
      BY <2>1, CrashRefines
    <2>2. ASSUME NEW c \in Caller, Request(c) \/ Step(c)
          PROVE  [Registry!Next]_(Registry!vars)
      <3>1. CASE Request(c)
        BY <3>1, RequestAsks
      <3>2. CASE Verify(c) \/ ReadAccounts(c) \/ ReadPools(c)
        BY <3>2, VerifyRefines, ReadAccountsRefines, ReadPoolsRefines
      <3>3. CASE WritePools(c) \/ WriteAccounts(c)
        BY <3>3, PoolsWritten, AccountsWritten
      <3>4. CASE LockAccounts(c) \/ TruncateAccounts(c) \/ LockPools(c) \/ TruncatePools(c)
        <4>1. /\ Step(c) /\ ~WritePools(c) /\ ~WriteAccounts(c) /\ op' = op
              /\ Forgetting(c)' <=> Forgetting(c)
          BY <3>4 DEF Step, LockAccounts, TruncateAccounts, LockPools, TruncatePools, WritePools,
                      WriteAccounts, Forgetting, Goto, Inductive, TypeOK
        <4> QED BY <4>1, MiddleStutters
      <3> QED BY <2>2, <3>1, <3>2, <3>3, <3>4 DEF Step
    <2>3. CASE UNCHANGED vars
      BY <2>3 DEF vars, disk, locks, locals, Registry!vars, PoolsNow, AccountsNow, AskedNow,
                  Forgetting
    <2> QED BY <2>1, <2>2, <2>3 DEF Next
  <1> QED BY <1>1, <1>2, InductiveHolds, PTL DEF Spec, StoreIsRegistry, Registry!Spec
=============================================================================
