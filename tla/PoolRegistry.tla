---------------------------- MODULE PoolRegistry ----------------------------
(***************************************************************************)
(* What the account and pool files promise the rest of the program: a set  *)
(* of accounts and a set of pools with their members, in which every       *)
(* request takes effect at one moment between its call and its return      *)
(* (deleting an account takes two), and only the effect that was asked     *)
(* for.  A crash forgets the requests and may empty a file.                *)
(***************************************************************************)
EXTENDS Naturals

CONSTANTS Account, Pool, Caller, None

VARIABLES
    accounts,  \* the accounts there are
    pools,     \* the pools there are
    member,    \* <<p, a>>: account a is listed by pool p
    asked,     \* asked[c]: what caller c has asked for and not yet got
    crashes    \* how often the process has died

vars == <<accounts, pools, member, asked, crashes>>

Kinds == {"addAccount", "deleteAccount", "updateAccount",
          "addPool", "deletePool", "updatePool", "join", "leave"}
Nothing == [kind |-> "none", account |-> None, pool |-> None]

Init ==
    /\ accounts \subseteq Account /\ pools \subseteq Pool
    /\ member \subseteq pools \X accounts
    /\ \A p, q \in pools, a \in accounts :
          (<<p, a>> \in member /\ <<q, a>> \in member) => p = q
    /\ asked = [c \in Caller |-> Nothing]
    /\ crashes = 0

Ask(c, x) ==
    /\ asked[c] = Nothing
    /\ asked' = [asked EXCEPT ![c] = x]
    /\ UNCHANGED <<accounts, pools, member, crashes>>

\* c's request is of this kind, and this step completes it.
Done(c, kind) ==
    /\ asked[c].kind = kind
    /\ asked' = [asked EXCEPT ![c] = Nothing]
    /\ UNCHANGED crashes

AddAccount(c) ==
    /\ Done(c, "addAccount")
    /\ accounts' = accounts \cup {asked[c].account}
    /\ UNCHANGED <<pools, member>>

\* The account goes first and then its place in a pool.
RemoveAccount(c) ==
    /\ asked[c].kind = "deleteAccount"
    /\ accounts' = accounts \ {asked[c].account}
    /\ asked' = [asked EXCEPT ![c].kind = "forgetAccount"]
    /\ UNCHANGED <<pools, member, crashes>>

ForgetAccount(c) ==
    /\ Done(c, "forgetAccount")
    /\ asked[c].account \notin accounts
    /\ member' = {m \in member : m[2] # asked[c].account}
    /\ UNCHANGED <<accounts, pools>>

AddPool(c) ==
    /\ Done(c, "addPool")
    /\ pools' = pools \cup {asked[c].pool}
    /\ UNCHANGED <<accounts, member>>

RemovePool(c) ==
    /\ Done(c, "deletePool")
    /\ pools' = pools \ {asked[c].pool}
    /\ member' = {m \in member : m[1] # asked[c].pool}
    /\ UNCHANGED accounts

ListedElsewhere(c) ==
    \E q \in pools \ {asked[c].pool} : <<q, asked[c].account>> \in member

Join(c) ==
    /\ Done(c, "join")
    /\ asked[c].pool \in pools /\ ~ListedElsewhere(c)
    /\ member' = member \cup {<<asked[c].pool, asked[c].account>>}
    /\ UNCHANGED <<accounts, pools>>

\* Refused for a reason that holds at that moment.
RefuseJoin(c) ==
    /\ Done(c, "join")
    /\ asked[c].account \notin accounts \/ asked[c].pool \notin pools \/ ListedElsewhere(c)
    /\ UNCHANGED <<accounts, pools, member>>

Leave(c) ==
    /\ Done(c, "leave")
    /\ member' = member \ {<<asked[c].pool, asked[c].account>>}
    /\ UNCHANGED <<accounts, pools>>

\* Fields that are not modelled.
Update(c) ==
    /\ Done(c, "updateAccount") \/ Done(c, "updatePool")
    /\ UNCHANGED <<accounts, pools, member>>

Crash ==
    /\ crashes' = crashes + 1
    /\ asked' = [c \in Caller |-> Nothing]
    /\ accounts' \in {accounts, {}}
    /\ \/ UNCHANGED <<pools, member>>
       \/ pools' = {} /\ member' = {}

Next ==
    \/ Crash
    \/ \E c \in Caller :
          \/ \E x \in [kind : Kinds, account : Account \cup {None}, pool : Pool \cup {None}] :
                Ask(c, x)
          \/ AddAccount(c) \/ RemoveAccount(c) \/ ForgetAccount(c)
          \/ AddPool(c) \/ RemovePool(c) \/ Join(c) \/ RefuseJoin(c) \/ Leave(c)
          \/ Update(c)

Spec == Init /\ [][Next]_vars
=============================================================================
