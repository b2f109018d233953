------------------------ MODULE PoolSettings_proofs ------------------------
(***************************************************************************)
(* For any number of pools, addresses, limits and requests in flight: the  *)
(* types of PoolSettings; what is copied from the files into the tables of *)
(* clients and limits is what the files say, once nothing is being changed.*)
(***************************************************************************)
EXTENDS PoolSettings, TLAPS

PoolRequest == [at : Stages, pool : Pools, old : Settings, new : Settings]
GlobalRequest == [at : GlobalStages, url : Address]

\* The request h is changing the pool p; the global proxy.
On(h, p) == handler[h].at \in Stages /\ handler[h].pool = p
OnGlobal(h) == handler[h].at \in GlobalStages

\* The limit n is in force in p, or RegisterProxy will set it.
LimitFor(p, n) ==
    \/ p \in overtaken
    \/ /\ toSet[p] \in {0, n}
       /\ poolRPM[p] = n \/ (poolRPM[p] = 0 /\ (~limitsRead \/ toSet[p] = n))

\* The limit o of p is to be replaced by n; RegisterProxy may have read either.
Replacing(p, o, n) ==
    \/ p \in overtaken
    \/ toSet[p] \in {0, o, n} /\ (o = n => LimitFor(p, n))

\* What a request that changes a pool alone has made of the file and the copies.
Underway(h, p) ==
    /\ handler[h].at = "created" =>
          stored[p] = handler[h].new /\ LimitFor(p, handler[h].new.rpm)
    /\ handler[h].at = "updating" =>
          /\ stored[p] = handler[h].old
          /\ poolClient[p] = handler[h].old.proxy /\ LimitFor(p, handler[h].old.rpm)
    /\ handler[h].at = "updated" =>
          /\ stored[p] = handler[h].new
          /\ poolClient[p] = handler[h].old.proxy
          /\ Replacing(p, handler[h].old.rpm, handler[h].new.rpm)
    /\ handler[h].at = "rebuilt" =>
          /\ stored[p] = handler[h].new
          /\ poolClient[p] = handler[h].new.proxy
          /\ Replacing(p, handler[h].old.rpm, handler[h].new.rpm)

Settled(p) ==
    stored[p] # Absent => poolClient[p] = stored[p].proxy /\ LimitFor(p, stored[p].rpm)

PoolOK(p) ==
    /\ (boot = "serving" /\ p \notin torn) =>
          /\ \A g, h \in Handlers : (On(g, p) /\ On(h, p)) => g = h
          /\ \A h \in Handlers : On(h, p) => Underway(h, p)
          /\ (\A h \in Handlers : ~On(h, p)) => Settled(p)
    /\ p \notin spent =>
          stored[p] = Absent /\ poolRPM[p] = 0 /\ toSet[p] = 0 /\ \A h \in Handlers : ~On(h, p)

\* The same of the global proxy.
GlobalOK ==
    (boot = "serving" /\ ~tornGlobal) =>
        /\ \A g, h \in Handlers : (OnGlobal(g) /\ OnGlobal(h)) => g = h
        /\ \A h \in Handlers :
              /\ handler[h].at = "saved" => handler[h].url = proxyFile
              /\ handler[h].at = "set" => proxyURL = proxyFile
              /\ handler[h].at = "read" => handler[h].url = proxyFile /\ proxyURL = proxyFile
        /\ (\A h \in Handlers : ~OnGlobal(h)) => proxyURL = proxyFile /\ globalClient = proxyFile

\* While main runs there are no requests, and no limits; RegisterProxy has nothing
\* to set before it has read the pools.
Starting ==
    /\ boot # "serving" =>
          /\ handler = [h \in Handlers |-> Idle] /\ poolRPM = NoLimits
          /\ torn = {} /\ ~tornGlobal /\ ~limitsRead
          /\ boot # "global" => proxyURL = proxyFile /\ globalClient = proxyFile
    /\ ~limitsRead => toSet = NoLimits

Inductive == TypeOK /\ Starting /\ GlobalOK /\ \A p \in Pools : PoolOK(p)

LEMMA HandlerType ==
    ASSUME TypeOK, NEW h \in Handlers
    PROVE  /\ handler[h].at \in Stages => handler[h] \in PoolRequest
           /\ handler[h].at \in GlobalStages => handler[h] \in GlobalRequest
           /\ handler[h] = Idle \/ handler[h].at \in Stages \/ handler[h].at \in GlobalStages
  BY DEF TypeOK, Idle, Stages, GlobalStages, PoolRequest, GlobalRequest

LEMMA TypeInit == Init => TypeOK
  <1> SUFFICES ASSUME Init PROVE TypeOK
    OBVIOUS
  <1>1. poolRPM \in [Pools -> Limit] /\ toSet \in [Pools -> Limit]
    BY ConstantsAssumption DEF Init, NoLimits, Limit
  <1>2. /\ stored \in [Pools -> Settings \cup {Absent}] /\ poolClient \in [Pools -> Address]
    BY DEF Init, NoPools, NoClients, Address
  <1>3. handler \in [Handlers -> {Idle}]
    BY DEF Init
  <1> QED
    BY <1>1, <1>2, <1>3 DEF Init, TypeOK, Address

LEMMA InductiveInit == Init => Inductive
  <1> SUFFICES ASSUME Init PROVE Inductive
    OBVIOUS
  <1>1. Starting /\ GlobalOK
    BY DEF Init, Starting, GlobalOK
  <1>2. ASSUME NEW p \in Pools PROVE PoolOK(p)
    BY DEF Init, PoolOK, NoPools, NoLimits, On, Idle, Stages
  <1> QED BY <1>1, <1>2, TypeInit DEF Inductive
-----------------------------------------------------------------------------
(* Starts and crashes *)

LEMMA CrashStep == Inductive /\ Crash => Inductive'
  <1> SUFFICES ASSUME Inductive, Crash PROVE Inductive'
    OBVIOUS
  <1>1. stored' \in [Pools -> Settings \cup {Absent}] /\ proxyFile' \in Address
    BY DEF Crash, Inductive, TypeOK, NoPools, Address
  <1>2. /\ poolClient' \in [Pools -> Address] /\ poolRPM' \in [Pools -> Limit]
        /\ toSet' \in [Pools -> Limit] /\ proxyURL' \in Address /\ globalClient' \in Address
    BY ConstantsAssumption DEF Crash, NoClients, NoLimits, Address, Limit
  <1>3. handler' \in [Handlers -> {Idle}] /\ spent' \subseteq Pools
    BY DEF Crash
  <1>4. TypeOK'
    BY <1>1, <1>2, <1>3 DEF Crash, TypeOK
  <1>5. Starting' /\ GlobalOK'
    BY DEF Crash, Starting, GlobalOK
  <1>6. ASSUME NEW p \in Pools PROVE PoolOK(p)'
    BY DEF Crash, PoolOK, NoLimits, On, Idle, Stages
  <1> QED BY <1>4, <1>5, <1>6 DEF Inductive

\* While main runs no pool is being changed.
LEMMA NobodyAtStart ==
    ASSUME Starting, boot # "serving", NEW h \in Handlers
    PROVE  handler[h] = Idle /\ ~OnGlobal(h) /\ \A p \in Pools : ~On(h, p)
  BY DEF Starting, OnGlobal, On, Idle, Stages, GlobalStages

LEMMA BootStep == Inductive /\ (BootGlobal \/ BootMigrate \/ BootBuild) => Inductive'
  <1> SUFFICES ASSUME Inductive, BootGlobal \/ BootMigrate \/ BootBuild PROVE Inductive'
    OBVIOUS
  <1>1. /\ boot # "serving" /\ Starting
        /\ UNCHANGED <<handler, poolRPM, torn, tornGlobal, proxyFile, limitsRead, toSet, overtaken>>
    BY DEF BootGlobal, BootMigrate, BootBuild, Inductive, files, memory, loading
  <1>2. \A h \in Handlers :
          handler'[h] = Idle /\ ~OnGlobal(h)' /\ \A p \in Pools : ~On(h, p)'
    BY <1>1, NobodyAtStart DEF On, OnGlobal
  <1>3. ~limitsRead /\ \A p \in Pools : poolRPM'[p] = 0 /\ toSet'[p] = 0 /\ (p \notin spent => stored[p] = Absent)
    BY <1>1 DEF Inductive, Starting, NoLimits, PoolOK
  <1>4. CASE BootGlobal
    <2>1. TypeOK' /\ Starting' /\ GlobalOK'
      BY <1>1, <1>4 DEF BootGlobal, files, Inductive, TypeOK, Starting, GlobalOK
    <2>2. \A p \in Pools : PoolOK(p)'
      BY <1>2, <1>3, <1>4 DEF BootGlobal, files, PoolOK
    <2> QED BY <2>1, <2>2 DEF Inductive
  <1>5. CASE BootMigrate
    <2>1. /\ stored' \in [Pools -> Settings \cup {Absent}] /\ spent' \subseteq Pools
          /\ \A p \in Pools : p \notin spent' => stored'[p] = Absent
      <3>1. CASE UNCHANGED <<stored, spent>>
        BY <1>3, <3>1 DEF Inductive, TypeOK
      <3>2. CASE LegacyRPM # Absent /\ \E p \in Pools \ spent :
              /\ stored' = [stored EXCEPT ![p] = [proxy |-> proxyFile, rpm |-> LegacyRPM]]
              /\ spent' = spent \cup {p}
        <4>1. [proxy |-> proxyFile, rpm |-> LegacyRPM] \in Settings
          BY <3>2, ConstantsAssumption DEF Settings, Limit, Inductive, TypeOK
        <4> QED BY <1>3, <3>2, <4>1 DEF Inductive, TypeOK
      <3> QED BY <1>5, <3>1, <3>2 DEF BootMigrate
    <2>2. TypeOK' /\ Starting' /\ GlobalOK'
      BY <1>1, <1>5, <2>1 DEF BootMigrate, memory, Inductive, TypeOK, Starting, GlobalOK
    <2>3. \A p \in Pools : PoolOK(p)'
      BY <1>2, <1>3, <1>5, <2>1 DEF BootMigrate, PoolOK
    <2> QED BY <2>2, <2>3 DEF Inductive
  <1>6. CASE BootBuild
    <2>1. /\ poolClient' \in [Pools -> Address]
          /\ \A p \in Pools : stored[p] # Absent => poolClient'[p] = stored[p].proxy
      <3>1. \A p \in Pools : stored[p] # Absent => stored[p].proxy \in Address
        BY DEF Inductive, TypeOK, Settings
      <3>2. NoProxy \in Address
        BY DEF Address
      <3> QED BY <1>6, <3>1, <3>2 DEF BootBuild
    <2>2. UNCHANGED <<stored, spent, proxyURL, globalClient>> /\ boot' = "serving" /\ boot = "build"
      BY <1>6 DEF BootBuild, files
    <2>3. TypeOK' /\ Starting'
      BY <1>1, <2>1, <2>2 DEF Inductive, TypeOK, Starting
    <2>4. GlobalOK'
      <3>1. \A h \in Handlers : handler'[h].at = "idle" /\ ~OnGlobal(h)'
        BY <1>2 DEF Idle
      <3>2. proxyURL' = proxyFile' /\ globalClient' = proxyFile'
        BY <1>1, <2>2 DEF Starting
      <3> QED BY <3>1, <3>2 DEF GlobalOK
    <2>5. \A p \in Pools : PoolOK(p)'
      BY <1>1, <1>2, <1>3, <2>1, <2>2 DEF PoolOK, Settled, LimitFor
    <2> QED BY <2>3, <2>4, <2>5 DEF Inductive
  <1> QED BY <1>4, <1>5, <1>6
-----------------------------------------------------------------------------
(* The steps of a request h that changes the pool p *)

\* Pools that h does not change.
LEMMA OtherPools ==
    ASSUME Inductive, NEW h \in Handlers, NEW Changed \in SUBSET Pools,
           UNCHANGED <<boot, limitsRead, toSet>>,
           \A g \in Handlers \ {h} : handler'[g] = handler[g],
           \A q \in Pools \ Changed :
               /\ stored'[q] = stored[q] /\ poolClient'[q] = poolClient[q] /\ poolRPM'[q] = poolRPM[q]
               /\ q \in torn' <=> q \in torn
               /\ q \in overtaken' <=> q \in overtaken
               /\ q \in spent' <=> q \in spent
               /\ ~On(h, q) /\ ~On(h, q)'
    PROVE  \A q \in Pools \ Changed : PoolOK(q)'
  <1> TAKE q \in Pools \ Changed
  <1>1. PoolOK(q)
    BY DEF Inductive
  <1>2. \A g \in Handlers : On(g, q)' <=> On(g, q)
    BY DEF On
  <1>3. \A g \in Handlers : (On(g, q) /\ Underway(g, q)) => Underway(g, q)'
    BY DEF On, Underway, LimitFor, Replacing
  <1>4. Settled(q) => Settled(q)'
    BY DEF Settled, LimitFor
  <1> QED BY <1>1, <1>2, <1>3, <1>4 DEF PoolOK

LEMMA OneStep ==
    ASSUME Inductive, boot = "serving", TypeOK', NEW h \in Handlers, NEW p \in Pools,
           UNCHANGED <<boot, limitsRead, toSet, proxyFile, proxyURL, globalClient, tornGlobal>>,
           \A g \in Handlers \ {h} : handler'[g] = handler[g],
           \A q \in Pools \ {p} :
               /\ stored'[q] = stored[q] /\ poolClient'[q] = poolClient[q] /\ poolRPM'[q] = poolRPM[q]
               /\ q \in torn' <=> q \in torn
               /\ q \in overtaken' <=> q \in overtaken
               /\ q \in spent' <=> q \in spent
               /\ ~On(h, q) /\ ~On(h, q)',
           ~OnGlobal(h), ~OnGlobal(h)',
           p \in spent',
           p \notin torn' =>
               /\ \A g \in Handlers \ {h} : ~On(g, p)
               /\ On(h, p)' => Underway(h, p)'
               /\ ~On(h, p)' => Settled(p)'
    PROVE  Inductive'
  <1>1. \A q \in Pools \ {p} : PoolOK(q)'
    BY OtherPools
  <1>2. PoolOK(p)'
    <2>1. p \notin torn' => \A g \in Handlers \ {h} : ~On(g, p)'
      BY DEF On
    <2> QED BY <2>1 DEF PoolOK
  <1>3. GlobalOK'
    <2>1. \A g \in Handlers : OnGlobal(g)' <=> OnGlobal(g)
      BY DEF OnGlobal
    <2>2. \A g \in Handlers : g # h => handler'[g] = handler[g]
      OBVIOUS
    <2>3. handler'[h].at \notin {"saved", "set", "read"}
      BY DEF OnGlobal, GlobalStages
    <2> QED BY <2>1, <2>2, <2>3 DEF GlobalOK, Inductive
  <1>4. Starting'
    BY DEF Starting, Inductive
  <1> QED BY <1>1, <1>2, <1>3, <1>4 DEF Inductive

\* The request h that is changing p: nobody else is, unless the pool is torn.
LEMMA Holder ==
    ASSUME Inductive, boot = "serving", NEW h \in Handlers, handler[h].at \in Stages
    PROVE  LET p == handler[h].pool IN
           /\ handler[h] \in PoolRequest /\ p \in Pools /\ p \in spent
           /\ On(h, p) /\ ~OnGlobal(h)
           /\ \A q \in Pools \ {p} : ~On(h, q)
           /\ p \notin torn => Underway(h, p) /\ \A g \in Handlers \ {h} : ~On(g, p)
  <1> DEFINE p == handler[h].pool
  <1>1. handler[h] \in PoolRequest /\ p \in Pools
    BY HandlerType DEF Inductive, PoolRequest
  <1>2. On(h, p) /\ ~OnGlobal(h) /\ \A q \in Pools \ {p} : ~On(h, q)
    BY <1>1 DEF On, OnGlobal, Stages, GlobalStages
  <1>3. PoolOK(p)
    BY <1>1 DEF Inductive
  <1>4. p \in spent
    BY <1>2, <1>3 DEF PoolOK
  <1>5. p \notin torn => Underway(h, p) /\ \A g \in Handlers \ {h} : ~On(g, p)
    BY <1>2, <1>3 DEF PoolOK
  <1> QED BY <1>1, <1>2, <1>4, <1>5

\* The request h that begins to change p: nobody is, unless the pool is now torn.
LEMMA Beginner ==
    ASSUME Inductive, boot = "serving", NEW h \in Handlers, handler[h].at = "idle",
           NEW p \in Pools
    PROVE  /\ ~OnGlobal(h) /\ \A q \in Pools : ~On(h, q)
           /\ p \notin spent =>
                /\ stored[p] = Absent /\ poolRPM[p] = 0 /\ toSet[p] = 0
                /\ \A g \in Handlers : ~On(g, p)
           /\ Begins(p) =>
                /\ \A q \in Pools \ {p} : q \in torn' <=> q \in torn
                /\ p \notin torn' => Settled(p) /\ \A g \in Handlers : ~On(g, p)
  <1>1. ~OnGlobal(h) /\ \A q \in Pools : ~On(h, q)
    BY DEF On, OnGlobal, Stages, GlobalStages
  <1>2. PoolOK(p)
    BY DEF Inductive
  <1>3. ASSUME Begins(p), p \notin torn' PROVE Settled(p) /\ \A g \in Handlers : ~On(g, p)
    <2>1. p \notin torn /\ ~Busy(p)
      BY <1>3 DEF Begins
    <2>2. \A g \in Handlers : ~On(g, p)
      BY <2>1 DEF Busy, On
    <2> QED BY <1>2, <2>1, <2>2 DEF PoolOK
  <1> QED BY <1>1, <1>2, <1>3 DEF PoolOK, Begins

LEMMA TypeStep ==
    ASSUME TypeOK, NEW h \in Handlers,
           \/ CreatePool(h) \/ BuildCreated(h)
           \/ ReadOld(h) \/ StoreUpdate(h) \/ RebuildPoolClients(h) \/ SetPoolRPM(h)
           \/ DropClients(h) \/ DropLimit(h) \/ ErasePool(h)
           \/ SaveProxy(h) \/ SetProxyURL(h) \/ ReadProxyURL(h) \/ SwapClients(h)
    PROVE  TypeOK'
  <1> USE HandlerType, ConstantsAssumption DEF At
  <1>0. NoProxy \in Address /\ 0 \in Limit
    BY DEF Address, Limit
  <1> DEFINE Handled == {Idle} \cup PoolRequest \cup GlobalRequest
  <1>t. TypeOK <=>
          /\ stored \in [Pools -> Settings \cup {Absent}] /\ proxyFile \in Address
          /\ spent \subseteq Pools /\ poolClient \in [Pools -> Address]
          /\ poolRPM \in [Pools -> Limit] /\ proxyURL \in Address /\ globalClient \in Address
          /\ boot \in {"global", "migrate", "build", "serving"}
          /\ handler \in [Handlers -> Handled]
          /\ limitsRead \in BOOLEAN /\ toSet \in [Pools -> Limit] /\ overtaken \subseteq Pools
          /\ torn \subseteq Pools /\ tornGlobal \in BOOLEAN
    BY DEF TypeOK, PoolRequest, GlobalRequest
  <1>1. CASE CreatePool(h)
    <2> PICK p \in Pools \ spent, x \in Address :
          /\ stored' = [stored EXCEPT ![p] = [proxy |-> x, rpm |-> 0]]
          /\ spent' = spent \cup {p}
          /\ handler' = [handler EXCEPT ![h] =
                [at |-> "created", pool |-> p, old |-> [proxy |-> x, rpm |-> 0],
                 new |-> [proxy |-> x, rpm |-> 0]]]
      BY <1>1 DEF CreatePool
    <2>1. [proxy |-> x, rpm |-> 0] \in Settings
      BY <1>0 DEF Settings
    <2>2. /\ stored' \in [Pools -> Settings \cup {Absent}]
          /\ handler' \in [Handlers -> Handled]
      BY <2>1, <1>t DEF PoolRequest, Stages
    <2> QED BY <1>1, <2>2 DEF CreatePool, memory, TypeOK, PoolRequest, GlobalRequest, loading
  <1>2. CASE BuildCreated(h)
    <2>1. handler[h] \in PoolRequest
      BY <1>2 DEF BuildCreated, Stages
    <2>2. /\ poolClient' \in [Pools -> Address] /\ handler' \in [Handlers -> Handled]
      BY <1>2, <2>1, <1>t DEF BuildCreated, BuildPoolClients, Ends, PoolRequest, Settings
    <2> QED BY <1>2, <2>2 DEF BuildCreated, files, TypeOK, PoolRequest, GlobalRequest, loading
  <1>3. CASE ReadOld(h)
    <2> PICK p \in Pools :
          /\ stored[p] # Absent /\ Begins(p)
          /\ handler' = [handler EXCEPT ![h] =
                          [at |-> "updating", pool |-> p, old |-> stored[p], new |-> stored[p]]]
      BY <1>3 DEF ReadOld
    <2>1. stored[p] \in Settings /\ torn' \subseteq Pools
      BY DEF TypeOK, Begins
    <2>2. handler' \in [Handlers -> Handled]
      BY <2>1, <1>t DEF PoolRequest, Stages
    <2> QED BY <1>3, <2>1, <2>2 DEF ReadOld, files, memory, TypeOK, PoolRequest, GlobalRequest, loading
  <1>4. CASE StoreUpdate(h)
    <2> DEFINE p == handler[h].pool
    <2>1. handler[h] \in PoolRequest /\ handler[h].at = "updating"
      BY <1>4 DEF StoreUpdate, Stages
    <2>2. /\ stored' \in [Pools -> Settings \cup {Absent}]
          /\ handler' \in [Handlers -> Handled]
      <3>1. CASE Ends(h) /\ UNCHANGED stored
        BY <3>1, <1>t DEF Ends
      <3>2. CASE \E s \in Settings :
                 /\ stored' = [stored EXCEPT ![p] = s]
                 /\ handler' = [handler EXCEPT ![h].at = "updated", ![h].new = s]
        <4> PICK s \in Settings :
                 /\ stored' = [stored EXCEPT ![p] = s]
                 /\ handler' = [handler EXCEPT ![h].at = "updated", ![h].new = s]
          BY <3>2
        <4>1. [handler[h] EXCEPT !.at = "updated", !.new = s] \in PoolRequest
          BY <2>1 DEF PoolRequest, Stages
        <4>2. handler' = [handler EXCEPT ![h] = [handler[h] EXCEPT !.at = "updated", !.new = s]]
          BY <1>t
        <4> QED BY <4>1, <4>2, <1>t
      <3> QED BY <1>4, <3>1, <3>2 DEF StoreUpdate
    <2> QED BY <1>4, <2>2 DEF StoreUpdate, memory, TypeOK, PoolRequest, GlobalRequest, loading
  <1>5. CASE RebuildPoolClients(h)
    <2>1. handler[h] \in PoolRequest
      BY <1>5 DEF RebuildPoolClients, Stages
    <2>2. handler' \in [Handlers -> Handled]
      BY <1>5, <2>1, <1>t DEF RebuildPoolClients, Goes, PoolRequest, Stages
    <2>3. poolClient' \in [Pools -> Address]
      BY <1>5, <2>1 DEF RebuildPoolClients, BuildPoolClients, TypeOK, PoolRequest, Settings
    <2> QED BY <1>5, <2>2, <2>3 DEF RebuildPoolClients, files, TypeOK, PoolRequest, GlobalRequest, loading
  <1>6. CASE SetPoolRPM(h)
    <2>1. handler[h] \in PoolRequest
      BY <1>6 DEF SetPoolRPM, Stages
    <2>2. /\ poolRPM' \in [Pools -> Limit] /\ handler' \in [Handlers -> Handled]
          /\ overtaken' \subseteq Pools
      BY <1>6, <2>1, <1>t DEF SetPoolRPM, Ends, PoolRequest, Settings
    <2> QED BY <1>6, <2>2 DEF SetPoolRPM, files, TypeOK, PoolRequest, GlobalRequest, loading
  <1>7. CASE DropClients(h)
    <2> PICK p \in spent :
         /\ poolClient' = [poolClient EXCEPT ![p] = NoProxy]
         /\ handler' = [handler EXCEPT ![h] =
                          [at |-> "dropped", pool |-> p, old |-> [proxy |-> NoProxy, rpm |-> 0],
                           new |-> [proxy |-> NoProxy, rpm |-> 0]]]
         /\ Begins(p)
      BY <1>7 DEF DropClients, BuildPoolClients
    <2>1. [proxy |-> NoProxy, rpm |-> 0] \in Settings /\ p \in Pools
      BY <1>0 DEF Settings, TypeOK
    <2>2. /\ poolClient' \in [Pools -> Address] /\ handler' \in [Handlers -> Handled]
          /\ torn' \subseteq Pools
      BY <1>0, <2>1, <1>t DEF PoolRequest, Stages, Begins
    <2> QED BY <1>7, <2>2 DEF DropClients, files, TypeOK, PoolRequest, GlobalRequest, loading
  <1>8. CASE DropLimit(h)
    <2>1. handler[h] \in PoolRequest
      BY <1>8 DEF DropLimit, Stages
    <2>2. /\ poolRPM' \in [Pools -> Limit] /\ handler' \in [Handlers -> Handled]
      BY <1>0, <1>8, <2>1, <1>t DEF DropLimit, Goes, PoolRequest, Stages
    <2> QED BY <1>8, <2>2 DEF DropLimit, files, TypeOK, PoolRequest, GlobalRequest, loading
  <1>9. CASE ErasePool(h)
    <2>1. /\ stored' \in [Pools -> Settings \cup {Absent}]
          /\ handler' \in [Handlers -> Handled]
      BY <1>9, <1>t DEF ErasePool, Ends
    <2> QED BY <1>9, <2>1 DEF ErasePool, memory, TypeOK, PoolRequest, GlobalRequest, loading
  <1>10. CASE SaveProxy(h)
    <2> PICK x \in Address :
         /\ proxyFile' = x
         /\ handler' = [handler EXCEPT ![h] = [at |-> "saved", url |-> x]]
      BY <1>10 DEF SaveProxy
    <2>1. handler' \in [Handlers -> Handled] /\ proxyFile' \in Address /\ tornGlobal' \in BOOLEAN
      BY <1>10, <1>t DEF GlobalRequest, GlobalStages, SaveProxy, BusyGlobal
    <2> QED BY <1>10, <2>1 DEF SaveProxy, memory, TypeOK, PoolRequest, GlobalRequest, loading
  <1>11. CASE SetProxyURL(h)
    <2>1. handler[h] \in GlobalRequest
      BY <1>11 DEF SetProxyURL, GlobalStages
    <2>2. proxyURL' \in Address /\ handler' \in [Handlers -> Handled]
      BY <1>11, <2>1, <1>t DEF SetProxyURL, Goes, GlobalRequest, GlobalStages
    <2> QED BY <1>11, <2>2 DEF SetProxyURL, files, TypeOK, PoolRequest, GlobalRequest, loading
  <1>12. CASE ReadProxyURL(h)
    <2>1. handler' \in [Handlers -> Handled]
      BY <1>12, <1>t DEF ReadProxyURL, GlobalRequest, GlobalStages
    <2> QED BY <1>12, <2>1 DEF ReadProxyURL, files, memory, TypeOK, PoolRequest, GlobalRequest, loading
  <1>13. CASE SwapClients(h)
    <2>1. handler[h] \in GlobalRequest
      BY <1>13 DEF SwapClients, GlobalStages
    <2>2. globalClient' \in Address /\ handler' \in [Handlers -> Handled]
      BY <1>13, <2>1, <1>t DEF SwapClients, Ends, GlobalRequest
    <2> QED BY <1>13, <2>2 DEF SwapClients, files, TypeOK, PoolRequest, GlobalRequest, loading
  <1> QED
    BY <1>1, <1>2, <1>3, <1>4, <1>5, <1>6, <1>7, <1>8, <1>9, <1>10, <1>11, <1>12, <1>13
-----------------------------------------------------------------------------
(* Each step of a request preserves the invariant. *)

LEMMA CreatesPool == ASSUME Inductive, NEW h \in Handlers, CreatePool(h) PROVE Inductive'
  <1> PICK p \in Pools \ spent, x \in Address :
          /\ stored' = [stored EXCEPT ![p] = [proxy |-> x, rpm |-> 0]]
          /\ spent' = spent \cup {p}
          /\ handler' = [handler EXCEPT ![h] =
                [at |-> "created", pool |-> p, old |-> [proxy |-> x, rpm |-> 0],
                 new |-> [proxy |-> x, rpm |-> 0]]]
    BY DEF CreatePool
  <1>1. /\ boot = "serving" /\ handler[h].at = "idle" /\ TypeOK'
        /\ UNCHANGED <<proxyFile, poolClient, poolRPM, proxyURL, globalClient,
                       boot, torn, tornGlobal, limitsRead, toSet, overtaken>>
    BY TypeStep DEF CreatePool, At, memory, Inductive, loading
  <1>2. /\ ~OnGlobal(h) /\ \A q \in Pools : ~On(h, q)
        /\ poolRPM[p] = 0 /\ toSet[p] = 0 /\ \A g \in Handlers : ~On(g, p)
    BY <1>1, Beginner
  <1>3. /\ \A g \in Handlers \ {h} : handler'[g] = handler[g]
        /\ handler'[h] = [at |-> "created", pool |-> p, old |-> [proxy |-> x, rpm |-> 0],
                          new |-> [proxy |-> x, rpm |-> 0]]
        /\ stored'[p] = [proxy |-> x, rpm |-> 0]
        /\ \A q \in Pools \ {p} : stored'[q] = stored[q]
    BY DEF Inductive, TypeOK
  <1>4. On(h, p)' /\ ~OnGlobal(h)' /\ \A q \in Pools \ {p} : ~On(h, q)'
    BY <1>3 DEF On, OnGlobal, Stages, GlobalStages
  <1>5. Underway(h, p)'
    BY <1>1, <1>2, <1>3 DEF Underway, LimitFor
  <1> QED BY <1>1, <1>2, <1>3, <1>4, <1>5, OneStep

LEMMA BuildsCreated == ASSUME Inductive, NEW h \in Handlers, BuildCreated(h) PROVE Inductive'
  <1> PICK p \in Pools : p = handler[h].pool
    BY HandlerType DEF BuildCreated, At, Inductive, Stages, PoolRequest
  <1>1. /\ boot = "serving" /\ handler[h].at = "created" /\ TypeOK'
        /\ poolClient' = [poolClient EXCEPT ![p] = handler[h].new.proxy]
        /\ handler' = [handler EXCEPT ![h] = Idle]
        /\ UNCHANGED <<stored, spent, proxyFile, poolRPM, proxyURL, globalClient,
                       boot, torn, tornGlobal, limitsRead, toSet, overtaken>>
    BY TypeStep DEF BuildCreated, BuildPoolClients, Ends, At, files, Inductive, loading
  <1>2. /\ p \in Pools /\ p \in spent /\ ~OnGlobal(h) /\ \A q \in Pools \ {p} : ~On(h, q)
        /\ p \notin torn => Underway(h, p) /\ \A g \in Handlers \ {h} : ~On(g, p)
    BY <1>1, Holder DEF Stages
  <1>3. /\ \A g \in Handlers \ {h} : handler'[g] = handler[g]
        /\ \A q \in Pools : ~On(h, q)'
        /\ ~OnGlobal(h)'
        /\ poolClient'[p] = handler[h].new.proxy
        /\ \A q \in Pools \ {p} : poolClient'[q] = poolClient[q]
    BY <1>1, <1>2 DEF Inductive, TypeOK, Idle, On, OnGlobal, Stages, GlobalStages
  <1>4. p \notin torn => Settled(p)'
    BY <1>1, <1>2, <1>3 DEF Underway, Settled, LimitFor, Replacing
  <1> QED BY <1>1, <1>2, <1>3, <1>4, OneStep

LEMMA ReadsOld == ASSUME Inductive, NEW h \in Handlers, ReadOld(h) PROVE Inductive'
  <1> PICK p \in Pools :
          /\ stored[p] # Absent /\ Begins(p)
          /\ handler' = [handler EXCEPT ![h] =
                          [at |-> "updating", pool |-> p, old |-> stored[p], new |-> stored[p]]]
    BY DEF ReadOld
  <1>1. /\ boot = "serving" /\ handler[h].at = "idle" /\ TypeOK'
        /\ UNCHANGED <<stored, spent, proxyFile, poolClient, poolRPM, proxyURL, globalClient,
                       boot, tornGlobal, limitsRead, toSet, overtaken>>
    BY TypeStep DEF ReadOld, At, files, memory, Inductive, loading
  <1>2. /\ ~OnGlobal(h) /\ \A q \in Pools : ~On(h, q)
        /\ p \in spent
        /\ \A q \in Pools \ {p} : q \in torn' <=> q \in torn
        /\ p \notin torn' => Settled(p) /\ \A g \in Handlers : ~On(g, p)
    BY <1>1, Beginner
  <1>3. /\ \A g \in Handlers \ {h} : handler'[g] = handler[g]
        /\ handler'[h] = [at |-> "updating", pool |-> p, old |-> stored[p], new |-> stored[p]]
    BY DEF Inductive, TypeOK
  <1>4. On(h, p)' /\ ~OnGlobal(h)' /\ \A q \in Pools \ {p} : ~On(h, q)'
    BY <1>3 DEF On, OnGlobal, Stages, GlobalStages
  <1>5. p \notin torn' => Underway(h, p)'
    BY <1>1, <1>2, <1>3 DEF Underway, Settled, LimitFor, Replacing
  <1> QED BY <1>1, <1>2, <1>3, <1>4, <1>5, OneStep

LEMMA UpdatesStore == ASSUME Inductive, NEW h \in Handlers, StoreUpdate(h) PROVE Inductive'
  <1> PICK p \in Pools : p = handler[h].pool
    BY HandlerType DEF StoreUpdate, At, Inductive, Stages, PoolRequest
  <1>1. /\ boot = "serving" /\ handler[h].at = "updating" /\ TypeOK'
        /\ UNCHANGED <<proxyFile, spent, poolClient, poolRPM, proxyURL, globalClient,
                       boot, torn, tornGlobal, limitsRead, toSet, overtaken>>
    BY TypeStep DEF StoreUpdate, At, memory, Inductive, loading
  <1>2. /\ handler[h] \in PoolRequest /\ p \in Pools /\ p \in spent /\ ~OnGlobal(h)
        /\ \A q \in Pools \ {p} : ~On(h, q)
        /\ p \notin torn => Underway(h, p) /\ \A g \in Handlers \ {h} : ~On(g, p)
    BY <1>1, Holder DEF Stages
  <1>3. CASE stored[p] = Absent /\ Ends(h) /\ UNCHANGED stored
    <2>1. /\ \A g \in Handlers \ {h} : handler'[g] = handler[g]
          /\ \A q \in Pools : ~On(h, q)'
          /\ ~OnGlobal(h)'
      BY <1>3 DEF Ends, Inductive, TypeOK, Idle, On, OnGlobal, Stages, GlobalStages
    <2>2. Settled(p)'
      BY <1>3 DEF Settled
    <2> QED BY <1>1, <1>2, <1>3, <2>1, <2>2, OneStep
  <1>4. CASE \E s \in Settings :
                 /\ stored' = [stored EXCEPT ![p] = s]
                 /\ handler' = [handler EXCEPT ![h].at = "updated", ![h].new = s]
    <2> PICK s \in Settings :
                 /\ stored' = [stored EXCEPT ![p] = s]
                 /\ handler' = [handler EXCEPT ![h].at = "updated", ![h].new = s]
      BY <1>4
    <2> handler' = [handler EXCEPT ![h] = [handler[h] EXCEPT !.at = "updated", !.new = s]]
      OBVIOUS
    <2>1. /\ \A g \in Handlers \ {h} : handler'[g] = handler[g]
          /\ handler'[h] = [handler[h] EXCEPT !.at = "updated", !.new = s]
          /\ stored'[p] = s
          /\ \A q \in Pools \ {p} : stored'[q] = stored[q]
      BY <1>2 DEF Inductive, TypeOK
    <2>2. /\ handler'[h].at = "updated" /\ handler'[h].new = s
          /\ handler'[h].old = handler[h].old /\ handler'[h].pool = p
      BY <1>2, <2>1 DEF PoolRequest
    <2>3. On(h, p)' /\ ~OnGlobal(h)' /\ \A q \in Pools \ {p} : ~On(h, q)'
      BY <2>2 DEF On, OnGlobal, Stages, GlobalStages
    <2>4. p \notin torn => Underway(h, p)'
      BY <1>1, <1>2, <2>1, <2>2 DEF Underway, LimitFor, Replacing
    <2> QED BY <1>1, <1>2, <2>1, <2>3, <2>4, OneStep
  <1> QED BY <1>3, <1>4 DEF StoreUpdate

LEMMA RebuildsClients == ASSUME Inductive, NEW h \in Handlers, RebuildPoolClients(h) PROVE Inductive'
  <1> PICK p \in Pools : p = handler[h].pool
    BY HandlerType DEF RebuildPoolClients, At, Inductive, Stages, PoolRequest
  <1>1. /\ boot = "serving" /\ handler[h].at = "updated" /\ TypeOK'
        /\ handler' = [handler EXCEPT ![h].at = "rebuilt"]
        /\ UNCHANGED <<stored, spent, proxyFile, poolRPM, proxyURL, globalClient,
                       boot, torn, tornGlobal, limitsRead, toSet, overtaken>>
    BY TypeStep DEF RebuildPoolClients, Goes, At, files, Inductive, loading
  <1>2. /\ handler[h] \in PoolRequest /\ p \in Pools /\ p \in spent /\ ~OnGlobal(h)
        /\ \A q \in Pools \ {p} : ~On(h, q)
        /\ p \notin torn => Underway(h, p) /\ \A g \in Handlers \ {h} : ~On(g, p)
    BY <1>1, Holder DEF Stages
  <1>3. /\ \A g \in Handlers \ {h} : handler'[g] = handler[g]
        /\ handler'[h] = [handler[h] EXCEPT !.at = "rebuilt"]
    BY <1>1, <1>2 DEF Inductive, TypeOK
  <1>4. /\ handler'[h].at = "rebuilt" /\ handler'[h].new = handler[h].new
        /\ handler'[h].old = handler[h].old /\ handler'[h].pool = p
    BY <1>2, <1>3 DEF PoolRequest
  <1>5. On(h, p)' /\ ~OnGlobal(h)' /\ \A q \in Pools \ {p} : ~On(h, q)'
    BY <1>4 DEF On, OnGlobal, Stages, GlobalStages
  <1>6. \A q \in Pools \ {p} : poolClient'[q] = poolClient[q]
    BY DEF RebuildPoolClients, BuildPoolClients, Inductive, TypeOK
  <1>7. poolClient'[p] = IF handler[h].new.proxy # handler[h].old.proxy
                         THEN handler[h].new.proxy ELSE poolClient[p]
    BY <1>2 DEF RebuildPoolClients, BuildPoolClients, Inductive, TypeOK
  <1>8. p \notin torn => Underway(h, p)'
    BY <1>1, <1>2, <1>4, <1>7 DEF Underway, LimitFor, Replacing
  <1> QED BY <1>1, <1>2, <1>3, <1>5, <1>6, <1>8, OneStep

LEMMA SetsLimit == ASSUME Inductive, NEW h \in Handlers, SetPoolRPM(h) PROVE Inductive'
  <1> PICK p \in Pools : p = handler[h].pool
    BY HandlerType DEF SetPoolRPM, At, Inductive, Stages, PoolRequest
  <1>1. /\ boot = "serving" /\ handler[h].at = "rebuilt" /\ TypeOK'
        /\ handler' = [handler EXCEPT ![h] = Idle]
        /\ UNCHANGED <<stored, spent, proxyFile, poolClient, proxyURL, globalClient,
                       boot, torn, tornGlobal, limitsRead, toSet>>
    BY TypeStep DEF SetPoolRPM, Ends, At, files, Inductive, loading
  <1>2. /\ p \in Pools /\ p \in spent /\ ~OnGlobal(h) /\ \A q \in Pools \ {p} : ~On(h, q)
        /\ p \notin torn => Underway(h, p) /\ \A g \in Handlers \ {h} : ~On(g, p)
    BY <1>1, Holder DEF Stages
  <1>3. /\ \A g \in Handlers \ {h} : handler'[g] = handler[g]
        /\ \A q \in Pools : ~On(h, q)'
        /\ ~OnGlobal(h)'
    BY <1>1 DEF Inductive, TypeOK, Idle, On, OnGlobal, Stages, GlobalStages
  <1> PICK n : n = handler[h].new.rpm
    OBVIOUS
  <1>4. /\ \A q \in Pools \ {p} : poolRPM'[q] = poolRPM[q]
        /\ \A q \in Pools \ {p} : q \in overtaken' <=> q \in overtaken
        /\ n # handler[h].old.rpm => poolRPM'[p] = n /\ (p \in overtaken' <=> toSet[p] \notin {0, n})
        /\ n = handler[h].old.rpm => poolRPM'[p] = poolRPM[p] /\ (p \in overtaken' <=> p \in overtaken)
    BY <1>2 DEF SetPoolRPM, Inductive, TypeOK
  <1>5. ASSUME p \notin torn PROVE Settled(p)'
    <2>1. stored'[p] = handler[h].new /\ poolClient'[p] = handler[h].new.proxy
      BY <1>1, <1>2, <1>5 DEF Underway
    <2>2. Replacing(p, handler[h].old.rpm, n)
      BY <1>1, <1>2, <1>5 DEF Underway
    <2>3. LimitFor(p, n)'
      BY <1>1, <1>4, <2>2 DEF Replacing, LimitFor
    <2> QED BY <2>1, <2>3 DEF Settled, LimitFor
  <1> QED BY <1>1, <1>2, <1>3, <1>4, <1>5, OneStep

LEMMA DropsClients == ASSUME Inductive, NEW h \in Handlers, DropClients(h) PROVE Inductive'
  <1> DEFINE s == [proxy |-> NoProxy, rpm |-> 0]
  <1> PICK p \in spent :
         /\ poolClient' = [poolClient EXCEPT ![p] = NoProxy]
         /\ handler' = [handler EXCEPT ![h] = [at |-> "dropped", pool |-> p, old |-> s, new |-> s]]
         /\ Begins(p)
    BY DEF DropClients, BuildPoolClients
  <1>1. /\ boot = "serving" /\ handler[h].at = "idle" /\ TypeOK' /\ p \in Pools
        /\ UNCHANGED <<stored, spent, proxyFile, poolRPM, proxyURL, globalClient,
                       boot, tornGlobal, limitsRead, toSet, overtaken>>
    BY TypeStep DEF DropClients, At, files, Inductive, TypeOK, loading
  <1>2. /\ ~OnGlobal(h) /\ \A q \in Pools : ~On(h, q)
        /\ \A q \in Pools \ {p} : q \in torn' <=> q \in torn
        /\ p \notin torn' => \A g \in Handlers : ~On(g, p)
    BY <1>1, Beginner
  <1>3. /\ \A g \in Handlers \ {h} : handler'[g] = handler[g]
        /\ handler'[h] = [at |-> "dropped", pool |-> p, old |-> s, new |-> s]
        /\ \A q \in Pools \ {p} : poolClient'[q] = poolClient[q]
    BY DEF Inductive, TypeOK
  <1>4. On(h, p)' /\ ~OnGlobal(h)' /\ \A q \in Pools \ {p} : ~On(h, q)'
    BY <1>3 DEF On, OnGlobal, Stages, GlobalStages
  <1>5. Underway(h, p)'
    BY <1>3 DEF Underway
  <1> QED BY <1>1, <1>2, <1>3, <1>4, <1>5, OneStep

LEMMA DropsLimit == ASSUME Inductive, NEW h \in Handlers, DropLimit(h) PROVE Inductive'
  <1> PICK p \in Pools : p = handler[h].pool
    BY HandlerType DEF DropLimit, At, Inductive, Stages, PoolRequest
  <1>1. /\ boot = "serving" /\ handler[h].at = "dropped" /\ TypeOK'
        /\ poolRPM' = [poolRPM EXCEPT ![p] = 0]
        /\ handler' = [handler EXCEPT ![h].at = "erasing"]
        /\ UNCHANGED <<stored, spent, proxyFile, poolClient, proxyURL, globalClient,
                       boot, torn, tornGlobal, limitsRead, toSet, overtaken>>
    BY TypeStep DEF DropLimit, Goes, At, files, Inductive, loading
  <1>2. /\ handler[h] \in PoolRequest /\ p \in Pools /\ p \in spent /\ ~OnGlobal(h)
        /\ \A q \in Pools \ {p} : ~On(h, q)
        /\ p \notin torn => \A g \in Handlers \ {h} : ~On(g, p)
    BY <1>1, Holder DEF Stages
  <1>3. /\ \A g \in Handlers \ {h} : handler'[g] = handler[g]
        /\ handler'[h] = [handler[h] EXCEPT !.at = "erasing"]
        /\ \A q \in Pools \ {p} : poolRPM'[q] = poolRPM[q]
    BY <1>1, <1>2 DEF Inductive, TypeOK
  <1>4. handler'[h].at = "erasing" /\ handler'[h].pool = p
    BY <1>2, <1>3 DEF PoolRequest
  <1>5. /\ On(h, p)' /\ ~OnGlobal(h)' /\ \A q \in Pools \ {p} : ~On(h, q)'
        /\ Underway(h, p)'
    BY <1>4 DEF On, OnGlobal, Stages, GlobalStages, Underway
  <1> QED BY <1>1, <1>2, <1>3, <1>5, OneStep

LEMMA Erases == ASSUME Inductive, NEW h \in Handlers, ErasePool(h) PROVE Inductive'
  <1> PICK p \in Pools : p = handler[h].pool
    BY HandlerType DEF ErasePool, At, Inductive, Stages, PoolRequest
  <1>1. /\ boot = "serving" /\ handler[h].at = "erasing" /\ TypeOK'
        /\ stored' = [stored EXCEPT ![p] = Absent]
        /\ handler' = [handler EXCEPT ![h] = Idle]
        /\ UNCHANGED <<proxyFile, spent, poolClient, poolRPM, proxyURL, globalClient,
                       boot, torn, tornGlobal, limitsRead, toSet, overtaken>>
    BY TypeStep DEF ErasePool, Ends, At, memory, Inductive, loading
  <1>2. /\ p \in Pools /\ p \in spent /\ ~OnGlobal(h) /\ \A q \in Pools \ {p} : ~On(h, q)
        /\ p \notin torn => \A g \in Handlers \ {h} : ~On(g, p)
    BY <1>1, Holder DEF Stages
  <1>3. /\ \A g \in Handlers \ {h} : handler'[g] = handler[g]
        /\ \A q \in Pools : ~On(h, q)'
        /\ ~OnGlobal(h)'
        /\ stored'[p] = Absent
        /\ \A q \in Pools \ {p} : stored'[q] = stored[q]
    BY <1>1, <1>2 DEF Inductive, TypeOK, Idle, On, OnGlobal, Stages, GlobalStages
  <1>4. Settled(p)'
    BY <1>3 DEF Settled
  <1> QED BY <1>1, <1>2, <1>3, <1>4, OneStep

LEMMA ChangesGlobal ==
    ASSUME Inductive, NEW h \in Handlers,
           SaveProxy(h) \/ SetProxyURL(h) \/ ReadProxyURL(h) \/ SwapClients(h)
    PROVE  Inductive'
  <1>1. /\ boot = "serving" /\ TypeOK'
        /\ UNCHANGED <<stored, spent, poolClient, poolRPM, boot, torn,
                       limitsRead, toSet, overtaken>>
    BY TypeStep DEF SaveProxy, SetProxyURL, ReadProxyURL, SwapClients, At, files, memory, Inductive, loading
  <1>2. /\ \A g \in Handlers \ {h} : handler'[g] = handler[g]
        /\ handler[h].at \notin Stages /\ handler'[h].at \notin Stages
    <2>1. CASE SaveProxy(h)
      BY <2>1 DEF SaveProxy, At, Inductive, TypeOK, Stages
    <2>2. CASE SetProxyURL(h)
      <3>1. handler[h] \in GlobalRequest /\ handler[h].at = "saved"
        BY <2>2, HandlerType DEF SetProxyURL, At, Inductive, GlobalStages
      <3> QED BY <2>2, <3>1 DEF SetProxyURL, Goes, Inductive, TypeOK, Stages, GlobalRequest
    <2>3. CASE ReadProxyURL(h)
      BY <2>3 DEF ReadProxyURL, At, Inductive, TypeOK, Stages
    <2>4. CASE SwapClients(h)
      BY <2>4 DEF SwapClients, Ends, At, Idle, Inductive, TypeOK, Stages
    <2> QED BY <2>1, <2>2, <2>3, <2>4
  <1>3. \A q \in Pools : PoolOK(q)'
    <2>1. \A q \in Pools : ~On(h, q) /\ ~On(h, q)'
      BY <1>2 DEF On
    <2>2. \A q \in Pools \ {} : PoolOK(q)'
      BY <1>1, <1>2, <2>1, OtherPools
    <2> QED BY <2>2
  <1>4. Starting'
    BY <1>1 DEF Starting, Inductive
  <1>5. GlobalOK'
    <2> SUFFICES ASSUME ~tornGlobal' PROVE GlobalOK'
      BY DEF GlobalOK
    <2>1. ~tornGlobal
      BY DEF SaveProxy, SetProxyURL, ReadProxyURL, SwapClients
    <2>2. /\ \A g, k \in Handlers : (OnGlobal(g) /\ OnGlobal(k)) => g = k
          /\ handler[h].at = "saved" => handler[h].url = proxyFile
          /\ handler[h].at = "set" => proxyURL = proxyFile
          /\ handler[h].at = "read" => handler[h].url = proxyFile /\ proxyURL = proxyFile
      BY <1>1, <2>1 DEF Inductive, GlobalOK
    <2>3. \A g \in Handlers \ {h} : ~OnGlobal(g) /\ ~OnGlobal(g)'
      <3>1. CASE SaveProxy(h)
        BY <1>2, <3>1 DEF SaveProxy, BusyGlobal, OnGlobal
      <3>2. CASE ~SaveProxy(h)
        BY <1>2, <2>2, <3>2 DEF SetProxyURL, ReadProxyURL, SwapClients, At, OnGlobal, GlobalStages
      <3> QED BY <3>1, <3>2
    <2>4. \A g \in Handlers \ {h} : handler'[g].at \notin {"saved", "set", "read"}
      BY <2>3 DEF OnGlobal, GlobalStages
    <2>5. /\ handler'[h].at = "saved" => handler'[h].url = proxyFile'
          /\ handler'[h].at = "set" => proxyURL' = proxyFile'
          /\ handler'[h].at = "read" => handler'[h].url = proxyFile' /\ proxyURL' = proxyFile'
          /\ ~OnGlobal(h)' => proxyURL' = proxyFile' /\ globalClient' = proxyFile'
      <3>1. CASE SaveProxy(h)
        BY <3>1 DEF SaveProxy, Inductive, TypeOK, OnGlobal, GlobalStages
      <3>2. CASE SetProxyURL(h)
        <4>1. handler[h] \in GlobalRequest /\ handler[h].at = "saved"
          BY <3>2, HandlerType DEF SetProxyURL, At, Inductive, GlobalStages
        <4>2. handler'[h] = [handler[h] EXCEPT !.at = "set"] /\ handler'[h].at = "set"
          BY <3>2, <4>1 DEF SetProxyURL, Goes, Inductive, TypeOK, GlobalRequest
        <4> QED BY <2>2, <3>2, <4>1, <4>2 DEF SetProxyURL, files, OnGlobal, GlobalStages
      <3>3. CASE ReadProxyURL(h)
        BY <2>2, <3>3 DEF ReadProxyURL, At, files, memory, Inductive, TypeOK, OnGlobal, GlobalStages
      <3>4. CASE SwapClients(h)
        <4>1. handler'[h].at = "idle"
          BY <3>4 DEF SwapClients, Ends, Idle, Inductive, TypeOK
        <4> QED BY <2>2, <3>4, <4>1 DEF SwapClients, At, files
      <3> QED BY <3>1, <3>2, <3>3, <3>4
    <2> QED BY <2>3, <2>4, <2>5 DEF GlobalOK
  <1> QED BY <1>1, <1>3, <1>4, <1>5 DEF Inductive
-----------------------------------------------------------------------------
(* RegisterProxy's steps, which change no pool's file *)

\* What they leave alone, and what is left to prove of each pool.
LEMMA LoaderStep ==
    ASSUME Inductive, boot = "serving", TypeOK', limitsRead',
           UNCHANGED <<files, poolClient, proxyURL, globalClient, boot, handler, overtaken, torn,
                       tornGlobal>>,
           \A p \in Pools :
               /\ p \notin spent => poolRPM'[p] = 0 /\ toSet'[p] = 0
               /\ p \notin torn =>
                    /\ \A h \in Handlers : On(h, p) => Underway(h, p)'
                    /\ (\A h \in Handlers : ~On(h, p)) => Settled(p)'
    PROVE  Inductive'
  <1>1. \A p \in Pools, h \in Handlers : On(h, p)' <=> On(h, p)
    BY DEF On
  <1>2. ASSUME NEW p \in Pools PROVE PoolOK(p)'
    <2>1. PoolOK(p)
      BY DEF Inductive
    <2> QED BY <1>1, <2>1 DEF PoolOK, files
  <1>3. GlobalOK'
    BY DEF GlobalOK, OnGlobal, files, Inductive
  <1>4. Starting'
    BY DEF Starting
  <1> QED BY <1>2, <1>3, <1>4 DEF Inductive

LEMMA ReadsLimits == Inductive /\ ReadLimits => Inductive'
  <1> SUFFICES ASSUME Inductive, ReadLimits PROVE Inductive'
    OBVIOUS
  <1>1. /\ boot = "serving" /\ ~limitsRead /\ limitsRead'
        /\ UNCHANGED <<files, poolClient, poolRPM, proxyURL, globalClient, boot, handler,
                       overtaken, torn, tornGlobal>>
    BY DEF ReadLimits, memory
  <1>2. \A p \in Pools : toSet[p] = 0 /\ toSet'[p] = StoredRPM(p)
    BY <1>1 DEF ReadLimits, Inductive, Starting, NoLimits
  <1>3. TypeOK'
    <2>1. \A p \in Pools : StoredRPM(p) \in Limit
      BY ConstantsAssumption DEF StoredRPM, Inductive, TypeOK, Settings, Limit
    <2>2. toSet' \in [Pools -> Limit]
      BY <2>1 DEF ReadLimits
    <2> QED BY <1>1, <2>2 DEF files, Inductive, TypeOK
  <1>4. ASSUME NEW p \in Pools, p \notin spent PROVE poolRPM'[p] = 0 /\ toSet'[p] = 0
    BY <1>1, <1>2, <1>4 DEF Inductive, PoolOK, StoredRPM
  <1>5. ASSUME NEW p \in Pools, stored[p] # Absent, LimitFor(p, stored[p].rpm)
        PROVE  LimitFor(p, stored[p].rpm)'
    BY <1>1, <1>2, <1>5 DEF LimitFor, StoredRPM, files
  <1>6. ASSUME NEW p \in Pools, p \notin torn, NEW h \in Handlers, On(h, p)
        PROVE  Underway(h, p)'
    <2>1. Underway(h, p) /\ handler[h] \in PoolRequest
      BY <1>1, <1>6, HandlerType DEF Inductive, PoolOK, On
    <2>2. handler[h].new # Absent /\ handler[h].old # Absent
      BY <2>1, ConstantsAssumption DEF PoolRequest, Settings, Address, Limit
    <2>3. CASE handler[h].at = "created"
      BY <1>1, <1>5, <2>1, <2>2, <2>3 DEF Underway, LimitFor, files
    <2>4. CASE handler[h].at = "updating"
      BY <1>1, <1>5, <2>1, <2>2, <2>4 DEF Underway, LimitFor, files
    <2>5. CASE handler[h].at \in {"updated", "rebuilt"}
      <3>1. stored[p] = handler[h].new /\ stored[p] # Absent /\ toSet'[p] = handler[h].new.rpm
        BY <1>2, <2>1, <2>2, <2>5 DEF Underway, StoredRPM
      <3>2. Replacing(p, handler[h].old.rpm, handler[h].new.rpm)
        BY <2>1, <2>5 DEF Underway
      <3>3. Replacing(p, handler[h].old.rpm, handler[h].new.rpm)'
        BY <1>1, <1>5, <3>1, <3>2 DEF Replacing, LimitFor
      <3> QED BY <1>1, <2>1, <2>5, <3>3 DEF Underway, files
    <2>6. CASE handler[h].at \notin {"created", "updating", "updated", "rebuilt"}
      BY <1>1, <2>6 DEF Underway
    <2> QED BY <2>3, <2>4, <2>5, <2>6
  <1>7. ASSUME NEW p \in Pools, p \notin torn, \A h \in Handlers : ~On(h, p)
        PROVE  Settled(p)'
    <2>1. Settled(p)
      BY <1>1, <1>7 DEF Inductive, PoolOK
    <2> QED BY <1>1, <1>5, <2>1 DEF Settled, LimitFor, files
  <1> QED BY <1>1, <1>3, <1>4, <1>6, <1>7, LoaderStep

LEMMA LoadsLimit == Inductive /\ LoadLimit => Inductive'
  <1> SUFFICES ASSUME Inductive, LoadLimit PROVE Inductive'
    OBVIOUS
  <1> PICK r \in Pools :
        /\ toSet[r] # 0
        /\ poolRPM' = [poolRPM EXCEPT ![r] = toSet[r]]
        /\ toSet' = [toSet EXCEPT ![r] = 0]
        /\ UNCHANGED <<files, poolClient, proxyURL, globalClient, boot, handler, limitsRead,
                       overtaken, torn, tornGlobal>>
    BY DEF LoadLimit
  <1>1. limitsRead /\ boot = "serving" /\ r \in spent
    BY DEF Inductive, Starting, NoLimits, PoolOK, TypeOK
  <1>2. /\ poolRPM'[r] = toSet[r] /\ toSet'[r] = 0
        /\ \A q \in Pools \ {r} : poolRPM'[q] = poolRPM[q] /\ toSet'[q] = toSet[q]
    BY DEF Inductive, TypeOK
  <1>3. TypeOK'
    <2>1. toSet[r] \in Limit /\ 0 \in Limit
      BY ConstantsAssumption DEF Inductive, TypeOK, Limit
    <2>2. poolRPM' \in [Pools -> Limit] /\ toSet' \in [Pools -> Limit]
      BY <2>1 DEF Inductive, TypeOK
    <2> QED BY <2>2 DEF files, Inductive, TypeOK
  <1>4. ASSUME NEW p \in Pools, p \notin spent PROVE poolRPM'[p] = 0 /\ toSet'[p] = 0
    BY <1>1, <1>2, <1>4 DEF Inductive, PoolOK
  <1>5. ASSUME NEW p \in Pools, NEW n, LimitFor(p, n) PROVE LimitFor(p, n)'
    BY <1>1, <1>2, <1>5 DEF LimitFor
  <1>6. ASSUME NEW p \in Pools, NEW o, NEW n, Replacing(p, o, n) PROVE Replacing(p, o, n)'
    BY <1>2, <1>5, <1>6 DEF Replacing
  <1>7. ASSUME NEW p \in Pools, p \notin torn, NEW h \in Handlers, On(h, p)
        PROVE  Underway(h, p)'
    <2>1. Underway(h, p)
      BY <1>1, <1>7 DEF Inductive, PoolOK
    <2>2. /\ handler'[h] = handler[h] /\ stored'[p] = stored[p] /\ poolClient'[p] = poolClient[p]
      BY DEF files
    <2>3. LimitFor(p, handler[h].new.rpm) => LimitFor(p, handler[h].new.rpm)'
      BY <1>5, <2>2 DEF LimitFor
    <2>4. LimitFor(p, handler[h].old.rpm) => LimitFor(p, handler[h].old.rpm)'
      BY <1>5, <2>2 DEF LimitFor
    <2>5. Replacing(p, handler[h].old.rpm, handler[h].new.rpm)
            => Replacing(p, handler[h].old.rpm, handler[h].new.rpm)'
      BY <1>6, <2>2 DEF Replacing, LimitFor
    <2> QED BY <2>1, <2>2, <2>3, <2>4, <2>5 DEF Underway
  <1>8. ASSUME NEW p \in Pools, p \notin torn, \A h \in Handlers : ~On(h, p)
        PROVE  Settled(p)'
    <2>1. Settled(p)
      BY <1>1, <1>8 DEF Inductive, PoolOK
    <2> QED BY <1>5, <2>1 DEF Settled, LimitFor, files
  <1> QED BY <1>1, <1>3, <1>4, <1>7, <1>8, LoaderStep
-----------------------------------------------------------------------------
(* The invariant, and what follows from it *)

LEMMA InductiveStep == Inductive /\ [Next]_vars => Inductive'
  <1> SUFFICES ASSUME Inductive, [Next]_vars PROVE Inductive'
    OBVIOUS
  <1>1. CASE UNCHANGED vars
    BY <1>1 DEF vars, Inductive, TypeOK, Starting, GlobalOK, PoolOK, On, OnGlobal, Underway,
            Settled, LimitFor, Replacing
  <1>2. CASE Crash \/ BootGlobal \/ BootMigrate \/ BootBuild
    BY <1>2, CrashStep, BootStep
  <1>4. CASE ReadLimits \/ LoadLimit
    BY <1>4, ReadsLimits, LoadsLimit
  <1>3. ASSUME NEW h \in Handlers,
               \/ CreatePool(h) \/ BuildCreated(h)
               \/ ReadOld(h) \/ StoreUpdate(h) \/ RebuildPoolClients(h) \/ SetPoolRPM(h)
               \/ DropClients(h) \/ DropLimit(h) \/ ErasePool(h)
               \/ SaveProxy(h) \/ SetProxyURL(h) \/ ReadProxyURL(h) \/ SwapClients(h)
        PROVE  Inductive'
    BY <1>3, CreatesPool, BuildsCreated, ReadsOld, UpdatesStore, RebuildsClients, SetsLimit,
       DropsClients, DropsLimit, Erases, ChangesGlobal
  <1> QED BY <1>1, <1>2, <1>3, <1>4 DEF Next
-----------------------------------------------------------------------------
(* Theorems *)

LEMMA AtRestIsSettled ==
    ASSUME Inductive, NEW p \in Pools, AtRest(p)
    PROVE  poolClient[p] = stored[p].proxy /\ LimitFor(p, stored[p].rpm)
  <1>1. \A h \in Handlers : ~On(h, p)
    BY DEF AtRest, Busy, On
  <1> QED BY <1>1 DEF AtRest, Inductive, PoolOK, Settled

LEMMA InductiveImplies == Inductive => TypeOK /\ LimitIsStored /\ ProxyIsStored
  <1> SUFFICES ASSUME Inductive PROVE LimitIsStored /\ ProxyIsStored
    BY DEF Inductive
  <1>1. LimitIsStored
    BY AtRestIsSettled DEF LimitIsStored, LimitFor
  <1>2. ASSUME NEW p \in Pools, NEW a \in Address, AtRest(p), ~BusyGlobal, ~tornGlobal
        PROVE  WayOut(a, p) = Blamed(a, p) /\ proxyURL = proxyFile
    <2>1. proxyURL = proxyFile /\ globalClient = proxyFile
      BY <1>2 DEF AtRest, BusyGlobal, Inductive, GlobalOK, OnGlobal
    <2>2. poolClient[p] = stored[p].proxy /\ stored[p] # Absent
      BY <1>2, AtRestIsSettled DEF AtRest
    <2> QED BY <2>1, <2>2 DEF WayOut, Blamed
  <1>3. ProxyIsStored
    BY <1>2 DEF ProxyIsStored
  <1> QED BY <1>1, <1>3

\* Type correctness of the files, the copies and the requests in flight.
THEOREM TypeCorrect == Spec => []TypeOK
  BY InductiveInit, InductiveStep, InductiveImplies, PTL DEF Spec

\* At rest, requests leave through the proxy that the files name, whatever changes,
\* crashes and migrations there have been.
THEOREM ProxyIsTheStoredOne == Spec => []ProxyIsStored
  BY InductiveInit, InductiveStep, InductiveImplies, PTL DEF Spec

\* At rest, once RegisterProxy has set what it read, the limit in force is the stored
\* one, whatever crashes and migrations there have been and however the loading
\* interleaves with the console, except where it overwrites a change.
THEOREM LimitIsTheStoredOne == Spec => []LimitIsStored
  BY InductiveInit, InductiveStep, InductiveImplies, PTL DEF Spec
=============================================================================
