---------------------------- MODULE PoolSettings ----------------------------
(***************************************************************************)
(* A pool's proxy and rate limit are written to pools.json, and copied     *)
(* into the tables of HTTP clients and limits that requests use; the       *)
(* global proxy is written to proxy-config.json and copied into a          *)
(* variable and the global clients.  The console's handlers                *)
(* (handler/console_api.go) write one after the other, each under a lock   *)
(* of its own; a restart rebuilds the copies from the files (main.go),     *)
(* migrating the legacy pool if there are no pools (store/migration.go).   *)
(* The limits are copied last, by the goroutine that registers the proxy   *)
(* (handler/proxy.go), when the console may be changing them already.      *)
(*                                                                         *)
(* A store operation is one step here: PoolStore shows that it is one.     *)
(***************************************************************************)
EXTENDS Integers, FiniteSets

CONSTANTS Pools,      \* bound: identifiers of pools, each given out once until nothing
                      \* is left of it
          Proxies,    \* proxy addresses
          NoProxy,    \* the empty address
          MaxRPM,     \* bound: the limits are 0 .. MaxRPM, 0 or less being none
          Handlers,   \* console requests in flight
          MaxTorn,    \* bound: pools that two requests change at once, between two starts
          LegacyRPM,  \* pool-config.json: the legacy pool's limit, or Absent
          Absent      \* no such pool

ASSUME ConstantsAssumption ==
    /\ NoProxy \notin Proxies
    /\ MaxRPM \in Nat /\ MaxTorn \in Nat
    /\ LegacyRPM \in (0 .. MaxRPM) \cup {Absent}
    /\ Absent \notin [proxy : Proxies \cup {NoProxy}, rpm : 0 .. MaxRPM]

Address == Proxies \cup {NoProxy}
Limit == 0 .. MaxRPM
Settings == [proxy : Address, rpm : Limit]

VARIABLES
    stored,        \* pools.json: the settings of each pool, or Absent
    proxyFile,     \* proxy-config.json
    spent,         \* the identifiers that have been given out
    poolClient,    \* poolStreamClients, poolDefaultClients: the address, or NoProxy for none
    poolRPM,       \* rateLimiter.poolRPM: the limit, or 0 for none
    proxyURL,      \* config.proxyURL
    globalClient,  \* the address streamingHTTPClient and defaultHTTPClient go through
    boot,          \* where main is
    handler,       \* where each console request is
    limitsRead,    \* RegisterProxy has read the pools
    toSet,         \* the limits it has read and not set yet; 0 is none
    overtaken,     \* history: pools whose limit was changed when an older one was to be set
    torn,          \* history: pools two requests were changing at once, since the start
    tornGlobal     \* history: the same of the global proxy

vars == <<stored, proxyFile, spent, poolClient, poolRPM, proxyURL,
          globalClient, boot, handler, limitsRead, toSet, overtaken, torn, tornGlobal>>

memory == <<poolClient, poolRPM, proxyURL, globalClient>>
files == <<stored, proxyFile, spent>>
loading == <<limitsRead, toSet, overtaken>>

Idle == [at |-> "idle"]
Stages == {"created", "updating", "updated", "rebuilt", "deleting", "dropped", "erasing"}
GlobalStages == {"saved", "set", "read"}

TypeOK ==
    /\ stored \in [Pools -> Settings \cup {Absent}]
    /\ proxyFile \in Address
    /\ spent \subseteq Pools
    /\ poolClient \in [Pools -> Address]
    /\ poolRPM \in [Pools -> Limit]
    /\ proxyURL \in Address
    /\ globalClient \in Address
    /\ boot \in {"global", "migrate", "build", "serving"}
    /\ handler \in [Handlers -> {Idle}
          \cup [at : Stages, pool : Pools, old : Settings, new : Settings]
          \cup [at : GlobalStages, url : Address]]
    /\ limitsRead \in BOOLEAN
    /\ toSet \in [Pools -> Limit]
    /\ overtaken \subseteq Pools
    /\ torn \subseteq Pools
    /\ tornGlobal \in BOOLEAN

NoPools == [p \in Pools |-> Absent]
NoClients == [p \in Pools |-> NoProxy]
NoLimits == [p \in Pools |-> 0]

\* A first start: EnsurePaths has made the files; a global proxy may be there.
Init ==
    /\ stored = NoPools
    /\ proxyFile \in Address
    /\ spent = {}
    /\ poolClient = NoClients
    /\ poolRPM = NoLimits
    /\ proxyURL = NoProxy
    /\ globalClient = NoProxy
    /\ boot = "global"
    /\ handler = [h \in Handlers |-> Idle]
    /\ limitsRead = FALSE
    /\ toSet = NoLimits
    /\ overtaken = {}
    /\ torn = {}
    /\ tornGlobal = FALSE
-----------------------------------------------------------------------------
(* main, before the servers listen *)

\* The global proxy is read from its file and applied.
BootGlobal ==
    /\ boot = "global"
    /\ boot' = "migrate"
    /\ proxyURL' = proxyFile
    /\ globalClient' = proxyFile
    /\ UNCHANGED <<files, poolClient, poolRPM, handler, torn, tornGlobal, loading>>

\* MigratePoolConfig: without pools, the legacy pool becomes the only one, with
\* the global proxy for its own.
BootMigrate ==
    /\ boot = "migrate"
    /\ boot' = "build"
    /\ IF stored = NoPools /\ LegacyRPM # Absent
       THEN \E p \in Pools \ spent :
              /\ stored' = [stored EXCEPT ![p] = [proxy |-> proxyFile, rpm |-> LegacyRPM]]
              /\ spent' = spent \cup {p}
       ELSE UNCHANGED <<stored, spent>>
    /\ UNCHANGED <<proxyFile, memory, handler, torn, tornGlobal, loading>>

\* The clients of every pool with a proxy are built; then main starts the console
\* and the proxy, each in a goroutine.
BootBuild ==
    /\ boot = "build"
    /\ boot' = "serving"
    /\ poolClient' = [p \in Pools |-> IF stored[p] = Absent THEN NoProxy ELSE stored[p].proxy]
    /\ UNCHANGED <<files, poolRPM, proxyURL, globalClient, handler, torn, tornGlobal, loading>>
-----------------------------------------------------------------------------
(* RegisterProxy, in the proxy's goroutine, while the console serves *)

StoredRPM(p) == IF stored[p] = Absent THEN 0 ELSE stored[p].rpm

\* Mutant form: the limits are not loaded.
ReadNoLimits ==
    /\ boot = "serving" /\ ~ limitsRead
    /\ limitsRead' = TRUE
    /\ UNCHANGED <<files, memory, boot, handler, toSet, overtaken, torn, tornGlobal>>

\* The pools are read, for the limits of those that have one.
ReadLimits ==
    /\ boot = "serving" /\ ~ limitsRead
    /\ limitsRead' = TRUE
    /\ toSet' = [p \in Pools |-> StoredRPM(p)]
    /\ UNCHANGED <<files, memory, boot, handler, overtaken, torn, tornGlobal>>

\* SetPoolRPM, for one pool after the other.
LoadLimit ==
    \E p \in Pools :
      /\ toSet[p] # 0
      /\ poolRPM' = [poolRPM EXCEPT ![p] = toSet[p]]
      /\ toSet' = [toSet EXCEPT ![p] = 0]
      /\ UNCHANGED <<files, poolClient, proxyURL, globalClient, boot, handler, limitsRead,
                     overtaken, torn, tornGlobal>>
-----------------------------------------------------------------------------
(* The console's handlers *)

Goes(h, stage) == handler' = [handler EXCEPT ![h].at = stage]
Ends(h) == handler' = [handler EXCEPT ![h] = Idle]
At(h, stage) == boot = "serving" /\ handler[h].at = stage

Busy(p) == \E h \in Handlers : handler[h].at \in Stages /\ handler[h].pool = p
BusyGlobal == \E h \in Handlers : handler[h].at \in GlobalStages

\* A request begins to change a pool, which another may be changing.  Nothing is
\* claimed of a torn pool, and it is left alone until the next start; no more than
\* MaxTorn are torn until then (bounds).
Begins(p) ==
    /\ p \notin torn
    /\ torn' = IF Busy(p) THEN torn \cup {p} ELSE torn
    /\ Cardinality(torn') <= MaxTorn

\* handleCreatePool: AddPool, under a new identifier and without a limit.
CreatePool(h) ==
    /\ At(h, "idle")
    /\ \E p \in Pools \ spent, x \in Address :
         LET s == [proxy |-> x, rpm |-> 0] IN
           /\ stored' = [stored EXCEPT ![p] = s]
           /\ spent' = spent \cup {p}
           /\ handler' = [handler EXCEPT ![h] =
                            [at |-> "created", pool |-> p, old |-> s, new |-> s]]
    /\ UNCHANGED <<proxyFile, memory, boot, torn, tornGlobal, loading>>

\* BuildPoolClients, which without an address is RemovePoolClients.
BuildPoolClients(p, x) == poolClient' = [poolClient EXCEPT ![p] = x]

\* handleCreatePool then builds the clients.
BuildCreated(h) ==
    /\ At(h, "created")
    /\ BuildPoolClients(handler[h].pool, handler[h].new.proxy)
    /\ Ends(h)
    /\ UNCHANGED <<files, poolRPM, proxyURL, globalClient, boot, torn, tornGlobal, loading>>

\* handleUpdatePoolNew: reads the pool, to know later what has changed.
ReadOld(h) ==
    /\ At(h, "idle")
    /\ \E p \in Pools :
         /\ stored[p] # Absent
         /\ handler' = [handler EXCEPT ![h] =
                          [at |-> "updating", pool |-> p, old |-> stored[p], new |-> stored[p]]]
         /\ Begins(p)
    /\ UNCHANGED <<files, memory, boot, tornGlobal, loading>>

\* UpdatePool sets the fields the request gives, any of which may be missing.  A
\* pool deleted in between is not found.
StoreUpdate(h) ==
    /\ At(h, "updating")
    /\ LET p == handler[h].pool
       IN IF stored[p] = Absent
          THEN Ends(h) /\ UNCHANGED stored
          ELSE \E s \in Settings :
                 /\ stored' = [stored EXCEPT ![p] = s]
                 /\ handler' = [handler EXCEPT ![h].at = "updated", ![h].new = s]
    /\ UNCHANGED <<proxyFile, spent, memory, boot, torn, tornGlobal, loading>>

\* Mutant form: the clients are rebuilt only when a pool gets a proxy.
RebuildOnSetOnly(h) ==
    /\ At(h, "updated")
    /\ IF handler[h].new.proxy # handler[h].old.proxy /\ handler[h].new.proxy # NoProxy
       THEN BuildPoolClients(handler[h].pool, handler[h].new.proxy)
       ELSE UNCHANGED poolClient
    /\ Goes(h, "rebuilt")
    /\ UNCHANGED <<files, poolRPM, proxyURL, globalClient, boot, torn, tornGlobal, loading>>

\* The clients are rebuilt if the proxy is not the one read at first.
RebuildPoolClients(h) ==
    /\ At(h, "updated")
    /\ IF handler[h].new.proxy # handler[h].old.proxy
       THEN BuildPoolClients(handler[h].pool, handler[h].new.proxy)
       ELSE UNCHANGED poolClient
    /\ Goes(h, "rebuilt")
    /\ UNCHANGED <<files, poolRPM, proxyURL, globalClient, boot, torn, tornGlobal, loading>>

\* Mutant form: the limit is changed by as much as the stored one.
SetRPMByDifference(h) ==
    /\ At(h, "rebuilt")
    /\ poolRPM' = [poolRPM EXCEPT ![handler[h].pool] = @ + handler[h].new.rpm - handler[h].old.rpm]
    /\ Ends(h)
    /\ UNCHANGED <<files, poolClient, proxyURL, globalClient, boot, torn, tornGlobal, loading>>

\* SetPoolRPM, if the limit is not the one read at first; 0 removes it.  Any other
\* that RegisterProxy has still to set for the pool will overwrite it.
SetPoolRPM(h) ==
    /\ At(h, "rebuilt")
    /\ LET p == handler[h].pool
           n == handler[h].new.rpm
       IN IF n # handler[h].old.rpm
          THEN /\ poolRPM' = [poolRPM EXCEPT ![p] = n]
               /\ overtaken' = IF toSet[p] \in {0, n} THEN overtaken \ {p} ELSE overtaken \cup {p}
          ELSE UNCHANGED <<poolRPM, overtaken>>
    /\ Ends(h)
    /\ UNCHANGED <<files, poolClient, proxyURL, globalClient, boot, limitsRead, toSet, torn,
                   tornGlobal>>

\* handleDeletePool: first the clients go, then the limit, then the pool.
DropClients(h) ==
    /\ At(h, "idle")
    /\ \E p \in spent :
         /\ BuildPoolClients(p, NoProxy)
         /\ handler' = [handler EXCEPT ![h] =
                          [at |-> "dropped", pool |-> p, old |-> [proxy |-> NoProxy, rpm |-> 0],
                           new |-> [proxy |-> NoProxy, rpm |-> 0]]]
         /\ Begins(p)
    /\ UNCHANGED <<files, poolRPM, proxyURL, globalClient, boot, tornGlobal, loading>>

DropLimit(h) ==
    /\ At(h, "dropped")
    /\ poolRPM' = [poolRPM EXCEPT ![handler[h].pool] = 0]
    /\ Goes(h, "erasing")
    /\ UNCHANGED <<files, poolClient, proxyURL, globalClient, boot, torn, tornGlobal, loading>>

ErasePool(h) ==
    /\ At(h, "erasing")
    /\ stored' = [stored EXCEPT ![handler[h].pool] = Absent]
    /\ Ends(h)
    /\ UNCHANGED <<proxyFile, spent, memory, boot, torn, tornGlobal, loading>>

\* handleUpdateProxyConfig: the file, the variable, and the clients, for which
\* rebuildHTTPClients reads the variable before it takes the clients' lock.
SaveProxy(h) ==
    /\ At(h, "idle")
    /\ \E x \in Address :
         /\ proxyFile' = x
         /\ handler' = [handler EXCEPT ![h] = [at |-> "saved", url |-> x]]
    /\ ~ tornGlobal
    /\ tornGlobal' = BusyGlobal
    /\ UNCHANGED <<stored, spent, memory, boot, torn, loading>>

SetProxyURL(h) ==
    /\ At(h, "saved")
    /\ proxyURL' = handler[h].url
    /\ Goes(h, "set")
    /\ UNCHANGED <<files, poolClient, poolRPM, globalClient, boot, torn, tornGlobal, loading>>

ReadProxyURL(h) ==
    /\ At(h, "set")
    /\ handler' = [handler EXCEPT ![h] = [at |-> "read", url |-> proxyURL]]
    /\ UNCHANGED <<files, memory, boot, torn, tornGlobal, loading>>

SwapClients(h) ==
    /\ At(h, "read")
    /\ globalClient' = handler[h].url
    /\ Ends(h)
    /\ UNCHANGED <<files, poolClient, poolRPM, proxyURL, boot, torn, tornGlobal, loading>>
-----------------------------------------------------------------------------
\* The process ends, at any moment, and main runs again.  Whatever file a request
\* was writing may have been truncated and is then read as empty.
Crash ==
    /\ stored' \in IF boot = "serving" THEN {stored, NoPools} ELSE {stored}
    /\ proxyFile' \in IF boot = "serving" THEN {proxyFile, NoProxy} ELSE {proxyFile}
    /\ boot' = "global"
    /\ poolClient' = NoClients
    /\ poolRPM' = NoLimits
    /\ proxyURL' = NoProxy
    /\ globalClient' = NoProxy
    /\ handler' = [h \in Handlers |-> Idle]
    /\ limitsRead' = FALSE
    /\ toSet' = NoLimits
    /\ overtaken' = {}
    /\ torn' = {}
    /\ tornGlobal' = FALSE
    /\ spent' = {p \in Pools : stored'[p] # Absent}

Next ==
    \/ BootGlobal \/ BootMigrate \/ BootBuild \/ Crash \/ ReadLimits \/ LoadLimit
    \/ \E h \in Handlers :
         \/ CreatePool(h) \/ BuildCreated(h)
         \/ ReadOld(h) \/ StoreUpdate(h) \/ RebuildPoolClients(h) \/ SetPoolRPM(h)
         \/ DropClients(h) \/ DropLimit(h) \/ ErasePool(h)
         \/ SaveProxy(h) \/ SetProxyURL(h) \/ ReadProxyURL(h) \/ SwapClients(h)

Spec == Init /\ [][Next]_vars
-----------------------------------------------------------------------------
(* Properties *)

\* ProxyRequestWithBytesCtx: the way out of a request made for an account with
\* the proxy a (NoProxy: it has none), in pool p.
WayOut(a, p) ==
    IF a # NoProxy THEN a
    ELSE IF poolClient[p] # NoProxy THEN poolClient[p]
    ELSE globalClient

\* resolveProxyForLog: the address an error message blames for it, which is read
\* from the files and the variable.
Blamed(a, p) ==
    IF a # NoProxy THEN a
    ELSE IF stored[p] # Absent /\ stored[p].proxy # NoProxy THEN stored[p].proxy
    ELSE proxyURL

AtRest(p) == boot = "serving" /\ stored[p] # Absent /\ ~ Busy(p) /\ p \notin torn

\* Once the requests that changed a pool's settings and the global proxy have
\* ended, and no two of them overlapped, a request of the pool leaves through the
\* proxy that the files name and an error message would blame: the account's, or
\* else the pool's, or else the global one; whatever restarts, truncated files,
\* migrations and deletions there have been.
ProxyIsStored ==
    \A p \in Pools, a \in Address :
        (AtRest(p) /\ ~ BusyGlobal /\ ~ tornGlobal) =>
            /\ WayOut(a, p) = Blamed(a, p)
            /\ proxyURL = proxyFile

\* Once the requests that changed a pool's settings have ended, no two of them
\* overlapped, and RegisterProxy has set what it read of the pool, the limit in force
\* is the stored one: it comes back after every restart, whether it was changed
\* before the restart, before RegisterProxy read it or after it was set.  The
\* exception is a pool whose limit was changed between the two, when the older one
\* overwrites it.
LimitIsStored ==
    \A p \in Pools :
        (AtRest(p) /\ limitsRead /\ toSet[p] = 0 /\ p \notin overtaken) =>
            poolRPM[p] = stored[p].rpm
=============================================================================
