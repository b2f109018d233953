# Verification of copilot2api-go

TLA+ specifications of the Go server in `src/`, the TLC configurations that
check them on small instances, and proofs checked by TLAPS. The web console
(TypeScript) is a client of the server's API and is not modelled.

## 1. The system

copilot2api-go serves the OpenAI and Anthropic APIs on one port (the proxy) and
a management API on another (the console). It forwards proxy requests to GitHub
Copilot with the credentials of one of several accounts. An account that is
started has an *instance*: a Copilot token, refreshed by a goroutine. Accounts
are grouped in pools with an API key, a selection strategy, a rate limit and a
proxy. Everything is kept in JSON files.

| Component | State it keeps | Operations | What makes it correct |
|---|---|---|---|
| Instance lifecycle (`instance/manager.go`) | `instances`: per account a status, a stop channel and a token; `accountClients` | start, stop, refresh loop, retries; the console's start, stop, delete and update handlers | a running instance is refreshed; a stop ends the loop and never panics; one instance per account, with the account's proxy; an expired token is refreshed or reported |
| Rate limiter (`instance/rate_limiter.go`) | a token bucket per account, one global, a limit per pool | check a request; set, remove limits | no window gets more than the limit; Retry-After suffices; one bucket per account |
| Proxy pipeline (`handler/proxy.go`, `instance/handler.go`) | per request: the pool's accounts, attempts, exclusions, the open body | authenticate, select, check the limit, record, send, retry, answer | one answer and always one; no account twice; no account outside the pool; every body closed; every exchange recorded |
| Accounts and pools (`store/account.go`, `store/pool.go`) | `accounts.json`, `pools.json`, a mutex each | add, update, delete, join, leave | operations look atomic; an account is in one pool |
| Pool settings and HTTP clients (`handler/console_api.go`, `instance/manager.go`, `config/config.go`) | pool clients, global clients, the pool limits: copies of what the files say | create, update, delete a pool; set the global proxy; `main` and `RegisterProxy` at a start, the migration | at rest the copies are what the files say; an error names the proxy that was used |
| Load balancer and usage (`instance/load_balancer.go`, `instance/usage.go`) | a round-robin counter; per account a sliding window of records and the last 429 | select by one of four strategies; record, trim, count | the count is of the window; requests spread evenly; an account just refused is the worse choice for as long as its penalty lasts |
| Device flow, administrator (`auth/device_flow.go`, `store/admin.go`) | sessions of both kinds, in memory; `admin.json` | set up, log in, expire; start a flow, poll, complete | sessions are the administrator's; one account per flow and only with a token; polling ends |
| Model names (`store/model_map.go`) | a list of pairs | set, add, delete; translate both ways | a model is served under the name it was listed by |
| Request and response translation (`anthropic/translate_request.go`, `translate_response.go`, `utils.go`) | none | pure functions | what was said is sent again, once; tool calls are answered where they must be |
| Stream translation (`anthropic/stream_translation.go`) | the state of one stream: index, open block, tool calls | translate a chunk; the loop that reads, writes and ends | the client gets a well-formed Anthropic stream with all that could be read |
| Token counting, upstream error mapping, header tables, console queries | none | pure functions, formatting | (not modelled) |

How they interact: a console handler changes the store and then calls the
manager, the limiter or the client tables directly, each of which has a lock of
its own, so that a handler is never one atomic step. A proxy request copies the
pool when it is authenticated and then reads the other components afresh on
each attempt. The refresh goroutine and the handlers meet in the instance's
status and stop channel, a device flow's goroutine and its completion in the
fields of a session that no lock protects. Nothing but the store survives a
restart.

What is hard: handlers interleaved in the middle of a start or a stop; a file
truncated before it is written; two locks; a file and its copies written one
after the other; a retry loop in which the accounts' states change between two
attempts; limits loaded by the proxy's goroutine while the console changes them;
a stop channel closed on the evidence of a status that another goroutine writes;
counts that change while the least is looked for; times read before the lock
that orders the records; arithmetic at a bucket's boundaries; tool calls
interleaved with text, tool results with questions. `PROJECT.json` lists each
hazard at its line.

## 2. Modules

| Module | Models | Run | Theorems |
|---|---|---|---|
| `InstanceLifecycle` | `StartInstance`, `StopInstance`, `tokenRefreshLoop`, the console handlers around them | `lifecycle_races`, `lifecycle_serial`, `lifecycle_stop` | `InstanceLifecycle_proofs` |
| `TokenBucket` | one bucket over time | `token_bucket` | `RateLimiter_proofs` |
| `RateLimiter` | the buckets' table and its locks | `rate_limiter` | `RateLimiter_proofs` |
| `ProxyRequest` | one request from its key to its answer | `proxy_request` | `ProxyRequest_proofs` |
| `PoolRegistry` | abstract: what the two files promise | refined by `PoolStore` | |
| `PoolStore` | the files, their locks, truncation, crashes | `pool_store` | `PoolStore_proofs` |
| `PoolSettings` | a pool's proxy and limit and the global proxy, in the files and in memory; starts, crashes, migration | `pool_settings` | `PoolSettings_proofs` |
| `ConsoleAccess` | setup, login, device flows and their goroutines | `console_access` | `ConsoleAccess_proofs` |
| `UsageWindow` | the records of an account (operators) | `load_balancer` | `LoadBalancer_proofs` |
| `LoadBalancer` | the four strategies, composed with `UsageWindow` | `load_balancer` | `LoadBalancer_proofs` |
| `ModelMap` | the map of model names (operators) | `conversation` | `ProxyRequest_proofs` |
| `MessageTranslation` | requests and answers between the two APIs (operators) | `conversation` | `ProxyRequest_proofs` |
| `Conversation` | a client that uses both, turn after turn | `conversation` | `ProxyRequest_proofs` |
| `AnthropicStream` | abstract: the block protocol of a stream | refined by `StreamTranslation` | |
| `StreamTranslation` | the translation of one stream and its loop | `stream_translation` | `StreamTranslation_proofs` |

`MC*` modules give the constants their small values. Operators introduced by a
comment "Mutant form" are altered copies of a definition, each the bug a
property of the runs must detect; no specification uses them. `TokenBucket` and
`Conversation` name their specifications `BucketSpec` and `ConversationSpec`,
since a module of proofs extends each together with another component.

### InstanceLifecycle

One action per stretch of a handler between two releases of `mu`, named for what
it does: `StartCheck` is the check of a running instance, `StartBuild` the
account's client, `StartToken` the exchange with GitHub (it fails in
`StartFailed`), `StartPublish` the write to `instances`, `StartSpawn` the `go`
statement. `StopSignal` closes the channel and sets the status, `StopClients`
removes the clients after `mu` is released. The loop sleeps, wakes on its timer
or the channel, refreshes, retries and records success or failure. An instance
is an object (`Inst`), since a loop keeps its pointer after the map has another:
two starts at once make two of them. `Caller` is a console request, which may
start, stop, delete or update, or the auto-start of one account. `overlapped`
are the accounts that two requests were ever about at once, and `rivals` those
that two starts were ever about at once: the properties that such an overlap
breaks (section 5) are about the other accounts, while the others' requests and
all loops go on. Fetching the model list and the user profile ends without a
trace in what is modelled, so only its time remains (`LoopModels`). Time is not
counted: a token may expire at any moment and a sleep may end at any moment, so
that every order of the two is explored; attempts are counted (`MaxRetries`).

### TokenBucket and RateLimiter

The bucket's floats are integers: a token is worth `60 * TicksPerSecond` units,
and `RPM` units are added per tick, so that the only division left is the code's
own: `Wait`, the `math.Ceil` of the seconds in `Retry-After`. An observer
(`Observe`) may begin to count at any tick, so that `WindowBound` speaks of
every window. `RateLimiter` has no time: buckets only empty, the worst case
within one window, and its actions are the critical sections of
`CheckRateLimitForPool` and `getOrCreateAccountLimiter`: the snapshot under
RLock, the global bucket, the lookup, the creation with its second check, and
the account's bucket. `SetPoolRPM` and `RemovePoolRPM` run in between.

### ProxyRequest

A request is authenticated with a pool's key, which copies the pool's accounts,
or an account's own. An attempt then picks an account (`Pick` is any available
candidate: the strategies choose among them), reads its state, checks the limit,
records, sends, and gets no response or a status (`Codes`). The loops of the
three endpoints (`proxyCompletions`, `proxyEmbeddings`, `proxyMessages`) make
the same steps in the same order, so that one set of actions stands for all
three: `Retry` is what `RetryAfterError` and `RetryAfterStatus` share, `GiveUp`
the 502 after the last error, `Forward` the answer. Meanwhile the console
changes the status of instances, enables and disables accounts and moves them,
`Edits` times.

### PoolRegistry and PoolStore

Every store operation locks, reads the file, truncates it and writes it, four
steps of which a crash can fall between any two. `DeleteAccount` holds
`accountMu` while it takes `poolsMu`. `JoinRequest` first verifies the account
without a lock (`Verify`). The abstract registry has one step per request,
taken between its call and its return; deleting an account takes two. It is
implemented at these moments: a truncated file is read as its contents before
(`old`) until the write, and a crash that falls in between empties it, which
`PoolRegistry!Crash` allows. The refinement mapping is at the end of `PoolStore`.

### PoolSettings

A store operation is one step, which `PoolStore` justifies; what is between two
of them is not. `CreatePool`, `BuildCreated` are the two steps of
`handleCreatePool`; `ReadOld`, `StoreUpdate`, `RebuildPoolClients`, `SetPoolRPM`
the four of `handleUpdatePoolNew`, which acts on the difference between what it
read first and what it wrote; `DropClients`, `DropLimit`, `ErasePool` those of
`handleDeletePool`; `SaveProxy`, `SetProxyURL`, `ReadProxyURL`, `SwapClients`
those of `handleUpdateProxyConfig`, the last two being `rebuildHTTPClients`.
`main` is `BootGlobal`, `BootMigrate` (`MigratePoolConfig`), `BootBuild`, before
it serves. It then starts the console and the proxy in a goroutine each, so that
`ReadLimits` and `LoadLimit`, which are `RegisterProxy`'s copy of the pools and
the limits it sets from it one by one, run beside the handlers. `Crash` may fall
anywhere and leave a file empty. A client is the address it goes through. `torn`
and `tornGlobal` record that two requests were changing the same thing at once:
then the copies can differ from the files for good (section 5), and the
properties are about what has not been torn. `overtaken` records that a limit
was changed while `RegisterProxy` was about to set an older one, which then
overwrites it.

### ConsoleAccess

`SetupCheck`, `SetupStore`, `SetupLogin` are `handleSetup`, whose check and write
are under different holds of the lock. `Tick`, `Answer`, `WriteField`,
`ListAgain` are `pollForToken`. The goroutine writes the session's status and
token without a lock, so that `WriteField` writes them in either order;
`Load`, `Check`, `AddAccount`, `CleanupSession` are `handleCompleteAuth`, which
keeps a pointer to the session throughout. `Crash` empties everything in memory,
and `admin.json` if it was being written. Passwords and tokens are compared, not
computed.

### UsageWindow and LoadBalancer

`UsageWindow` has `trimLocked` (`Trimmed`), `RecordRequest` (`Recorded`) and
`GetWindowRequestCount` as operators on an account's records. `LoadBalancer`
calls them from requests in flight: `BeginRecord` reads the clock, `AppendRecord`
takes the lock and appends, later and perhaps after a later record. Round robin and
priority choose in one step; least-used and smart read one account at a time
(`ReadCount`, `ReadPenalty`), and the counts change meanwhile. Which accounts a
request may choose from is any set (`Lists`); `ProxyRequest` says which. The
clock is abstract, and so are the weights: a penalty decays by `PenaltyRate` per
step of the clock down to nothing, a priority counts for `PriorityWeight`, and a
penalty may be outweighed by a count, as in the code. `owed` remembers the
penalties a choice found when it began, since they change while it is made.

### ModelMap, MessageTranslation and Conversation

Pure functions, which `Conversation` puts to use: a client picks a model from
the list it is shown (`PickModel`), asks (`Ask`, or `AskCompletions`,
`AskEmbeddings` through the other API), gets an answer (`Answer`), runs the
tools it calls for, and sends everything again with their results. What the
client and the upstream may say is external, and is all their APIs allow within
the bounds: texts, images, tool calls and results in either order, images with
their data, by URL or with no source, arguments that are JSON or not, one choice
or two, with a message or without. A piece stands for a text, an image or a call
with its arguments, and `Emptied` for an image or a call without its contents:
`ContentOf` makes an empty data URL of an image by URL
(`translate_request.go:286`), `ParseJSONSafe` `{}` of arguments that do not
parse (`translate_response.go:93`). The map is edited between conversations
(`SetModelMappings`, `AddModelMapping`, `DeleteModelMapping`).

### AnthropicStream and StreamTranslation

`Translated` is `TranslateChunkToAnthropicEvents`: the state of the stream and
the events of a chunk, through the message's start, its text, its tool calls in
turn and its finish. `ReadChunk`, `WriteEvent` and the endings are the loop of
`handleAnthropicStream`. `Receive` is the client, whose view (the blocks, which
of them are open, the phase of the message) is what `AnthropicStream` constrains,
event by event. The upstream is external: it names a tool call once and before
its arguments, and sends nothing with content after a `finish_reason`. `content`
counts the pieces that the chunks parsed so far carried, before and apart from
their translation; `nameless` are the tool calls whose naming chunk was skipped
(`handler.go:262`), whose arguments the translation drops
(`stream_translation.go:117`).
Initially it is chosen whether it interleaves tool calls, and whether it numbers
them (a missing index reads as 0 in the code). The protocol forbids to write to a
block that is not open, with one exception, `late`: a tool's block may be written to
after it was stopped when the upstream interleaves its calls, or does not number
them and a chunk was lost (section 5).

## 3. Runs

Every run finishes within five minutes on two cores, all but `pool_settings` and
`load_balancer` within two. Bounds are the smallest at which every action fires
and two actors meet at every pair of steps.

| Run | Question and answer | Bounds |
|---|---|---|
| `lifecycle_races` | Two requests at once. A running instance always has its goroutine and open channel; no stop closes a channel twice; an account has one running instance unless two starts of it met. An account whose own requests did not overlap runs through its proxy, and not at all once deleted | 2 accounts, 2 instance objects, 2 callers, no retry (`lifecycle_serial` has them): enough for two starts to race, and for a stop to meet either. `Bound`: while the second account is in use, no requests overlap on one account and no token expires, since all that is then left to see is what two accounts do to each other |
| `lifecycle_serial` | A closed channel ends its loop and an expired token is refreshed or reported, while requests come one after another | 1 account, 2 objects, 1 caller, 1 retry: a loop shares its channel, status and token with requests one at a time, and the fairness is its own, so that a second caller adds no step to it |
| `lifecycle_stop` | Violated: a stop does not end the loop of an instance whose status is `error` | 1 caller |
| `token_bucket` | The window bound and both directions of Retry-After | a rate below one per second and one above it, 9 ticks |
| `rate_limiter` | Two requests racing to create one bucket share one limit, while limits are set and removed | 2 accounts in 2 pools, 3 buckets, limits 0 to 2 |
| `proxy_request` | One answer, always; no account twice; bodies, records and the pool's boundary | 3 accounts for 3 attempts, 2 edits between them |
| `pool_store` | The files implement the registry across a crash; an account is in one pool; no deadlock | 2 accounts, 2 pools, 2 requests, 1 crash |
| `pool_settings` | At rest, requests leave through the proxy the files name, and the limit is the stored one, once `RegisterProxy` has set what it read and unless it overwrote a change with that; through crashes anywhere, empty files and the migration | 2 pools, 1 proxy, limits 0 and 1, a legacy pool, 2 requests, crashes unbounded; at most 1 pool is torn by two requests (`MaxTorn`), and left alone until the next start |
| `console_access` | Sessions are the administrator's; an account is made with a token and once per flow; polling ends | 2 users, 2 session tokens, 1 flow, 2 requests, at most 2 accounts per flow |
| `conversation` | What was said is sent again, once, as far as the code can; tool calls are answered where they must be; the model picked serves | 3 names, one of them dated, 2 models, every map of 2 pairs, a prompt of 1 piece, 2 questions of which the last stays unanswered, 2 calls in an answer |
| `load_balancer` | Counts are those of the window; requests spread evenly; an account with a 429 is preferred to one without only if that one has been used for what is left of the penalty | 2 accounts of different priority, 2 requests, a window of 1, a penalty of 3 per step for 2 steps, 2 for a priority, records late by 1, a clock to 3, 4 choices (5 for "smart", so that an account used often meets a penalty) and one fewer per step of the clock |
| `stream_translation` | The client's stream is well formed, and has all that the parsed chunks carried, but the arguments of a call that was never named | 4 chunks, each with text and up to 2 calls, 2 tools |

Why these are enough. A conversation's second question already sends an answer
and its results again, and a third repeats that. Two accounts are all that a
comparison of scores sees, and a window of 1 with records late by 1 has every
order of three records at its edge; `EvenlySpread` was also checked with three
requests and nine choices without a clock, `token_bucket` with more ticks,
`proxy_request` with two requests at once, and `stream_translation` with three
tools in three chunks, all without an error. One flow: flows share nothing but
the map they are listed in. One proxy beside none: clients are compared for
equality only. Accounts do not interact in `InstanceLifecycle` beyond the lock
of the map; the second is there to show that they do not.

`CHECK_DEADLOCK FALSE` is set where the modelled part may really stop: all
instances stopped and the objects used up, time or choices at their bound, a
request answered, a conversation or a stream ended. `pool_store`,
`pool_settings` and `console_access` keep the check: a request in flight must be
able to go on. In the last two a crash always can, and the check says little.

Symmetry is used only in runs without liveness. It permutes callers, objects,
accounts and pools where no definition tells them apart; `RateLimiter` does not
permute accounts, which `PoolOf` distinguishes, nor `LoadBalancer`, which orders
them.

### Fairness

- `InstanceLifecycle!FairSpec`: weak fairness of the handlers' and loops' own
  steps, since Go schedules goroutines and their calls time out or fail. No
  fairness for requests being made, nor for tokens expiring. Nothing makes a
  refresh succeed: `ExpiredIsRefreshed` is met by the status `error` as well.
- `ProxyRequest!FairSpec`: weak fairness of the request's steps, and the
  upstream exchange ends, by an answer, an error, or the client's departure. The
  requests of `proxyEmbeddings` carry `context.Background()`, so that only the
  upstream ends those.
- `ConsoleAccess!FairSpec`: weak fairness of a flow's goroutine: its ticker
  ticks, its calls to GitHub end (the client has a timeout), and the lifetime of
  the code passes. GitHub may say "pending" for ever; expiry alone makes
  `PollingEnds` true.
- No liveness is claimed of the other modules.

## 4. Proofs

TLAPS proves the following for every value of the constants, from the named
assumptions of the modules (`None` is no account, bounds are naturals, rates are
positive; where requests or accounts are counted, there are finitely many of
them; the balancer's list names an account once, and a record waits for the lock
for less than a penalty lasts).

| Theorem | Statement | Argument |
|---|---|---|
| `InstanceLifecycle_proofs!TypeCorrect` | `Spec => []TypeOK` | part of `Inductive` |
| `!RunningTended` | a running instance has an open channel and a goroutine, or a request about to spawn it | `Inductive` adds that an object is referred to by one start before it is published, and what each stage of the loop says of its channel |
| `!StopNeverPanics` | the channel `StopInstance` closes is open | from the same: status `running` implies an open channel |
| `!RunningHasItsProxy`, `!DeletedStaysStopped` | for any number of requests at once: an account whose own requests never overlapped runs through its row's proxy, and not at all once deleted | `Apart`, for each such account: what the one request about it knows at each of its stages (`Knows`); its client is its row's, or that request is about to rebuild it; its running object is the one in the map. A step about another account leaves all of it `Untouched` |
| `!OneRuns` | for any number of requests at once: one instance of an account runs, unless two starts of it met, whatever stops, deletes and updates do | `Lone`: an account has one start under way, which found none running; a running object is in the map. Only the start's own steps make an object run, and what else overlaps it makes none |
| `RateLimiter_proofs!BucketTypeCorrect` | the level stays between nothing and full | refill is capped |
| `!BucketBoundsEveryWindow` | what was granted in a window is at most the size plus what time adds | the invariant relates level, grants and time since the window began |
| `!RetryAfterIsEnough` | who waits as told is not refused | the bound of the remainder of the division by the rate |
| `!RetryAfterIsTight` | a second before its end there is no token | the same division: one less falls short of what is missing |
| `!TypeCorrect` | the limiter's tables | part of `Inductive` |
| `!BucketBoundsBurst` | requests racing for a bucket get no more than its size together | a bucket that a request holds is the one in the map, or marked stale; the one in the map has paid for every grant counted (`MappedPays`), and is not made twice |
| `ProxyRequest_proofs!TypeCorrect` | requests, attempts, accounts | part of `Inductive` |
| `!ClientGetsOneAnswer` | an ended request was answered once, no other was | by stage |
| `!NoAccountIsTriedTwice` | an account is sent a request once | an account that was sent it is excluded, or is the one being tried; a retry excludes it before it picks again |
| `!NoBodyIsLeftOpen` | a body is open only while it is being read | by stage |
| `!RequestsStayInTheirPool` | `[][...]_vars`: only accounts of the pool as it was are sent a request | candidates are a subset of the copy made at authentication, at every stage and attempt |
| `!EveryExchangeIsRecorded` | an account's records other than failures are as many as the exchanges made with it, the one about to be sent included | a record is made before its exchange and a failure counted with its record, by the action; that a request was sent to an account at most once (`NoAccountIsTriedTwice`) makes the sum over requests the size of a set (`SentToCounts`), which a step changes by one element |
| `!ModelPickedServes` | under a sound map a client is served by the model it picked, through either API, with that model's limit | `NamesKept`: a model picked is known by the name the map shows it under, since the map changes only between conversations; what was asked is what the map makes of that name. A sound map leads back (`SoundMapLeadsBack`), from what a search finds (`FirstPairFits`): a pair that fits, or none does |
| `!SaidIsResent` | whatever can be sent of all said so far, by either side, is in one place of one message of the request, and nothing else, for any system prompt, number of questions, calls and results | `TalkInductive`: the translated history has each piece that was told once (`SaidOnce`); what either side will say names its turn and was not said before (`NewPieces`), so that a question or an answer adds to the sequence what is new to it (`SaidGrows`); at the upstream's turn the request is the whole translated history (`AskedWhole`). What is sent next begins with what was sent before (`TranslatedGrows`), so that a step is about one message: the client's, its results before or after the rest (`QuestionTranslated`), or the answer kept, from one choice or two (`AnswerContent`, `AnswerTranslated`) |
| `!CallsAreAnswered` | the messages right after one with tool calls answer these calls, each once, and no other message answers a call | `CallsFollowed`, also in `TalkInductive`: every call is answered but those of the last message while the client runs its tools, which are the pending ones. They are pending because an answer finishes with `tool_calls` if and only if it has calls, whichever choice they are in (`AnswerFinishes`); the client's question answers each, before anything else is sent (`QuestionAnswers`), and what is answered stays so (`AnsweredStays`) |
| `PoolStore_proofs!TypeCorrect` | types; only existing pools list accounts | part of `Inductive` |
| `!AtMostOnePool` | an account is in at most one pool | the holder of a lock has what the file says in its copy; a copy to be written is exclusive |
| `!StoreImplementsRegistry` | `Spec => StoreIsRegistry`, whatever `Crashes` is | each step maps to one registry step or a stutter, by the invariant that relates `old` and `copy` to the files |
| `PoolSettings_proofs!TypeCorrect` | the files, the copies, the requests | part of `Inductive` |
| `!ProxyIsTheStoredOne`, `!LimitIsTheStoredOne` | at rest the copies are what the files say; a limit, unless `RegisterProxy` overwrote a change of it | for a pool not torn, one request at most is changing it, and at each of its stages (`Underway`) the file is what it wrote and each copy is of what it read first or of what it wrote; with none, the copies are settled. The limit is in force or still to be set by `RegisterProxy` (`LimitFor`), which may have read the pool before or after a change (`Replacing`). An identifier not yet given out has nothing. The same for the global proxy (`GlobalOK`), and for `main` (`Starting`) |
| `ConsoleAccess_proofs!TypeCorrect` | sessions, flows, requests | its own invariant |
| `!SessionsAreTheAdmins` | a session is of the administrator named in the file | without rivals one setup is under way, while there is no administrator and so no session |
| `!AccountsHaveToken` | an account is made with a token | a flow's token is never taken back, and was seen by the request that completes it |
| `!OneAccountPerFlow` | a flow makes one account | a flow not shared is completed by one request, after which it is not listed and its goroutine has ended (`CompletionIsAlone`) |
| `StreamTranslation_proofs!TypeCorrect` | translator, events, client | part of `Inductive` |
| `!StreamIsAnthropicAlways` | `Spec => StreamIsAnthropic`, for any number of chunks and tools, up to two calls in a chunk | the events still to be written lead the client, by legal steps only (`Run`), to a view that agrees with the translator's state (`Live`); a chunk appends events that keep this so, a write takes the first of them |
| `!EveryPieceArrives` | when what was translated has been written, the client has every piece the parsed chunks carried, in a block of its kind and tool call, and none of a call whose naming chunk was lost | `Inductive` also says that the client, once it has the events still to be written, has what the chunks carried (`Delivered`), unless an unnumbered call was lost (`Clear`), that the block an index leads to is of its tool, and that the translator knows the calls that were named in a parsed chunk and no others (`Named`). Sums over blocks are the sizes of sets of pairs (`SumCounts`) |
| `LoadBalancer_proofs!TypeCorrect` | windows, choices, counters | part of `Typed` and `RequestsOK` |
| `!WindowIsCounted` | what is counted of an account is every record made of it in the window, and none older than that by more than `MaxDelay` | `WindowKept`: records are out of order by `MaxDelay` at most, none is after the clock, and those in the window are the ones that were made. Trimming stops at the first record in the window, so that an older one behind it stays, but none older than the order allows |
| `!RequestsSpreadEvenly` | over accounts always there and always answering: in turn, no account is chosen twice more than another; by least use, the requests in flight are all it can be ahead | `TakeTurns`: an account was chosen as often as the quotient of `rrIndex` by their number, and once more if it is among the remainder. `LeastUsed`: an account's choices are its records and the attempts under way; once it has more records than another was chosen, only the choices that read it before (`Chasing`) can still choose it (`NotAhead`) |
| `!RefusedIsAvoided` | "smart" prefers an account with a penalty to one without only if the records of the other outweigh what is left of the penalty and the difference of the priorities | `RecordsBounded`: a choice leaves two records at most. `SmartKept`: the score of the best so far is that of its penalty at least, and no more than that of any account considered that still has none (`Compared`); a choice in progress counts on a penalty it found, of which all but `MaxDelay`'s part of a full one stays, though the last 429 may go back in time (`PenaltyStays`) |

The safety properties are not inductive as they stand: each proof module states
its strengthening, proves that `Init` establishes it and each action preserves
it, and derives the properties. `Exclusive`, for instance, can be broken by a
write of a copy made before another's write, which only the lock excludes;
`ProxyIsStored` by the last step of a request that had read something else at
first. Lemmas such as `OnlyThisRequest`, `OtherPools` and `OneStep` say once
that a step leaves the other requests and pools alone, so that each action's
proof is about its own.

What is summed is summed without an induction theorem, whose operator parameter
the provers cannot instantiate: of the subsets of a finite set for which a
statement fails one would be minimal (`WFMin` over strict inclusion), and has none.
A least natural number is found in the same way. `StreamIsAnthropic` needs no
induction, because a chunk of the model has at most two calls: its fold is
unrolled (`FoldNone`, `FoldOne`, `FoldTwo`) and each call proved by one lemma.
The translation of messages is written with `FlattenSeq` alone, which is a
recursive function of the index: one such function exists for every prefix
(`FlattenExists`), two agree (`FlattenAgree`), and one more sequence is put at
the end (`FlattenAppend`), each by induction with the statement as a set of
numbers (`NatInduct`). Over a set of sequences (`SeqInduct`) follows what the
proofs use: mapping and flattening a concatenation concatenates the results
(`FlatMapConcat`).

Only model-checked: liveness (`ClosedEndsLoop`, `ExpiredIsRefreshed`,
`Answered`, `PollingEnds`: TLAPS has no rules here for `ENABLED` and fairness).
Every invariant and every safety property of steps that holds in a run is proved.
The theorems of `Conversation` keep to its client and upstream: an answer has one
choice or two, and names its pieces by its turn. `Conversation` has no type
invariant of its own; `TalkOK`, in `TalkInductive`, types what is said.

## 5. What the checks found

One run shows that the code does otherwise than it says; `PROJECT.json` quotes
the place.

- `lifecycle_stop`: after a failed refresh the status is `error`, and a stop
  then closes nothing (`manager.go:107`); the loop goes on refreshing the token
  of a stopped account, for as long as the process lives, and overwrites the
  status.

TLC also refutes these properties, which the modules state, most with a comment
"Refuted", and which have no run of their own:

- `RunningUsesAccountProxy` (`InstanceLifecycle`) of overlapped accounts too:
  `manager.go:652` speaks of the account's proxy as the one with priority, but
  an update or a stop that overlaps a start leaves the running instance without
  its account's client (`manager.go:48`, `:112`);
- `OwnLimitHolds` (`RateLimiter`): setting one pool's limit drops the buckets of
  every account (`rate_limiter.go:99`; the comment above speaks of this pool's);
- `BucketsHavePoolRate` (`RateLimiter`): a bucket made with the limit read
  before `SetPoolRPM` keeps the old rate (`rate_limiter.go:159`);
- `OnlyRunningIsUsed` (`ProxyRequest`): an account's own key is accepted and its
  token used whatever the status of its instance (`manager.go:134`,
  `proxy.go:135`);
- `CountsRequests` (`ProxyRequest`): a failed attempt is recorded twice, at its
  beginning and at its failure (`proxy.go:195`, `:202`, `:215`);
- `NoDanglingMember` (`PoolStore`): an account deleted between the check that it
  exists and `AddAccountToPool` stays listed (`console_api.go:592`);
- `AlwaysServedAsListed` (`Conversation`): the map is "bidirectional"
  (`README.md:23`), but nothing makes it one to one, and a dated name of a
  Claude model is shortened before the lookup on one of the two paths
  (`translate_request.go:14`).

Assumptions some properties make explicit, because without them they fail:

- `overlapped` (`InstanceLifecycle`): a delete that overlaps a start may leave
  an instance of the deleted account running, which `handleDeleteAccount` no
  longer stops (`console_api.go:324`, `manager.go:76`), and the clients may be
  the wrong ones (above);
- `rivals` (`InstanceLifecycle`): two starts may both find no running instance
  (`manager.go:38`); the one that loses its place in the map keeps running, and
  no stop reaches it;
- `overtaken` (`PoolSettings`): a limit changed right after a start, between
  `RegisterProxy`'s reading of the pools and its setting of the limit, is
  overwritten with the older one until the next change or start (`proxy.go:23`);
- `torn`, `tornGlobal` (`PoolSettings`): two updates of one pool, or of the
  global proxy, that overlap may leave the clients or the limit of one and the
  file of the other, until the next change or start (`console_api.go:538`);
- `rivals` (`ConsoleAccess`): two setups may both find no administrator; the
  second replaces the first, whose session stays valid (`console_api.go:131`,
  `:137`);
- `shared` (`ConsoleAccess`): two requests that complete a session at once both
  add an account (`console_api.go:416`), and so does a second completion if the
  goroutine lists the session again after it was cleaned up
  (`device_flow.go:152`);
- `late` (`AnthropicStream`): arguments go to the block of the call with their
  index (`stream_translation.go:117`), open or not, so that calls whose chunks
  alternate write to a stopped block. When the upstream does not number its
  calls, all have index 0, and those of a call whose first chunk was lost go to
  the call before;
- `MapIsSound` (`Conversation`): see `AlwaysServedAsListed`;
- `nameless` (`StreamTranslation`): a tool call whose naming chunk could not be
  parsed never reaches the client, whatever arguments follow
  (`stream_translation.go:117`);
- `PiecesToSend`, `CallToSend` (`Conversation`): an image by URL is sent as an
  empty data URL and one without a source not at all
  (`translate_request.go:286`), and arguments that do not parse become `{}`
  (`translate_response.go:93`, as `translate_response_test.go:45` expects).
  `ResentOnce` says that everything else is sent whole, and these once and no
  otherwise.

Seen while reading and outside the models: a delete that removes a pool's
clients and limit and then fails to write leaves a pool without them
(`console_api.go:558`); the migration runs again whenever `pools.json` is empty,
and the default pool with its old key comes back (`migration.go:22`);
`ValidateSession` deletes under a read lock (`admin.go:107`); device flow
sessions never completed stay in memory; the round-robin index is shared by all
pools (`load_balancer.go:12`); blocks of unknown type are dropped; the model
page shows the last pair of a model where the list has the first
(`console_api.go:681`, `model_map.go:110`); the default output limit may be that
of another model; token counts that arrive in the usage-only chunk after the
`finish_reason` are dropped (`stream_translation.go:11`), although the request
asks for them (`translate_request.go:25`); an upstream stream that ends without
a `finish_reason` ends the client's without `message_stop` or an error.

## 6. Not modelled

- Upstream error mapping: a table and the shape of error bodies, without state.
- Token counting: a tokenizer library and constant weights, arithmetic over
  strings.
- Console queries: handlers that read and format. Configuration and headers:
  tables, a version fetched once, a file of one field. The web console; build
  files.
- Of the migration, the members, key and strategy of the pool it makes; of a
  start, the auto-start of instances, which is a start request. `RateLimiter`
  keeps each account in one pool (`PoolOf`): an account that is moved meets the
  other pool's limit with the bucket it has.
- Of messages, contents of tool results other than texts.
- Of request translation, tool definitions, tool choice, sampling parameters and
  headers, which are copied field by field.
- Fields of accounts and pools other than identity, membership, enablement,
  proxy and limit; texts, token counts and usage numbers of messages; hashing of
  passwords; timeouts' lengths, and the polling interval.
- `SetPerAccountRPM` and `CheckRateLimit`, which nothing calls.

## 7. Plan

1. The rest of the migration, with `PoolStore`: which accounts the default pool
   gets when it comes back.
2. A larger `load_balancer`: a third account, for which the theorems already
   hold.

Runs are kept few: a new component gets one run for all of its properties, and
where two components meet they are composed in one module rather than checked
twice. Modules of proofs are kept few as well, and hold those of components that
share their subject.
