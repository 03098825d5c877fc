# Specifications of auto_ai_router

auto_ai_router is an HTTP gateway in Go that routes OpenAI-style requests to
many provider credentials, converts between provider formats, limits and bans
credentials, keeps conversations, and records what each request cost in a
LiteLLM database.  This directory holds TLA+ models of its parts, TLC runs that
check them on small instances and TLAPS proofs that hold for all instances.

Contents: [inventory](#inventory), [plan](#plan), [modules](#modules-and-the-code),
[runs](#runs-and-bounds), [fairness](#fairness), [proofs](#proofs),
[divergences](#where-the-code-and-its-text-disagree),
[what is not modelled](#what-is-not-modelled), [how to run](#how-to-run).

## Inventory

| Part (`src/...`) | State | Operations | What is hard | What makes it correct |
|---|---|---|---|---|
| `internal/litellmdb/spendlog` spend logging | bounded channel of entries, the worker's reused batch array, dead letter queue (DLQ), channel of inserted ids, metrics | `Log`, `worker`, `flushBatch`, `flushBatchWithSpendUpdate`, `dlqRecoveryWorker`, `aggregationWorker`, `Shutdown` | four kinds of goroutines, lost commit acknowledgements, retries, a full queue, DLQ or id channel, shutdown in the middle of anything | nothing is charged twice, nothing accepted is lost before a batch is given up, dead letters leave only for the database, shutdown ends |
| `internal/fail2ban` | failures per (credential, model) and code, bans with a time | `RecordResponse`, `IsBanned`, `HasAnyBan`, getters, `Unban*` | lock upgrade in `IsBanned`, bans that are removed lazily | bans and counters agree, a ban lasts as long as its rule says, nobody can tell a lazy removal from a punctual one |
| `internal/ratelimit` | limits per credential and (credential, model); sliding windows locally, in Redis, or both | `TryAllowAll`, `ConsumeTokens`, `RemoveModel`, `doSync`, `writeWorker`; `TimeBasedRateLimiter.Wait` | two counters changed together under two locks, counters replaced meanwhile; several routers, lost answers of Redis, clocks read before retries, estimates of what others use | one decision over both counters, no window above its limit, a retry counts once, admissions come back |
| `internal/balancer` | credentials, smooth weighted round robin state per selection cycle | `Next*`, `RecordResponse`, `UpdateDBCredentials`, `UpdateProviderScopes` | bans and limits change between check and use, weights while the live set changes, a reload of the list | no starvation, shares follow the weights, retries keep the type and the order of priorities |
| `internal/proxy` request path | per request: tried credentials, log context | orchestrate, same-type retry, fallback | exactly one spend entry, no credential twice, no second answer after the first byte | the contract of failover, attribution of the entry, the session's binding |
| `internal/proxy/stream.go`, `internal/converter` streams | per stream: an accumulator, pipes and goroutines, the captured usage | one converter per provider, relays, drain | events in any legal order, events split over reads, a client that leaves, a read that fails, who closes which pipe | what is opened is closed, once and in order; the last event, the stored response and the entry agree with what was sent; everything ends |
| `internal/responsestore`, `internal/proxy/proxy_websocket.go` conversations | stored responses with expiry, the connection's cache | `SaveResponse`, `GetEntry`, `LoadAndPrependHistory`, the connection's loop | a continuation before the save, a provider that remembers too, failed turns, crashes | a request is answered from the end of its conversation, nothing twice |
| `internal/litellmdb/auth` key authentication | LRU cache of keys with a TTL | `ValidateToken`, `FetchMasterKey`, `Validate` | slow queries fill the cache late, records run out in the cache | a decision was true a short while ago |
| `internal/litellmdb/connection`, `internal/health` | pool, health flag, backoff, breaker | probe, reconnect, report | three memories of one outage | once the database stays up, no key is refused for its sake |
| `internal/auth` Vertex tokens | token per credential, refreshing set, waiters, queue | `GetToken`, `refreshWorker`, `Stop` | coalesced refreshes, waiter time-outs, refreshes that overlap | every waiter gets an answer, and none with an expired token |
| `internal/models`, `internal/modelupdate`, `litellmdb/model_table`, `internal/scope` | model, credential, limit and scope tables, cached lists, snapshots of other routers | load, reload, update, list | three processes write the tables of the balancer, the manager and the limiter | the tables agree, lists show nothing that is gone, scopes stay closed until they are known, all converge |
| `internal/converter` requests | none | conversion of payloads between formats | wording of many formats | one field after the other |
| `internal/worker` | job queue (not used by the server) | submit, stop | | |
| `internal/config`, `router`, `monitoring`, `telemetry`, `logger`, `security`, `httputil`, `users`, `crypto_utils` | configuration, metrics, helpers | | stateless or pure I/O | |

How the parts interact.  A request enters `proxy.ProxyRequest`, is authenticated
against the key cache or the database (`TokenAuth`), gets its history if it
continues a response (`Conversations`), and asks the **balancer** for a
credential.  The balancer holds one lock (`RoundRobin.mu`) for a whole lookup,
filters by model, scope, type and priority - from tables that the model manager,
the updater and the syncer keep (`ModelRegistry`) -, drops credentials that
**fail2ban** has banned or that the **rate limiter** says are full, lets the
weighted round robin choose among the rest and charges the choice with
`TryAllowAll`.  Fail2ban and the rate limiter have locks of their own, and other
callers (responses that come back, token reports) go to them without the
balancer's lock.  A Vertex AI credential asks the **token manager** for a token
first (`VertexTokens`).  After the upstream's answer the request reports the
status to fail2ban and the tokens to the limiter, and either retries with another
credential of the type, continues along the chain of fallback routers
(`RequestFlow`), or answers, converting the stream if need be (`StreamRelay`); a
completed response goes to the **response store**, and the request's deferred
function makes the session's binding and the one spend entry, which goes into the
**spend logger**'s channel.  The logger's goroutines run on their own;
`cmd/server/main.go` stops the HTTP server first and the logger after it, with a
deadline each, and closes the pool last.

## Plan

The order follows what an operator would miss most: money first, then who is
called, then everything that feeds these decisions.  All of it is done.

1. `SpendLogger` implements `SpendLedger` (spend logging).
2. `Fail2Ban` implements `BanPolicy`.
3. `RateLimiter` implements `SlidingWindow`; `IntervalLimiter`.
4. `WeightedRoundRobin`, and `CredentialChoice`: what a lookup may return.
5. `RequestFlow` (which uses `CredentialChoice`) implements `FailoverContract`.
6. `VertexTokens`, and `TokenAuth` over `TokenRecord`: caches with fetches in flight.
7. `ModelRegistry` over `Scopes`: three writers of the tables and readers between them.
8. `StreamRelay` over the converters `ChatResponses`, `AnthropicResponses`,
   `VertexResponses`, `ProviderChat` (which share `ResponseEvents`) and over
   `ResponseBodies`, the conversion without streaming.
9. `SharedLimits`: several routers over one Redis.
10. `Conversations`: the response store, continuations and the WebSocket.

Modules are composed where components share state: the balancer's list, the
manager and the limiter in `ModelRegistry`; pool, cache, breaker and request in
`TokenAuth`; converter, pipes, relay, store and entry in `StreamRelay`; store,
orchestrator and connection in `Conversations`.  A composition of fail2ban, the
limiter and the selection under the balancer's lock is not written: the lock makes
a lookup one step, whose possible results `CredentialChoice` gives as a set for any
state of the other two, and that is what `RequestFlow` uses.

## Modules and the code

**`SpendLedger`** is what spend logging promises: an entry is accepted or
refused once; its row and its spend are added together, at most once, and only if
it was accepted; each daily table counts a row at most once.

**`SpendLogger`** models `spendlog/logger.go` and the aggregation pipeline.
`status`, `queue` are the callers of `Log` and the channel; `arrays` and `batch`
keep Go's arrays and slices apart, because the worker reuses one array and the DLQ
keeps slices of it; `pc`, `attempt`, `lastTry`, `closing` are where the worker and
the recovery goroutine are; `tx`, `params`, `inserted`, `charged` are their
transactions; `rows`, `spent`, `daily` the committed database; `dlq`, `dlqCopy`,
`dlqCount` the dead letters; `pending`, `job` the aggregation; `shutdown`,
`poolOpen` the end.  `Prepare`, `Insert` and `Commit` are the three moments of
`flushBatchWithSpendUpdate` that another goroutine can tell apart (the parameters
are copied from the slice, the `INSERT ... ON CONFLICT DO NOTHING RETURNING`, the
filter by the returned ids with the charges and the commit); `TxFail` and
`CommitLostAck` are the failures, the second one with the data committed.
Abstractions: one unit of spend per entry; a slice is read in one step; a writer
that meets an uncommitted row waits with its whole statement; blocked senders enter
a full channel in any order.

**`BanPolicy`** bans a pair for a code after the configured number of consecutive
failures and ends the ban on time.  **`Fail2Ban`** models `fail2ban.go`:
`RecordResponse` with its lazy removal, `IsBanned` in two steps (read lock, write
lock), `UnbanCredential` and `Unban` (no caller in the server, kept as the
operator's actions), the clock in ticks that only moves forward, and ages capped at
the longest duration.  The string `"|"` inside a credential's name, which
`UnbanCredential` would confuse with its separator, is not modelled.

**`SlidingWindow`** is one counter: what it holds, what it admits, how it ages.
**`RateLimiter`** models `RPMLimiter` with the in-process backend for one credential
and its models: `TryAllowAll` locks the credential's counter, then the model's, and
records the request in both or in neither; callers hold pointers to counters they
looked up before; `RemoveModel` and a later add replace them.  Reads of request and
token counters taken one after the other are merged into one step where no writer
can tell.

**`SharedLimits`** models the other two backends for one credential: direct replicas
(`redis_backend.go`), where a Lua script decides on sorted sets (`zset`), and hybrid
ones (`hybrid_backend.go`) with counters of their own (`local`), an estimate of what
others use (`remoteStats`), the queue of writes (`writeQueue`) with its batch, and a
`doSync` in two steps.  A member of a sorted set is the request's uuid, drawn before
the first attempt; its score is the age of the clock read for it: once for the request
(`stamp`), and again for the tokens of its credential and then of its model
(`tokenStamp`), each a call with its own retries (`told`).  A call
of Redis may fail before or after it took effect and is retried (`tries`); each
command of a pipeline fails on its own; a replica may crash.  The counters of a model are
removed part by part, each under a lock of its own (`removal`), while requests,
writes and a synchronisation run.

**`IntervalLimiter`** models `time_based.go`: `Wait` reads the last time under the
lock, sleeps without it, and writes the new time.

**`WeightedRoundRobin`** models `weighted.go` and the selection of
`roundrobin.go`: `advance` adds each live credential's weight, the greatest counter
wins and pays the total, and a refusal of `TryAllowAll` after `advance` asks for
another one.

**`CredentialChoice`** has no state: for each lookup of the balancer, the set of
credentials it may return, given who is live, who was tried and who failed last
(`Next*`, priority tiers, same type).  Model visibility is part of the set of
credentials; which of the set the round robin takes is left open.

**`FailoverContract`** is what a request promises to the outside: it contacts new
credentials only, a bounded number of them, and answers once.  **`RequestFlow`**
models one request: `Authenticate`, `ReadBody`, `Select`, the provider retry loop,
the router path, the fallback chain of `retry.go`, and the deferred function that
binds the session and makes the entry.  Every upstream call may succeed, fail with a
retryable or another status, break before the header, or break in the middle of a
stream; a body may be unfit for some credentials (`BadSets`), which the loop skips.

**`Scopes`** is `internal/scope` as operators: an expression is a set of
alternatives, `And`, `Or`, `NormalizeExpression` with its bound on alternatives (past
which it closes), `AllowsExpression`, and `LegacyProjection`, the two lists that are
published for older routers.

**`ModelRegistry`** models who serves which model.  `db` and `health` are the world
(`world`), which changes at any moment; `balancer`, the manager's tables (`tables`),
its caches (`caches`) and the limiter's `pairs` are what the server keeps; `sync`,
`fetch` and `lister` are where the syncer of `cmd/server/main.go`, the calls of
`GetRemoteModelsWithError` and a reader of `/v1/models` are.  An action is what one
of them does between two sections of a lock: the updater sets the limits of a router's models call by call
(`GetAllModelPairs`, `CheckPair`, `RemoveModel`, `GetModelRPM`, `AddModel`), the syncer puts the database's
rows in one by one (`SyncLimits`).  Who may use a credential is what its configuration says (`YamlScope`, or
`DBScope` for one of the database) and what its router advertises, together.  A row of a router's answer has a
scope of its own, which closes when it is malformed, or none, when the router's holds.  `phase` is the start of
the server, which goes through the same steps once before it serves.

**`TokenRecord`** is `TokenInfo.Validate`: blocked, expired, and the six budgets in
their order.  **`TokenAuth`** models `ValidateToken` over the LRU cache (`lru`,
`cached`), the pool and its reconnects (`pool`, `check`), the monitor's breaker
(`breaker`) and `authenticateRequest`.  A request looks into the cache, acquires a
connection, reads, caches and decides in steps; rows change and the database goes
down and comes back between them.  `sinceGood` and `sinceBad` are an observer's
clock and take no part in the behaviour.

**`VertexTokens`** models `auth/vertex.go` for one credential: `GetToken` up to its
registration in `refreshing`, the hand-over to the worker, the wait with its
time-out; the worker, and one goroutine per refresh (`task`) with its token source;
`Stop` in its steps.  Tokens age, and the library's `ReuseTokenSource` keeps
returning the one it has until that has expired.

**`ChatResponses`**, **`AnthropicResponses`**, **`VertexResponses`** and
**`ProviderChat`** are the converters' accumulators and handlers of an event, as
operators from an accumulator and an event to an accumulator with the events it has
written; **`ResponseEvents`** holds the builders they share, **`ResponseBodies`** the
output items of a body that was not streamed, of all its choices or candidates.  An item is a kind and a number, a text is
whether there was one.  **`StreamRelay`** runs them: `stage` and `pipe` are the
goroutines and `io.Pipe`s of a handler of `stream.go`, `upstream` the provider's
connection, `relay` the handler, `client` what a client that follows the protocol has
understood (external), `captured` what `tokenCapturingWriter` saw, `saved` the store,
`entry` the spend entry.  A provider sends any sequence of events that its protocol
allows, and may break off.

**`Conversations`** models a request to `/v1/responses` from its arrival over HTTP or a
WebSocket to its end: `ExtractResponsesMetadata`, `LoadAndPrependHistory`, the choice
of a destination (who speaks the Responses API itself, provider or router, who is converted, the
fallback router), what that destination sees - the body, or also what it kept of the id's
response (`MayKeep`, `Seen`) -, the answer, the save
and the events; the connection's cache (`local`), its loop and its disconnects; the
store with its expiry; crashes of the router.  A response is the number of its turn.

`MC*.tla` hold the constants of the small instances, `*Proofs.tla` the theorems.
Operators that only appear in `PROJECT.json` under `mutants` are marked "Mutation" and
stand before the definition they change; no specification uses them.

## Runs and bounds

| Run (`module`, `.cfg`) | Instance | What it shows |
|---|---|---|
| `spend_ledger` (`MCSpendLogger`, `SpendLogger_ledger`) | 2 entries, 2 daily tables, queue 1, batch 2, 2 attempts, DLQ of 1, id channel of 1, 4 faults | nothing counted twice, nothing lost before the first dead letter, the ledger is implemented; shutdown ends, dead letters drain, accepted entries are written |
| `fail2ban_bans` (`MCFail2Ban`, `Fail2Ban_bans`) | 1 credential, 2 models, a temporary code (2 failures) and a permanent one (1 failure), 2 callers of `IsBanned` | maps agree, only time and the operator end a ban, lazy removal implements the punctual policy |
| `ratelimit` (`MCRateLimiter`, `RateLimiter_limits`) | 1 model, 2 callers, window of 2 ticks, the model removed and added again | `TryAllowAll` is one decision over both counters, no window above its limit, the credential counts what its models count, tokens pass the limit by one report per running request at most; capacity returns |
| `interval_own` (`MCIntervalLimiter`, `IntervalLimiter_own`) | 3 callers of 1 key, interval of 3 ticks, cancellations | a caller's own operations are an interval apart |
| `wrr_fair` (`MCWeightedRoundRobin`, `WeightedRoundRobin_fair`) | weights 3, 2, 1, any non-empty live set at each selection, 1 refusal | counters, waits, shares and bursts are bounded |
| `flow_mixed` (`MCRequestFlow`, `RequestFlow_mixed`) | providers of 2 types (one with a priority), 2 routers, 2 fallback routers, a fallback provider, 2 retries, 2 fallback attempts, bodies unfit for one type | who is contacted and in which order; one entry, one answer, its attribution; the session; the contract; every request ends |
| `registry_agree` (`MCModelRegistry`, `ModelRegistry_agree`) | 3 models, 1 credential and 1 router in YAML, 1 credential and 2 rows in the database, 4 answers of the router's `/health`, 1 caller, 1 change of the world | the tables agree, lists are current, limits cover what the configuration gives; scopes stay closed until known and under reloads; all three converge on the world |
| `streams` (`MCStreamRelay`, `StreamRelay_streams`) | 13 kinds of handlers; 3 events of a provider (5 for Anthropic) to a client that stays, 2 or 3 to one that may leave | the client can follow; the last event agrees with the events before it, the store, the entry and the first choice or candidate of the body without streaming; every handler and goroutine ends |
| `vertex_waiters` (`MCVertexTokens`, `VertexTokens_waiters`) | 3 calls, queue 1, 2 tokens, 4 sources, all time-outs and `Stop` | who waits has an answer or somebody who works for it; no answer is expired; all are answered without time-outs |
| `auth_keys` (`MCTokenAuth`, `TokenAuth_keys`) | 2 requests, 1 key with 4 possible rows and the master key, cache of 1, TTL of 1 tick, queries of at most 1 tick, 1 change, 1 outage | decisions were true within TTL and query time; pool and breaker recover |
| `shared` (`MCSharedLimits`, `SharedLimits_mixed`) | 1 direct and 1 hybrid replica, 2 requests, 1 credential and 1 model, window of 2 ticks, calls of at most 1 tick, 1 retry, queue and batch of 2, 1 failed call or command, crash or removed model | the direct replicas keep the limit within window minus call time, a hybrid one its own, a request is one entry; a replica that is left alone admits again |
| `conversations` (`MCConversations`, `Conversations_kept`) | 3 turns, 2 at a time, 1 fault, 1 tick; HTTP with store and expiry, WebSocket with and without store | a request sees the end of its conversation, what was told is found, the connection goes on |

With two workers each ends within three minutes.

Why these are enough.  *Spend*: the interesting cases need a batch that is
dead-lettered while the worker refills its array and something that the retry then
meets; two entries with batches of two and a DLQ of one reach eviction and rewriting,
four faults are two batches given up after two attempts each, and the same faults leave
a lost acknowledgement followed by its retry.  The code's four attempts and ten dead
letters only make these cases longer; three entries (`Entries = {e1, e2, e3}`, with
`SYMMETRY Symmetry` and only the invariants and `LedgerSpec`) have been checked as well.
*Fail2ban*: one credential suffices since no operation relates two except
`UnbanCredential`, whose model-by-model loop needs two models; two codes so that one is
temporary and one permanent on the same pair.  *Rate limits*: two callers between the
two locks and one model are the smallest instance in which a give-back can go wrong; a
window of two ticks has a middle.  *Round robin*: three credentials of different weights are two rivals of
whom one may be banned; the bounds hold for any number, which is
proved.  *Flow*: with two retries and two fallback attempts both loops are
entered, continued and exhausted; a type with and one without priorities let a chain
start in the middle.  *Registry*: the start alone runs every process once; one change then makes
each of them work on an old snapshot while another is done with the new one.  A row for
a model of the configuration, one for a new model, an answer with a row whose scope is malformed next to one
without a scope, one with well-formed scopes, one without any scopes and none at all are the cases the merges
tell apart.  *Streams*: five events are
a block opened, filled and closed and another one begun; chat and Vertex chunks carry
several parts each, one of each an image or a search and a part of another choice or candidate.  *Vertex*: a third call is needed to meet the answer of a refresh whose first
waiter has left; two tokens so that one is old.  *Auth*: two requests, so that one reads
before and the other after a change; a cache of one, so that the master key can be evicted.
*Shared limits*: one direct and one hybrid replica meet in Redis; the two requests are
as many as pass the limit of one; the credential limits requests and the model tokens, so that
a request waits for two reports and the removal of the model's counters meets its queued tokens;
one fault at a time.  *Conversations*: three turns are
a continuation of a continuation; two run at once.

Every property has a mutant in `PROJECT.json`: a small change to the code's model, of
the kind an edit could make, under which TLC refutes the property.

## Fairness

* `SpendLogger`: weak fairness of the goroutines' own steps (the Go scheduler), of
  timers, and of a transaction whose statement can proceed.  Not fair: requests,
  faults (bounded by `MaxFaults`, which is what "once the database works" means), and
  the decision to shut down.
* `RateLimiter`: time passes and goroutines run.  The fairness of `TryAllowAll`
  includes that requests keep coming; it is the premise of `CapacityReturns`, which
  asks that requests then keep being admitted.
* `RequestFlow`: weak fairness of the request's own work.  This assumes that an
  upstream call ends: true of the direct path through `bodyReadTimer`, and a
  hypothesis on the router path, whose client has no overall timeout and whose
  body is read without a timer.
* `ModelRegistry`: the updater's and the syncer's tickers, the reader's own steps, and
  the expiry of cached lists.  The world changes finitely often (`MaxChanges`), which is
  the premise of `Converges`.
* `StreamRelay`: the provider's connection gives something or ends (the body's read timer),
  every goroutine and the handler run, and a cancelled context reaches the connection.
  The client need not stay.
* `VertexTokens`: that somebody of the worker, the refreshes and the calls works while
  one of them can; with finitely many calls this is all that is needed.  Google answers in
  the end.  No time-out is fair, so `Answered` does not rest on one.
* `TokenAuth`: the health check's and the monitor's tickers, and a reconnect that was
  begun.  `Recovers` is about a database that stays up.
* `SharedLimits`: time, and the hybrid replica's workers; that it is asked again and again
  is the premise of `LeftAloneRecovers`.  Nothing is assumed of Redis.
* `Conversations`: each turn's handler and the end of a connection's turn.

## Proofs

All theorems are checked by TLAPS for every value of the constants that the named
assumptions admit; TLC evaluates the assumptions in the runs.
* `ConstAssumption`, `RulesAssumption`, `MarkersAssumption`, `IntervalAssumption`, `CredsAssumption`,
  `FlowAssumption`, `BoundsAssumption`: bounds are numbers, rules and credentials have their fields,
  markers are nobody's name.
* `LimitsAssumption`, `WindowAssumption`, `CallersAssumption`, `AmountAssumption` and
  `NamesAssumption`: limits are numbers or -1, there are finitely many callers, names differ.
* `TokensAssumption`, `QueueCapAssumption`, `NoneAssumption`: tokens and the queue are bounded and
  `None` is nobody's value.  `TimesAssumption`, `KeysAssumption`, `RowsAssumption`: times are numbers
  and rows are what the joined query reads.
* `ModesAssumption`, `ChunksAssumption`: a handler is one of `Kinds` with at most three goroutines
  (`stream.go` starts no more) and none for a relay; a chunk has the fields its converter reads, the terminator
  carries no usage, and Anthropic's `message_delta`, of which a message has one, has a reason and its tokens (its protocol;
  a stream without it is one whose last event was never sent, which is in the model).  A stream's length is not bounded
  by them: `max` is any value.
* `WeightAssumption`, `LiveAssumption`, `RefusalAssumption`: weights are positive (`weighted.go` makes
  them so), somebody is live in every selection, disturbed selections are counted.
* `SharedAssumption`: a call of Redis, with its retries, takes less than a window (the code's
  time-out of a call is a fraction of the minute of a window); finitely many requests and keys to ask for.
* `ScopeAssumption`, `RegistryAssumption`: scopes, rows and the configuration are finite; the scopes of
  `config.yaml` and of the database's credentials are two lists of names each, as `config.go` and
  `model_table.go` read them; what another router advertises is any
  expression, malformed ones included; no credential of the database has the name `db-model-<id>` of one that is
  written inline in a row.

Definitions by recursion (a credential's share, the history of a conversation) are recursive
functions.  The theorems of the library that do induction take an operator as a parameter, which the
provers here cannot instantiate; the inductions are proved from the least number of a set instead, which
follows from `WFMin` (`LeastNumber`, `Ascending` in `ConversationsProofs`, the same in `Fail2BanProofs`).

**`SpendLoggerProofs`**
* `TypeCorrect`.  `TypeOK` is not inductive: that a slice never shows more than its
  array holds needs to know which array the worker appends to and that a transaction
  exists only while its goroutine flushes.  `TypeInv` adds the control part (`CtlOK`),
  the data part (`DataOK`) and the shape of transactions (`TxShape`).
* `CountedAtMostOnce` (`CountedOnce`).  The induction needs what is still in flight:
  uncommitted inserted ids are disjoint between the two transactions and from `rows`
  and are all that may be charged (`TxInv`, `ChargeInv`), and ids on their way to the daily tables
  are rows, each at most once in all of `pending`, `job` and the tables (`PostInv`).
* `ImplementsLedger` (`LedgerSpec`): each step is a step of the ledger or stutters,
  given the invariant of `CountedOnce` and that only accepted entries are in a slice
  (`AcceptInv`).
* `NothingLostBeforeDLQ` (`KeptUntilDLQ`): before the first dead letter the recovery
  goroutine has nothing and the worker's parameters are its batch (`WorkerTx`,
  `NoDeadLetters`).

The same module, where the entries are, proves the usage of streams, `StreamRelay`: `UsageIsLogged` (`UsageLogged`) and
`EntryIsLast` (`LoggedLast`), for streams of any length and all kinds of handlers.  `UsageLogged` speaks of the end
only; `StreamInv` (`StreamsBilled`), which TLC checked on the configuration of `streams` before it was proved, says
how every step keeps it:
* `StreamShape` and `Settled`: what pipes and goroutines hold, and why a goroutine stopped: a
  pipe is closed only by the end of the stage before it, and a stage before a running
  converter that ended without an error has seen the provider's end (`StageCause`);
* `Bill`: while the converter runs, what the provider sent is what the converter has taken (`c`) followed by what lies in
  the pipes (`Flow`); the accumulator knows the usage that `c` named (`Fed`); and what the handler has captured, with the
  events that are written and not yet read, is the usage that the converter has told it of (`Billed`).  When it has ended,
  either the stream failed or was left, or everything was taken and told.  `Flow` is where the goroutines
  interleave: a chunk moves along it (`FlowMoves`, `FlowGrows`, `FlowShrinks`), never past another;
* `Rules`: Anthropic's start comes first and nothing follows the terminator;
* `Logged`: the entry is the one that the handler's last step makes.

Under it are what each converter keeps of the usage when it takes a chunk (the accumulators of
`ChatResponses`, `AnthropicResponses`, `VertexResponses` and both of `ProviderChat`), that the events it writes on the way name
none, and that its last event names what it kept.

**`Fail2BanProofs`**: `TypeCorrect`; `BansAgree` (`BansMatchCounters` is inductive with
the types); `BansLast` (`ActiveBanSurvives`); `ImplementsPolicy` (`PolicySpec`), where
the second step of `IsBanned` and the lazy removals map to stutters because an expired
ban and its counters are already gone in the policy.

The same module proves the scheduler, `WeightedRoundRobin`: `SchedulerIsFair` (`SharesAreFair`).
The sum of all counters is not an invariant, because a ban deletes a node with its debt.  What
holds instead is a bound for the counters of *every set* of k credentials (`Within`): they add up, in
either direction, to at most half of `Reach(a, q, k) = a * k * (q - k)`, with a the weight of all and q
twice the number of credentials and disturbed selections.  A winner has the greatest counter, so that a set
that gained too much contains it and pays (`WinnerAbove`, `WinnerPays`); deleting nodes only goes to subsets
(`LiveSuffices`).  With k = 1 this is the bound of a counter; waits, shares and streaks follow
because each of them is accounted for in a counter (`Fair`).  The bound grows with N: twice the
weight of all, which TLC confirms for a few credentials, is exceeded from about eleven on.

**`RequestFlowProofs`**: `TypeCorrect` (with `InUse`: where a credential is in hand it
is one); `NobodyTwice`, from marks that are set before a call (`Marks`); `CallsAreBounded`
(`Budget`: at each place of the control, how many calls the counters of the loops allow so far); `OneAnswer` and `OneEntry`, from `Accounts`, which
says at each place of the control whether the entry and the answer are still to come
(`Open`) or done (`Closed`); `ImplementsContract` (`KeepsContract`) from the marks, the
budget and the accounts; `Attribution` and `BindingFollows` from `Attributed`, which
says whose response is kept at each place (`Sources`) and what the flags then mean
(`Outcome`); `ChainInOrder` (`ChainOrder`), from `Growing`: whoever is in hand has
the type of those before it until a priority comes in, is not below a priority that was called, and when
it has one itself, nobody was called without one after somebody with one.

**`RateLimiterProofs`**: `TypeCorrect`; `LimitsHold` (`WithinLimits`); `DecisionsAreAtomic`
(`AtomicDecisions`).  A total is the number of entries of a window, so that what counting
(`AddedTotal`, `PlusTotal`) and forgetting (`ShiftTotal`) do to it are facts about finite sets.
The invariant adds to the limits who holds which lock (`Locked`: who asks the model's counter
holds the credential's, which still has room) and a reserve for the reports that are still to come
(`TokensInReserve`); `ModelsCounted` compares the models' and the credential's requests age by
age.  For the refinement `FirstCounters` says that until a model is removed everybody sees
the limits and the counters of the beginning; `SlidingWindow` has one counter for a model, and a
model that is removed and added again while a caller holds its old counter has two, so that
`AtomicDecisions` ends there; `LimitsHold` goes on after it.

Its last part is about `IntervalLimiter`: `IntervalTypes`; `TimersSuffice`, the strengthening (whoever
sleeps has a timer that covers what is left of the interval since its own last operation, and the
key's last time is no older than anybody's own); `FetchersAreSpaced` (`OwnSpacing`) follows.

**`SharedLimitsProofs`**: `TypeCorrect`; `LimitsAreShared` (`SharedLimit`).  The limit of the direct
replicas needs `AskersAreYoung` (a clock was read at most a call's length before its script runs)
and `YoungAreKept` (an admitted request younger than the window is still in the sorted set): then all that
a new request must not exceed together with others is there to be counted.  No removal
runs before the first one has begun (`NoneRemoved`).  Every
other step admits nobody and lets no time pass (`Undisturbed`).  `ExactWithoutDelay`: if a call takes no
time the limits are exact, so that the clock read before the first attempt is all that makes
them inexact.  A batch of queued writes is one set of entries (`Written`), not a loop.

**`TokenAuthProofs`**: `TypeCorrect`; `DecidedRecently` (`DecisionsAreRecent`), from `RowsObserved`
(the observer's clocks of good and bad rows), `AnswersTold` (an answer under way was true when it was
read) and `EntriesTold` (an entry of the cache is no older than its age and a query).
Its last part is about `VertexTokens`: `TokensTyped`; `WaitersServed` (`WaitersAreServed` is inductive with
the types: at each place of the control a waiter has its answer, or somebody who will answer it
holds its list, or it is not registered any more); `AnswersLive` (`AnswersAreValid`), from
`Living`: a source's token was issued, and the token that a goroutine carries to an entry or to the
channels of callers is alive.

**`ConversationsProofs`**: `TypeCorrect`; `ContextIsKept` (`ContextIsHistory`).  The invariant says of
every request what it carries (`Bodies`: its own input, with the output that the connection kept, or with the
history that was found), what its destination sees of it (`Seens`: the input, or the input behind what it kept, whether it did or not,
never both histories), what an entry of the store holds (`Stores`), and at which place of the control each of these is
settled (`Control`); a request refers to an earlier one (`Chain`), which makes the induction along a
conversation (`HistoryIs`) possible.  `ToldIsKept` (`ToldIsFound`): `SavedLasts` (what was saved stays until
its time is over, through crashes and clean-ups) and `ConnectionInv` (one turn of a connection runs, and
the cache is what was completed and not evicted).

**`ModelRegistryProofs`**: `RegistryInvariant`, `TablesStayTrue` (`RegistryAgrees`), `ScopesStayClosed`
(`ScopesGuard`).
* `Types` are those of the calls, the balancer's list with its order (credentials of `config.yaml` come first, so that a router
  has a fixed place `At(p)` whatever is reloaded), the syncer, the reader and the balancer's scopes.
* `AllGuarded` follows a router from the start: the first list asks every one of them; a call ends with scopes
  that were learnt or with closed ones; from then on its entry is closed until it is known, and so is
  what `CopyScope` carries to the balancer.  `GuardImplies` turns that into whom the balancer admits,
  with two facts about scopes for all expressions: `And` admits nobody whom one side refuses
  although it normalises, drops and bounds alternatives (`AndAllows`), and the lists for older routers admit nobody whom
  the expression refuses (`LegacyIsSafe`).
* `RemovalsAre`: the updater, between its test of a pair and the removal, is about to remove a limit that
  `config.yaml` does not ask for; so those of `config.yaml` stay.
* `Agree`: the two directions of the model map agree, which `UpdateDBModels` (both directions rebuilt, routers'
  models kept) and `ApplySnapshot` (one credential replaced) each have to re-establish from half of it.
* `ListsAreCurrent` is inductive: every step that changes a table forgets the lists (`ForgottenIsCurrent`),
  every other one leaves both (`SameTablesSameLists`).  `PairsLater`: once the first list is done, the models of
  `config.yaml` have their limits.

Only model-checked:
* all liveness (`ShutdownTerminates`, `AcceptedIsWritten`, `DeadLettersDrain`,
  `CapacityReturns`, `Ends`, `Answered`, `Recovers`, `Converges`, `LeftAloneRecovers`,
  `ConnectionServes`): liveness under fairness and `ENABLED` are out of the prover's reach;
* `ClientCanFollow`, `AnswerIsWhole` and `StoredIsSent` of `StreamRelay`: they relate the *items* of an answer, and
  need for each of the five converters an invariant between its accumulator, the events written so far and the fold of
  them that the client has made.  The output of the last event is computed from the accumulator by folds over lists of items; that it is the list
  that the events announced is an induction over data, for every converter another one.  The
  runs check it for all orders of the kinds of parts that three to five events can have.

## Where the code and its text disagree

Each row is a statement that a comment or a page of the documentation makes (or, twice, that goes without
saying), written as a property at the end of its module; TLC finds the behaviour of the code that contradicts it.  To see
it, put the property in the place of those of the run's `.cfg`, with the constants that the row names:

    sed '/^INVARIANT\|^PROPERT/,$d' RequestFlow_mixed.cfg > tiers.cfg
    echo 'INVARIANT TiersExhausted' >> tiers.cfg      # and Creds <- Providers4
    tlc -deadlock -config tiers.cfg MCRequestFlow

| Base (`.cfg`) | Property | The text | What the code does |
|---|---|---|---|
| `SpendLogger_ledger` with `Entries = {e1, e2, e3}`, `DLQMax = 2` | INVARIANT `DLQPersistsBatches` | `spendlog/logger.go:42` "Dead Letter Queue: persists batches that fail after all retries" | `addToDLQ` keeps the slice it is given (506) and the worker continues on the same array (`batch = batch[:0]`, 308): later entries overwrite the dead-lettered ones, which never reach the database |
| `SpendLogger_ledger` with `Entries = {e1, e2, e3}`, `BatchSize = 1`, `MaxAttempts = 1` | INVARIANT `DLQBounded` | `logger.go:512` "DLQ is a circular buffer with max 10 batches" | `flushDLQ` (629) re-appends a failed batch without the size test |
| `SpendLogger_ledger` | INVARIANT `SpendAtomic` | `logger.go:413` "executes batch INSERT and spend updates atomically" | the recovery goroutine reads the batch for the INSERT (449) and again for the charges (470) while the worker writes the same array: a row without its charge |
| `SpendLogger_ledger` | PROPERTY `GracefulShutdown` | `logger.go:40` "Graceful shutdown: waits for all logs to be written" | `Log` does not look at the shutdown flag: an entry accepted after the worker has drained the queue stays there while `Shutdown` returns nil |
| `SpendLogger_ledger` with `Entries = {e1, e2, e3}`, `BatchSize = 1` | PROPERTY `SafetyNet` | `logger.go:489` "pendingAggregation channel full, safety-net will handle" | the ids are dropped and nothing reads those rows again |
| `RequestFlow_mixed` | INVARIANT `FailureIsReported` | `proxy/proxy.go:1184` "Transport error reading body - retryable with another credential", `:1235` "Handle case where all attempts were transport errors" | when the body of the last attempt breaks off, `resp` stays set and its body is dropped: the client gets the upstream's 200 with an empty body and the request counts as complete |
| `RequestFlow_mixed` with `Creds <- Providers4` | INVARIANT `FallbacksExhausted` | `proxy/retry.go:113-114` "exhausting the full chain before writing the final response" | the lookup does not leave out what was tried, and the chain ends at the first credential it returns again, with others untried |
| `RequestFlow_mixed` | INVARIANT `EveryRequestAnswered` | `proxy_log.go:109` "Returns true if error was handled and response was written", `:122` "requires fallback, not an error response" | when the database is lost during `ValidateToken` nothing is written and nobody falls back; the client gets an empty 200 |
| `RequestFlow_mixed` | INVARIANT `EntryNamesAnswerer` | `proxy.go:95` "Real credential name from upstream ...", `proxy_log.go:172` | `ActualCredentialName` is never cleared: a later router that reports no name is charged under the name an earlier one reported |
| `RequestFlow_mixed` with `Creds <- Providers4` | INVARIANT `TiersExhausted` | `docs/advanced/balancing.md:148-150` "the router tries all configured priority tiers first" | priorities before that of the first credential are never tried |
| `RequestFlow_mixed` | INVARIANT `NoSessionNoBinding` | `docs/advanced/session_sticky.md:301` "No binding attempted, plain round-robin" | `logSpendToLiteLLMDB` (167) fills the empty session with the request's id before the binding is made |
| `RequestFlow_mixed` | PROPERTY `BindingOutlivesLimits` | `docs/advanced/session_sticky.md:304` "Same as banned - fallback, binding kept" | the deferred function (`proxy.go:436`) clears the binding of every request that did not complete, also of one refused for limits |
| `Fail2Ban_bans` | PROPERTY `ListedAreBanned` | `fail2ban.go:323` "GetBannedPairs returns all currently banned credential+model pairs" | it copies the map without the expiry test that `HasAnyBan` and `GetBannedCount` make |
| `IntervalLimiter_own` | PROPERTY `KeySpacing` | `time_based.go:11` "enforces a minimum time interval between operations per key" | a caller that slept writes the new time without reading the old one again: two callers may return at the same moment |
| `WeightedRoundRobin_fair` with `N = 2`, `Weight <- TwoWeights`, `LiveSets <- BothLive`, `MaxRefusals = 4` | INVARIANT `NoBurst` | `roundrobin.go:323-324` "... otherwise a high-weight provider would burst on recovery", `docs/advanced/balancing.md:68` "No burst after recovery" | `advance` adds the weight before `TryAllowAll` is asked; one that it refuses is neither charged nor dropped |
| `StreamRelay_streams` | INVARIANT `DrainReadsToEnd` | `internal/config/config.go:441` "When true, keep reading upstream after client disconnect to capture real usage chunk" | the upstream request carries the context of the client's (`proxy.go:1045`), which ends when the client leaves and with it the read that the drain continues |
| `StreamRelay_streams` | PROPERTY `DecoderEnds` | that a goroutine of a stream ends with it | a converter that returns early leaves Bedrock's pipe open: nobody reads and nobody closes the reading end, and the decoder stays blocked in its write |
| `StreamRelay_streams` | INVARIANT `StreamHasAllItems` | that a client gets the same items with and without streaming | the body has an `image_generation_call` per image of a chat answer (`converter/responses/response.go:113-125`), a `web_search_call` for Vertex AI's grounding (`vertex/responses/response.go:178-184`) and the items of every choice or candidate; the streams have none of the first two and only the first choice or candidate |
| `SharedLimits_mixed` | INVARIANT `ExactAcrossReplicas` | `docs/advanced/redis.md:130` "Exact (atomic Lua scripts)" | the clock is read before the first attempt: a script with an older clock runs after one with a newer clock has removed entries that the older one should count |
| `VertexTokens_waiters` | INVARIANT `OneRefresh` | `internal/auth/vertex.go:190` "Coalescing ensures only one refresh per credential at a time" | the last waiter that times out removes the entry of `refreshing` while the refresh runs; the next caller starts another, and each answers the waiters of either |
| `Conversations_kept` | INVARIANT `AccumulatedIsSeen` | `internal/responsestore/store.go:26` "full input context for multi-turn" | what a native provider knew from an id that was not in the store is not in `AccumulatedInput`; once the id is stripped the history is shorter than what was said |
| `Conversations_kept` | INVARIANT `TurnsAreSignalled` | `docs/advanced/responses.md:162` "Turn completion is signaled by a terminal event" | a turn whose stream ends without one, with a status below 400, sends the client nothing |
| `Conversations_kept` | INVARIANT `FallbackIsStored` | `docs/advanced/responses.md`: `store: true` keeps the response | an answer that the fallback gave (`writeFallbackResponse`) is never saved; the client is told `store: true` |

Seen while modelling, without a property of their own:

* *Texts.*  `docs/advanced/troubleshooting.md` and `docs/providers/proxy.md` speak of 503 when
  everything is exhausted, where the code answers 429, 502 or 408;
  `spend_aggregator_pipeline.go` speaks of six aggregators and runs five.
* *Keys.*  The master key of the database's configuration has no TTL in the cache but is
  evicted like any other and never loaded again.  `TeamBlocked` is loaded and not looked at by
  `Validate`; `ValidateTokenForModel` and `IsModelAllowed` have no caller.  A key that was
  extended is refused from the cache until the TTL ends.  `ErrConnectionFailed` gives an empty
  200 (`orchestrator.go:363`, `EveryRequestAnswered` above).
* *Vertex tokens.*  A caller that has passed the test of the stopped flag and registers after
  `failAllWaiters` waits its 30 seconds.  An initiator that cannot send fails the waiters of
  whichever refresh is on the list.  A refresh that fails deletes the token that a later one has
  stored.  "Refresh 5 minutes before expiry" (`vertex.go:63`) has no effect, because
  `ReuseTokenSource` returns the same token until it has expired.  Credentials that do not parse
  stay cached.
* *Registry.*  A credential of the database with the name of a router in YAML makes that router's
  snapshots rejected and its scopes closed, although `main.go:510` says that static credentials
  are never modified (`DBNames <- ClashingNames` in `ModelRegistry_agree.cfg`).  Limits of a static
  pair that a row of the database has overwritten do not come back with the row's end.  Between
  `UpdateDBCredentials` and `SyncLimits` (`main.go:575-605`) a new credential is served without its
  model limits.  `failClosedUnknownRemoteScope` (`manager.go:2020`) tests and closes under two
  locks.  `UpdateDBModels` puts a router's old list of models back until its next refresh.
* *Streams, chat to Responses.*  `[DONE]` before any content completes the response, and content
  after it starts it again.  A call before the message takes the message's index.  A message that is
  only a refusal is neither closed nor in the output; with text before it `refusal.done` follows the
  item's end.  A call that is never given an id is announced with none.  A read error ends the stream without the
  completion that `converter/responses/streaming.go:396` promises.  No `[DONE]` follows
  (`docs/advanced/responses.md:106-118` shows one).  A stream without content completes with an empty
  output, the same body without streaming with an empty message.
* *Streams, Anthropic and Bedrock to Responses.*  Thinking after text takes the message's index, empty
  thinking takes one twice; reasoning is closed twice.  The message is last in the output, wherever it was announced.
  A text block that is cut is not closed and its text is lost.  An `error` event is ignored and the
  answer counts as completed; the last event is `response.completed` also when the provider
  stopped for length.  A computer call is a `function_call` when streamed and a `computer_call` when not.
* *Streams, Vertex AI.*  A second part of code overwrites the first.  The last event is
  `response.completed` for every finish reason.  To a chat client, calls are numbered from 0 in each chunk.
* *Relays.*  `streamToClient` swallows read errors, so a broken answer counts as complete.  The
  passthrough saves the response of `response.completed` and not that of `response.incomplete`, and the
  WebSocket's cache does not keep the latter either.  The drain is not tried in
  `handleTransformedStreaming`.  `handleStreamingWithTokens` adds up the totals of all chunks,
  although a provider may send cumulative ones (comment at `tokenCapturingWriter`).  A stream that the client
  aborts has an entry, and its tokens are not charged to the limiter.
* *Shared limits.*  "Redis just misses this event until the next sync" (`hybrid_backend.go:106`) and
  "the next sync cycle will correct" (`docs/advanced/redis.md`): a lost write is never sent again.
  `remoteStats`, "traffic from OTHER instances only" (`:49`), may hold own requests or miss others'.  A
  retry after a success that was not heard of, at the limit, refuses a request that is counted.
  A read of Redis that failed counts as an estimate of 0.
* *Conversations.*  `docs/advanced/responses.md:198` and the comment at `proxy_websocket.go:256` say
  that an absent `store` means that the response is kept; `ExtractResponsesMetadata`
  (`request.go:27-29`) takes false, and a continuation silently has no history.  With `store: false`
  on a WebSocket a continuation carries the previous output without the inputs before it
  (`responses.md:196`).  A converted stream tells `response.completed` before the save, so that a quick continuation
  may miss it.  A failed load of `previous_response_id` is silent.  "Server sends [DONE]"
  (`proxy_websocket.go:209`): none is sent.

## What is not modelled

* PostgreSQL, pgx, Redis, bbolt, Google and the providers are outside: a transaction begins, may
  insert, and commits or fails, with or without the acknowledgement; a script runs or does
  not, and its answer comes or does not; a provider sends what its protocol allows, or breaks.
* Changes of limits at run time, several credentials in one limiter, the 10-million-entry
  buffers, the adoption of another router's usage (`Set*CurrentUsage`: its callers in
  `proxy/remote.go` are themselves never called).
* `ResetAll` and `Reset` of the interval limiter (no caller); several intervals.
* In the round robin: map entries of cycles that are no longer asked for, and the
  reset by `UpdateDBCredentials`.
* In the request path: several requests of one session at once (whichever ends last
  decides about the binding, `proxy.go:436`), the expiry of bindings, the difference between 1xx,
  2xx and 3xx.  The database and sticky sessions are taken as enabled, which is the richer case.
* In the registry: prices, aliases, the decryption of keys, several callers of `/v1/models` at once; limits of
  tokens and those of the credentials themselves, which are set next to the models' limits of requests;
  credentials of the database that are other routers.
* In streams: the texts themselves, annotations, flushing and keep-alive, the chunks of providers
  that break their own protocol (the converters' `Regular` streams are named in `StreamRelay`; the others
  are in the list above).
* In conversations: a router that is the chosen credential is not told apart from a provider.  With
  `passthrough_responses`, the default of routers (`models/manager.go:346-348`), it gets the body that `PrepareCodexPassthrough`
  makes (`orchestrator.go:265-268`), may know an id from the provider behind it, and its answer is saved before the
  client has the end of it (`proxy.go:666-690`, `737-747`): "native", for which `MayKeep` is a choice.  Without, its answer is converted
  (`proxy.go:640-665`, `749-776`), with an id of its own: "chat", although the body sent to its `/chat/completions` is the one with the
  history and the id, unconverted (`orchestrator.go:249-255`, `proxy.go:542`), which a router does not look for there.  Its
  retries go only to routers (`proxy.go:522-580`), for which the body is the same, and are among those of `Retry`.
* In conversations also: several API keys and the ownership of a response, `GET` with the master key, the
  compact endpoint, messages of the client that are not JSON, the text of items.
* The conversion of requests between formats, of images and embeddings: thousands of lines that copy
  one field after the other, without state; a property of theirs would repeat the table of fields.
* Every part listed as `not_modelled` in `PROJECT.json`: it has no state of its own, has no caller, or is pure
  input and output.

## How to run

In this directory, with `tlc`, `tlasany` and `tlapm` on the path:

    tlc -workers 2 -config SpendLogger_ledger.cfg MCSpendLogger
    tlapm SpendLoggerProofs.tla
