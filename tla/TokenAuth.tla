------------------------------ MODULE TokenAuth -----------------------------
(***************************************************************************)
(* How a request's key is accepted: the cache of keys (litellmdb/auth), the*)
(* pool's health and its reconnects (litellmdb/connection), the breaker    *)
(* over it (health/monitor.go) and authenticateRequest above all           *)
(* (proxy/orchestrator.go).  A key is looked up, read from the database,   *)
(* validated and cached in steps between which other requests, the         *)
(* database and the administrator's changes go on.                         *)
(*                                                                         *)
(* Time is counted in ticks of the shortest of the durations.              *)
(***************************************************************************)
EXTENDS TokenRecord, Sequences, SequencesExt

CONSTANTS
  Requests,     \* the handlers that validate keys
  Keys,         \* the clients' keys, by hash
  Master,       \* the master key in the database's configuration
  Rows,         \* the rows a key may have
  NoRow,        \* a key without a row
  TTL,          \* AuthCacheTTL
  CacheSize,    \* AuthCacheSize
  Threshold,    \* FailureThreshold of the monitor
  MaxBackoff,   \* the longest reconnectDelay
  MaxQuery,     \* bound: how long the answer of a query is under way
  MaxChanges,   \* bound: changes of rows
  MaxOutages    \* bound: outages of the database

ASSUME TimesAssumption == TTL \in Nat /\ MaxQuery \in Nat /\ CacheSize \in Nat \ {0}
ASSUME KeysAssumption == Master \notin Keys
ASSUME RowsAssumption == Rows \ {NoRow} \subseteq ClientRow

VARIABLES
  row,       \* a key's row, or NoRow
  dbUp,      \* whether the database answers
  outages, changes,   \* how many there were
  lru,       \* the cache: its keys, the most recent last
  cached,    \* their records and how long they have been there
  pool,      \* ConnectionPool: healthy, reconnectDelay, ticks since lastReconnect
  check,     \* performHealthCheck: "idle", "reconnect"
  breaker,   \* DBHealthChecker and the monitor's consecutiveFailures
  req,       \* a request: where it is, its key, what it read, how long ago
  sinceGood, \* ticks since a key's row was last one that Validate accepts
  sinceBad   \* ticks since it last was not, or was going to expire

db == <<row, dbUp, outages, changes>>
cache == <<lru, cached>>
health == <<pool, check, breaker>>
since == <<sinceGood, sinceBad>>
vars == <<db, cache, health, req, since>>

Lag == TTL + MaxQuery
Idle == [at |-> "idle"]

MasterRow == [master |-> TRUE, blocked |-> FALSE, left |-> Forever, team |-> FALSE,
              spend |-> [l \in Levels |-> Unset], max |-> [l \in Levels |-> Unset]]

Good(r) == r # NoRow /\ Validate(r) = "ok"
Lasting(r) == Good(r) /\ r.left = Forever
Lower(n, m) == IF n < m THEN n ELSE m

\* FetchMasterKey puts the database's master key into the cache once, or fails.
Init ==
  /\ row \in [Keys -> Rows]
  /\ dbUp = TRUE /\ outages = 0 /\ changes = 0
  /\ \/ lru = <<Master>> /\ cached = [k \in {Master} |-> [info |-> MasterRow, age |-> 0]]
     \/ lru = <<>> /\ cached = <<>>
  /\ pool = [healthy |-> TRUE, delay |-> 1, waited |-> MaxBackoff]
  /\ check = "idle"
  /\ breaker = [healthy |-> TRUE, failures |-> 0]
  /\ req = [r \in Requests |-> Idle]
  /\ sinceGood = [k \in Keys |-> IF Good(row[k]) THEN 0 ELSE Lag + 1]
  /\ sinceBad = [k \in Keys |-> IF Lasting(row[k]) THEN Lag + 1 ELSE 0]

-----------------------------------------------------------------------------
(* The cache.                                                              *)

Without(k) ==
  IF Contains(lru, k) THEN RemoveAt(lru, CHOOSE i \in DOMAIN lru : lru[i] = k) ELSE lru
Touched(k) == Append(Without(k), k)
Keep(order, c) == [k \in ToSet(order) |-> c[k]]

\* The entry of the master key has no age.
Stale(k) == ~cached[k].info.master /\ cached[k].age > TTL

\* Set: the oldest goes when there is no room.
Set(k, info) ==
  LET all == Touched(k)
  IN  /\ lru' = IF Len(all) > CacheSize THEN Tail(all) ELSE all
      /\ cached' = Keep(lru', [j \in DOMAIN cached \cup {k} |->
                                 IF j = k THEN [info |-> info, age |-> 0] ELSE cached[j]])

-----------------------------------------------------------------------------
(* A request.                                                              *)

Now(r, q) == req' = [req EXCEPT ![r] = q]
Step(r, l) == Now(r, [req[r] EXCEPT !.at = l])
Decide(r, verdict) == Now(r, [at |-> "done", key |-> req[r].key, verdict |-> verdict])

\* isLiteLLMHealthy is looked at before the key is: without the database every
\* key but the configured master key is refused.
Arrive(r) ==
  /\ req[r].at = "idle"
  /\ \E k \in Keys \cup {Master} :
       Now(r, IF breaker.healthy THEN [at |-> "look", key |-> k]
              ELSE [at |-> "done", key |-> k, verdict |-> "unhealthy"])
  /\ UNCHANGED <<db, cache, health, since>>

\* Mutation: a hit makes the entry young again.
Hit_Renews(r) ==
  /\ req[r].at = "look"
  /\ LET k == req[r].key
     IN  /\ k \in DOMAIN cached /\ ~Stale(k)
         /\ Decide(r, Validate(cached[k].info))
         /\ lru' = Touched(k)
         /\ cached' = [cached EXCEPT ![k].age = 0]
  /\ UNCHANGED <<db, health, since>>

\* Cache.Get and Validate of what it returns.
Hit(r) ==
  /\ req[r].at = "look"
  /\ LET k == req[r].key
     IN  /\ k \in DOMAIN cached /\ ~Stale(k)
         /\ Decide(r, Validate(cached[k].info))
         /\ lru' = Touched(k)
  /\ UNCHANGED <<db, cached, health, since>>

Miss(r) ==
  /\ req[r].at = "look"
  /\ LET k == req[r].key
     IN IF k \in DOMAIN cached
        THEN Stale(k) /\ lru' = Touched(k) /\ Step(r, "evict")
        ELSE UNCHANGED lru /\ Step(r, "fetch")
  /\ UNCHANGED <<db, cached, health, since>>

\* Under the write lock the entry is looked at again: another request may have
\* set it anew.
Evict(r) ==
  /\ req[r].at = "evict"
  /\ LET k == req[r].key
     IN  IF k \in DOMAIN cached /\ cached[k].age > TTL
         THEN lru' = Without(k) /\ cached' = Keep(lru', cached)
         ELSE lru' = (IF k \in DOMAIN cached THEN Touched(k) ELSE lru) /\ UNCHANGED cached
  /\ Step(r, "fetch")
  /\ UNCHANGED <<db, health, since>>

\* fetchTokenFromDB: IsHealthy and Acquire.
Acquire(r) ==
  /\ req[r].at = "fetch"
  /\ IF pool.healthy THEN Step(r, "query") ELSE Decide(r, "no connection")
  /\ UNCHANGED <<db, cache, health, since>>

\* The query sees the row at one moment; its answer takes a while.
Query(r) ==
  /\ req[r].at = "query"
  /\ dbUp
  /\ LET k == req[r].key
         found == IF k = Master THEN NoRow ELSE row[k]
     IN  Now(r, [at |-> "answered", key |-> k, info |-> found, ago |-> 0])
  /\ UNCHANGED <<db, cache, health, since>>

\* Any other error than "no rows": the database is down, or the client gone.
QueryFails(r) ==
  /\ req[r].at \in {"query", "answered"}
  /\ Decide(r, "no connection")
  /\ UNCHANGED <<db, cache, health, since>>

\* Only what Validate accepts is cached, from the moment it is set.
Finish(r) ==
  /\ req[r].at = "answered"
  /\ IF req[r].info = NoRow
     THEN Decide(r, "not found") /\ UNCHANGED cache
     ELSE LET verdict == Validate(req[r].info)
          IN  /\ Decide(r, verdict)
              /\ IF verdict = "ok" THEN Set(req[r].key, req[r].info) ELSE UNCHANGED cache
  /\ UNCHANGED <<db, health, since>>

Leave(r) ==
  /\ req[r].at = "done"
  /\ Now(r, Idle)
  /\ UNCHANGED <<db, cache, health, since>>

-----------------------------------------------------------------------------
(* The pool's health check and the monitor above it.                       *)

\* The check's query: a success restores the pool, a failure goes on with
\* tryReconnect unless the last try was too short a time ago.
HealthCheck ==
  /\ check = "idle"
  /\ IF dbUp
     THEN /\ pool' = [pool EXCEPT !.healthy = TRUE, !.delay = IF pool.healthy THEN @ ELSE 1]
          /\ UNCHANGED check
     ELSE /\ pool' = [pool EXCEPT !.healthy = FALSE]
          /\ check' = IF pool.waited < pool.delay THEN "idle" ELSE "reconnect"
  /\ UNCHANGED <<db, cache, breaker, req, since>>

TryReconnect ==
  /\ check = "reconnect"
  /\ pool' = IF dbUp THEN [healthy |-> TRUE, delay |-> 1, waited |-> 0]
             ELSE [pool EXCEPT !.delay = Lower(2 * @, MaxBackoff), !.waited = 0]
  /\ check' = "idle"
  /\ UNCHANGED <<db, cache, breaker, req, since>>

\* Mutation: the breaker opens for good.
CheckHealth_StaysOpen ==
  /\ breaker' = IF pool.healthy THEN [breaker EXCEPT !.failures = 0]
                ELSE [failures |-> Lower(breaker.failures + 1, Threshold),
                      healthy |-> breaker.healthy /\ breaker.failures + 1 < Threshold]
  /\ UNCHANGED <<db, cache, pool, check, req, since>>

\* Monitor.checkHealth: open after Threshold failures in a row, closed by one
\* success.
CheckHealth ==
  /\ breaker' = IF pool.healthy THEN [healthy |-> TRUE, failures |-> 0]
                ELSE [failures |-> Lower(breaker.failures + 1, Threshold),
                      healthy |-> breaker.healthy /\ breaker.failures + 1 < Threshold]
  /\ UNCHANGED <<db, cache, pool, check, req, since>>

-----------------------------------------------------------------------------
(* The database, its administrator and the clock.                          *)

Outage ==
  /\ dbUp /\ outages < MaxOutages
  /\ dbUp' = FALSE /\ outages' = outages + 1
  /\ UNCHANGED <<row, changes, cache, health, req, since>>

Return ==
  /\ ~dbUp
  /\ dbUp' = TRUE
  /\ UNCHANGED <<row, outages, changes, cache, health, req, since>>

\* What the clock of the observer counts.
Observe ==
  /\ sinceGood' = [k \in Keys |-> IF Good(row'[k]) \/ Good(row[k]) THEN 0 ELSE sinceGood[k]]
  /\ sinceBad' = [k \in Keys |-> IF ~Lasting(row'[k]) \/ ~Lasting(row[k]) THEN 0 ELSE sinceBad[k]]

ChangeRow(k) ==
  /\ dbUp /\ changes < MaxChanges
  /\ \E new \in Rows \ {row[k]} : row' = [row EXCEPT ![k] = new]
  /\ changes' = changes + 1
  /\ Observe
  /\ UNCHANGED <<dbUp, outages, cache, health, req>>

Aged(info) ==
  IF info = NoRow \/ info.left = Forever THEN info ELSE [info EXCEPT !.left = IF @ = 0 THEN 0 ELSE @ - 1]

\* A tick: everything grows older, but no answer is under way for too long.
Tick ==
  /\ \A r \in Requests : req[r].at \notin {"done", "evict"} /\ (req[r].at = "answered" => req[r].ago < MaxQuery)
  /\ row' = [k \in Keys |-> Aged(row[k])]
  /\ cached' = [k \in DOMAIN cached |->
                  [info |-> Aged(cached[k].info), age |-> Lower(cached[k].age + 1, TTL + 1)]]
  /\ req' = [r \in Requests |->
               IF req[r].at = "answered"
               THEN [req[r] EXCEPT !.ago = @ + 1, !.info = Aged(@)] ELSE req[r]]
  /\ pool' = [pool EXCEPT !.waited = Lower(@ + 1, MaxBackoff)]
  /\ sinceGood' = [k \in Keys |-> IF Good(row'[k]) THEN 0 ELSE Lower(sinceGood[k] + 1, Lag + 1)]
  /\ sinceBad' = [k \in Keys |-> IF ~Lasting(row'[k]) THEN 0 ELSE Lower(sinceBad[k] + 1, Lag + 1)]
  /\ UNCHANGED <<dbUp, outages, changes, lru, check, breaker>>

-----------------------------------------------------------------------------
Request(r) ==
  Arrive(r) \/ Hit(r) \/ Miss(r) \/ Evict(r) \/ Acquire(r) \/ Query(r) \/ QueryFails(r)
    \/ Finish(r) \/ Leave(r)

Next ==
  \/ \E r \in Requests : Request(r)
  \/ HealthCheck \/ TryReconnect \/ CheckHealth
  \/ Outage \/ Return
  \/ \E k \in Keys : ChangeRow(k)
  \/ Tick

Spec == Init /\ [][Next]_vars

\* The two tickers run and the clock goes on.
FairSpec == Spec /\ WF_vars(HealthCheck) /\ WF_vars(TryReconnect) /\ WF_vars(CheckHealth)

-----------------------------------------------------------------------------
\* What a client is told about its key was true a short while ago: a key is
\* accepted only if its row was good within the time that entries and answers
\* live, and refused for what its row says only if within that time the row was
\* not good or about to expire.
DecisionsAreRecent ==
  [][\A r \in Requests :
       req[r].at # "done" /\ req'[r].at = "done" /\ req[r].at # "idle" /\ req'[r].key # Master =>
         /\ req'[r].verdict = "ok" => sinceGood[req[r].key] <= Lag
         /\ req'[r].verdict \in {"not found", "blocked", "expired", "budget"} =>
              sinceBad[req[r].key] <= Lag]_vars

\* Once the database stays up, the pool and the breaker recover, whatever the
\* backoff and the counter were: no key is refused for the database's sake.
Recovers == <>[]dbUp => <>[](pool.healthy /\ breaker.healthy)
=============================================================================
