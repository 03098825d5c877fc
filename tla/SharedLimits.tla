---------------------------- MODULE SharedLimits ----------------------------
(***************************************************************************)
(* src/internal/ratelimit over Redis: several replicas of the router share *)
(* the limits of one credential and its models.  A direct replica          *)
(* (RedisBackend) lets one Lua script decide in Redis; a hybrid replica    *)
(* (HybridBackend) decides on its own counters and an estimate of what the *)
(* others use, writes its requests to Redis later and reads the totals     *)
(* from time to time.  Both use the same keys, so that a deployment may    *)
(* have both.  A crash of a replica loses all that it holds in memory.     *)
(*                                                                         *)
(* A counter is a pair of a key and a kind; one without a limit, which the *)
(* code fills too, refuses nobody and is left out.  Entries are members: a *)
(* request and the number of the uuid drawn for it.  The score of an entry *)
(* is the age of the moment the router read its clock for it: once for the *)
(* request itself, and again for the tokens of each of its keys.           *)
(***************************************************************************)
EXTENDS Integers, Sequences, SequencesExt, FiniteSets

CONSTANTS
  Direct, Hybrid,   \* replicas by their backend
  NoReplica,
  Requests,         \* bound: requests that somebody still counts
  Keys, Asks,       \* limiter keys; what a request may name: the key of the
                    \* credential, then the one of its model
  ModelKeys,        \* the keys of models
  Counters, Limit,  \* those with a limit; counter -> its limit
  Amount,           \* the tokens of an answer
  Window,           \* ticks in the window of one minute
  CallTicks,        \* ticks a call of Redis with its retries can take
  AnswerTicks,      \* bound: ticks from the admission of a request to its tokens
  MaxRetries,       \* 2 in the code
  QueueCap,         \* hybridWriteQueueSize
  BatchSize,        \* hybridWriteBatchSize
  MaxEvents         \* bound: failed calls of Redis, crashes and removed keys

Kinds == {"rpm", "tpm"}
RequestCounters == {c \in Counters : c[2] = "rpm"}
TokenCounters == {c \in Counters : c[2] = "tpm"}
Replicas == Direct \cup Hybrid

ASSUME SharedAssumption ==
  /\ Direct \cap Hybrid = {} /\ NoReplica \notin Replicas
  /\ Asks \subseteq {<<k>> : k \in Keys} \cup (Keys \X Keys)
  /\ IsFiniteSet(Requests)
  /\ Counters \subseteq Keys \X Kinds /\ Limit \in [Counters -> Nat]
  /\ ModelKeys \subseteq Keys
  /\ Amount \in Nat /\ MaxRetries \in Nat /\ MaxEvents \in Nat
  /\ CallTicks \in Nat /\ Window \in Nat /\ CallTicks < Window /\ AnswerTicks \in Nat
  /\ QueueCap \in Nat \ {0} /\ BatchSize \in Nat \ {0}

VARIABLES
  at, by, asked,    \* request -> idle, asking, admitted or over; replica; keys
  tries,            \* request -> retries of its call of Redis
  told,             \* request -> how many of its keys have its tokens
  stamp,            \* request -> ticks since the clock was read for it
  tokenStamp,       \* token counter -> request -> the same for its tokens
  zset,             \* counter -> the members of the sorted set in Redis
  local,            \* replica -> counter -> the requests it counts itself
  remoteStats,      \* replica -> counter -> what others are thought to use
  tracked,          \* replica -> keys it has seen
  writeQueue,       \* replica -> the operations in the channel and in the batch of
                    \* its writeWorker
  sync,             \* replica -> what a running doSync has read
  removal,          \* replica -> the key of a running deleteKey, its parts ahead
  faults, deletes

asking == <<at, by, asked, tries, told>>
clocks == <<stamp, tokenStamp>>
hybrids == <<local, remoteStats, tracked, writeQueue, sync>>
events == <<faults, deletes>>
vars == <<asking, clocks, zset, hybrids, removal, events>>

Horizon == Window + CallTicks   \* older entries count for no one

\* Mutation: a uuid for each attempt.
Member_PerAttempt(r) == <<r, tries[r]>>

\* The uuid of a request is drawn before its first attempt.
Member(r) == <<r, 0>>

NoRemoval == [key |-> {}, parts |-> <<>>]
NoSync == [keys |-> {}, age |-> 0, total |-> [c \in Counters |-> 0]]
CountersOf(K) == {c \in Counters : c[1] \in K}
KeysOf(r) == Range(asked[r])
Age(r, c) == IF c[2] = "rpm" THEN stamp[r] ELSE tokenStamp[c][r]
Weigh(c, S) == Cardinality(S) * (IF c[2] = "tpm" THEN Amount ELSE 1)

Init ==
  /\ at = [r \in Requests |-> "idle"]
  /\ by = [r \in Requests |-> NoReplica]
  /\ asked = [r \in Requests |-> <<>>]
  /\ tries = [r \in Requests |-> 0]
  /\ told = [r \in Requests |-> 0]
  /\ stamp = [r \in Requests |-> Horizon]
  /\ tokenStamp = [c \in TokenCounters |-> [r \in Requests |-> Horizon]]
  /\ zset = [c \in Counters |-> {}]
  /\ local = [h \in Hybrid |-> [c \in Counters |-> {}]]
  /\ remoteStats = [h \in Hybrid |-> [c \in Counters |-> 0]]
  /\ tracked = [h \in Hybrid |-> {}]
  /\ writeQueue = [h \in Hybrid |-> <<>>]
  /\ sync = [h \in Hybrid |-> NoSync]
  /\ removal = [i \in Replicas |-> NoRemoval]
  /\ faults = 0 /\ deletes = 0

Fault == faults + deletes < MaxEvents /\ faults' = faults + 1

\* A request is forgotten when no counter or operation stands for it any more.
Unused(r) ==
  /\ at[r] \in {"idle", "over"}
  /\ \A c \in Counters : \A m \in zset[c] : m[1] # r
  /\ \A h \in Hybrid : /\ \A c \in Counters : r \notin local[h][c]
                       /\ \A op \in Range(writeQueue[h]) : op.r # r

\* Request r of replica i asks for the keys K, its clock is read.  Requests are
\* alike: any one that is not used will do.
Ask(i, r, K, where) ==
  /\ Unused(r) /\ r = CHOOSE q \in Requests : Unused(q)
  /\ at' = [at EXCEPT ![r] = where]
  /\ by' = [by EXCEPT ![r] = i]
  /\ asked' = [asked EXCEPT ![r] = K]
  /\ stamp' = [stamp EXCEPT ![r] = 0]
  /\ tokenStamp' = [c \in TokenCounters |-> [tokenStamp[c] EXCEPT ![r] = Horizon]]
  /\ UNCHANGED <<tries, told>>

Admitted(r) ==
  /\ at' = [at EXCEPT ![r] = "admitted"]
  /\ tries' = [tries EXCEPT ![r] = 0]
  /\ UNCHANGED <<by, asked, told>>

Retry(r) ==
  /\ tries[r] < MaxRetries
  /\ tries' = [tries EXCEPT ![r] = @ + 1]
  /\ UNCHANGED <<at, by, asked, told>>

Forgotten(R) ==
  /\ at' = [r \in Requests |-> IF r \in R THEN "idle" ELSE at[r]]
  /\ by' = [r \in Requests |-> IF r \in R THEN NoReplica ELSE by[r]]
  /\ asked' = [r \in Requests |-> IF r \in R THEN <<>> ELSE asked[r]]
  /\ tries' = [r \in Requests |-> IF r \in R THEN 0 ELSE tries[r]]
  /\ told' = [r \in Requests |-> IF r \in R THEN 0 ELSE told[r]]

---------------------------------------------------------------------------
\* The scripts in Redis.

\* ZREMRANGEBYSCORE on the counters C by a caller whose clock is b ticks old.
Fresh(c, b, members) == {m \in members : Age(m[1], c) - b < Window}

Cleaned(C, b, sets) ==
  [c \in Counters |-> IF c \in C THEN Fresh(c, b, sets[c]) ELSE sets[c]]

\* check_rpm and check_tpm for all counters, then record_rpm.  A script that
\* refuses has cleaned the counters it looked at; here it cleans them all.
Script(r) ==
  LET C == CountersOf(KeysOf(r))
      clean == Cleaned(C, stamp[r], zset)
      room == \A c \in C : Weigh(c, clean[c]) < Limit[c]
  IN [allowed |-> room,
      zset |-> [c \in Counters |-> IF room /\ c \in C /\ c[2] = "rpm"
                                     THEN clean[c] \cup {Member(r)} ELSE clean[c]]]

\* Of the scripts of ops those at the indexes done have run.  None of them after
\* the j-th cleans the member m of counter c away.
Stays(m, c, ops, done, j) ==
  \A i \in done : i > j /\ ops[i].c = c => m \in Fresh(c, Age(ops[i].r, c), {m})

\* luaTryAllowRPM without a limit and luaConsumeTokens, for one operation after
\* the other: each cleans its counter and adds its member.
Written(ops, done, sets) ==
  [c \in Counters |->
     {m \in sets[c] : Stays(m, c, ops, done, 0)} \cup
     {Member(ops[j].r) : j \in {j \in done : /\ ops[j].c = c
                                           /\ Age(ops[j].r, c) < Horizon
                                           /\ Stays(Member(ops[j].r), c, ops, done, j)}}]

---------------------------------------------------------------------------
\* A direct replica.

AskDirect(d, r, K) ==
  /\ Ask(d, r, K, "asking")
  /\ UNCHANGED <<zset, hybrids, removal, events>>

InRedis(r) == at[r] = "asking" /\ by[r] \in Direct

\* The call is executed and answered.
Answered(r) ==
  /\ InRedis(r)
  /\ zset' = Script(r).zset
  /\ IF Script(r).allowed THEN Admitted(r) ELSE Forgotten({r})
  /\ UNCHANGED <<clocks, hybrids, removal, events>>

\* No answer: the call was executed or not.  A transient error is retried with
\* the same member and clock, a timeout or a cancelled request is not.
NoAnswer(r) ==
  /\ InRedis(r)
  /\ Fault
  /\ zset' \in {zset, Script(r).zset}
  /\ Retry(r) \/ Forgotten({r})
  /\ UNCHANGED <<clocks, hybrids, removal, deletes>>

---------------------------------------------------------------------------
\* A hybrid replica: the decision.

\* Mutation: a refused request leaves no trace in tracked.
Track_IfLeft(h, K) ==
  tracked' = [tracked EXCEPT ![h] = @ \cup {k \in Range(K) :
     \A c \in CountersOf({k}) : remoteStats[h][c] < Limit[c]}]

Track(h, K) == tracked' = [tracked EXCEPT ![h] = @ \cup Range(K)]

\* effectiveRPMLimit and effectiveTPMLimit.
Effective(h) ==
  [c \in Counters |-> IF Limit[c] > remoteStats[h][c] THEN Limit[c] - remoteStats[h][c] ELSE 0]

\* enqueue: what does not fit into the queue is dropped.
Enqueue(ops, r, c) ==
  IF c \in Counters /\ Len(ops) < QueueCap THEN Append(ops, [r |-> r, c |-> c]) ELSE ops

\* An operation for the credential, and one for the model if there is one.
EnqueueAll(h, r, K, kind) ==
  LET first == Enqueue(writeQueue[h], r, <<K[1], kind>>) IN
  writeQueue' = [writeQueue EXCEPT ![h] = IF Len(K) = 1 THEN first ELSE Enqueue(first, r, <<K[2], kind>>)]

Count(h, r, K, kind) ==
  local' = [local EXCEPT ![h] = [c \in Counters |-> IF c \in Range(K) \X {kind}
                                   THEN local[h][c] \cup {r} ELSE local[h][c]]]

\* localBackend.tryAllowAll is one atomic decision (module RateLimiter).
HasRoom(h, K) ==
  \A c \in CountersOf(Range(K)) : Weigh(c, local[h][c]) < Effective(h)[c]

Admit(h, r, K) ==
  /\ HasRoom(h, K)
  /\ Ask(h, r, K, "admitted")
  /\ Track(h, K)
  /\ Count(h, r, K, "rpm")
  /\ EnqueueAll(h, r, K, "rpm")
  /\ UNCHANGED <<zset, remoteStats, sync, removal, events>>

Refuse(h, K) ==
  /\ ~HasRoom(h, K)
  /\ Track(h, K)
  /\ UNCHANGED <<asking, clocks, zset, local, remoteStats, writeQueue, sync, removal, events>>

---------------------------------------------------------------------------
\* Its writeWorker and syncWorker.

\* The batch is full or a tick of the worker has come.  A pipeline has an answer
\* for each command; errors are ignored: what was not recorded is lost.
Flush(h) ==
  \E n \in 1 .. Len(writeQueue[h]) : \E done \in SUBSET (1 .. n) :
    /\ n <= BatchSize
    /\ IF done = 1 .. n THEN UNCHANGED faults ELSE Fault
    /\ zset' = Written(writeQueue[h], done, zset)
    /\ writeQueue' = [writeQueue EXCEPT ![h] = SubSeq(@, n + 1, Len(@))]
    /\ UNCHANGED <<asking, clocks, local, remoteStats, tracked, sync, removal, deletes>>

\* batchCurrentStats of Redis, a pipeline too: a counter whose command fails, run
\* or not, counts as 0.
SyncReads(h) ==
  LET C == CountersOf(tracked[h]) IN
  /\ sync[h] = NoSync /\ tracked[h] # {}
  /\ \E ran \in SUBSET C : \E answered \in SUBSET ran :
       /\ IF answered = C THEN UNCHANGED faults ELSE Fault
       /\ zset' = Cleaned(ran, 0, zset)
       /\ sync' = [sync EXCEPT ![h] =
            [keys |-> tracked[h], age |-> 0,
             total |-> [c \in Counters |-> IF c \in answered
                                             THEN Weigh(c, Fresh(c, 0, zset[c])) ELSE 0]]]
  /\ UNCHANGED <<asking, clocks, local, remoteStats, tracked, writeQueue, removal, deletes>>

\* The local counts are read after the totals, and the differences stored.
SyncStores(h) ==
  /\ sync[h] # NoSync
  /\ remoteStats' = [remoteStats EXCEPT ![h] = [c \in Counters |->
        LET n == sync[h].total[c] - Weigh(c, local[h][c]) IN
        IF c \notin CountersOf(sync[h].keys) THEN @[c] ELSE IF n < 0 THEN 0 ELSE n]]
  /\ sync' = [sync EXCEPT ![h] = NoSync]
  /\ UNCHANGED <<asking, clocks, zset, local, tracked, writeQueue, removal, events>>

\* Ten seconds have passed without an answer.
SyncTimesOut(h) ==
  /\ sync[h] # NoSync
  /\ Fault
  /\ sync' = [sync EXCEPT ![h] = NoSync]
  /\ UNCHANGED <<asking, clocks, zset, local, remoteStats, tracked, writeQueue, removal, deletes>>

---------------------------------------------------------------------------
\* Tokens, removed keys, crashes and time.

\* What direct replicas admitted is kept for the properties.
Ends(r) == IF by[r] \in Direct
             THEN /\ at' = [at EXCEPT ![r] = "over"]
                  /\ tries' = [tries EXCEPT ![r] = 0]
                  /\ told' = [told EXCEPT ![r] = 0]
                  /\ UNCHANGED <<by, asked>>
             ELSE Forgotten({r})

\* consumeTokens is over for one key; the request is over with the last one.
Told(r) ==
  IF told[r] + 1 = Len(asked[r]) THEN Ends(r)
  ELSE /\ told' = [told EXCEPT ![r] = @ + 1]
       /\ tries' = [tries EXCEPT ![r] = 0]
       /\ UNCHANGED <<at, by, asked>>

\* ConsumeTokens, then ConsumeModelTokens: a call for the next key, k.
Reports(r, k) ==
  /\ at[r] = "admitted"
  /\ told[r] < Len(asked[r]) /\ k = asked[r][told[r] + 1]

\* The clock is read for the counter of the key.
ReadsClock(r, k) ==
  tokenStamp' = [c \in TokenCounters |-> IF c = <<k, "tpm">> THEN [tokenStamp[c] EXCEPT ![r] = 0]
                                                             ELSE tokenStamp[c]]

ReportDirect(r, k) ==
  LET clock(c) == IF tries[r] = 0 THEN 0 ELSE tokenStamp[c][r]
      done == [c \in Counters |-> IF c = <<k, "tpm">>
                 THEN Fresh(c, clock(c), zset[c]) \cup {Member(r)} ELSE zset[c]]
  IN
  /\ Reports(r, k) /\ by[r] \in Direct
  /\ IF tries[r] = 0 THEN ReadsClock(r, k) ELSE UNCHANGED tokenStamp
  /\ \/ UNCHANGED faults /\ zset' = done /\ Told(r)
     \/ Fault /\ zset' \in {zset, done} /\ (Retry(r) \/ Told(r))
  /\ UNCHANGED <<stamp, hybrids, removal, deletes>>

ReportHybrid(r, k) ==
  /\ Reports(r, k) /\ by[r] \in Hybrid
  /\ ReadsClock(r, k)
  /\ Track(by[r], <<k>>)
  /\ Count(by[r], r, <<k>>, "tpm")
  /\ EnqueueAll(by[r], r, <<k>>, "tpm")
  /\ Told(r)
  /\ UNCHANGED <<stamp, zset, remoteStats, sync, removal, events>>

\* A failed request reports no tokens.
Fails(r) ==
  /\ at[r] = "admitted" /\ tries[r] = 0 /\ told[r] = 0
  /\ Ends(r)
  /\ UNCHANGED <<clocks, zset, hybrids, removal, events>>

\* RemoveModelCtx calls deleteKey, one model after the other: its parts, each under
\* a lock of its own, then a call of Redis for each kind that may fail.  Operations
\* in the queue and a running doSync still know the key.
Limited(k, kind) == IF <<k, kind>> \in Counters THEN <<kind>> ELSE <<>>
Parts(i, k) ==
  (IF i \in Hybrid THEN <<"tracked", "remoteStats", "local">> ELSE <<>>)
    \o Limited(k, "rpm") \o Limited(k, "tpm")

Without(i, K, part) ==
  /\ tracked' = [h \in Hybrid |-> IF h = i /\ part = "tracked" THEN tracked[h] \ K ELSE tracked[h]]
  /\ remoteStats' = [h \in Hybrid |-> [c \in Counters |->
       IF h = i /\ part = "remoteStats" /\ c[1] \in K THEN 0 ELSE remoteStats[h][c]]]
  /\ local' = [h \in Hybrid |-> [c \in Counters |->
       IF h = i /\ part = "local" /\ c[1] \in K THEN {} ELSE local[h][c]]]
  /\ zset' \in {zset, [c \in Counters |-> IF c \in K \X {part} THEN {} ELSE zset[c]]}
  /\ UNCHANGED <<asking, clocks, writeQueue, sync, faults>>

Ahead(K, parts) == IF parts = <<>> THEN NoRemoval ELSE [key |-> K, parts |-> parts]

DeleteKey(i, k) ==
  /\ removal[i] = NoRemoval /\ Parts(i, k) # <<>>
  /\ faults + deletes < MaxEvents /\ deletes' = deletes + 1
  /\ Without(i, {k}, Head(Parts(i, k)))
  /\ removal' = [removal EXCEPT ![i] = Ahead({k}, Tail(Parts(i, k)))]

DeletePart(i) ==
  /\ removal[i] # NoRemoval
  /\ Without(i, removal[i].key, Head(removal[i].parts))
  /\ removal' = [removal EXCEPT ![i] = Ahead(@.key, Tail(@.parts))]
  /\ UNCHANGED deletes

\* A replica dies with its queue and its requests and starts again.
Crash(h) ==
  /\ Fault
  /\ Forgotten({r \in Requests : by[r] = h})
  /\ local' = [local EXCEPT ![h] = [c \in Counters |-> {}]]
  /\ remoteStats' = [remoteStats EXCEPT ![h] = [c \in Counters |-> 0]]
  /\ tracked' = [tracked EXCEPT ![h] = {}]
  /\ writeQueue' = [writeQueue EXCEPT ![h] = <<>>]
  /\ sync' = [sync EXCEPT ![h] = NoSync]
  /\ removal' = [removal EXCEPT ![h] = NoRemoval]
  /\ UNCHANGED <<clocks, zset, deletes>>

\* A call of Redis, a doSync too, ends within CallTicks, an answer is there within
\* AnswerTicks.  What is older than Horizon is forgotten.
Older(age) == IF age < Horizon THEN age + 1 ELSE Horizon
Aged(s) == IF s = NoSync THEN s ELSE [s EXCEPT !.age = @ + 1]

Tick ==
  /\ \A r \in Requests :
       /\ at[r] = "asking" => stamp[r] < CallTicks
       /\ at[r] = "admitted" => stamp[r] < CallTicks + AnswerTicks
  /\ \A h \in Hybrid : sync[h] = NoSync \/ sync[h].age < CallTicks
  /\ stamp' = [r \in Requests |-> Older(stamp[r])]
  /\ tokenStamp' = [c \in TokenCounters |-> [r \in Requests |-> Older(tokenStamp[c][r])]]
  /\ clocks' # clocks
  /\ sync' = [h \in Hybrid |-> Aged(sync[h])]
  /\ zset' = [c \in Counters |-> {m \in zset[c] : Age(m[1], c)' < Horizon}]
  /\ local' = [h \in Hybrid |-> [c \in Counters |-> {r \in local[h][c] : Age(r, c)' < Window}]]
  /\ Forgotten({r \in Requests : at[r] = "over" /\ stamp'[r] = Horizon})
  /\ UNCHANGED <<remoteStats, tracked, writeQueue, removal, events>>

---------------------------------------------------------------------------
AskHybrid(h) == \E K \in Asks : Refuse(h, K) \/ \E r \in Requests : Admit(h, r, K)
Sync(h) == SyncReads(h) \/ SyncStores(h)

HybridNext(h) ==
  \/ AskHybrid(h)
  \/ Flush(h)
  \/ Sync(h) \/ SyncTimesOut(h)
  \/ Crash(h)

Next ==
  \/ \E h \in Hybrid : HybridNext(h)
  \/ \E d \in Direct, r \in Requests, K \in Asks : AskDirect(d, r, K)
  \/ \E r \in Requests : Answered(r) \/ NoAnswer(r) \/ Fails(r)
  \/ \E r \in Requests, k \in Keys : ReportDirect(r, k) \/ ReportHybrid(r, k)
  \/ \E i \in Replicas : DeletePart(i) \/ \E k \in ModelKeys : DeleteKey(i, k)
  \/ Tick

\* Time passes, the workers of a hybrid replica run, and it is asked again and
\* again.  Nothing is assumed of Redis or of the other replicas.
Fairness ==
  /\ WF_vars(Tick)
  /\ \A h \in Hybrid : WF_vars(Flush(h)) /\ WF_vars(Sync(h)) /\ WF_vars(AskHybrid(h))

Spec == Init /\ [][Next]_vars /\ Fairness

---------------------------------------------------------------------------
\* Properties.

\* The requests that direct replicas have admitted and that are not too old.
Granted(c) == {r \in Requests : /\ at[r] \in {"admitted", "over"} /\ by[r] \in Direct
                                /\ c[1] \in KeysOf(r) /\ stamp[r] < Horizon}

\* Together the direct replicas admit no more than the limit in any stretch of
\* time that is shorter than the window by what a call of Redis may take, in
\* spite of retries, lost answers, callers with old clocks and hybrid replicas
\* that write at any time.
DirectWithinLimit ==
  deletes = 0 => \A c \in RequestCounters :
    \A age \in 0 .. Horizon :
      Cardinality({r \in Granted(c) :
                     stamp[r] \in age .. age + Window - CallTicks - 1}) <= Limit[c]

\* No hybrid replica admits more on its own, whatever its estimate.
OwnWithinLimit ==
  \A h \in Hybrid, c \in RequestCounters : Cardinality(local[h][c]) <= Limit[c]

\* However often a call is repeated, a request is one entry.
OneEntryEach ==
  \A c \in Counters : \A m, n \in zset[c] : m[1] = n[1] => m = n

\* docs/advanced/redis.md:130 calls the limits of direct replicas exact.  They are
\* not: a script with an older clock no longer sees the entries that one with a
\* newer clock has removed.  Refuted: see the README.
ExactAcrossReplicas ==
  deletes = 0 => \A c \in RequestCounters :
    \A age \in 0 .. Horizon :
      Cardinality({r \in Granted(c) : stamp[r] \in age .. age + Window - 1}) <= Limit[c]

\* What a deployment with both kinds of replicas keeps of its limits.
SharedLimit == DirectWithinLimit /\ OwnWithinLimit /\ OneEntryEach

\* A hybrid replica that is asked while the others are quiet admits again and
\* again: an estimate that was right once, or that never was, does not keep it
\* from its limit.
Alone(h) == \A r \in Requests : at[r] \in {"asking", "admitted"} => by[r] = h
IsAdmitting(h) == \E r \in Requests : at[r] = "admitted" /\ by[r] = h

LeftAloneRecovers == \A h \in Hybrid : <>[]Alone(h) => []<>IsAdmitting(h)
=============================================================================
