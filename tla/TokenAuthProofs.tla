--------------------------- MODULE TokenAuthProofs --------------------------
(***************************************************************************)
(* Proofs about TokenAuth, for any number of requests, keys and rows and   *)
(* any times; and, at the end, about VertexTokens.                         *)
(***************************************************************************)
EXTENDS TokenAuth, VertexTokens, SequenceTheorems, TLAPS

-----------------------------------------------------------------------------
(* The order of the cache.                                                 *)

\* What is left when a key is taken out of the order was in it.
LEMMA WithoutType ==
  ASSUME NEW S, lru \in Seq(S), NEW k
  PROVE  Without(k) \in Seq(S)
<1>1. CASE ~Contains(lru, k)
  BY <1>1 DEF Without
<1>2. CASE Contains(lru, k)
  <2> DEFINE p == CHOOSE i \in DOMAIN lru : lru[i] = k
  <2>1. p \in 1 .. Len(lru)
    BY <1>2, LenProperties DEF Contains
  <2> HIDE DEF p
  <2>2. Len(lru) \in Nat /\ \A i \in 1 .. Len(lru) : lru[i] \in S
    BY LenProperties
  <2>3. /\ SubSeq(lru, 1, p - 1) \in Seq(S)
        /\ SubSeq(lru, p + 1, Len(lru)) \in Seq(S)
    <3>1. /\ p - 1 \in Int /\ \A i \in 1 .. p - 1 : lru[i] \in S
          /\ p + 1 \in Int /\ \A i \in p + 1 .. Len(lru) : lru[i] \in S
      BY <2>1, <2>2
    <3> QED BY <2>2, <3>1, SubSeqProperties
  <2>4. RemoveAt(lru, p) \in Seq(S)
    BY <2>3, ConcatProperties DEF RemoveAt
  <2> QED BY <1>2, <2>4 DEF Without, p
<1> QED BY <1>1, <1>2

LEMMA TouchedType ==
  ASSUME NEW S, lru \in Seq(S), NEW k
  PROVE  Touched(k) \in Seq(S \cup {k}) /\ Touched(k) # <<>>
<1>1. Without(k) \in Seq(S \cup {k})
  BY WithoutType, SeqMonotonic
<1> QED BY <1>1, AppendProperties DEF Touched

\* A sequence of known keys keeps known keys.
LEMMA KeepType ==
  ASSUME NEW S, NEW order \in Seq(S), NEW c
  PROVE  /\ DOMAIN Keep(order, c) \subseteq S
         /\ order \in Seq(DOMAIN Keep(order, c))
         /\ \A k \in DOMAIN Keep(order, c) : Keep(order, c)[k] = c[k]
<1>1. ToSet(order) \subseteq S
  BY ElementOfSeq, LenProperties DEF ToSet
<1>2. order \in Seq(ToSet(order))
  BY IsASeq, LenProperties DEF ToSet
<1> QED BY <1>1, <1>2 DEF Keep

-----------------------------------------------------------------------------
(* Records of a key.                                                       *)

\* A record says what was true n ticks ago or later of a key that was good and
\* bad so many ticks ago.
Told(info, good, bad, n) ==
  /\ Validate(info) = "ok" => good <= n
  /\ ~(Validate(info) = "ok" /\ info.left = Forever) => bad <= n

MayFind == ClientRow \cup {NoRow}

\* Where a request may be, with what it then holds.
Verdicts == {"unhealthy", "no connection", "not found", "ok", "blocked", "expired", "budget"}
AnyKey == Keys \cup {Master}
Looking == [at : {"look", "evict", "fetch", "query"}, key : AnyKey]
Holding == [at : {"answered"}, key : AnyKey, info : MayFind, ago : 0 .. MaxQuery]
Done == [at : {"done"}, key : AnyKey, verdict : Verdicts]
Where == Looking \cup Holding \cup Done \cup {Idle}

Types ==
  /\ lru \in Seq(DOMAIN cached)
  /\ row \in [Keys -> MayFind]
  /\ sinceGood \in [Keys -> Nat] /\ sinceBad \in [Keys -> Nat]
  /\ req \in [Requests -> Where]
  /\ \A k \in Keys \cap DOMAIN cached : cached[k].info \in ClientRow /\ cached[k].age \in Nat

\* The observer sees the rows.
RowsObserved ==
  \A k \in Keys : /\ Good(row[k]) => sinceGood[k] = 0
                  /\ ~Lasting(row[k]) => sinceBad[k] = 0

\* What is on its way from the database was true when it was read.
AnswersTold ==
  \A r \in Requests : req[r].at = "answered" /\ req[r].key \in Keys =>
    IF req[r].info = NoRow THEN sinceBad[req[r].key] <= req[r].ago
    ELSE Told(req[r].info, sinceGood[req[r].key], sinceBad[req[r].key], req[r].ago)

\* An entry that is not too old was true when its answer was read.
EntriesTold ==
  \A k \in Keys \cap DOMAIN cached :
    cached[k].age <= TTL => Told(cached[k].info, sinceGood[k], sinceBad[k], cached[k].age + MaxQuery)

Inv == Types /\ RowsObserved /\ AnswersTold /\ EntriesTold

\* A record that grows older keeps its type; it may run out, but a record that
\* is not good does not become good, and one that lasts stays as it is.
LEMMA AgedRecord ==
  ASSUME NEW info \in ClientRow
  PROVE  /\ Aged(info) \in ClientRow
         /\ Validate(Aged(info)) = "ok" => Validate(info) = "ok"
         /\ Validate(info) = "ok" /\ info.left = Forever => Aged(info) = info
<1>1. CASE info = NoRow \/ info.left = Forever
  BY <1>1 DEF Aged
<1>2. CASE ~(info = NoRow \/ info.left = Forever)
  <2> DEFINE left == IF info.left = 0 THEN 0 ELSE info.left - 1
  <2>1. left \in Nat /\ (info.left = 0 => left = 0)
    BY <1>2 DEF ClientRow
  <2>2. Aged(info) = [info EXCEPT !.left = left]
    BY <1>2 DEF Aged
  <2> HIDE DEF left
  <2>3. /\ Aged(info) \in ClientRow
        /\ Aged(info).left = left
        /\ Aged(info).blocked = info.blocked
        /\ Aged(info).team = info.team
        /\ Aged(info).spend = info.spend
        /\ Aged(info).max = info.max
    BY <2>1, <2>2 DEF ClientRow
  <2>4. \A l : Exceeded(Aged(info), l) <=> Exceeded(info, l)
    BY <2>3 DEF Exceeded
  <2>5. Validate(Aged(info)) = "ok" => Validate(info) = "ok"
    BY <2>1, <2>3, <2>4 DEF Validate
  <2> QED BY <1>2, <2>3, <2>5
<1> QED BY <1>1, <1>2

\* The record that a query finds is told by the row.
LEMMA RowTold ==
  ASSUME Inv, NEW k \in Keys
  PROVE  /\ row[k] = NoRow => sinceBad[k] = 0
         /\ row[k] # NoRow => Told(row[k], sinceGood[k], sinceBad[k], 0)
BY DEF Inv, Types, RowsObserved, Told, Good, Lasting

-----------------------------------------------------------------------------
(* The invariant.                                                          *)

\* What a request holds, by its place.
LEMMA Places ==
  ASSUME NEW q \in Where
  PROVE  /\ q.at \in {"look", "evict", "fetch", "query"} => q \in Looking /\ q.key \in AnyKey
         /\ q.at = "answered" => q \in Holding /\ q.key \in AnyKey /\ q.info \in MayFind /\ q.ago \in 0 .. MaxQuery
<1>1. CASE q \in Looking
  BY <1>1 DEF Looking
<1>2. CASE q \in Holding
  BY <1>2 DEF Holding
<1>3. CASE q \in Done
  BY <1>3 DEF Done
<1>4. CASE q = Idle
  BY <1>4 DEF Idle
<1> QED BY <1>1, <1>2, <1>3, <1>4 DEF Where

LEMMA NextPlace ==
  ASSUME NEW q \in Looking, NEW a \in {"look", "evict", "fetch", "query"}
  PROVE  [q EXCEPT !.at = a] \in Where /\ [q EXCEPT !.at = a].at = a
BY DEF Where, Looking

LEMMA Decided ==
  ASSUME NEW k \in AnyKey, NEW v \in Verdicts
  PROVE  /\ [at |-> "done", key |-> k, verdict |-> v] \in Where
         /\ [at |-> "done", key |-> k, verdict |-> v].at = "done"
<1>1. [at |-> "done", key |-> k, verdict |-> v] \in Done
  BY DEF Done
<1> QED BY <1>1 DEF Where

LEMMA InitInv == Init => Inv
<1> SUFFICES ASSUME Init PROVE Inv
  OBVIOUS
<1> USE TimesAssumption, KeysAssumption, RowsAssumption
<1>1. lru \in Seq(DOMAIN cached) /\ Keys \cap DOMAIN cached = {}
  <2>1. CASE lru = <<Master>> /\ cached = [k \in {Master} |-> [info |-> MasterRow, age |-> 0]]
    <3>1. DOMAIN cached = {Master}
      BY <2>1
    <3>2. <<Master>> \in Seq({Master})
      OBVIOUS
    <3> QED BY <2>1, <3>1, <3>2
  <2>2. CASE lru = <<>> /\ cached = <<>>
    <3>1. DOMAIN cached = {}
      BY <2>2
    <3> QED BY <2>2, <3>1, EmptySeq
  <2> QED BY <2>1, <2>2 DEF Init
<1>2. row \in [Keys -> MayFind]
  BY DEF Init, MayFind
<1>3. /\ sinceGood \in [Keys -> Nat] /\ sinceBad \in [Keys -> Nat]
      /\ RowsObserved
  BY DEF Init, Lag, RowsObserved
<1>4. req \in [Requests -> Where] /\ \A r \in Requests : req[r].at = "idle"
  BY DEF Init, Where, Idle
<1> QED BY <1>1, <1>2, <1>3, <1>4 DEF Inv, Types, AnswersTold, EntriesTold

\* A request that goes on without an answer from the database leaves the
\* invariant alone when it only touches the order or drops entries.
LEMMA MovesOn ==
  ASSUME Inv, NEW r \in Requests, NEW q \in Where, q.at # "answered", Now(r, q),
         lru' \in Seq(DOMAIN cached'), DOMAIN cached' \subseteq DOMAIN cached,
         \A k \in DOMAIN cached' : cached'[k] = cached[k],
         UNCHANGED <<row, since>>
  PROVE  Inv'
<1>1. /\ req' \in [Requests -> Where]
      /\ \A p \in Requests : req'[p] = IF p = r THEN q ELSE req[p]
  BY DEF Inv, Types, Now
<1>2. Types'
  BY <1>1 DEF Inv, Types, since
<1>3. AnswersTold'
  BY <1>1 DEF Inv, AnswersTold, Told, since
<1>4. RowsObserved' /\ EntriesTold'
  BY DEF Inv, RowsObserved, EntriesTold, Told, since
<1> QED BY <1>2, <1>3, <1>4 DEF Inv

\* The same where the cache stays as it is.
LEMMA LeavesCache ==
  ASSUME Inv, NEW r \in Requests, NEW q \in Where, q.at # "answered", Now(r, q),
         lru' \in Seq(DOMAIN cached), UNCHANGED <<cached, row, since>>
  PROVE  Inv'
BY MovesOn

\* An answer is cached with the time that it was under way forgotten: the time
\* is at most MaxQuery.
LEMMA FinishInv == ASSUME Inv, NEW r \in Requests, Finish(r) PROVE Inv'
<1> USE DEF db, cache, health
<1> DEFINE k == req[r].key
           info == req[r].info
           D == DOMAIN cached
<1>1. /\ k \in Keys \cup {Master} /\ info \in MayFind /\ req[r].ago \in 0 .. MaxQuery
      /\ lru \in Seq(D)
  BY Places DEF Inv, Types, Finish, AnyKey
<1>2. \A v \in {"not found", "ok", "blocked", "expired", "budget"} :
        [at |-> "done", key |-> k, verdict |-> v] \in Where
  BY <1>1, Decided DEF AnyKey, Verdicts
<1>3. Validate(info) \in {"ok", "blocked", "expired", "budget"}
  BY DEF Validate
<1>4. CASE info = NoRow
  BY <1>1, <1>2, <1>4, LeavesCache DEF Finish, Decide
<1>5. CASE info # NoRow /\ Validate(info) # "ok"
  BY <1>1, <1>2, <1>3, <1>5, LeavesCache DEF Finish, Decide
<1>6. CASE info # NoRow /\ Validate(info) = "ok"
  <2> DEFINE q == [at |-> "done", key |-> k, verdict |-> "ok"]
             kept == [info |-> info, age |-> 0]
             c == [j \in D \cup {k} |-> IF j = k THEN kept ELSE cached[j]]
  <2>1. /\ req' \in [Requests -> Where]
        /\ \A p \in Requests : req'[p] = IF p = r THEN q ELSE req[p]
        /\ UNCHANGED <<row, since>>
    BY <1>2, <1>6 DEF Finish, Decide, Now, Inv, Types
  <2>2. Set(k, info)
    BY <1>6 DEF Finish
  <2>3. lru' \in Seq(D \cup {k}) /\ cached' = Keep(lru', c)
    <3>1. Touched(k) \in Seq(D \cup {k}) /\ Touched(k) # <<>>
      BY <1>1, TouchedType
    <3>2. Tail(Touched(k)) \in Seq(D \cup {k})
      BY <3>1, HeadTailProperties
    <3> QED BY <2>2, <3>1, <3>2 DEF Set
  <2>4. /\ DOMAIN cached' \subseteq D \cup {k}
        /\ lru' \in Seq(DOMAIN cached')
        /\ \A j \in DOMAIN cached' : cached'[j] = c[j]
    BY <2>3, KeepType
  <2>5. \A j \in DOMAIN cached' : cached'[j] = IF j = k THEN kept ELSE cached[j]
    BY <2>4
  <2>6. k \in Keys => /\ info \in ClientRow
                      /\ Told(info, sinceGood[k], sinceBad[k], req[r].ago)
    BY <1>1, <1>6 DEF Inv, AnswersTold, Finish, MayFind
  <2>7. Types'
    <3>1. \A j \in Keys \cap DOMAIN cached' : cached'[j].info \in ClientRow /\ cached'[j].age \in Nat
      BY <2>4, <2>5, <2>6 DEF Inv, Types
    <3> QED BY <2>1, <2>4, <3>1 DEF Inv, Types, since
  <2>8. AnswersTold'
    BY <2>1 DEF Inv, AnswersTold, Told, since
  <2>9. EntriesTold'
    <3> SUFFICES ASSUME NEW j \in Keys \cap DOMAIN cached', cached'[j].age <= TTL
                 PROVE  Told(cached'[j].info, sinceGood[j], sinceBad[j], cached'[j].age + MaxQuery)
      BY <2>1 DEF EntriesTold, Told, since
    <3>1. CASE j = k
      <4>1. cached'[j].info = info /\ cached'[j].age = 0
        BY <2>5, <3>1
      <4>2. sinceGood[k] \in Nat /\ sinceBad[k] \in Nat /\ MaxQuery \in Nat
        BY <3>1, TimesAssumption DEF Inv, Types
      <4> QED BY <1>1, <2>6, <3>1, <4>1, <4>2 DEF Told
    <3>2. CASE j # k
      BY <2>4, <2>5, <3>2 DEF Inv, EntriesTold
    <3> QED BY <3>1, <3>2
  <2>10. RowsObserved'
    BY <2>1 DEF Inv, RowsObserved, since
  <2> QED BY <2>7, <2>8, <2>9, <2>10 DEF Inv
<1> QED BY <1>4, <1>5, <1>6

LEMMA RequestInv == ASSUME Inv, NEW r \in Requests, Request(r) PROVE Inv'
<1> USE DEF db, cache, health
<1>0. req[r] \in Where /\ lru \in Seq(DOMAIN cached)
  BY DEF Inv, Types
<1>1. CASE Arrive(r)
  <2>1. PICK k \in Keys \cup {Master} :
          Now(r, IF breaker.healthy THEN [at |-> "look", key |-> k]
                 ELSE [at |-> "done", key |-> k, verdict |-> "unhealthy"])
    BY <1>1 DEF Arrive
  <2>2. /\ [at |-> "look", key |-> k] \in Where
        /\ [at |-> "done", key |-> k, verdict |-> "unhealthy"] \in Where
    BY Decided DEF Where, Looking, AnyKey, Verdicts
  <2> QED BY <1>0, <1>1, <2>1, <2>2, LeavesCache DEF Arrive
<1>2. CASE Hit(r)
  <2> DEFINE k == req[r].key
  <2>1. k \in DOMAIN cached /\ k \in Keys \cup {Master}
    BY <1>0, <1>2, Places DEF Hit, AnyKey
  <2>2. lru' \in Seq(DOMAIN cached)
    <3>1. DOMAIN cached \cup {k} = DOMAIN cached
      BY <2>1
    <3> QED BY <1>0, <1>2, <3>1, TouchedType DEF Hit
  <2>3. Validate(cached[k].info) \in {"ok", "blocked", "expired", "budget"}
    BY DEF Validate
  <2>4. [at |-> "done", key |-> k, verdict |-> Validate(cached[k].info)] \in Where
    BY <2>1, <2>3, Decided DEF AnyKey, Verdicts
  <2> QED BY <1>2, <2>2, <2>4, LeavesCache DEF Hit, Decide
<1>3. CASE Miss(r)
  <2> DEFINE k == req[r].key
  <2>1. req[r] \in Looking
    BY <1>0, <1>3, Places DEF Miss
  <2>2. /\ [req[r] EXCEPT !.at = "evict"] \in Where /\ [req[r] EXCEPT !.at = "evict"].at = "evict"
        /\ [req[r] EXCEPT !.at = "fetch"] \in Where /\ [req[r] EXCEPT !.at = "fetch"].at = "fetch"
    BY <2>1, NextPlace
  <2>3. lru' \in Seq(DOMAIN cached)
    <3>1. k \in DOMAIN cached => DOMAIN cached \cup {k} = DOMAIN cached
      OBVIOUS
    <3> QED BY <1>0, <1>3, <3>1, TouchedType DEF Miss
  <2> QED BY <1>3, <2>2, <2>3, LeavesCache DEF Miss, Step
<1>4. CASE Evict(r)
  <2> DEFINE k == req[r].key
  <2>1. [req[r] EXCEPT !.at = "fetch"] \in Where /\ [req[r] EXCEPT !.at = "fetch"].at = "fetch"
    BY <1>0, <1>4, Places, NextPlace DEF Evict
  <2>2. CASE k \in DOMAIN cached /\ cached[k].age > TTL
    <3>1. lru' \in Seq(DOMAIN cached) /\ cached' = Keep(lru', cached)
      BY <1>0, <1>4, <2>2, WithoutType DEF Evict
    <3>2. /\ DOMAIN cached' \subseteq DOMAIN cached
          /\ lru' \in Seq(DOMAIN cached')
          /\ \A j \in DOMAIN cached' : cached'[j] = cached[j]
      BY <3>1, KeepType
    <3> QED BY <1>4, <2>1, <3>2, MovesOn DEF Evict, Step
  <2>3. CASE ~(k \in DOMAIN cached /\ cached[k].age > TTL)
    <3>1. k \in DOMAIN cached => DOMAIN cached \cup {k} = DOMAIN cached
      OBVIOUS
    <3>2. lru' \in Seq(DOMAIN cached) /\ UNCHANGED cached
      BY <1>0, <1>4, <2>3, <3>1, TouchedType DEF Evict
    <3> QED BY <1>4, <2>1, <3>2, LeavesCache DEF Evict, Step
  <2> QED BY <2>2, <2>3
<1>5. CASE Acquire(r)
  <2>1. /\ [req[r] EXCEPT !.at = "query"] \in Where /\ [req[r] EXCEPT !.at = "query"].at = "query"
        /\ [at |-> "done", key |-> req[r].key, verdict |-> "no connection"] \in Where
    BY <1>0, <1>5, Places, NextPlace, Decided DEF Acquire, Verdicts
  <2> QED BY <1>0, <1>5, <2>1, LeavesCache DEF Acquire, Step, Decide
<1>6. CASE Query(r)
  <2> DEFINE k == req[r].key
             q == [at |-> "answered", key |-> k, info |-> IF k = Master THEN NoRow ELSE row[k], ago |-> 0]
  <2>1. k \in Keys \cup {Master}
    BY <1>0, <1>6, Places DEF Query, AnyKey
  <2>2. q \in Where
    <3>1. q \in Holding
      BY <2>1, TimesAssumption DEF Inv, Types, Holding, MayFind, AnyKey
    <3> QED BY <3>1 DEF Where
  <2>3. /\ req' \in [Requests -> Where]
        /\ \A p \in Requests : req'[p] = IF p = r THEN q ELSE req[p]
    BY <1>6, <2>2 DEF Inv, Types, Query, Now
  <2>4. k \in Keys => /\ q.info = NoRow => sinceBad[k] = 0
                      /\ q.info # NoRow => Told(q.info, sinceGood[k], sinceBad[k], 0)
    BY KeysAssumption, RowTold
  <2>5. Types'
    BY <1>6, <2>3 DEF Inv, Types, Query, since
  <2>6. RowsObserved' /\ EntriesTold'
    BY <1>6 DEF Inv, RowsObserved, EntriesTold, Told, since, Query
  <2>7. AnswersTold'
    <3> SUFFICES ASSUME NEW p \in Requests, req'[p].at = "answered", req'[p].key \in Keys
                 PROVE  IF req'[p].info = NoRow THEN sinceBad[req'[p].key] <= req'[p].ago
                        ELSE Told(req'[p].info, sinceGood[req'[p].key], sinceBad[req'[p].key], req'[p].ago)
      BY <1>6 DEF AnswersTold, Query, since, Told
    <3>1. CASE p = r
      <4>1. req'[p] = q
        BY <2>3, <3>1
      <4>2. q.key = k /\ q.ago = 0
        OBVIOUS
      <4> QED BY <2>4, <4>1, <4>2
    <3>2. CASE p # r
      BY <2>3, <3>2 DEF Inv, AnswersTold
    <3> QED BY <3>1, <3>2
  <2> QED BY <2>5, <2>6, <2>7 DEF Inv
<1>7. CASE QueryFails(r)
  <2>1. [at |-> "done", key |-> req[r].key, verdict |-> "no connection"] \in Where
    BY <1>0, <1>7, Places, Decided DEF QueryFails, Verdicts
  <2> QED BY <1>0, <1>7, <2>1, LeavesCache DEF QueryFails, Decide
<1>8. CASE Finish(r)
  BY <1>8, FinishInv
<1>9. CASE Leave(r)
  <2>1. Idle \in Where /\ Idle.at = "idle"
    BY DEF Where, Idle
  <2> QED BY <1>0, <1>9, <2>1, LeavesCache DEF Leave
<1> QED BY <1>1, <1>2, <1>3, <1>4, <1>5, <1>6, <1>7, <1>8, <1>9 DEF Request

\* The checks and the outages change neither rows nor records.
LEMMA SystemInv ==
  ASSUME Inv, HealthCheck \/ TryReconnect \/ CheckHealth \/ Outage \/ Return \/ UNCHANGED vars
  PROVE  Inv'
<1>1. UNCHANGED <<row, lru, cached, req, sinceGood, sinceBad>>
  BY DEF HealthCheck, TryReconnect, CheckHealth, Outage, Return, vars, db, cache, since
<1> QED BY <1>1 DEF Inv, Types, RowsObserved, AnswersTold, EntriesTold, Told

LEMMA ChangeInv == ASSUME Inv, NEW k \in Keys, ChangeRow(k) PROVE Inv'
<1>1. PICK new \in Rows : row' = [row EXCEPT ![k] = new]
  BY DEF ChangeRow
<1>2. row' \in [Keys -> MayFind]
  BY <1>1, RowsAssumption DEF Inv, Types, MayFind
<1>3. /\ sinceGood' \in [Keys -> Nat] /\ sinceBad' \in [Keys -> Nat]
      /\ \A j \in Keys : sinceGood'[j] <= sinceGood[j] /\ sinceBad'[j] <= sinceBad[j]
  BY DEF ChangeRow, Observe, Inv, Types
<1>4. RowsObserved'
  BY DEF ChangeRow, Observe, RowsObserved
<1>5. UNCHANGED <<lru, cached, req>>
  BY DEF ChangeRow, cache
<1>6. ASSUME NEW info, NEW j \in Keys, NEW n \in Nat, Told(info, sinceGood[j], sinceBad[j], n)
      PROVE  Told(info, sinceGood'[j], sinceBad'[j], n)
  BY <1>3, <1>6 DEF Told, Inv, Types
<1>7. AnswersTold'
  <2> SUFFICES ASSUME NEW r \in Requests, req[r].at = "answered", req[r].key \in Keys
               PROVE  IF req[r].info = NoRow THEN sinceBad'[req[r].key] <= req[r].ago
                      ELSE Told(req[r].info, sinceGood'[req[r].key], sinceBad'[req[r].key], req[r].ago)
    BY <1>5 DEF AnswersTold, Told
  <2>1. req[r].ago \in Nat
    BY Places, TimesAssumption DEF Inv, Types
  <2> QED BY <1>3, <1>6, <2>1 DEF Inv, Types, AnswersTold
<1>8. EntriesTold'
  <2> SUFFICES ASSUME NEW j \in Keys \cap DOMAIN cached, cached[j].age <= TTL
               PROVE  Told(cached[j].info, sinceGood'[j], sinceBad'[j], cached[j].age + MaxQuery)
    BY <1>5 DEF EntriesTold, Told
  <2>1. cached[j].age + MaxQuery \in Nat
    BY TimesAssumption DEF Inv, Types
  <2> QED BY <1>6, <2>1 DEF Inv, EntriesTold
<1> QED BY <1>2, <1>3, <1>4, <1>5, <1>7, <1>8 DEF Inv, Types

\* A tick: what was true n ticks ago was true n + 1 ticks ago.
LEMMA TickInv == ASSUME Inv, Tick PROVE Inv'
<1>1. row' \in [Keys -> MayFind]
  <2>1. \A info \in MayFind : Aged(info) \in MayFind
    BY AgedRecord DEF MayFind, Aged
  <2> QED BY <2>1 DEF Tick, Inv, Types
<1>2. /\ sinceGood' \in [Keys -> Nat] /\ sinceBad' \in [Keys -> Nat]
      /\ \A j \in Keys : sinceGood'[j] <= sinceGood[j] + 1 /\ sinceBad'[j] <= sinceBad[j] + 1
  <2>1. \A j \in Keys : sinceGood[j] + 1 \in Nat /\ sinceBad[j] + 1 \in Nat
    BY DEF Inv, Types
  <2>2. Lag + 1 \in Nat
    BY TimesAssumption DEF Lag
  <2>3. \A j \in Keys : /\ Lower(sinceGood[j] + 1, Lag + 1) \in Nat
                        /\ Lower(sinceGood[j] + 1, Lag + 1) <= sinceGood[j] + 1
                        /\ Lower(sinceBad[j] + 1, Lag + 1) \in Nat
                        /\ Lower(sinceBad[j] + 1, Lag + 1) <= sinceBad[j] + 1
    BY <2>1, <2>2 DEF Lower
  <2>4. /\ sinceGood' = [k \in Keys |-> IF Good(row'[k]) THEN 0 ELSE Lower(sinceGood[k] + 1, Lag + 1)]
        /\ sinceBad' = [k \in Keys |-> IF ~Lasting(row'[k]) THEN 0 ELSE Lower(sinceBad[k] + 1, Lag + 1)]
    BY DEF Tick
  <2> QED BY <2>1, <2>3, <2>4
<1>3. RowsObserved'
  BY DEF Tick, RowsObserved
<1>4. ASSUME NEW info \in ClientRow, NEW j \in Keys, NEW n \in Nat, Told(info, sinceGood[j], sinceBad[j], n)
      PROVE  Told(Aged(info), sinceGood'[j], sinceBad'[j], n + 1)
  <2>1. /\ Validate(Aged(info)) = "ok" => Validate(info) = "ok"
        /\ Validate(info) = "ok" /\ info.left = Forever => Aged(info) = info
    BY <1>4, AgedRecord
  <2>2. /\ Validate(Aged(info)) = "ok" => sinceGood[j] <= n
        /\ ~(Validate(Aged(info)) = "ok" /\ Aged(info).left = Forever) => sinceBad[j] <= n
    BY <1>4, <2>1 DEF Told
  <2>3. sinceGood[j] \in Nat /\ sinceBad[j] \in Nat /\ sinceGood'[j] \in Nat /\ sinceBad'[j] \in Nat
    BY <1>2 DEF Inv, Types
  <2> QED BY <1>2, <2>2, <2>3 DEF Told
<1>5. \A r \in Requests : req[r].at = "answered" =>
        /\ req[r] \in Holding /\ req[r].ago < MaxQuery
        /\ req'[r] = [req[r] EXCEPT !.ago = req[r].ago + 1, !.info = Aged(req[r].info)]
  BY Places DEF Tick, Inv, Types
<1>6. \A r \in Requests : req[r].at # "answered" => req'[r] = req[r]
  BY DEF Tick
<1>7. \A r \in Requests : req[r].at = "answered" =>
        /\ req'[r].at = "answered" /\ req'[r].key = req[r].key
        /\ req'[r].info = Aged(req[r].info) /\ req'[r].ago = req[r].ago + 1
  BY <1>5 DEF Holding
<1>8. req' \in [Requests -> Where]
  <2>1. ASSUME NEW r \in Requests, req[r].at = "answered" PROVE req'[r] \in Holding
    <3>1. Aged(req[r].info) \in MayFind /\ req[r].ago + 1 \in 0 .. MaxQuery
      <4>1. req[r].info \in MayFind /\ req[r].ago \in 0 .. MaxQuery /\ req[r].ago < MaxQuery
        BY <1>5, <2>1 DEF Holding
      <4> QED BY <4>1, AgedRecord, TimesAssumption DEF MayFind, Aged
    <3> QED BY <1>5, <2>1, <3>1 DEF Holding
  <2>2. req' = [r \in Requests |-> req'[r]]
    BY DEF Tick
  <2>3. \A r \in Requests : req'[r] \in Where
    BY <1>6, <2>1 DEF Inv, Types, Where
  <2> QED BY <2>2, <2>3
<1>9. /\ DOMAIN cached' = DOMAIN cached /\ UNCHANGED lru
      /\ \A k \in DOMAIN cached : /\ cached'[k].info = Aged(cached[k].info)
                                  /\ cached'[k].age = Lower(cached[k].age + 1, TTL + 1)
  BY DEF Tick
<1>10. Types'
  <2>1. \A k \in Keys \cap DOMAIN cached' : cached'[k].info \in ClientRow /\ cached'[k].age \in Nat
    <3>1. \A n \in Nat : Lower(n + 1, TTL + 1) \in Nat
      BY TimesAssumption DEF Lower
    <3>2. \A k \in Keys \cap DOMAIN cached : cached[k].info \in ClientRow /\ cached[k].age \in Nat
      BY DEF Inv, Types
    <3> QED BY <1>9, <3>1, <3>2, AgedRecord
  <2> QED BY <1>1, <1>2, <1>8, <1>9, <2>1 DEF Inv, Types
<1>11. AnswersTold'
  <2> SUFFICES ASSUME NEW r \in Requests, req'[r].at = "answered", req'[r].key \in Keys
               PROVE  IF req'[r].info = NoRow THEN sinceBad'[req'[r].key] <= req'[r].ago
                      ELSE Told(req'[r].info, sinceGood'[req'[r].key], sinceBad'[req'[r].key], req'[r].ago)
    BY DEF AnswersTold, Told
  <2> DEFINE k == req[r].key
             info == req[r].info
             n == req[r].ago
  <2>1. /\ req[r].at = "answered" /\ k \in Keys /\ info \in MayFind /\ n \in Nat
        /\ req'[r].key = k /\ req'[r].info = Aged(info) /\ req'[r].ago = n + 1
    <3>1. req[r].at = "answered"
      BY <1>6
    <3>2. req[r].info \in MayFind /\ req[r].ago \in 0 .. MaxQuery
      BY <1>5, <3>1 DEF Holding
    <3> QED BY <1>7, <3>1, <3>2, TimesAssumption
  <2>2. IF info = NoRow THEN sinceBad[k] <= n ELSE Told(info, sinceGood[k], sinceBad[k], n)
    BY <2>1 DEF Inv, AnswersTold
  <2>3. CASE info = NoRow
    <3>1. Aged(info) = NoRow
      BY <2>3 DEF Aged
    <3>2. sinceBad[k] \in Nat /\ sinceBad'[k] \in Nat /\ sinceBad[k] <= n
      BY <1>2, <2>1, <2>2, <2>3 DEF Inv, Types
    <3> QED BY <1>2, <2>1, <3>1, <3>2
  <2>4. CASE info # NoRow
    <3>1. info \in ClientRow /\ Told(info, sinceGood[k], sinceBad[k], n)
      BY <2>1, <2>2, <2>4 DEF MayFind
    <3>2. Told(Aged(info), sinceGood'[k], sinceBad'[k], n + 1)
      BY <1>4, <2>1, <3>1
    <3>3. Aged(info) = NoRow => sinceBad'[k] <= n + 1
      <4>1. Aged(info) = NoRow => ~(Validate(info) = "ok" /\ info.left = Forever)
        BY <2>4, <3>1, AgedRecord
      <4>2. sinceBad[k] \in Nat /\ sinceBad'[k] \in Nat /\ sinceBad'[k] <= sinceBad[k] + 1
        BY <1>2, <2>1 DEF Inv, Types
      <4> QED BY <2>1, <3>1, <4>1, <4>2 DEF Told
    <3> QED BY <2>1, <3>2, <3>3
  <2> QED BY <2>3, <2>4
<1>12. EntriesTold'
  <2> SUFFICES ASSUME NEW k \in Keys \cap DOMAIN cached, cached'[k].age <= TTL
               PROVE  Told(cached'[k].info, sinceGood'[k], sinceBad'[k], cached'[k].age + MaxQuery)
    BY <1>9 DEF EntriesTold, Told
  <2> DEFINE n == cached[k].age + MaxQuery
  <2>1. cached[k].info \in ClientRow /\ cached[k].age \in Nat /\ n \in Nat
    BY TimesAssumption DEF Inv, Types
  <2>2. cached'[k].age = cached[k].age + 1 /\ cached[k].age <= TTL
    BY <1>9, <2>1, TimesAssumption DEF Lower
  <2>3. Told(cached[k].info, sinceGood[k], sinceBad[k], n)
    BY <2>2 DEF Inv, EntriesTold
  <2>4. Told(Aged(cached[k].info), sinceGood'[k], sinceBad'[k], n + 1)
    BY <1>4, <2>1, <2>3
  <2>5. cached'[k].age + MaxQuery = n + 1
    BY <2>1, <2>2, TimesAssumption
  <2>6. cached'[k].info = Aged(cached[k].info)
    BY <1>9
  <2> QED BY <2>4, <2>5, <2>6 DEF Told
<1> QED BY <1>3, <1>10, <1>11, <1>12 DEF Inv

LEMMA StepInv == Inv /\ [Next]_vars => Inv'
BY RequestInv, SystemInv, ChangeInv, TickInv DEF Next

LEMMA NowAt == ASSUME Inv, NEW r \in Requests, NEW q, Now(r, q) PROVE req'[r] = q
BY DEF Inv, Types, Now

\* A request's step moves no other request.
LEMMA OthersStay ==
  ASSUME Inv, NEW p \in Requests, NEW r \in Requests \ {p}, Request(p)
  PROVE  req'[r] = req[r]
<1>1. \E q : Now(p, q)
  BY DEF Request, Arrive, Hit, Miss, Evict, Acquire, Query, QueryFails, Finish, Leave, Step, Decide
<1> QED BY <1>1 DEF Now, Inv, Types

LEMMA DecideAt ==
  ASSUME Inv, NEW r \in Requests, NEW v, Decide(r, v)
  PROVE  req'[r].key = req[r].key /\ req'[r].verdict = v
<1>1. req'[r] = [at |-> "done", key |-> req[r].key, verdict |-> v]
  BY NowAt DEF Decide
<1> QED BY <1>1

\* What a request decides by is in the cache or has just been read.
LEMMA DecidesRecent ==
  ASSUME Inv, NEW r \in Requests, Next, req[r].at # "done", req'[r].at = "done", req[r].at # "idle",
         req'[r].key # Master
  PROVE  /\ req'[r].verdict = "ok" => sinceGood[req[r].key] <= Lag
         /\ req'[r].verdict \in {"not found", "blocked", "expired", "budget"} => sinceBad[req[r].key] <= Lag
<1> DEFINE k == req[r].key
<1>0. req[r] \in Where /\ KeysAssumption
  BY KeysAssumption DEF Inv, Types
<1>1. CASE Hit(r)
  <2>1. /\ k \in DOMAIN cached /\ ~Stale(k)
        /\ req'[r].key = k /\ req'[r].verdict = Validate(cached[k].info)
    BY <1>1, NowAt DEF Hit, Decide
  <2>2. k \in Keys
    BY <1>0, <1>1, <2>1, Places DEF Hit, AnyKey
  <2>3. /\ cached[k].info \in ClientRow /\ cached[k].age \in Nat
        /\ sinceGood[k] \in Nat /\ sinceBad[k] \in Nat
    BY <2>1, <2>2 DEF Inv, Types
  <2>4. cached[k].age <= TTL
    <3>1. cached[k].info.master = FALSE
      BY <2>3 DEF ClientRow
    <3> QED BY <2>1, <2>3, <3>1, TimesAssumption DEF Stale
  <2>5. Told(cached[k].info, sinceGood[k], sinceBad[k], cached[k].age + MaxQuery)
    BY <2>1, <2>2, <2>4 DEF Inv, EntriesTold
  <2>6. /\ Validate(cached[k].info) = "ok" => sinceGood[k] <= cached[k].age + MaxQuery
        /\ Validate(cached[k].info) # "ok" => sinceBad[k] <= cached[k].age + MaxQuery
    BY <2>5 DEF Told
  <2>7. /\ Validate(cached[k].info) = "ok" => sinceGood[k] <= Lag
        /\ Validate(cached[k].info) # "ok" => sinceBad[k] <= Lag
    BY <2>3, <2>4, <2>6, TimesAssumption DEF Lag
  <2> QED BY <2>1, <2>7
<1>2. CASE Finish(r)
  <2> DEFINE info == req[r].info
  <2>1. /\ req'[r].key = k
        /\ req'[r].verdict = IF info = NoRow THEN "not found" ELSE Validate(info)
    <3>1. Decide(r, IF info = NoRow THEN "not found" ELSE Validate(info))
      BY <1>2 DEF Finish
    <3> QED BY <3>1, DecideAt
  <2>2. req[r].at = "answered" /\ k \in Keys /\ req[r].ago \in 0 .. MaxQuery
    BY <1>0, <1>2, <2>1, Places DEF Finish, AnyKey
  <2>3. sinceGood[k] \in Nat /\ sinceBad[k] \in Nat
    BY <2>2 DEF Inv, Types
  <2>4. Validate(info) # "not found"
    BY DEF Validate
  <2>5. IF info = NoRow THEN sinceBad[k] <= req[r].ago
        ELSE Told(info, sinceGood[k], sinceBad[k], req[r].ago)
    BY <2>2 DEF Inv, AnswersTold
  <2>6. /\ info # NoRow /\ Validate(info) = "ok" => sinceGood[k] <= req[r].ago
        /\ info = NoRow \/ Validate(info) # "ok" => sinceBad[k] <= req[r].ago
    BY <2>5 DEF Told
  <2>7. /\ info # NoRow /\ Validate(info) = "ok" => sinceGood[k] <= Lag
        /\ info = NoRow \/ Validate(info) # "ok" => sinceBad[k] <= Lag
    BY <2>2, <2>3, <2>6, TimesAssumption DEF Lag
  <2> QED BY <2>1, <2>4, <2>7
<1>3. CASE Acquire(r) \/ QueryFails(r)
  <2>1. CASE Acquire(r) /\ pool.healthy
    BY <1>0, <2>1, NowAt, NextPlace, Places DEF Acquire, Step
  <2>2. CASE QueryFails(r) \/ ~pool.healthy
    <3>1. Decide(r, "no connection")
      BY <1>3, <2>2 DEF Acquire, QueryFails
    <3>2. req'[r].verdict = "no connection"
      BY <3>1, DecideAt
    <3> QED BY <3>2
  <2> QED BY <1>3, <2>1, <2>2
<1>4. CASE Arrive(r) \/ Miss(r) \/ Evict(r) \/ Query(r) \/ Leave(r)
  <2>1. CASE Miss(r) \/ Evict(r)
    <3>1. req[r] \in Looking
      BY <1>0, <2>1, Places DEF Miss, Evict
    <3>2. Step(r, "evict") \/ Step(r, "fetch")
      BY <2>1 DEF Miss, Evict
    <3> QED BY <3>1, <3>2, NowAt, NextPlace DEF Step
  <2>2. CASE Query(r)
    <3>1. PICK found : Now(r, [at |-> "answered", key |-> k, info |-> found, ago |-> 0])
      BY <2>2 DEF Query
    <3>2. req'[r].at = "answered"
      BY <3>1, NowAt
    <3> QED BY <3>2
  <2>3. CASE Arrive(r) \/ Leave(r)
    BY <2>3 DEF Arrive, Leave
  <2> QED BY <1>4, <2>1, <2>2, <2>3
<1>5. CASE \E p \in Requests \ {r} : Request(p)
  <2>1. req'[r] = req[r]
    BY <1>5, OthersStay
  <2> QED BY <2>1
<1>6. CASE HealthCheck \/ TryReconnect \/ CheckHealth \/ Outage \/ Return \/ \E j \in Keys : ChangeRow(j)
  BY <1>6 DEF HealthCheck, TryReconnect, CheckHealth, Outage, Return, ChangeRow
<1>7. CASE Tick
  <2>1. CASE req[r].at = "answered"
    <3>1. req[r] \in Holding
      BY <1>0, <2>1, Places
    <3>2. req'[r] = [req[r] EXCEPT !.ago = req[r].ago + 1, !.info = Aged(req[r].info)]
      BY <1>7, <2>1 DEF Tick
    <3>3. req'[r].at = "answered"
      BY <2>1, <3>1, <3>2 DEF Holding
    <3> QED BY <3>3
  <2>2. CASE req[r].at # "answered"
    BY <1>7, <2>2 DEF Tick
  <2> QED BY <2>1, <2>2
<1>8. CASE Request(r)
  BY <1>1, <1>2, <1>3, <1>4, <1>8 DEF Request
<1>9. (\E p \in Requests : Request(p)) => Request(r) \/ \E p \in Requests \ {r} : Request(p)
  OBVIOUS
<1> QED BY <1>5, <1>6, <1>7, <1>8, <1>9 DEF Next

\* What a client is told of its key (ValidateToken, from the cache or from the
\* database) was true within the time to live of an entry and a query's.
THEOREM DecidedRecently == Spec => DecisionsAreRecent
<1>1. Inv /\ [Next]_vars =>
        [\A r \in Requests :
           req[r].at # "done" /\ req'[r].at = "done" /\ req[r].at # "idle" /\ req'[r].key # Master =>
             /\ req'[r].verdict = "ok" => sinceGood[req[r].key] <= Lag
             /\ req'[r].verdict \in {"not found", "blocked", "expired", "budget"} =>
                  sinceBad[req[r].key] <= Lag]_vars
  BY DecidesRecent
<1> QED BY <1>1, InitInv, StepInv, PTL DEF Spec, DecisionsAreRecent

\* The types of the records, the requests and the cache (Cache.Get and Set keep
\* the order and the entries together).
THEOREM TypeCorrect == Spec => []Types
BY InitInv, StepInv, PTL DEF Spec, Inv

-----------------------------------------------------------------------------
(* The token manager for Vertex AI (auth/vertex.go), which shares nothing *)
(* with the keys of clients: for any number of calls, tokens and sources and *)
(* any capacity of the queue. *)

\* A goroutine that talks to Google or writes an entry has a source.
SourcesKnown ==
  \A k \in Calls : task[k].at \in {"refresh", "update", "create", "store"} => task[k].src \in Sources

TypeInv == TypeOK /\ SourcesKnown

TaskPlaces == {"none", "begin", "refresh", "update", "drop", "load", "create", "store", "answer"}
TaskType == [at : TaskPlaces, src : Sources \cup {None}, token : {Failed} \cup Tokens]

\* A goroutine goes on to its next place.
LEMMA NextTask ==
  ASSUME TypeInv, NEW k \in Calls, NEW a \in TaskPlaces, NEW s \in Sources \cup {None},
         NEW t \in {Failed} \cup Tokens, Do(k, At(a, s, t)),
         a \in {"refresh", "update", "create", "store"} => s \in Sources
  PROVE  /\ task' \in [Calls -> TaskType]
         /\ SourcesKnown'
<1>1. task \in [Calls -> TaskType]
  BY DEF TypeInv, TypeOK, TaskType, TaskPlaces
<1>2. At(a, s, t) \in TaskType
  BY DEF At, TaskType
<1>3. task' = [task EXCEPT ![k] = At(a, s, t)]
  BY DEF Do
<1>4. \A j \in Calls : task'[j] = IF j = k THEN At(a, s, t) ELSE task[j]
  BY <1>1, <1>3
<1>5. At(a, s, t).at = a /\ At(a, s, t).src = s
  BY DEF At
<1> QED BY <1>1, <1>2, <1>3, <1>4, <1>5 DEF TypeInv, SourcesKnown

\* A token source answers with a token and keeps the types.
LEMMA SourceTypes ==
  ASSUME TypeInv, NEW s \in Sources, NEW t \in Tokens, Answers(s, t)
  PROVE  /\ source' \in [Sources -> {Failed} \cup Tokens]
         /\ age' \in [Tokens -> {"none", "fresh", "aging", "expired"}]
BY DEF Answers, TypeInv, TypeOK

\* The types of the steps that a caller makes.
LEMMA CallTypes == ASSUME TypeInv, NEW k \in Calls, Call(k) \/ Timeout(k) PROVE TypeInv'
<1> USE TokensAssumption, NoneAssumption DEF TypeInv, TypeOK, SourcesKnown, calls, tokensCache, Goto, Tokens, Failed
<1>1. CASE Begin(k)
  BY <1>1 DEF Begin
<1>2. CASE Register(k)
  <2>1. /\ refreshing = None => refreshing' = {k}
        /\ refreshing # None => refreshing' = refreshing \cup {k} /\ refreshing \subseteq Calls
    <3>1. refreshing # None => refreshing \in SUBSET Calls
      OBVIOUS
    <3> QED BY <1>2, <3>1 DEF Register
  <2>2. refreshing' \in (SUBSET Calls) \ {{}}
    <3>1. CASE refreshing = None
      BY <2>1, <3>1
    <3>2. CASE refreshing # None
      <4>1. refreshing' = refreshing \cup {k} /\ refreshing \subseteq Calls
        BY <2>1, <3>2
      <4>2. k \in refreshing' /\ refreshing' \subseteq Calls
        BY <4>1
      <4> QED BY <4>2
    <3> QED BY <3>1, <3>2
  <2>3. pc' \in [Calls -> {"idle", "register", "sending", "waiting", "returned"}]
    BY <1>2 DEF Register
  <2> QED BY <1>2, <2>2, <2>3 DEF Register
<1>3. CASE Send(k)
  BY <1>3 DEF Send
<1>4. CASE Receive(k)
  BY <1>4 DEF Receive
<1>5. CASE SendTimeout(k)
  BY <1>5 DEF SendTimeout, Responses
<1>6. CASE WaitTimeout(k)
  BY <1>6 DEF WaitTimeout, RemoveWaitingChan, Waiting
<1> QED BY <1>1, <1>2, <1>3, <1>4, <1>5, <1>6 DEF Call, Timeout

\* The types of the steps that a refresh makes.
LEMMA RefreshTypes == ASSUME TypeInv, NEW k \in Calls, Refresh(k) PROVE TypeInv'
<1> USE TokensAssumption, NoneAssumption
<1>0. /\ task[k].src \in Sources \cup {None} /\ task[k].token \in {Failed} \cup Tokens
      /\ task[k].at \in {"refresh", "update", "create", "store"} => task[k].src \in Sources
      /\ Failed \in {Failed} \cup Tokens /\ None \in Sources \cup {None}
  BY DEF TypeInv, TypeOK, SourcesKnown
<1>1. CASE Process(k)
  <2>1. \/ tokens \in Sources /\ Do(k, At("refresh", tokens, Failed))
        \/ Do(k, At("load", None, Failed))
    BY <1>1 DEF Process, TypeInv, TypeOK
  <2>2. task' \in [Calls -> TaskType] /\ SourcesKnown'
    BY <1>0, <2>1, NextTask DEF TaskPlaces
  <2> QED BY <1>1, <2>2 DEF Process, TypeInv, TypeOK, TaskType, TaskPlaces, calls, tokensCache
<1>2. CASE RefreshToken(k)
  <2>1. CASE \E t \in Tokens : Answers(task[k].src, t) /\ Do(k, At("update", task[k].src, t))
    <3> PICK t \in Tokens : Answers(task[k].src, t) /\ Do(k, At("update", task[k].src, t))
      BY <2>1
    <3>1. task[k].src \in Sources
      BY <1>0, <1>2 DEF RefreshToken
    <3>2. task' \in [Calls -> TaskType] /\ SourcesKnown'
      BY <3>1, NextTask DEF TaskPlaces
    <3> QED BY <1>2, <3>1, <3>2, SourceTypes
            DEF RefreshToken, TypeInv, TypeOK, TaskType, TaskPlaces, calls
  <2>2. CASE Do(k, At("drop", task[k].src, Failed)) /\ UNCHANGED <<source, age>>
    <3>1. task' \in [Calls -> TaskType] /\ SourcesKnown'
      BY <1>0, <2>2, NextTask DEF TaskPlaces
    <3> QED BY <1>2, <2>2, <3>1 DEF RefreshToken, TypeInv, TypeOK, TaskType, TaskPlaces, calls
  <2> QED BY <1>2, <2>1, <2>2 DEF RefreshToken
<1>3. CASE Update(k)
  <2>1. task' \in [Calls -> TaskType] /\ SourcesKnown'
    BY <1>0, <1>3, NextTask DEF Update, TaskPlaces
  <2> QED BY <1>0, <1>3, <2>1 DEF Update, TypeInv, TypeOK, TaskType, TaskPlaces, calls
<1>4. CASE Drop(k)
  <2>1. task' \in [Calls -> TaskType] /\ SourcesKnown'
    BY <1>0, <1>4, NextTask DEF Drop, TaskPlaces
  <2> QED BY <1>4, <2>1 DEF Drop, TypeInv, TypeOK, TaskType, TaskPlaces, calls
<1>5. CASE LoadCredentials(k)
  <2>1. NewSources # {} => (CHOOSE s \in NewSources : TRUE) \in Sources
    BY DEF NewSources
  <2>2. \/ \E s \in Sources : Do(k, At("create", s, Failed))
        \/ Do(k, At("answer", None, Failed))
    BY <1>5, <2>1 DEF LoadCredentials
  <2>3. task' \in [Calls -> TaskType] /\ SourcesKnown'
    BY <1>0, <2>2, NextTask DEF TaskPlaces
  <2>4. credentials' \in {"none", "account", "other"}
    BY <1>5 DEF LoadCredentials, TypeInv, TypeOK
  <2> QED BY <1>5, <2>3, <2>4 DEF LoadCredentials, TypeInv, TypeOK, TaskType, TaskPlaces, calls
<1>6. CASE CreateToken(k)
  <2>1. CASE \E t \in Tokens : Answers(task[k].src, t) /\ Do(k, At("store", task[k].src, t))
    <3> PICK t \in Tokens : Answers(task[k].src, t) /\ Do(k, At("store", task[k].src, t))
      BY <2>1
    <3>1. task[k].src \in Sources
      BY <1>0, <1>6 DEF CreateToken
    <3>2. task' \in [Calls -> TaskType] /\ SourcesKnown'
      BY <3>1, NextTask DEF TaskPlaces
    <3> QED BY <1>6, <3>1, <3>2, SourceTypes
            DEF CreateToken, TypeInv, TypeOK, TaskType, TaskPlaces, calls
  <2>2. CASE Do(k, At("answer", task[k].src, Failed)) /\ UNCHANGED <<source, age>>
    <3>1. task' \in [Calls -> TaskType] /\ SourcesKnown'
      BY <1>0, <2>2, NextTask DEF TaskPlaces
    <3> QED BY <1>6, <2>2, <3>1 DEF CreateToken, TypeInv, TypeOK, TaskType, TaskPlaces, calls
  <2> QED BY <1>6, <2>1, <2>2 DEF CreateToken
<1>7. CASE Store(k)
  <2>1. task' \in [Calls -> TaskType] /\ SourcesKnown'
    BY <1>0, <1>7, NextTask DEF Store, TaskPlaces
  <2> QED BY <1>0, <1>7, <2>1 DEF Store, TypeInv, TypeOK, TaskType, TaskPlaces, calls
<1>8. CASE Answer(k)
  <2>1. Do(k, At("none", None, Failed))
    BY <1>8 DEF Answer, NoTask, At, Do
  <2>2. task' \in [Calls -> TaskType] /\ SourcesKnown'
    BY <1>0, <2>1, NextTask DEF TaskPlaces
  <2>3. chan' \in [Calls -> {None, Failed} \cup Tokens]
    BY <1>0, <1>8 DEF Answer, Respond, Responses, TypeInv, TypeOK
  <2> QED BY <1>8, <2>2, <2>3 DEF Answer, Used, TypeInv, TypeOK, TaskType, TaskPlaces
<1>9. CASE Panics(k)
  <2>1. task' \in [Calls -> TaskType] /\ SourcesKnown'
    BY <1>0, <1>9, NextTask DEF Panics, TaskPlaces
  <2> QED BY <1>9, <2>1 DEF Panics, TypeInv, TypeOK, TaskType, TaskPlaces, calls, tokensCache
<1> QED BY <1>1, <1>2, <1>3, <1>4, <1>5, <1>6, <1>7, <1>8, <1>9 DEF Refresh

\* The worker, Stop and the clock.
LEMMA OtherTypes ==
  ASSUME TypeInv, Take \/ WorkerStop \/ Stopping \/ Age \/ AllReturned \/ UNCHANGED tokensVars
  PROVE  TypeInv'
<1> USE TokensAssumption, NoneAssumption DEF TypeInv, TypeOK, SourcesKnown, calls, tokensCache, Tokens, Failed
<1>1. CASE Take
  <2>1. Head(queue) \in Calls /\ Tail(queue) \in Seq(Calls)
    BY <1>1 DEF Take
  <2> QED BY <1>1, <2>1 DEF Take, Do, At
<1>2. CASE WorkerStop
  BY <1>2 DEF WorkerStop
<1>3. CASE Stopping
  BY <1>3 DEF Stopping, Close, FailAllWaiters, StopReturns, Respond, Responses
<1>4. CASE Age
  BY <1>4 DEF Age
<1>5. CASE AllReturned \/ UNCHANGED tokensVars
  BY <1>5 DEF AllReturned, tokensVars
<1> QED BY <1>1, <1>2, <1>3, <1>4, <1>5

\* Every variable keeps its type, and who needs a source has one.
THEOREM TokensTyped == TokensSpec => []TypeInv
<1>1. TokensInit => TypeInv
  BY TokensAssumption, NoneAssumption
     DEF TokensInit, TypeInv, TypeOK, SourcesKnown, NoTask, Tokens, Failed
<1>2. TypeInv /\ [TokensNext]_tokensVars => TypeInv'
  BY CallTypes, RefreshTypes, OtherTypes DEF TokensNext
<1> QED BY <1>1, <1>2, PTL DEF TokensSpec

-----------------------------------------------------------------------------
\* A waiter is answered or listed, and for the list somebody works: the steps
\* of callers.
LEMMA CallServes ==
  ASSUME TypeInv, WaitersAreServed, NEW k \in Calls, Call(k) \/ Timeout(k)
  PROVE  WaitersAreServed'
<1> USE TokensAssumption, NoneAssumption
    DEF TypeInv, TypeOK, WaitersAreServed, Asked, Waiting, calls, tokensCache, Goto, Tokens, Failed
<1>1. CASE Begin(k)
  BY <1>1 DEF Begin
<1>2. CASE Register(k)
  <2> SUFFICES ASSUME stop = "no"
               PROVE  /\ \A j \in Calls : pc'[j] \in {"sending", "waiting"} => chan'[j] # None \/ j \in refreshing'
                      /\ refreshing' # None
                      /\ \E j \in Calls : Asked(j)'
    BY <1>2 DEF Register
  <2>1. CASE refreshing = None
    <3>1. refreshing' = {k} /\ pc' = [pc EXCEPT ![k] = "sending"]
      BY <1>2, <2>1 DEF Register
    <3>2. {k} # None
      <4>1. {k} \in SUBSET Calls
        OBVIOUS
      <4> QED BY <4>1, NoneAssumption
    <3> QED BY <1>2, <2>1, <3>1, <3>2 DEF Register
  <2>2. CASE refreshing # None
    <3>1. refreshing' = refreshing \cup {k} /\ pc' = [pc EXCEPT ![k] = "waiting"]
      BY <1>2, <2>2 DEF Register
    <3> QED BY <1>2, <2>2, <3>1 DEF Register
  <2> QED BY <2>1, <2>2
<1>3. CASE Send(k)
  <2>1. queue' = Append(queue, k) /\ Len(queue) + 1 \in DOMAIN queue'
        /\ queue'[Len(queue) + 1] = k
    BY <1>3 DEF Send
  <2> QED BY <1>3, <2>1 DEF Send
<1>4. CASE Receive(k)
  BY <1>4 DEF Receive
<1>5. CASE SendTimeout(k)
  BY <1>5 DEF SendTimeout, Responses
<1>6. CASE WaitTimeout(k)
  <2>1. \/ refreshing' = None /\ Waiting \subseteq {k}
        \/ refreshing # None /\ refreshing' = refreshing \ {k}
    BY <1>6 DEF WaitTimeout, RemoveWaitingChan
  <2>2. \A j \in Calls \ {k} : pc'[j] = pc[j] /\ chan'[j] = chan[j]
    BY <1>6 DEF WaitTimeout
  <2>3. pc'[k] = "returned" /\ pc[k] = "waiting"
    BY <1>6 DEF WaitTimeout
  <2>4. stop = "no" => \A j \in Calls : pc'[j] \in {"sending", "waiting"} => chan'[j] # None \/ j \in Waiting'
    BY <1>6, <2>1, <2>2, <2>3 DEF WaitTimeout
  <2>5. stop = "no" /\ refreshing' # None => \E j \in Calls : Asked(j)'
    BY <1>6, <2>1, <2>2, <2>3 DEF WaitTimeout
  <2> QED BY <1>6, <2>4, <2>5 DEF WaitTimeout
<1> QED BY <1>1, <1>2, <1>3, <1>4, <1>5, <1>6 DEF Call, Timeout

\* The steps of a refresh: as long as it runs it is one that was asked.
LEMMA RefreshServes ==
  ASSUME TypeInv, WaitersAreServed, NEW k \in Calls, Refresh(k)
  PROVE  WaitersAreServed'
<1>1. CASE Answer(k)
  <2>1. \A j \in Calls : j \in Waiting \/ chan[j] # None => chan'[j] # None
    BY <1>1, TokensAssumption, NoneAssumption DEF Answer, Respond, Responses, TypeInv, TypeOK, Tokens, Failed
  <2> QED BY <1>1, <2>1 DEF Answer, WaitersAreServed, Waiting
<1>2. CASE ~Answer(k)
  <2>1. \E a \in TaskPlaces \ {"none"} : \E s, t : Do(k, At(a, s, t))
    BY <1>2 DEF Refresh, Process, RefreshToken, Update, Drop, LoadCredentials, CreateToken, Store,
                Panics, TaskPlaces
  <2>2. task'[k] # NoTask /\ \A j \in Calls \ {k} : task'[j] = task[j]
    BY <2>1 DEF Do, At, NoTask, TypeInv, TypeOK
  <2>3. UNCHANGED <<pc, chan, refreshing, queue, stop>>
    BY <1>2 DEF Refresh, Process, RefreshToken, Update, Drop, LoadCredentials, CreateToken, Store,
                Panics, calls
  <2>4. \A j \in Calls : Asked(j) => Asked(j)'
    BY <2>2, <2>3 DEF Asked
  <2> QED BY <2>3, <2>4 DEF WaitersAreServed, Waiting
<1> QED BY <1>1, <1>2

\* The worker hands a request on; nobody else disturbs the list before Stop.
LEMMA OtherServes ==
  ASSUME TypeInv, WaitersAreServed, Take \/ WorkerStop \/ Stopping \/ Age \/ AllReturned \/ UNCHANGED tokensVars
  PROVE  WaitersAreServed'
<1>1. CASE Take
  <2>1. Head(queue) \in Calls /\ task' = [task EXCEPT ![Head(queue)] = At("begin", None, Failed)]
    BY <1>1 DEF Take, Do, TypeInv, TypeOK
  <2>2. \A j \in Calls : Asked(j) => Asked(j)'
    <3> SUFFICES ASSUME NEW j \in Calls, Asked(j)
                 PROVE  Asked(j)'
      OBVIOUS
    <3>1. CASE pc[j] = "sending"
      BY <1>1, <3>1 DEF Take, Asked
    <3>2. CASE task[j] # NoTask
      <4>1. task'[j] # NoTask
        BY <2>1, <3>2 DEF At, NoTask, TypeInv, TypeOK
      <4> QED BY <4>1 DEF Asked
    <3>3. CASE \E i \in DOMAIN queue : queue[i] = j
      <4> PICK i \in DOMAIN queue : queue[i] = j
        BY <3>3
      <4>1. CASE i = 1
        <5>1. task'[j] # NoTask
          BY <2>1, <4>1 DEF At, NoTask, TypeInv, TypeOK
        <5> QED BY <5>1 DEF Asked
      <4>2. CASE i # 1
        <5>1. queue' = Tail(queue) /\ i - 1 \in DOMAIN queue' /\ queue'[i - 1] = j
          BY <1>1, <4>2 DEF Take, TypeInv, TypeOK
        <5> QED BY <5>1 DEF Asked
      <4> QED BY <4>1, <4>2
    <3> QED BY <3>1, <3>2, <3>3 DEF Asked
  <2> QED BY <1>1, <2>2 DEF Take, WaitersAreServed, Waiting
<1>2. CASE WorkerStop
  BY <1>2 DEF WorkerStop, WaitersAreServed, Waiting, Asked, calls
<1>3. CASE Stopping
  BY <1>3 DEF Stopping, Close, FailAllWaiters, StopReturns, WaitersAreServed
<1>4. CASE Age
  BY <1>4 DEF Age, WaitersAreServed, Waiting, Asked, calls
<1>5. CASE AllReturned \/ UNCHANGED tokensVars
  BY <1>5 DEF AllReturned, tokensVars, calls, WaitersAreServed, Waiting, Asked
<1> QED BY <1>1, <1>2, <1>3, <1>4, <1>5

\* Until the manager is stopped whoever waits has an answer or is on the list
\* that somebody works for, through all timeouts (GetToken, removeWaitingChan,
\* notifyWaiters).
THEOREM WaitersServed == TokensSpec => []WaitersAreServed
<1>1. TokensInit => WaitersAreServed
  BY DEF TokensInit, WaitersAreServed
<1>2. TypeInv /\ WaitersAreServed /\ [TokensNext]_tokensVars => WaitersAreServed'
  BY CallServes, RefreshServes, OtherServes DEF TokensNext
<1> QED BY <1>1, <1>2, TokensTyped, PTL DEF TokensSpec

-----------------------------------------------------------------------------
\* A token between its source and a caller, or one that a caller is given, is
\* a living one.
Alive(t) == t \in {None, Failed} \/ age[t] \in {"fresh", "aging"}

\* Why answers are valid: a source holds tokens that were issued, and what a
\* goroutine carries to the entry and to the waiters is alive.
Living ==
  /\ \A s \in Sources : source[s] # Failed => age[source[s]] # "none"
  /\ \A k \in Calls : task[k].at \in {"update", "store", "answer"} => Alive(task[k].token)
  /\ \A k \in Calls : Alive(chan[k])

\* A source gives a living token and harms none.
LEMMA SourceLives ==
  ASSUME TypeInv, Living, NEW s \in Sources, NEW t \in Tokens, Answers(s, t)
  PROVE  /\ age'[t] \in {"fresh", "aging"}
         /\ \A u \in Tokens : age[u] # "none" => age'[u] = age[u]
         /\ \A r \in Sources : source'[r] # Failed => age'[source'[r]] # "none"
<1>1. CASE source[s] # Failed /\ age[source[s]] # "expired"
  <2>1. t = source[s] /\ UNCHANGED <<source, age>>
    BY <1>1 DEF Answers
  <2> QED BY <1>1, <2>1 DEF TypeInv, TypeOK, Living
<1>2. CASE ~(source[s] # Failed /\ age[source[s]] # "expired")
  <2>1. /\ age[t] = "none" /\ age' = [age EXCEPT ![t] = "fresh"]
        /\ source' = [source EXCEPT ![s] = t]
    BY <1>2 DEF Answers
  <2> QED BY <2>1 DEF TypeInv, TypeOK, Living
<1> QED BY <1>1, <1>2

\* A goroutine goes on with a living token, or with none.
LEMMA TaskLives ==
  ASSUME TypeInv, Living, NEW k \in Calls, NEW a \in TaskPlaces, NEW s, NEW t \in {Failed} \cup Tokens,
         Do(k, At(a, s, t)), Alive(t)',
         \A u \in Tokens : age[u] # "none" => age'[u] = age[u],
         UNCHANGED chan
  PROVE  /\ \A j \in Calls : task'[j].at \in {"update", "store", "answer"} => Alive(task[j].token)'
         /\ \A j \in Calls : Alive(chan[j])'
<1>1. \A u \in {None, Failed} \cup Tokens : Alive(u) => Alive(u)'
  BY DEF Alive
<1>2. \A j \in Calls : Alive(chan[j])'
  <2>1. \A j \in Calls : chan[j] \in {None, Failed} \cup Tokens /\ Alive(chan[j])
    BY DEF Living, TypeInv, TypeOK
  <2> QED BY <1>1, <2>1 DEF Alive
<1>3. \A j \in Calls : task'[j] = IF j = k THEN At(a, s, t) ELSE task[j]
  BY DEF Do, TypeInv, TypeOK
<1>4. \A j \in Calls \ {k} : task'[j].at \in {"update", "store", "answer"} => Alive(task[j].token)'
  <2> SUFFICES ASSUME NEW j \in Calls \ {k}, task'[j].at \in {"update", "store", "answer"}
               PROVE  Alive(task[j].token)'
    OBVIOUS
  <2>1. task'[j] = task[j] /\ task[j].token \in {Failed} \cup Tokens /\ Alive(task[j].token)
    BY <1>3 DEF Living, TypeInv, TypeOK
  <2> QED BY <1>1, <2>1 DEF Alive
<1>5. task'[k].token = t
  BY <1>3 DEF At
<1>6. Alive(task[k].token)'
  BY <1>5 DEF Alive
<1> QED BY <1>2, <1>4, <1>6

\* The steps of a refresh.
LEMMA RefreshLives ==
  ASSUME TypeInv, Living, NEW k \in Calls, Refresh(k)
  PROVE  Living'
<1>0. /\ task[k].token \in {Failed} \cup Tokens
      /\ task[k].at \in {"refresh", "create"} => task[k].src \in Sources
      /\ task[k].at \in {"update", "store"} => Alive(task[k].token)
      /\ Failed \in {Failed} \cup Tokens
  BY DEF TypeInv, TypeOK, SourcesKnown, Living
<1>1. CASE \E t \in Tokens, a \in {"update", "store"} :
             Answers(task[k].src, t) /\ task[k].src \in Sources
               /\ Do(k, At(a, task[k].src, t)) /\ UNCHANGED chan
  <2> PICK t \in Tokens, a \in {"update", "store"} :
             Answers(task[k].src, t) /\ task[k].src \in Sources
               /\ Do(k, At(a, task[k].src, t)) /\ UNCHANGED chan
    BY <1>1
  <2>1. /\ age'[t] \in {"fresh", "aging"}
        /\ \A u \in Tokens : age[u] # "none" => age'[u] = age[u]
        /\ \A r \in Sources : source'[r] # Failed => age'[source'[r]] # "none"
    BY SourceLives
  <2>2. Alive(t)'
    BY <2>1 DEF Alive
  <2>3. a \in TaskPlaces
    BY DEF TaskPlaces
  <2> QED BY <2>1, <2>2, <2>3, TaskLives DEF Living
<1>2. CASE \E s : \E a \in TaskPlaces, t \in {Failed, task[k].token} :
             /\ Do(k, At(a, s, t)) /\ UNCHANGED <<chan, source, age>>
             /\ t = Failed \/ task[k].at \in {"update", "store"}
  <2> PICK s : \E a \in TaskPlaces, t \in {Failed, task[k].token} :
             /\ Do(k, At(a, s, t)) /\ UNCHANGED <<chan, source, age>>
             /\ t = Failed \/ task[k].at \in {"update", "store"}
    BY <1>2
  <2> PICK a \in TaskPlaces, t \in {Failed, task[k].token} :
             /\ Do(k, At(a, s, t)) /\ UNCHANGED <<chan, source, age>>
             /\ t = Failed \/ task[k].at \in {"update", "store"}
    OBVIOUS
  <2>1. t \in {Failed} \cup Tokens /\ Alive(t)'
    BY <1>0 DEF Alive
  <2>2. \A u \in Tokens : age[u] # "none" => age'[u] = age[u]
    OBVIOUS
  <2>3. \A s0 \in Sources : source'[s0] # Failed => age'[source'[s0]] # "none"
    BY DEF Living
  <2> QED BY <2>1, <2>2, <2>3, TaskLives DEF Living
<1>3. CASE Answer(k)
  <2>1. \A j \in Calls : chan'[j] \in {chan[j], task[k].token}
    BY <1>3 DEF Answer, Respond, Responses
  <2>2. \A j \in Calls : task'[j] = task[j] \/ task'[j].at = "none"
    BY <1>3 DEF Answer, Do, NoTask, TypeInv, TypeOK
  <2>3. \A s \in Sources : source'[s] \in {source[s], Failed}
    BY <1>3 DEF Answer, Used
  <2>4. UNCHANGED age /\ task[k].at = "answer"
    BY <1>3 DEF Answer
  <2> QED BY <2>1, <2>2, <2>3, <2>4 DEF Living, Alive
<1> QED
  <2>1. CASE Process(k)
    BY <2>1, <1>2 DEF Process, TaskPlaces, calls, tokensCache
  <2>2. CASE RefreshToken(k)
    BY <2>2, <1>0, <1>1, <1>2 DEF RefreshToken, TaskPlaces, calls
  <2>3. CASE Update(k)
    BY <2>3, <1>2 DEF Update, TaskPlaces, calls
  <2>4. CASE Drop(k)
    BY <2>4, <1>2 DEF Drop, TaskPlaces, calls
  <2>5. CASE LoadCredentials(k)
    BY <2>5, <1>2 DEF LoadCredentials, TaskPlaces, calls
  <2>6. CASE CreateToken(k)
    BY <2>6, <1>0, <1>1, <1>2 DEF CreateToken, TaskPlaces, calls
  <2>7. CASE Store(k)
    BY <2>7, <1>2 DEF Store, TaskPlaces, calls
  <2>8. CASE Panics(k)
    BY <2>8, <1>2 DEF Panics, TaskPlaces, calls, tokensCache
  <2> QED BY <1>3, <2>1, <2>2, <2>3, <2>4, <2>5, <2>6, <2>7, <2>8 DEF Refresh

\* The other steps: a channel is emptied or told of a failure, and a token only
\* ages while nobody carries one.
LEMMA OtherLives ==
  ASSUME TypeInv, Living,
         \/ \E k \in Calls : Call(k) \/ Timeout(k)
         \/ Take \/ WorkerStop \/ Stopping \/ Age \/ AllReturned \/ UNCHANGED tokensVars
  PROVE  Living'
<1>1. CASE Age
  <2>1. \A k \in Calls : task[k].at \notin {"update", "store", "answer"} /\ chan[k] = None
    BY <1>1 DEF Age, Quiet
  <2>2. UNCHANGED <<task, chan, source>>
    BY <1>1 DEF Age, calls
  <2>3. \A u \in Tokens : age[u] # "none" => age'[u] # "none"
    BY <1>1 DEF Age, TypeInv, TypeOK
  <2>4. \A s \in Sources : source[s] \in {Failed} \cup Tokens
    BY DEF TypeInv, TypeOK
  <2> QED BY <2>1, <2>2, <2>3, <2>4 DEF Living, Alive
<1>2. CASE Take
  <2>1. \A k \in Calls : task'[k] = task[k] \/ task'[k].at = "begin"
    BY <1>2 DEF Take, Do, At, TypeInv, TypeOK
  <2> QED BY <1>2, <2>1 DEF Take, tokensCache, Living, Alive
<1>3. CASE ~Age /\ ~Take
  <2>1. UNCHANGED <<source, age, task>>
    BY <1>3 DEF Call, Begin, Register, Send, Receive, Timeout, SendTimeout, WaitTimeout, WorkerStop,
                Stopping, Close, FailAllWaiters, StopReturns, AllReturned, tokensVars, calls, tokensCache
  <2>2. \A k \in Calls : chan'[k] \in {chan[k], None, Failed}
    <3>1. CASE \E k \in Calls : SendTimeout(k) \/ WaitTimeout(k) \/ Receive(k)
      BY <3>1 DEF SendTimeout, WaitTimeout, Receive, Respond, Responses, TypeInv, TypeOK
    <3>2. CASE FailAllWaiters
      BY <3>2 DEF FailAllWaiters, Respond, Responses
    <3>3. CASE ~FailAllWaiters /\ ~\E k \in Calls : SendTimeout(k) \/ WaitTimeout(k) \/ Receive(k)
      BY <1>3, <3>3 DEF Call, Begin, Register, Send, Timeout, WorkerStop, Stopping, Close, StopReturns,
                        AllReturned, tokensVars, calls
    <3> QED BY <3>1, <3>2, <3>3
  <2> QED BY <2>1, <2>2 DEF Living, Alive
<1> QED BY <1>1, <1>2, <1>3

\* No answer carries a token that has expired, whichever refresh it came from and
\* whoever else failed or timed out meanwhile (refreshToken, createNewToken,
\* notifyWaiters).
THEOREM AnswersLive == TokensSpec => []AnswersAreValid
<1>1. TokensInit => Living
  BY DEF TokensInit, Living, Alive, NoTask
<1>2. TypeInv /\ Living /\ [TokensNext]_tokensVars => Living'
  BY RefreshLives, OtherLives DEF TokensNext
<1>3. Living => AnswersAreValid
  BY DEF Living, Alive, AnswersAreValid
<1> QED BY <1>1, <1>2, <1>3, TokensTyped, PTL DEF TokensSpec
=============================================================================
