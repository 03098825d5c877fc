------------------------- MODULE RateLimiterProofs -------------------------
(***************************************************************************)
(* Proofs about RateLimiter, for any number of callers and models, any     *)
(* limits and any window; and, at the end, about IntervalLimiter.          *)
(***************************************************************************)
EXTENDS RateLimiter, IntervalLimiter, FiniteSetTheorems, FunctionTheorems, TLAPS

-----------------------------------------------------------------------------
(* Totals.                                                                 *)

\* What a function holds, entry by entry.
LEMMA EntriesAre ==
  ASSUME NEW S, NEW f \in [S -> Nat], NEW e
  PROVE  e \in Entries(f) <=> \E x \in S : \E i \in 1 .. f[x] : e = <<x, i>>
BY DEF Entries

\* n numbers after a under one name.
Column(x, a, n) == {x} \X (a + 1 .. a + n)

LEMMA ColumnTotal ==
  ASSUME NEW x, NEW a \in Int, NEW n \in Nat
  PROVE  IsFiniteSet(Column(x, a, n)) /\ Cardinality(Column(x, a, n)) = n
<1>1. /\ IsFiniteSet(a + 1 .. a + n)
      /\ Cardinality(a + 1 .. a + n) = n
  <2>1. a + 1 \in Int /\ a + n \in Int
    OBVIOUS
  <2>2. /\ IsFiniteSet(a + 1 .. a + n)
        /\ Cardinality(a + 1 .. a + n) = IF a + 1 > a + n THEN 0 ELSE a + n - (a + 1) + 1
    BY <2>1, FS_Interval
  <2> QED BY <2>2
<1>2. IsFiniteSet({x}) /\ Cardinality({x}) = 1
  BY FS_Singleton
<1> DEFINE T == a + 1 .. a + n
<1> HIDE DEF T
<1>3. IsFiniteSet({x} \X T) /\ Cardinality({x} \X T) = 1 * n
  <2>1. IsFiniteSet(T) /\ Cardinality(T) = n
    BY <1>1 DEF T
  <2> QED BY <1>2, <2>1, FS_Product
<1>4. 1 * n = n
  OBVIOUS
<1> QED BY <1>3, <1>4 DEF T, Column

\* The total of a window is a number.
LEMMA TotalType ==
  ASSUME NEW f, IsFiniteSet(Entries(f))
  PROVE  Total(f) \in Nat
BY FS_CardinalityType DEF Total

LEMMA EmptyTotal ==
  ASSUME NEW S
  PROVE  IsFiniteSet(Entries([x \in S |-> 0])) /\ Total([x \in S |-> 0]) = 0
<1>1. Entries([x \in S |-> 0]) = {}
  BY DEF Entries
<1> QED BY <1>1, FS_EmptySet DEF Total

\* n more under one name are n more in all.
LEMMA AddedTotal ==
  ASSUME NEW S, NEW f \in [S -> Nat], NEW x \in S, NEW n \in Nat, IsFiniteSet(Entries(f))
  PROVE  LET g == [f EXCEPT ![x] = @ + n] IN
         /\ IsFiniteSet(Entries(g))
         /\ Total(g) = Total(f) + n
<1> DEFINE g == [f EXCEPT ![x] = @ + n]
           added == Column(x, f[x], n)
<1>1. /\ g \in [S -> Nat]
      /\ g[x] = f[x] + n
      /\ f[x] \in Nat
      /\ \A y \in S \ {x} : g[y] = f[y]
  OBVIOUS
<1>2. IsFiniteSet(added) /\ Cardinality(added) = n
  <2>1. f[x] \in Int
    BY <1>1
  <2> QED BY <2>1, ColumnTotal
<1>3. Entries(f) \cap added = {}
  <2> SUFFICES ASSUME NEW e \in Entries(f), e \in added
               PROVE  FALSE
    OBVIOUS
  <2>1. PICK y \in S, i \in Int : i \in 1 .. f[y] /\ e = <<y, i>>
    BY EntriesAre
  <2>2. y = x /\ i \in f[x] + 1 .. f[x] + n
    BY <2>1 DEF Column
  <2> QED BY <1>1, <2>1, <2>2
<1>4. Entries(g) = Entries(f) \cup added
  <2>1. ASSUME NEW e \in Entries(g)
        PROVE  e \in Entries(f) \cup added
    <3>1. PICK y \in S, i \in Int : i \in 1 .. g[y] /\ e = <<y, i>>
      <4> HIDE DEF g
      <4> QED BY <1>1, EntriesAre
    <3>2. CASE y = x /\ i > f[x]
      <4>1. i \in f[x] + 1 .. f[x] + n
        BY <1>1, <3>1, <3>2
      <4> QED BY <3>1, <3>2, <4>1 DEF Column
    <3>3. CASE ~(y = x /\ i > f[x])
      <4>1. i \in 1 .. f[y]
        BY <1>1, <3>1, <3>3
      <4> QED BY <3>1, <4>1, EntriesAre
    <3> QED BY <3>2, <3>3
  <2>2. ASSUME NEW e \in Entries(f)
        PROVE  e \in Entries(g)
    <3>1. PICK y \in S, i \in Int : i \in 1 .. f[y] /\ e = <<y, i>>
      BY EntriesAre
    <3>2. f[y] \in Nat /\ g[y] \in Nat /\ f[y] <= g[y]
      BY <1>1
    <3>3. i \in 1 .. g[y]
      BY <3>1, <3>2
    <3> HIDE DEF g
    <3> QED BY <1>1, <3>1, <3>3, EntriesAre
  <2>3. ASSUME NEW e \in added
        PROVE  e \in Entries(g)
    <3>1. PICK i \in f[x] + 1 .. f[x] + n : e = <<x, i>>
      BY DEF Column
    <3>2. i \in 1 .. g[x]
      BY <1>1, <3>1
    <3> HIDE DEF g
    <3> QED BY <1>1, <3>1, <3>2, EntriesAre
  <2> QED BY <2>1, <2>2, <2>3
<1>5. /\ IsFiniteSet(Entries(f) \cup added)
      /\ Cardinality(Entries(f) \cup added) = Cardinality(Entries(f)) + n - 0
  <2> HIDE DEF g, added
  <2> QED BY <1>2, <1>3, FS_Union, FS_EmptySet
<1>6. Cardinality(Entries(f)) \in Nat
  BY FS_CardinalityType
<1> HIDE DEF g, added
<1>7. IsFiniteSet(Entries(g)) /\ Total(g) = Total(f) + n
  BY <1>4, <1>5, <1>6 DEF Total
<1> QED BY <1>7 DEF g

\* A window is finite.
LEMMA WindowFinite ==
  ASSUME NEW f \in [Ages -> Nat]
  PROVE  IsFiniteSet(Entries(f)) /\ Total(f) \in Nat
<1> DEFINE C == {{a} \X (1 .. f[a]) : a \in Ages}
           col == [a \in Ages |-> {a} \X (1 .. f[a])]
<1>1. IsFiniteSet(Ages)
  <2>1. 0 \in Int /\ Window - 1 \in Int
    BY WindowAssumption
  <2> QED BY <2>1, FS_Interval DEF Ages
<1>2. IsFiniteSet(C)
  <2>1. col \in [Ages -> C]
    OBVIOUS
  <2>2. \A t \in C : \E a \in Ages : col[a] = t
    OBVIOUS
  <2>3. col \in Surjection(Ages, C)
    <3> HIDE DEF col, C
    <3> QED BY <2>1, <2>2, Fun_IsSurj
  <2> HIDE DEF col, C
  <2> QED BY <1>1, <2>3, FS_Surjection
<1>3. \A t \in C : IsFiniteSet(t)
  <2> SUFFICES ASSUME NEW a \in Ages
               PROVE  IsFiniteSet({a} \X (1 .. f[a]))
    OBVIOUS
  <2>1. f[a] \in Nat
    OBVIOUS
  <2>2. 1 \in Int /\ f[a] \in Int
    BY <2>1
  <2>3. IsFiniteSet(1 .. f[a])
    BY <2>2, FS_Interval
  <2>4. IsFiniteSet({a})
    BY FS_Singleton
  <2> QED BY <2>3, <2>4, FS_Product
<1>4. Entries(f) = UNION C
  BY DEF Entries
<1>5. IsFiniteSet(Entries(f))
  <2> HIDE DEF C
  <2> QED BY <1>2, <1>3, <1>4, FS_UNION
<1> QED BY <1>5, TotalType

\* What is counted at the moment is one more in the window.
LEMMA PlusTotal ==
  ASSUME NEW f \in [Ages -> Nat], NEW n \in Nat
  PROVE  /\ Plus(f, n) \in [Ages -> Nat]
         /\ Total(Plus(f, n)) = Total(f) + n
         /\ Plus(f, n)[0] = f[0] + n
         /\ \A a \in Ages \ {0} : Plus(f, n)[a] = f[a]
<1>1. 0 \in Ages
  BY WindowAssumption DEF Ages
<1>2. Total(Plus(f, n)) = Total(f) + n
  <2>1. IsFiniteSet(Entries(f))
    BY WindowFinite
  <2>2. Total([f EXCEPT ![0] = @ + n]) = Total(f) + n
    BY <1>1, <2>1, AddedTotal
  <2> QED BY <2>2 DEF Plus
<1> QED BY <1>1, <1>2 DEF Plus

\* What leaves the window is gone, and nothing else changes.
LEMMA ShiftTotal ==
  ASSUME NEW f \in [Ages -> Nat]
  PROVE  /\ Shift(f) \in [Ages -> Nat]
         /\ Total(Shift(f)) <= Total(f)
<1>1. /\ Shift(f) \in [Ages -> Nat]
      /\ \A a \in Ages : a # 0 => a - 1 \in Ages /\ Shift(f)[a] = f[a - 1]
      /\ \A a \in Ages : a = 0 => Shift(f)[a] = 0
  BY WindowAssumption DEF Ages, Shift
<1> DEFINE younger == [e \in Entries(Shift(f)) |-> <<e[1] - 1, e[2]>>]
<1>2. ASSUME NEW e \in Entries(Shift(f))
      PROVE  /\ e = <<e[1], e[2]>> /\ e[1] \in Int
             /\ <<e[1] - 1, e[2]>> \in Entries(f)
  <2>1. PICK a \in Ages, i \in Int : i \in 1 .. Shift(f)[a] /\ e = <<a, i>>
    BY <1>1, EntriesAre
  <2>2. a # 0
    BY <1>1, <2>1
  <2>3. a - 1 \in Ages /\ i \in 1 .. f[a - 1]
    BY <1>1, <2>1, <2>2
  <2>4. <<a - 1, i>> \in Entries(f)
    BY <2>3, EntriesAre
  <2>5. a \in Int
    BY DEF Ages
  <2> QED BY <2>1, <2>4, <2>5
<1>3. younger \in [Entries(Shift(f)) -> Entries(f)]
  BY <1>2
<1>4. ASSUME NEW d \in Entries(Shift(f)), NEW e \in Entries(Shift(f)), younger[d] = younger[e]
      PROVE  d = e
  <2>1. d[1] - 1 = e[1] - 1 /\ d[2] = e[2]
    BY <1>4
  <2>2. d[1] = e[1] /\ d[2] = e[2]
    <3>1. d[1] \in Int /\ e[1] \in Int
      BY <1>2
    <3> HIDE DEF younger
    <3> QED BY <2>1, <3>1
  <2>3. d = <<d[1], d[2]>> /\ e = <<e[1], e[2]>>
    BY <1>2
  <2> HIDE DEF younger
  <2> QED BY <2>2, <2>3, Zenon
<1>5. younger \in Injection(Entries(Shift(f)), Entries(f))
  <2> HIDE DEF younger
  <2> QED BY <1>3, <1>4, Fun_IsInj
<1>6. Cardinality(Entries(Shift(f))) <= Cardinality(Entries(f))
  <2> HIDE DEF younger
  <2> QED BY <1>5, WindowFinite, FS_Injection
<1> QED BY <1>1, <1>6 DEF Total

LEMMA EmptyWindow == Empty \in [Ages -> Nat] /\ Total(Empty) = 0
BY EmptyTotal DEF Empty

-----------------------------------------------------------------------------
(* Types.                                                                  *)

\* A model that is asked is one with limits, and its counter one of a model.
Asked ==
  \A w \in Callers :
    /\ job[w].asks => job[w].model \in Models
    /\ pc[w] \in {"cred", "model"} /\ job[w].asks => job[w].counter \in ModelCounters

Removals == \A m \in removing : gen[m] < Reloads

Types == TypeOK /\ Asked /\ Removals

LEMMA Names ==
  /\ CredCounter \in Counters /\ CredCounter \notin ModelCounters
  /\ ModelCounters \subseteq Counters
  /\ 0 \in Ages
  /\ Amounts \subseteq Nat
  /\ \A k \in Counters : Rpm[k[1]] \in Nat \cup {-1} /\ Tpm[k[1]] \in Nat \cup {-1}
<1>1. CredCounter \notin ModelCounters
  BY NamesAssumption DEF CredCounter, ModelCounters
<1>2. 0 \in Ages /\ Amounts \subseteq Nat
  BY WindowAssumption, AmountAssumption DEF Ages, Amounts
<1>3. \A k \in Counters : k[1] \in {Cred} \cup Models
  BY DEF Counters, CredCounter, ModelCounters
<1> QED BY <1>1, <1>2, <1>3, LimitsAssumption DEF Counters

\* A request is counted once in each counter of K and in no other.
LEMMA Recorded ==
  ASSUME TypeOK, NEW K, Record(K)
  PROVE  /\ req' \in [Counters -> [Ages -> Nat]]
         /\ \A k \in Counters : IF k \in K THEN req'[k] = Plus(req[k], 1) ELSE req'[k] = req[k]
         /\ \A k \in Counters \cap K : Total(req'[k]) = Total(req[k]) + 1
<1>1. \A k \in Counters : IF k \in K THEN req'[k] = Plus(req[k], 1) ELSE req'[k] = req[k]
  BY DEF Record
<1>2. ASSUME NEW k \in Counters
      PROVE  Plus(req[k], 1) \in [Ages -> Nat] /\ Total(Plus(req[k], 1)) = Total(req[k]) + 1
  <2>1. req[k] \in [Ages -> Nat]
    BY DEF TypeOK
  <2> QED BY <2>1, PlusTotal
<1> QED BY <1>1, <1>2 DEF Record, TypeOK

\* Tokens are added to one counter.
LEMMA Consumed ==
  ASSUME TypeOK, NEW c \in Counters, NEW n \in Amounts, tok' = [tok EXCEPT ![c] = Plus(@, n)]
  PROVE  /\ tok' \in [Counters -> [Ages -> Nat]]
         /\ Total(tok'[c]) = Total(tok[c]) + n
         /\ \A k \in Counters \ {c} : tok'[k] = tok[k]
<1>1. tok[c] \in [Ages -> Nat] /\ n \in Nat
  BY Names DEF TypeOK
<1>2. Plus(tok[c], n) \in [Ages -> Nat] /\ Total(Plus(tok[c], n)) = Total(tok[c]) + n
  BY <1>1, PlusTotal
<1> QED BY <1>2 DEF TypeOK

\* Time takes requests and tokens away.
LEMMA Ticked ==
  ASSUME TypeOK, Tick
  PROVE  /\ req' \in [Counters -> [Ages -> Nat]] /\ tok' \in [Counters -> [Ages -> Nat]]
         /\ \A k \in Counters : req'[k] = Shift(req[k]) /\ tok'[k] = Shift(tok[k])
         /\ \A k \in Counters : Total(req'[k]) <= Total(req[k]) /\ Total(tok'[k]) <= Total(tok[k])
<1>1. ASSUME NEW k \in Counters
      PROVE  /\ Shift(req[k]) \in [Ages -> Nat] /\ Shift(tok[k]) \in [Ages -> Nat]
             /\ Total(Shift(req[k])) <= Total(req[k]) /\ Total(Shift(tok[k])) <= Total(tok[k])
  <2>1. req[k] \in [Ages -> Nat] /\ tok[k] \in [Ages -> Nat]
    BY DEF TypeOK
  <2> QED BY <2>1, ShiftTotal
<1> QED BY <1>1 DEF Tick

LEMMA CounterOfModel ==
  ASSUME TypeOK, NEW m \in Models
  PROVE  CounterOf(m) \in ModelCounters
BY DEF CounterOf, ModelCounters, TypeOK

LEMMA InitTypes == Init => Types
<1> SUFFICES ASSUME Init PROVE Types
  OBVIOUS
<1>1. NoJob \in [model : Models \cup {NoModel}, asks : BOOLEAN, counter : Counters] /\ ~NoJob.asks
  BY Names DEF NoJob
<1> QED BY <1>1, EmptyWindow, AmountAssumption DEF Init, Types, TypeOK, Asked, Removals

\* TryAllowAll keeps the types.
LEMMA DecideTypes == ASSUME Types, NEW w \in Callers, TryAllowAll(w) PROVE Types'
<1> USE DEF Types, Asked, Removals, Goto
<1>1. ASSUME NEW m \in Models \cup {NoModel}, Begin(w, m) PROVE Types'
  <2>1. [model |-> m, asks |-> m \in limited, counter |-> CredCounter]
          \in [model : Models \cup {NoModel}, asks : BOOLEAN, counter : Counters]
    BY Names
  <2>2. TypeOK'
    BY <1>1, <2>1 DEF Begin, TypeOK
  <2>3. Asked'
    BY <1>1 DEF Begin, TypeOK
  <2> QED BY <1>1, <2>2, <2>3 DEF Begin
<1>2. CASE Lookup(w)
  <2>1. job[w].asks => CounterOf(job[w].model) \in ModelCounters
    BY CounterOfModel
  <2>2. TypeOK'
    BY <1>2, <2>1, Names DEF Lookup, TypeOK
  <2>3. Asked'
    BY <1>2, <2>1 DEF Lookup, TypeOK
  <2> QED BY <1>2, <2>2, <2>3 DEF Lookup
<1>3. CASE CheckCred(w)
  <2>1. req' \in [Counters -> [Ages -> Nat]]
    BY <1>3, Recorded DEF CheckCred, TypeOK
  <2> QED BY <1>3, <2>1 DEF CheckCred, TypeOK
<1>4. CASE CheckModel(w)
  <2>1. req' \in [Counters -> [Ages -> Nat]]
    BY <1>4, Recorded DEF CheckModel, TypeOK
  <2> QED BY <1>4, <2>1 DEF CheckModel, TypeOK
<1> QED BY <1>1, <1>2, <1>3, <1>4 DEF TryAllowAll

\* So does the rest of the limiter.
LEMMA OtherTypes ==
  ASSUME Types, \/ \E w \in Callers : Serve(w)
                \/ Reload
                \/ Tick
                \/ UNCHANGED vars
  PROVE  Types'
<1> USE DEF Types, Asked, Removals, Goto
<1>1. ASSUME NEW w \in Callers, NEW n \in Amounts, ConsumeTokens(w, n) PROVE Types'
  <2>1. tok' \in [Counters -> [Ages -> Nat]]
    BY <1>1, Names, Consumed DEF ConsumeTokens
  <2> QED BY <1>1, <2>1 DEF ConsumeTokens, TypeOK
<1>2. ASSUME NEW w \in Callers, NEW n \in Amounts, ConsumeModelTokens(w, n) PROVE Types'
  <2>1. tok' \in [Counters -> [Ages -> Nat]]
    <3>1. CASE job[w].model \in limited
      <4>1. CounterOf(job[w].model) \in Counters
        BY <3>1, CounterOfModel, Names DEF TypeOK
      <4> QED BY <1>2, <3>1, <4>1, Consumed DEF ConsumeModelTokens
    <3>2. CASE job[w].model \notin limited
      BY <1>2, <3>2 DEF ConsumeModelTokens, TypeOK
    <3> QED BY <3>1, <3>2
  <2> QED BY <1>2, <2>1 DEF ConsumeModelTokens, TypeOK
<1>3. ASSUME NEW w \in Callers, RequestFails(w) PROVE Types'
  BY <1>3 DEF RequestFails, TypeOK
<1>4. ASSUME NEW m \in Models, RemoveLimits(m) PROVE Types'
  BY <1>4 DEF RemoveLimits, TypeOK
<1>5. ASSUME NEW m \in Models, DeleteCounter(m) PROVE Types'
  <2>1. gen[m] \in 0 .. Reloads /\ gen[m] < Reloads
    BY <1>5 DEF DeleteCounter, TypeOK
  <2>2. gen[m] + 1 \in 0 .. Reloads
    BY <2>1, AmountAssumption
  <2> QED BY <1>5, <2>2 DEF DeleteCounter, TypeOK
<1>6. ASSUME NEW m \in Models, AddModel(m) PROVE Types'
  BY <1>6 DEF AddModel, TypeOK
<1>7. CASE Tick
  BY <1>7, Ticked DEF Tick, TypeOK
<1>8. CASE UNCHANGED vars
  BY <1>8 DEF vars, TypeOK
<1> QED BY <1>1, <1>2, <1>3, <1>4, <1>5, <1>6, <1>7, <1>8 DEF Serve, Reload

LEMMA TypesStep == Types /\ [Next]_vars => Types'
BY DecideTypes, OtherTypes DEF Next

-----------------------------------------------------------------------------
(* Requests within the limits.                                             *)

\* Whoever asks the model's counter holds the credential's, which still has room.
Locked ==
  \A w \in Callers :
    pc[w] = "model" => credLock = w /\ job[w].asks /\ HasRoom(CredCounter)

LEMMA LockedStep == ASSUME Types, Locked, [Next]_vars PROVE Locked'
<1> USE DEF Types, Goto
<1>0. Free \notin Callers
  BY CallersAssumption
<1>1. ASSUME UNCHANGED <<req, tok, credLock, job>>,
             \A w \in Callers : pc'[w] = "model" => pc[w] = "model"
      PROVE  Locked'
  BY <1>1 DEF Locked, HasRoom, RpmFree, TpmFree
<1>2. ASSUME NEW w \in Callers, NEW m \in Models \cup {NoModel}, Begin(w, m) PROVE Locked'
  BY <1>2 DEF Begin, Locked, TypeOK, HasRoom, RpmFree, TpmFree
<1>3. ASSUME NEW w \in Callers, Lookup(w) PROVE Locked'
  BY <1>3 DEF Lookup, Locked, TypeOK, HasRoom, RpmFree, TpmFree
<1>4. ASSUME NEW w \in Callers, CheckCred(w) PROVE Locked'
  <2>1. \A u \in Callers : pc[u] # "model"
    BY <1>0, <1>4 DEF CheckCred, Locked
  <2>2. CASE ~HasRoom(CredCounter) \/ ~job[w].asks
    <3>1. \A u \in Callers : pc'[u] # "model"
      BY <1>4, <2>1, <2>2 DEF CheckCred, TypeOK
    <3> QED BY <3>1 DEF Locked
  <2>3. CASE HasRoom(CredCounter) /\ job[w].asks
    <3>1. /\ credLock' = w /\ UNCHANGED <<req, tok, job>>
          /\ \A u \in Callers : pc'[u] = "model" => u = w
      BY <1>4, <2>1, <2>3 DEF CheckCred, TypeOK
    <3>2. HasRoom(CredCounter)'
      BY <2>3, <3>1 DEF HasRoom, RpmFree, TpmFree
    <3> QED BY <2>3, <3>1, <3>2 DEF Locked
  <2> QED BY <2>2, <2>3
<1>5. ASSUME NEW w \in Callers, CheckModel(w) PROVE Locked'
  <2>1. \A u \in Callers : pc'[u] # "model"
    BY <1>5 DEF CheckModel, Locked, TypeOK
  <2> QED BY <2>1 DEF Locked
<1>6. ASSUME NEW w \in Callers, NEW n \in Amounts, ConsumeTokens(w, n) PROVE Locked'
  <2>1. \A u \in Callers : pc'[u] # "model"
    BY <1>0, <1>6 DEF ConsumeTokens, Locked, TypeOK
  <2> QED BY <2>1 DEF Locked
<1>7. ASSUME NEW w \in Callers, NEW n \in Amounts, ConsumeModelTokens(w, n) PROVE Locked'
  <2>1. tok'[CredCounter] = tok[CredCounter]
    <3>1. CASE job[w].model \in limited
      <4>1. CounterOf(job[w].model) \in Counters \ {CredCounter}
        BY <3>1, CounterOfModel, Names DEF TypeOK
      <4> QED BY <1>7, <3>1, <4>1, Consumed, Names DEF ConsumeModelTokens
    <3>2. CASE job[w].model \notin limited
      BY <1>7, <3>2 DEF ConsumeModelTokens
    <3> QED BY <3>1, <3>2
  <2>2. HasRoom(CredCounter) => HasRoom(CredCounter)'
    BY <1>7, <2>1 DEF ConsumeModelTokens, HasRoom, RpmFree, TpmFree
  <2> QED BY <1>7, <2>2 DEF ConsumeModelTokens, Locked, TypeOK
<1>8. ASSUME NEW w \in Callers, RequestFails(w) PROVE Locked'
  BY <1>1, <1>8 DEF RequestFails, TypeOK
<1>9. CASE Reload
  BY <1>1, <1>9 DEF Reload, RemoveLimits, DeleteCounter, AddModel
<1>10. CASE Tick
  <2>1. /\ Total(req'[CredCounter]) <= Total(req[CredCounter])
        /\ Total(tok'[CredCounter]) <= Total(tok[CredCounter])
        /\ Total(req[CredCounter]) \in Nat /\ Total(req'[CredCounter]) \in Nat
        /\ Total(tok[CredCounter]) \in Nat /\ Total(tok'[CredCounter]) \in Nat
    <3>1. /\ req[CredCounter] \in [Ages -> Nat] /\ req'[CredCounter] \in [Ages -> Nat]
          /\ tok[CredCounter] \in [Ages -> Nat] /\ tok'[CredCounter] \in [Ages -> Nat]
      BY <1>10, Names, Ticked DEF TypeOK
    <3> QED BY <1>10, <3>1, Names, Ticked, WindowFinite
  <2>2. HasRoom(CredCounter) => HasRoom(CredCounter)'
    BY <2>1, Names DEF HasRoom, RpmFree, TpmFree
  <2> QED BY <1>10, <2>2 DEF Tick, Locked
<1>11. CASE UNCHANGED vars
  BY <1>1, <1>11 DEF vars
<1> QED BY <1>2, <1>3, <1>4, <1>5, <1>6, <1>7, <1>8, <1>9, <1>10, <1>11
        DEF Next, TryAllowAll, Serve

\* Requests are only recorded where the credential's counter has room, by whom
\* it is locked, and in a model's counter only where that has room too.
LEMMA RecordedWithRoom ==
  ASSUME Types, Locked, [Next]_vars
  PROVE  \/ UNCHANGED req
         \/ Record({CredCounter}) /\ HasRoom(CredCounter)
         \/ \E c \in ModelCounters :
              Record({CredCounter, c}) /\ HasRoom(CredCounter) /\ HasRoom(c)
         \/ Tick
<1>1. ASSUME NEW w \in Callers, CheckModel(w), HasRoom(job[w].counter)
      PROVE  \E c \in ModelCounters :
               Record({CredCounter, c}) /\ HasRoom(CredCounter) /\ HasRoom(c)
  <2>1. job[w].counter \in ModelCounters /\ HasRoom(CredCounter)
    BY <1>1 DEF CheckModel, Locked, Types, Asked
  <2>2. Record({CredCounter, job[w].counter})
    BY <1>1 DEF CheckModel
  <2> QED BY <1>1, <2>1, <2>2
<1>2. ASSUME NEW w \in Callers, TryAllowAll(w)
      PROVE  \/ UNCHANGED req
             \/ Record({CredCounter}) /\ HasRoom(CredCounter)
             \/ CheckModel(w) /\ HasRoom(job[w].counter)
  BY <1>2 DEF TryAllowAll, Begin, Lookup, CheckCred, CheckModel
<1>3. ASSUME NEW w \in Callers, Serve(w) PROVE UNCHANGED req
  BY <1>3 DEF Serve, ConsumeTokens, ConsumeModelTokens, RequestFails
<1>4. Reload \/ UNCHANGED vars => UNCHANGED req
  BY DEF Reload, RemoveLimits, DeleteCounter, AddModel, vars
<1> QED BY <1>1, <1>2, <1>3, <1>4 DEF Next

LEMMA WindowsStep ==
  ASSUME Types, Locked, WindowsWithinLimits, [Next]_vars
  PROVE  WindowsWithinLimits'
<1> SUFFICES ASSUME NEW k \in Counters, Rpm[k[1]] # -1
             PROVE  Total(req'[k]) <= Rpm[k[1]]
  BY DEF WindowsWithinLimits
<1>1. /\ Total(req[k]) <= Rpm[k[1]]
      /\ Rpm[k[1]] \in Nat
      /\ Total(req[k]) \in Nat
  <2>1. req[k] \in [Ages -> Nat]
    BY DEF Types, TypeOK
  <2> QED BY <2>1, WindowFinite, Names DEF WindowsWithinLimits
<1>2. ASSUME NEW K, Record(K), k \in K => HasRoom(k)
      PROVE  Total(req'[k]) <= Rpm[k[1]]
  <2>1. CASE k \in K
    <3>1. Total(req[k]) < Rpm[k[1]]
      BY <1>2, <2>1 DEF HasRoom, RpmFree
    <3>2. Total(req'[k]) = Total(req[k]) + 1
      BY <1>2, <2>1, Recorded DEF Types
    <3> QED BY <1>1, <3>1, <3>2
  <2>2. CASE k \notin K
    BY <1>1, <1>2, <2>2, Recorded DEF Types
  <2> QED BY <2>1, <2>2
<1>3. CASE Tick
  <2>1. req'[k] \in [Ages -> Nat] /\ Total(req'[k]) <= Total(req[k])
    BY <1>3, Ticked DEF Types
  <2>2. Total(req'[k]) \in Nat
    BY <2>1, WindowFinite
  <2> QED BY <1>1, <2>1, <2>2
<1>4. CASE Record({CredCounter}) /\ HasRoom(CredCounter)
  BY <1>2, <1>4
<1>5. ASSUME NEW c \in ModelCounters,
             Record({CredCounter, c}), HasRoom(CredCounter), HasRoom(c)
      PROVE  Total(req'[k]) <= Rpm[k[1]]
  BY <1>2, <1>5
<1> QED BY <1>1, <1>3, <1>4, <1>5, RecordedWithRoom

-----------------------------------------------------------------------------
(* The credential counts the models' requests.                             *)

OfModels(a) == [k \in ModelCounters |-> req[k][a]]

\* CredentialCountsModels, and at each age only finitely many requests.
ModelsCounted ==
  \A a \in Ages : IsFiniteSet(Entries(OfModels(a))) /\ Total(OfModels(a)) <= req[CredCounter][a]

LEMMA InitCounted == ASSUME Init PROVE ModelsCounted
<1> SUFFICES ASSUME NEW a \in Ages
             PROVE  IsFiniteSet(Entries(OfModels(a))) /\ Total(OfModels(a)) <= req[CredCounter][a]
  BY DEF ModelsCounted
<1>1. OfModels(a) = [k \in ModelCounters |-> 0] /\ req[CredCounter][a] = 0
  BY Names DEF Init, OfModels, Empty
<1> QED BY <1>1, EmptyTotal

LEMMA CountedStep ==
  ASSUME Types, Locked, ModelsCounted, [Next]_vars
  PROVE  ModelsCounted'
<1> SUFFICES ASSUME NEW a \in Ages
             PROVE  /\ IsFiniteSet(Entries([k \in ModelCounters |-> req'[k][a]]))
                    /\ Total([k \in ModelCounters |-> req'[k][a]]) <= req'[CredCounter][a]
  BY DEF ModelsCounted, OfModels
<1> DEFINE f == [k \in ModelCounters |-> req[k][a]]
           g == [k \in ModelCounters |-> req'[k][a]]
<1>1. \A b \in Ages : /\ OfModels(b) \in [ModelCounters -> Nat]
                      /\ IsFiniteSet(Entries(OfModels(b)))
                      /\ Total(OfModels(b)) \in Nat
                      /\ Total(OfModels(b)) <= req[CredCounter][b]
                      /\ req[CredCounter][b] \in Nat
  BY Names, TotalType DEF ModelsCounted, OfModels, Types, TypeOK
<1>2. f = OfModels(a)
  BY DEF OfModels
<1>3. CASE UNCHANGED req
  <2>1. g = f
    BY <1>3
  <2> HIDE DEF f, g
  <2>2. IsFiniteSet(Entries(g)) /\ Total(g) <= req'[CredCounter][a]
    BY <1>1, <1>2, <1>3, <2>1
  <2> QED BY <2>2 DEF g
<1>4. CASE Record({CredCounter})
  <2>1. g = f
    BY <1>4, Names, Recorded DEF Types
  <2>2. req'[CredCounter][a] \in Nat /\ req'[CredCounter][a] >= req[CredCounter][a]
    <3>1. req'[CredCounter] = Plus(req[CredCounter], 1) /\ req[CredCounter] \in [Ages -> Nat]
      BY <1>4, Names, Recorded DEF Types, TypeOK
    <3>2. CASE a = 0
      BY <3>1, <3>2, PlusTotal
    <3>3. CASE a # 0
      BY <3>1, <3>3, PlusTotal
    <3> QED BY <3>2, <3>3
  <2> HIDE DEF f, g
  <2>3. IsFiniteSet(Entries(g)) /\ Total(g) <= req'[CredCounter][a]
    BY <1>1, <1>2, <2>1, <2>2
  <2> QED BY <2>3 DEF g
<1>5. ASSUME NEW c \in ModelCounters, Record({CredCounter, c})
      PROVE  IsFiniteSet(Entries(g)) /\ Total(g) <= req'[CredCounter][a]
  <2>1. /\ req'[CredCounter] = Plus(req[CredCounter], 1) /\ req[CredCounter] \in [Ages -> Nat]
        /\ req'[c] = Plus(req[c], 1) /\ req[c] \in [Ages -> Nat]
        /\ \A k \in ModelCounters \ {c} : req'[k] = req[k]
    BY <1>5, Names, Recorded DEF Types, TypeOK
  <2>2. CASE a = 0
    <3>1. req'[CredCounter][a] = req[CredCounter][a] + 1 /\ req'[c][a] = req[c][a] + 1
      <4>1. req'[CredCounter][a] = req[CredCounter][a] + 1
        BY <2>1, <2>2, PlusTotal
      <4>2. req'[c][a] = req[c][a] + 1
        BY <2>1, <2>2, PlusTotal
      <4> QED BY <4>1, <4>2
    <3>2. g = [f EXCEPT ![c] = @ + 1]
      BY <2>1, <3>1
    <3> HIDE DEF f, g
    <3>3. IsFiniteSet(Entries(g)) /\ Total(g) = Total(f) + 1
      <4>1. f \in [ModelCounters -> Nat] /\ IsFiniteSet(Entries(f))
        BY <1>1, <1>2
      <4>2. /\ IsFiniteSet(Entries([f EXCEPT ![c] = @ + 1]))
            /\ Total([f EXCEPT ![c] = @ + 1]) = Total(f) + 1
        <5>1. 1 \in Nat
          OBVIOUS
        <5> QED BY <4>1, <5>1, AddedTotal
      <4> QED BY <3>2, <4>2
    <3> QED BY <1>1, <1>2, <3>1, <3>3
  <2>3. CASE a # 0
    <3>1. req'[CredCounter][a] = req[CredCounter][a] /\ req'[c][a] = req[c][a]
      <4>1. req'[CredCounter][a] = req[CredCounter][a]
        BY <2>1, <2>3, PlusTotal
      <4>2. req'[c][a] = req[c][a]
        BY <2>1, <2>3, PlusTotal
      <4> QED BY <4>1, <4>2
    <3>2. g = f
      BY <2>1, <3>1
    <3> HIDE DEF f, g
    <3> QED BY <1>1, <1>2, <3>1, <3>2
  <2> QED BY <2>2, <2>3
<1>6. CASE Tick
  <2>1. \A k \in Counters : req'[k] = Shift(req[k])
    BY <1>6, Ticked DEF Types
  <2>2. CASE a = 0
    <3>1. g = [k \in ModelCounters |-> 0] /\ req'[CredCounter][a] = 0
      BY <2>1, <2>2, Names DEF Shift
    <3> HIDE DEF f, g
    <3>2. IsFiniteSet(Entries(g)) /\ Total(g) <= req'[CredCounter][a]
      BY <3>1, EmptyTotal
    <3> QED BY <3>2 DEF g
  <2>3. CASE a # 0
    <3>1. a - 1 \in Ages
      BY <2>3, WindowAssumption DEF Ages
    <3>2. \A k \in Counters : req'[k][a] = req[k][a - 1]
      <4> SUFFICES ASSUME NEW k \in Counters
                   PROVE  req'[k][a] = req[k][a - 1]
        OBVIOUS
      <4>1. Shift(req[k])[a] = req[k][a - 1]
        BY <2>3 DEF Shift
      <4> QED BY <2>1, <4>1
    <3>3. g = OfModels(a - 1) /\ req'[CredCounter][a] = req[CredCounter][a - 1]
      BY <3>2, Names DEF OfModels
    <3> HIDE DEF f, g
    <3>4. IsFiniteSet(Entries(g)) /\ Total(g) <= req'[CredCounter][a]
      BY <1>1, <3>1, <3>3
    <3> QED BY <3>4 DEF g
  <2> QED BY <2>2, <2>3
<1> QED BY <1>3, <1>4, <1>5, <1>6, RecordedWithRoom

-----------------------------------------------------------------------------
(* Tokens.                                                                 *)

\* The requests that are still to report their tokens.
Serving == {w \in Callers : pc[w] = "tokens"}

\* Whatever runs may still be reported before the bound is reached.
TokensInReserve ==
  Tpm[Cred] # -1 =>
    Total(tok[CredCounter]) + Cardinality(Serving) * MaxAmount
      < Tpm[Cred] + Cardinality(Callers) * MaxAmount

LEMMA ServingIsFinite ==
  /\ IsFiniteSet(Serving) /\ Cardinality(Serving) \in Nat
  /\ Cardinality(Serving) <= Cardinality(Callers)
  /\ Cardinality(Callers) \in Nat \ {0}
<1>1. Serving \in SUBSET Callers
  BY DEF Serving
<1>2. Cardinality(Callers) \in Nat \ {0}
  BY CallersAssumption, FS_CardinalityType, FS_EmptySet
<1> QED BY <1>1, <1>2, CallersAssumption, FS_Subset, FS_CardinalityType

LEMMA ProductOrder ==
  ASSUME NEW i \in Nat, NEW j \in Nat, i <= j
  PROVE  i * MaxAmount <= j * MaxAmount /\ i * MaxAmount \in Nat
BY AmountAssumption

LEMMA LessReserve ==
  ASSUME NEW i \in Nat, NEW j \in Nat, i + 1 = j
  PROVE  i * MaxAmount + MaxAmount = j * MaxAmount /\ i * MaxAmount \in Nat
BY AmountAssumption

\* The reserve implies the bound.
LEMMA ReserveSuffices == ASSUME Types, TokensInReserve PROVE TokenOvershootBounded
<1>1. Cardinality(Serving) * MaxAmount \in Nat
  BY ServingIsFinite, ProductOrder
<1>2. Cardinality(Callers) * MaxAmount \in Nat
  BY ServingIsFinite, ProductOrder
<1>3. tok[CredCounter] \in [Ages -> Nat]
  BY Names DEF Types, TypeOK
<1>4. Total(tok[CredCounter]) \in Nat
  BY <1>3, WindowFinite
<1>5. Tpm[Cred] \in Nat \cup {-1}
  BY LimitsAssumption
<1> QED BY <1>1, <1>2, <1>4, <1>5 DEF TokensInReserve, TokenOvershootBounded

LEMMA InitReserve == ASSUME Init PROVE TokensInReserve
<1>1. Total(tok[CredCounter]) = 0
  BY Names, EmptyWindow DEF Init
<1>2. Serving = {}
  BY DEF Init, Serving
<1>3. Cardinality(Serving) = 0
  BY <1>2, FS_EmptySet
<1>4. 0 * MaxAmount + MaxAmount = 1 * MaxAmount /\ 0 * MaxAmount = 0
  BY AmountAssumption
<1>5. 1 * MaxAmount <= Cardinality(Callers) * MaxAmount /\ Cardinality(Callers) * MaxAmount \in Nat
  BY ServingIsFinite, ProductOrder
<1>6. Tpm[Cred] \in Nat \cup {-1}
  BY LimitsAssumption
<1> QED BY <1>1, <1>3, <1>4, <1>5, <1>6, AmountAssumption DEF TokensInReserve

\* The tokens grow only by a report that was in the reserve.
LEMMA ReserveStep ==
  ASSUME Types, Types', Locked, TokensInReserve, [Next]_vars
  PROVE  TokensInReserve'
<1> SUFFICES ASSUME Tpm[Cred] # -1
             PROVE  Total(tok'[CredCounter]) + Cardinality(Serving') * MaxAmount
                      < Tpm[Cred] + Cardinality(Callers) * MaxAmount
  BY DEF TokensInReserve
<1> DEFINE total == Total(tok[CredCounter])
           card  == Cardinality(Serving)
           all   == Cardinality(Callers)
<1>1. /\ total \in Nat /\ Total(tok'[CredCounter]) \in Nat
      /\ card \in Nat /\ Cardinality(Serving') \in Nat /\ Cardinality(Serving') <= all
      /\ all \in Nat
      /\ card * MaxAmount \in Nat /\ Cardinality(Serving') * MaxAmount \in Nat
      /\ all * MaxAmount \in Nat
      /\ Tpm[Cred] \in Nat
      /\ total + card * MaxAmount < Tpm[Cred] + all * MaxAmount
  <2>1. tok[CredCounter] \in [Ages -> Nat] /\ tok'[CredCounter] \in [Ages -> Nat]
    BY Names DEF Types, TypeOK
  <2>2. total \in Nat /\ Total(tok'[CredCounter]) \in Nat
    BY <2>1, WindowFinite
  <2>3. /\ Cardinality(Serving') \in Nat /\ Cardinality(Serving') <= all
        /\ card \in Nat /\ all \in Nat
    <3>1. Serving' \in SUBSET Callers
      BY DEF Serving
    <3> QED BY <3>1, CallersAssumption, ServingIsFinite, FS_Subset, FS_CardinalityType
  <2>4. /\ card * MaxAmount \in Nat /\ Cardinality(Serving') * MaxAmount \in Nat
        /\ all * MaxAmount \in Nat
    BY <2>3, ProductOrder
  <2> QED BY <2>2, <2>3, <2>4, LimitsAssumption DEF TokensInReserve
<1>2. ASSUME Total(tok'[CredCounter]) <= total, Serving' \subseteq Serving
      PROVE  Total(tok'[CredCounter]) + Cardinality(Serving') * MaxAmount
               < Tpm[Cred] + all * MaxAmount
  <2>1. Cardinality(Serving') <= card
    BY <1>2, ServingIsFinite, FS_Subset
  <2>2. Cardinality(Serving') * MaxAmount <= card * MaxAmount
    BY <1>1, <2>1, ProductOrder
  <2> HIDE DEF total, card, all
  <2> QED BY <1>1, <1>2, <2>2
<1>3. ASSUME tok' = tok, HasRoom(CredCounter)
      PROVE  Total(tok'[CredCounter]) + Cardinality(Serving') * MaxAmount
               < Tpm[Cred] + all * MaxAmount
  <2>1. total < Tpm[Cred]
    BY <1>3 DEF HasRoom, TpmFree, CredCounter
  <2>2. Cardinality(Serving') * MaxAmount <= all * MaxAmount
    BY <1>1, ProductOrder
  <2>3. Total(tok'[CredCounter]) = total
    BY <1>3
  <2> HIDE DEF total, card, all
  <2> QED BY <1>1, <2>1, <2>2, <2>3
<1> USE DEF Goto
<1>4. ASSUME NEW w \in Callers, CheckCred(w) \/ CheckModel(w)
      PROVE  \/ tok' = tok /\ Serving' \subseteq Serving
             \/ tok' = tok /\ HasRoom(CredCounter)
  BY <1>4 DEF CheckCred, CheckModel, Locked, Serving, Types, TypeOK
<1>5. ASSUME NEW w \in Callers,
             \/ \E m \in Models \cup {NoModel} : Begin(w, m)
             \/ Lookup(w)
             \/ RequestFails(w)
      PROVE  tok' = tok /\ Serving' \subseteq Serving
  BY <1>5 DEF Begin, Lookup, RequestFails, Serving, Types, TypeOK
<1>6. ASSUME NEW w \in Callers, NEW n \in Amounts, ConsumeModelTokens(w, n)
      PROVE  tok'[CredCounter] = tok[CredCounter] /\ Serving' \subseteq Serving
  <2>1. CASE job[w].model \in limited
    <3>1. CounterOf(job[w].model) \in Counters \ {CredCounter}
      BY <2>1, CounterOfModel, Names DEF Types, TypeOK
    <3> QED BY <1>6, <2>1, <3>1, Consumed, Names DEF ConsumeModelTokens, Serving, Types, TypeOK
  <2>2. CASE job[w].model \notin limited
    BY <1>6, <2>2 DEF ConsumeModelTokens, Serving, Types, TypeOK
  <2> QED BY <2>1, <2>2
<1>7. ASSUME NEW w \in Callers, NEW n \in Amounts, ConsumeTokens(w, n)
      PROVE  Total(tok'[CredCounter]) + Cardinality(Serving') * MaxAmount
               < Tpm[Cred] + all * MaxAmount
  <2>1. Total(tok'[CredCounter]) = total + n /\ n \in Nat /\ n <= MaxAmount
    <3>1. tok' = [tok EXCEPT ![CredCounter] = Plus(@, n)] /\ TypeOK
      BY <1>7 DEF ConsumeTokens, Types
    <3>2. Total(tok'[CredCounter]) = total + n
      BY <3>1, Names, Consumed
    <3>3. n \in Nat /\ n <= MaxAmount
      BY AmountAssumption DEF Amounts
    <3> QED BY <3>2, <3>3
  <2>2. w \in Serving /\ Serving' = Serving \ {w}
    BY <1>7 DEF ConsumeTokens, Serving, Types, TypeOK
  <2>3. Cardinality(Serving') = card - 1
    BY <2>2, ServingIsFinite, FS_RemoveElement
  <2>4. Cardinality(Serving') * MaxAmount + MaxAmount = card * MaxAmount
    BY <1>1, <2>3, LessReserve
  <2>5. MaxAmount \in Nat
    BY AmountAssumption
  <2> HIDE DEF total, card, all
  <2> QED BY <1>1, <2>1, <2>4, <2>5
<1>8. CASE Reload \/ UNCHANGED vars
  <2>1. tok' = tok /\ Serving' \subseteq Serving
    BY <1>8 DEF Reload, RemoveLimits, DeleteCounter, AddModel, vars, Serving
  <2> QED BY <1>1, <1>2, <2>1
<1>9. CASE Tick
  <2>1. Serving' \subseteq Serving
    BY <1>9 DEF Tick, Serving
  <2> QED BY <1>2, <1>9, <2>1, Names, Ticked DEF Types
<1>10. ASSUME tok'[CredCounter] = tok[CredCounter], Serving' \subseteq Serving
       PROVE  Total(tok'[CredCounter]) + Cardinality(Serving') * MaxAmount
                < Tpm[Cred] + all * MaxAmount
  BY <1>1, <1>2, <1>10
<1> HIDE DEF total, card, all
<1>11. ASSUME NEW w \in Callers, TryAllowAll(w)
       PROVE  Total(tok'[CredCounter]) + Cardinality(Serving') * MaxAmount
                < Tpm[Cred] + all * MaxAmount
  BY <1>3, <1>4, <1>5, <1>10, <1>11 DEF TryAllowAll
<1>12. ASSUME NEW w \in Callers, Serve(w)
       PROVE  Total(tok'[CredCounter]) + Cardinality(Serving') * MaxAmount
                < Tpm[Cred] + all * MaxAmount
  BY <1>5, <1>6, <1>7, <1>10, <1>12 DEF Serve
<1> QED BY <1>8, <1>9, <1>11, <1>12 DEF Next, all

-----------------------------------------------------------------------------
(* The limits hold.                                                        *)

Inv == Types /\ Locked /\ WindowsWithinLimits /\ ModelsCounted /\ TokensInReserve

LEMMA InitInv == Init => Inv
<1> SUFFICES ASSUME Init PROVE Inv
  OBVIOUS
<1>1. Types /\ ModelsCounted /\ TokensInReserve
  BY InitTypes, InitCounted, InitReserve
<1>2. Locked
  BY DEF Init, Locked
<1>3. WindowsWithinLimits
  <2>1. \A k \in Counters : Total(req[k]) = 0
    BY EmptyWindow DEF Init
  <2> QED BY <2>1, Names DEF WindowsWithinLimits
<1> QED BY <1>1, <1>2, <1>3 DEF Inv

LEMMA StepInv == Inv /\ [Next]_vars => Inv'
<1> SUFFICES ASSUME Inv, [Next]_vars PROVE Inv'
  OBVIOUS
<1>1. Types'
  BY TypesStep DEF Inv
<1> QED BY <1>1, LockedStep, WindowsStep, CountedStep, ReserveStep DEF Inv

\* Every value has its type: counters are windows of numbers, callers hold a job
\* and counters that exist (RPMLimiter, localBackend).
THEOREM TypeCorrect == Spec => []TypeOK
<1>1. Inv => TypeOK
  BY DEF Inv, Types
<1> QED BY <1>1, InitInv, StepInv, PTL DEF Spec

\* Whoever else is being admitted or served, no counter passes its requests per
\* minute, the credential's counter holds what the models' do, and tokens pass
\* their limit by one report of each caller at most (tryAllowAll, consumeTokens).
THEOREM LimitsHold == Spec => []WithinLimits
<1>1. Inv => WithinLimits
  BY ReserveSuffices DEF Inv, WithinLimits, ModelsCounted, OfModels, CredentialCountsModels
<1> QED BY <1>1, InitInv, StepInv, PTL DEF Spec

-----------------------------------------------------------------------------
(* One atomic decision.                                                    *)

\* Until a model is removed all callers see the limits and the counters that
\* were there from the beginning.
FirstCounters ==
  ~Removed =>
    /\ limited = Models
    /\ \A w \in Callers :
         /\ pc[w] # "idle" => (job[w].asks <=> job[w].model \in Models)
         /\ pc[w] \in {"cred", "model"} /\ job[w].asks => job[w].counter = <<job[w].model, 0>>

\* A removal is never undone.
LEMMA RemovedStays == ASSUME Types, [Next]_vars, Removed PROVE Removed'
<1> USE DEF Types, TypeOK, Removed
<1>1. ASSUME UNCHANGED <<gen, removing>> PROVE Removed'
  BY <1>1
<1>2. ASSUME NEW m \in Models, DeleteCounter(m) PROVE Removed'
  <2>1. gen'[m] = gen[m] + 1 /\ gen[m] \in Nat
    BY <1>2 DEF DeleteCounter
  <2>2. gen'[m] > 0
    BY <2>1
  <2> QED BY <2>2
<1>3. ASSUME NEW m \in Models, RemoveLimits(m) PROVE Removed'
  BY <1>3 DEF RemoveLimits
<1> QED BY <1>1, <1>2, <1>3
        DEF Next, TryAllowAll, Begin, Lookup, CheckCred, CheckModel, Serve, ConsumeTokens,
            ConsumeModelTokens, RequestFails, Reload, AddModel, Tick, vars

LEMMA FirstStep == ASSUME Types, FirstCounters, [Next]_vars PROVE FirstCounters'
<1> SUFFICES ASSUME ~Removed'
             PROVE  FirstCounters'
  BY DEF FirstCounters
<1>1. /\ limited = Models
      /\ \A w \in Callers :
           /\ pc[w] # "idle" => (job[w].asks <=> job[w].model \in Models)
           /\ pc[w] \in {"cred", "model"} /\ job[w].asks => job[w].counter = <<job[w].model, 0>>
      /\ \A m \in Models : gen[m] = 0
      /\ removing = {}
  <2>1. ~Removed
    BY RemovedStays
  <2>2. \A m \in Models : gen[m] \in Nat
    BY DEF Types, TypeOK
  <2> QED BY <2>1, <2>2 DEF FirstCounters, Removed
<1> USE DEF Goto
<1>2. ASSUME NEW w \in Callers, NEW m \in Models \cup {NoModel}, Begin(w, m) PROVE FirstCounters'
  BY <1>1, <1>2 DEF Begin, FirstCounters, Types, TypeOK
<1>3. ASSUME NEW w \in Callers, Lookup(w) PROVE FirstCounters'
  <2>1. job[w].model \in Models => CounterOf(job[w].model) = <<job[w].model, 0>>
    BY <1>1 DEF CounterOf
  <2> QED BY <1>1, <1>3, <2>1 DEF Lookup, FirstCounters, Types, TypeOK
<1>4. ASSUME NEW w \in Callers, CheckCred(w) \/ CheckModel(w) PROVE FirstCounters'
  BY <1>1, <1>4 DEF CheckCred, CheckModel, FirstCounters, Types, TypeOK
<1>5. ASSUME NEW w \in Callers, Serve(w) PROVE FirstCounters'
  BY <1>1, <1>5 DEF Serve, ConsumeTokens, ConsumeModelTokens, RequestFails, FirstCounters, Types, TypeOK
<1>6. CASE Reload
  BY <1>1, <1>6 DEF Reload, RemoveLimits, DeleteCounter, AddModel, FirstCounters, Removed
<1>7. CASE Tick \/ UNCHANGED vars
  BY <1>1, <1>7 DEF Tick, vars, FirstCounters
<1> QED BY <1>2, <1>3, <1>4, <1>5, <1>6, <1>7 DEF Next, TryAllowAll

\* The state of SlidingWindow.
Requests == [k \in {Cred} \cup Models |-> req[<<k, 0>>]]
Tokens == [k \in {Cred} \cup Models |-> tok[<<k, 0>>]]
Calls ==
  [w \in Callers |->
     IF pc[w] = "idle" THEN [keys |-> {}, is |-> "over"]
     ELSE [keys |-> Named(w),
           is   |-> IF pc[w] \in {"tokens", "modelTokens"} THEN "admitted" ELSE "pending"]]

LEMMA FirstNames ==
  /\ \A k \in {Cred} \cup Models : <<k, 0>> \in Counters
  /\ \A m \in Models : <<m, 0>> \in ModelCounters
BY AmountAssumption DEF Counters, CredCounter, ModelCounters

LEMMA SameTotal == \A f : Decision!Total(f) = Total(f)
BY DEF Decision!Total, Decision!Entries, Decision!Cardinality, Total, Entries, Cardinality

\* Both see the same room.
LEMMA SameRoom ==
  ASSUME NEW k \in {Cred} \cup Models
  PROVE  Decision!HasRoom(k) <=> HasRoom(<<k, 0>>)
BY SameTotal DEF Decision!HasRoom, HasRoom, RpmFree, TpmFree

\* A record in the counters of the names K.
LEMMA RecordMaps ==
  ASSUME NEW K \in SUBSET ({Cred} \cup Models), Record({<<k, 0>> : k \in K})
  PROVE  Requests' = [k \in {Cred} \cup Models |->
                        IF k \in K THEN Decision!Plus(Requests[k], 1) ELSE Requests[k]]
BY FirstNames DEF Record, Requests, Decision!Plus, Plus

\* A report of tokens to the counter of the name c.
LEMMA ReportMaps ==
  ASSUME TypeOK, NEW c \in {Cred} \cup Models, NEW n,
         tok' = [tok EXCEPT ![<<c, 0>>] = Plus(@, n)]
  PROVE  Tokens' = [Tokens EXCEPT ![c] = Decision!Plus(@, n)]
BY FirstNames DEF Tokens, Decision!Plus, Plus, TypeOK

LEMMA InitMaps == Init => Decision!Init
BY FirstNames DEF Init, Decision!Init, Decision!Empty, Decision!Ages, Decision!NoCall, Empty, Ages

\* What is already so does not change a call.
LEMMA SameCall ==
  ASSUME NEW w \in Callers, pc[w] # "idle", NEW v, Calls[w].is = v
  PROVE  [Calls EXCEPT ![w].is = v] = Calls
<1>1. Calls[w] = [keys |-> Calls[w].keys, is |-> Calls[w].is]
  BY DEF Calls
<1>2. [Calls[w] EXCEPT !.is = v] = Calls[w]
  BY <1>1
<1>3. DOMAIN Calls = Callers /\ Calls = [u \in Callers |-> Calls[u]]
  BY DEF Calls
<1> QED BY <1>2, <1>3

\* A caller goes on with the names it has.
LEMMA CallMaps ==
  ASSUME Types, NEW w \in Callers, NEW at \in {"lookup", "cred", "model", "tokens", "modelTokens"},
         Goto(w, at), pc[w] # "idle", job'[w].asks = job[w].asks, job'[w].model = job[w].model,
         \A u \in Callers \ {w} : job'[u] = job[u]
  PROVE  Calls' = [Calls EXCEPT ![w].is =
                     IF at \in {"tokens", "modelTokens"} THEN "admitted" ELSE "pending"]
<1>1. \A u \in Callers : pc'[u] = IF u = w THEN at ELSE pc[u]
  BY DEF Goto, Types, TypeOK
<1>2. \A u \in Callers : Named(u)' = Named(u)
  BY DEF Named
<1> QED BY <1>1, <1>2 DEF Calls

\* A caller ends.
LEMMA CallEnds ==
  ASSUME Types, NEW w \in Callers, Goto(w, "idle"), UNCHANGED job
  PROVE  Calls' = [Calls EXCEPT ![w] = Decision!NoCall]
<1>1. \A u \in Callers : pc'[u] = IF u = w THEN "idle" ELSE pc[u]
  BY DEF Goto, Types, TypeOK
<1>2. \A u \in Callers : Named(u)' = Named(u)
  BY DEF Named
<1> QED BY <1>1, <1>2 DEF Calls, Decision!NoCall

LEMMA BeginMaps ==
  ASSUME Types, NEW w \in Callers, NEW m \in Models \cup {NoModel}, Begin(w, m)
  PROVE  Decision!Next
<1>1. PICK K \in SUBSET ({Cred} \cup Models) : Named(w)' = K
  <2>1. job'[w].model = m /\ (job'[w].asks <=> m \in limited)
    BY DEF Begin, Types, TypeOK
  <2>2. limited \subseteq Models
    BY DEF Types, TypeOK
  <2> QED BY <2>1, <2>2 DEF Named
<1>2. Calls[w] = Decision!NoCall
  BY DEF Begin, Calls, Decision!NoCall
<1>3. Calls' = [Calls EXCEPT ![w] = [keys |-> K, is |-> "pending"]]
  <2>1. \A u \in Callers : pc'[u] = IF u = w THEN "lookup" ELSE pc[u]
    BY DEF Begin, Goto, Types, TypeOK
  <2>2. \A u \in Callers \ {w} : Named(u)' = Named(u)
    BY DEF Begin, Named, Types, TypeOK
  <2> QED BY <1>1, <2>1, <2>2 DEF Calls
<1>4. UNCHANGED <<Requests, Tokens>>
  BY DEF Begin, Requests, Tokens
<1>5. Decision!Ask(w, K)
  BY <1>2, <1>3, <1>4 DEF Decision!Ask, Calls, Requests, Tokens
<1> QED BY <1>5 DEF Decision!Next

\* The decision on both counters, or on the credential's alone.
LEMMA AdmitMaps ==
  ASSUME Types, NEW w \in Callers, pc[w] \in {"cred", "model"}, Goto(w, "tokens"),
         Record({<<k, 0>> : k \in Named(w)}), \A k \in Named(w) : HasRoom(<<k, 0>>),
         UNCHANGED <<tok, job>>
  PROVE  Decision!Next
<1>1. Named(w) \in SUBSET ({Cred} \cup Models)
  BY DEF Named, Types, Asked
<1>2. Calls[w].is = "pending" /\ Calls[w].keys = Named(w)
  BY DEF Calls
<1>3. Calls' = [Calls EXCEPT ![w].is = "admitted"]
  BY CallMaps
<1>4. Requests' = [k \in {Cred} \cup Models |->
                     IF k \in Calls[w].keys THEN Decision!Plus(Requests[k], 1) ELSE Requests[k]]
  BY <1>1, <1>2, RecordMaps
<1>5. \A k \in Calls[w].keys : Decision!HasRoom(k)
  BY <1>1, <1>2, SameRoom
<1>6. UNCHANGED Tokens
  BY DEF Tokens
<1>7. Decision!Admit(w)
  BY <1>2, <1>3, <1>4, <1>5, <1>6 DEF Decision!Admit, Calls, Requests, Tokens
<1> QED BY <1>7 DEF Decision!Next

LEMMA RefuseMaps ==
  ASSUME Types, NEW w \in Callers, pc[w] \in {"cred", "model"}, Goto(w, "idle"),
         \E k \in Named(w) : ~HasRoom(<<k, 0>>), UNCHANGED <<req, tok, job>>
  PROVE  Decision!Next
<1>1. Named(w) \in SUBSET ({Cred} \cup Models)
  BY DEF Named, Types, Asked
<1>2. Calls[w].is = "pending" /\ Calls[w].keys = Named(w)
  BY DEF Calls
<1>3. Calls' = [Calls EXCEPT ![w] = Decision!NoCall]
  BY CallEnds
<1>4. \E k \in Calls[w].keys : ~Decision!HasRoom(k)
  BY <1>1, <1>2, SameRoom
<1>5. UNCHANGED <<Requests, Tokens>>
  BY DEF Requests, Tokens
<1>6. Decision!Refuse(w)
  BY <1>2, <1>3, <1>4, <1>5 DEF Decision!Refuse, Calls, Requests, Tokens
<1> QED BY <1>6 DEF Decision!Next

LEMMA DecideMaps ==
  ASSUME Types, Locked, FirstCounters, ~Removed, NEW w \in Callers, CheckCred(w) \/ CheckModel(w)
  PROVE  Decision!Next \/ UNCHANGED Decision!vars
<1>1. /\ job[w].asks /\ pc[w] \in {"cred", "model"} =>
           job[w].counter = <<job[w].model, 0>> /\ job[w].model \in Models
      /\ <<Cred, 0>> = CredCounter
  BY DEF FirstCounters, Types, Asked, CredCounter
<1>2. CASE CheckCred(w) /\ ~HasRoom(CredCounter)
  <2>1. Cred \in Named(w)
    BY DEF Named
  <2>2. /\ pc[w] \in {"cred", "model"} /\ Goto(w, "idle") /\ UNCHANGED <<req, tok, job>>
    BY <1>2 DEF CheckCred
  <2> QED BY <1>1, <1>2, <2>1, <2>2, RefuseMaps
<1>3. CASE CheckCred(w) /\ HasRoom(CredCounter) /\ ~job[w].asks
  <2>1. Named(w) = {Cred} /\ {<<k, 0>> : k \in Named(w)} = {CredCounter}
    BY <1>1, <1>3 DEF Named
  <2>2. /\ pc[w] \in {"cred", "model"} /\ Goto(w, "tokens") /\ UNCHANGED <<tok, job>>
        /\ Record({CredCounter})
    BY <1>3 DEF CheckCred
  <2> QED BY <1>1, <1>3, <2>1, <2>2, AdmitMaps
<1>4. CASE CheckCred(w) /\ HasRoom(CredCounter) /\ job[w].asks
  <2>1. /\ pc[w] = "cred" /\ Goto(w, "model") /\ UNCHANGED <<req, tok, job>>
    BY <1>4 DEF CheckCred
  <2>2. Calls' = [Calls EXCEPT ![w].is = "pending"]
    BY <2>1, CallMaps
  <2>3. Calls[w].is = "pending"
    BY <2>1 DEF Calls
  <2>4. Calls' = Calls
    BY <2>1, <2>2, <2>3, SameCall
  <2>5. UNCHANGED <<Requests, Tokens>>
    BY <2>1 DEF Requests, Tokens
  <2> QED BY <2>4, <2>5 DEF Decision!vars, Calls, Requests, Tokens
<1>5. CASE CheckModel(w)
  <2>1. /\ pc[w] = "model" /\ job[w].asks /\ HasRoom(CredCounter) /\ UNCHANGED <<tok, job>>
    BY <1>5 DEF CheckModel, Locked
  <2>2. /\ Named(w) = {Cred, job[w].model}
        /\ {<<k, 0>> : k \in Named(w)} = {CredCounter, job[w].counter}
    BY <1>1, <2>1 DEF Named
  <2>3. CASE HasRoom(job[w].counter)
    <3>1. Record({CredCounter, job[w].counter}) /\ Goto(w, "tokens")
      BY <1>5, <2>3 DEF CheckModel
    <3>2. \A k \in Named(w) : HasRoom(<<k, 0>>)
      BY <1>1, <2>1, <2>2, <2>3
    <3> QED BY <2>1, <2>2, <3>1, <3>2, AdmitMaps
  <2>4. CASE ~HasRoom(job[w].counter)
    <3>1. Goto(w, "idle") /\ UNCHANGED req
      BY <1>5, <2>4 DEF CheckModel
    <3>2. \E k \in Named(w) : ~HasRoom(<<k, 0>>)
      BY <1>1, <2>1, <2>2, <2>4
    <3> QED BY <2>1, <3>1, <3>2, RefuseMaps
  <2> QED BY <2>3, <2>4
<1> QED BY <1>2, <1>3, <1>4, <1>5

LEMMA ServeMaps ==
  ASSUME Types, FirstCounters, ~Removed, NEW w \in Callers, Serve(w)
  PROVE  Decision!Next
<1>1. /\ limited = Models /\ gen \in [Models -> Nat] /\ \A m \in Models : gen[m] = 0
      /\ pc[w] # "idle" => (job[w].asks <=> job[w].model \in Models)
  <2>1. \A m \in Models : gen[m] \in Nat
    BY DEF Types, TypeOK
  <2> QED BY <2>1 DEF FirstCounters, Removed, Types, TypeOK
<1>2. pc[w] \in {"tokens", "modelTokens"} => Calls[w].is = "admitted" /\ Calls[w].keys = Named(w)
  BY DEF Calls
<1>3. ASSUME Goto(w, "idle"), pc[w] \in {"tokens", "modelTokens"}, UNCHANGED <<req, tok, job>>
      PROVE  Decision!Next
  <2>1. Calls' = [Calls EXCEPT ![w] = Decision!NoCall]
    BY <1>3, CallEnds
  <2>2. UNCHANGED <<Requests, Tokens>>
    BY <1>3 DEF Requests, Tokens
  <2>3. Decision!Finish(w)
    BY <1>2, <1>3, <2>1, <2>2 DEF Decision!Finish, Calls, Requests, Tokens
  <2> QED BY <2>3 DEF Decision!Next
<1>4. ASSUME NEW c \in Named(w), NEW n \in Amounts, pc[w] \in {"tokens", "modelTokens"},
             tok' = [tok EXCEPT ![<<c, 0>>] = Plus(@, n)], UNCHANGED <<req, job>>,
             Calls' \in {Calls, [Calls EXCEPT ![w] = Decision!NoCall]}
      PROVE  Decision!Next
  <2>1. c \in {Cred} \cup Models
    BY DEF Named, Types, Asked
  <2>2. Tokens' = [Tokens EXCEPT ![c] = Decision!Plus(@, n)]
    BY <1>4, <2>1, ReportMaps DEF Types
  <2>3. UNCHANGED Requests
    BY <1>4 DEF Requests
  <2>4. Decision!Spend(w, c)
    BY <1>2, <1>4, <2>2, <2>3 DEF Decision!Spend, Calls, Requests, Tokens
  <2> QED BY <2>1, <2>4 DEF Decision!Next
<1>5. ASSUME NEW n \in Amounts, ConsumeTokens(w, n)
      PROVE  Decision!Next
  <2>1. /\ pc[w] = "tokens" /\ Goto(w, "modelTokens") /\ UNCHANGED <<req, job>>
        /\ tok' = [tok EXCEPT ![<<Cred, 0>>] = Plus(@, n)]
    BY <1>5 DEF ConsumeTokens, CredCounter
  <2>2. Calls' = [Calls EXCEPT ![w].is = "admitted"]
    BY <2>1, CallMaps
  <2>3. Calls' = Calls
    BY <1>2, <2>1, <2>2, SameCall
  <2>4. Cred \in Named(w)
    BY DEF Named
  <2> QED BY <1>4, <2>1, <2>3, <2>4
<1>6. ASSUME NEW n \in Amounts, ConsumeModelTokens(w, n)
      PROVE  Decision!Next
  <2>1. pc[w] = "modelTokens" /\ Goto(w, "idle") /\ UNCHANGED <<req, job>>
    BY <1>6 DEF ConsumeModelTokens
  <2>2. CASE job[w].model \in Models
    <3>1. tok' = [tok EXCEPT ![<<job[w].model, 0>>] = Plus(@, n)]
      BY <1>1, <1>6, <2>2 DEF ConsumeModelTokens, CounterOf
    <3>2. job[w].model \in Named(w)
      BY <1>1, <2>1, <2>2 DEF Named
    <3>3. Calls' = [Calls EXCEPT ![w] = Decision!NoCall]
      BY <2>1, CallEnds
    <3> QED BY <1>4, <2>1, <3>1, <3>2, <3>3
  <2>3. CASE job[w].model \notin Models
    <3>1. UNCHANGED tok
      BY <1>1, <1>6, <2>3 DEF ConsumeModelTokens
    <3> QED BY <1>3, <2>1, <3>1
  <2> QED BY <2>2, <2>3
<1>7. RequestFails(w) => Decision!Next
  BY <1>3 DEF RequestFails
<1> QED BY <1>5, <1>6, <1>7 DEF Serve

\* Every step before a removal is a step of the sliding window or none.
LEMMA StepMaps ==
  ASSUME Types, Locked, FirstCounters, [Next]_vars
  PROVE  [Decision!Next \/ Removed']_(Decision!vars)
<1> SUFFICES ASSUME ~Removed'
             PROVE  Decision!Next \/ UNCHANGED Decision!vars
  OBVIOUS
<1>1. ~Removed
  BY RemovedStays
<1>2. ASSUME NEW w \in Callers, TryAllowAll(w)
      PROVE  Decision!Next \/ UNCHANGED Decision!vars
  <2>1. CASE Lookup(w)
    <3>1. /\ pc[w] = "lookup" /\ Goto(w, "cred") /\ UNCHANGED <<req, tok>>
          /\ \A u \in Callers : job'[u].asks = job[u].asks /\ job'[u].model = job[u].model
          /\ \A u \in Callers \ {w} : job'[u] = job[u]
      BY <2>1 DEF Lookup, Types, TypeOK
    <3>2. Calls' = [Calls EXCEPT ![w].is = "pending"]
      BY <3>1, CallMaps
    <3>3. Calls[w].is = "pending"
      BY <3>1 DEF Calls
    <3>4. Calls' = Calls
      BY <3>1, <3>2, <3>3, SameCall
    <3>5. UNCHANGED <<Requests, Tokens>>
      BY <3>1 DEF Requests, Tokens
    <3> QED BY <3>4, <3>5 DEF Decision!vars, Calls, Requests, Tokens
  <2> QED BY <1>1, <1>2, <2>1, BeginMaps, DecideMaps DEF TryAllowAll
<1>3. ASSUME NEW w \in Callers, Serve(w)
      PROVE  Decision!Next
  BY <1>1, <1>3, ServeMaps
<1>4. CASE Reload \/ UNCHANGED vars
  <2>1. UNCHANGED <<req, tok, pc, job>>
    BY <1>4 DEF Reload, RemoveLimits, DeleteCounter, AddModel, vars
  <2>2. UNCHANGED <<Calls, Requests, Tokens>>
    BY <2>1 DEF Calls, Requests, Tokens, Named
  <2> QED BY <2>2 DEF Decision!vars, Calls, Requests, Tokens
<1>5. CASE Tick
  <2>1. /\ Requests' = [k \in {Cred} \cup Models |-> Decision!Shift(Requests[k])]
        /\ Tokens' = [k \in {Cred} \cup Models |-> Decision!Shift(Tokens[k])]
    BY <1>5, FirstNames DEF Tick, Requests, Tokens, Decision!Shift, Decision!Ages, Shift, Ages
  <2>2. UNCHANGED Calls
    BY <1>5 DEF Tick, Calls, Named
  <2>3. Decision!Tick
    BY <2>1, <2>2 DEF Decision!Tick, Calls, Requests, Tokens
  <2> QED BY <2>3 DEF Decision!Next
<1> QED BY <1>2, <1>3, <1>4, <1>5 DEF Next

\* Locking the counters one after the other is one atomic decision: until a
\* model is removed the limiter implements SlidingWindow (localBackend.tryAllowAll).
THEOREM DecisionsAreAtomic == Spec => AtomicDecisions
<1>1. Init => FirstCounters
  BY DEF Init, FirstCounters
<1>2. Inv /\ FirstCounters /\ [Next]_vars => FirstCounters'
  BY FirstStep DEF Inv
<1>3. Inv /\ FirstCounters /\ [Next]_vars => [Decision!Next \/ Removed']_(Decision!vars)
  BY StepMaps DEF Inv
<1> QED BY <1>1, <1>2, <1>3, InitMaps, InitInv, StepInv, PTL DEF Spec, AtomicDecisions

-----------------------------------------------------------------------------
(* The limiter of health fetches (time_based.go), which shares nothing     *)
(* with the counters: for any callers, keys and interval.                  *)

\* Every variable keeps its type.
THEOREM IntervalTypes ==
  IntervalSpec => []IntervalTypeOK
<1> USE IntervalAssumption DEF IntervalTypeOK, IntervalAges, Awake
<1>1. IntervalInit => IntervalTypeOK
  BY DEF IntervalInit
<1>2. IntervalTypeOK /\ [IntervalNext]_intervalVars => IntervalTypeOK'
  <2> SUFFICES ASSUME IntervalTypeOK, [IntervalNext]_intervalVars
               PROVE  IntervalTypeOK'
    OBVIOUS
  <2>1. CASE \E w \in Fetchers, k \in Keys : Pass(w, k)
    BY <2>1 DEF Pass, Grant
  <2>2. CASE \E w \in Fetchers, k \in Keys : Sleep(w, k)
    <3> PICK w \in Fetchers, k \in Keys : Sleep(w, k)
      BY <2>2
    <3>1. MinInterval - last[k] \in 0 .. MinInterval + 1
      BY DEF Sleep
    <3> QED BY <3>1 DEF Sleep
  <2>3. CASE \E w \in Fetchers, k \in Keys : Wake(w, k)
    BY <2>3 DEF Wake, Grant
  <2>4. CASE \E w \in Fetchers, k \in Keys : Cancel(w, k)
    BY <2>4 DEF Cancel
  <2>5. CASE IntervalTick
    BY <2>5 DEF IntervalTick, Older
  <2>6. CASE UNCHANGED intervalVars
    BY <2>6 DEF intervalVars
  <2> QED BY <2>1, <2>2, <2>3, <2>4, <2>5, <2>6 DEF IntervalNext
<1> QED BY <1>1, <1>2, PTL DEF IntervalSpec

\* A timer never runs out before the caller's own interval does.
THEOREM TimersSuffice ==
  IntervalSpec => []TimersCover
<1> USE IntervalAssumption DEF IntervalAges, Awake
<1>1. IntervalInit => TimersCover
  BY DEF IntervalInit, TimersCover
<1>2. /\ IntervalTypeOK /\ TimersCover
      /\ [IntervalNext]_intervalVars
      => TimersCover'
  <2> SUFFICES ASSUME IntervalTypeOK, TimersCover, [IntervalNext]_intervalVars,
                      NEW v \in Fetchers, NEW j \in Keys
               PROVE  /\ last'[j] <= own'[v][j]
                      /\ sleeping'[v][j] # Awake => own'[v][j] + sleeping'[v][j] >= MinInterval
    BY DEF TimersCover
  <2>0. /\ last[j] \in Nat /\ own[v][j] \in Nat /\ sleeping[v][j] \in Nat
        /\ last[j] <= MinInterval /\ own[v][j] <= MinInterval
        /\ last[j] <= own[v][j]
        /\ sleeping[v][j] # Awake => own[v][j] + sleeping[v][j] >= MinInterval
    BY DEF IntervalTypeOK, TimersCover
  <2>1. CASE \E w \in Fetchers, k \in Keys : Pass(w, k)
    <3> PICK w \in Fetchers, k \in Keys : Pass(w, k)
      BY <2>1
    <3>1. last'[j] = IF j = k THEN 0 ELSE last[j]
      BY DEF Pass, Grant, IntervalTypeOK
    <3>2. own'[v][j] = IF v = w /\ j = k THEN 0 ELSE own[v][j]
      BY DEF Pass, Grant, IntervalTypeOK
    <3>3. sleeping'[v][j] = sleeping[v][j] /\ (v = w => sleeping[v][j] = Awake)
      BY DEF Pass, Idle
    <3> QED BY <2>0, <3>1, <3>2, <3>3
  <2>2. CASE \E w \in Fetchers, k \in Keys : Sleep(w, k)
    <3> PICK w \in Fetchers, k \in Keys : Sleep(w, k)
      BY <2>2
    <3>1. sleeping'[v][j] = IF v = w /\ j = k THEN MinInterval - last[j] ELSE sleeping[v][j]
      BY DEF Sleep, IntervalTypeOK
    <3>2. last' = last /\ own' = own
      BY DEF Sleep
    <3> QED BY <2>0, <3>1, <3>2
  <2>3. CASE \E w \in Fetchers, k \in Keys : Wake(w, k)
    <3> PICK w \in Fetchers, k \in Keys : Wake(w, k)
      BY <2>3
    <3>1. last'[j] = IF j = k THEN 0 ELSE last[j]
      BY DEF Wake, Grant, IntervalTypeOK
    <3>2. own'[v][j] = IF v = w /\ j = k THEN 0 ELSE own[v][j]
      BY DEF Wake, Grant, IntervalTypeOK
    <3>3. sleeping'[v][j] = IF v = w /\ j = k THEN Awake ELSE sleeping[v][j]
      BY DEF Wake, IntervalTypeOK
    <3> QED BY <2>0, <3>1, <3>2, <3>3
  <2>4. CASE \E w \in Fetchers, k \in Keys : Cancel(w, k)
    <3> PICK w \in Fetchers, k \in Keys : Cancel(w, k)
      BY <2>4
    <3>1. sleeping'[v][j] = IF v = w /\ j = k THEN Awake ELSE sleeping[v][j]
      BY DEF Cancel, IntervalTypeOK
    <3>2. last' = last /\ own' = own
      BY DEF Cancel
    <3> QED BY <2>0, <3>1, <3>2
  <2>5. CASE IntervalTick
    <3>1. last'[j] = Older(last[j]) /\ own'[v][j] = Older(own[v][j])
      BY <2>5 DEF IntervalTick
    <3>2. sleeping'[v][j] = IF sleeping[v][j] \in {0, Awake} THEN sleeping[v][j]
                            ELSE sleeping[v][j] - 1
      BY <2>5 DEF IntervalTick
    <3> QED BY <2>0, <3>1, <3>2 DEF Older
  <2>6. CASE UNCHANGED intervalVars
    BY <2>0, <2>6 DEF intervalVars
  <2> QED BY <2>1, <2>2, <2>3, <2>4, <2>5, <2>6 DEF IntervalNext
<1> QED BY <1>1, <1>2, IntervalTypes, PTL DEF IntervalSpec

\* Whatever other callers do, a caller's own operations on a key are at least the
\* interval apart.
THEOREM FetchersAreSpaced ==
  IntervalSpec => OwnSpacing
<1> USE IntervalAssumption
<1>1. /\ IntervalTypeOK /\ TimersCover
      /\ [IntervalNext]_intervalVars
      => [GrantsOwnSpaced]_intervalVars
  <2> SUFFICES ASSUME IntervalTypeOK, TimersCover,
                      NEW w \in Fetchers, NEW k \in Keys, Granted(w, k)
               PROVE  own[w][k] = MinInterval
    BY DEF GrantsOwnSpaced
  <2>1. /\ own[w][k] \in 0 .. MinInterval /\ last[k] <= own[w][k]
        /\ sleeping[w][k] # Awake => own[w][k] + sleeping[w][k] >= MinInterval
    BY DEF IntervalTypeOK, IntervalAges, TimersCover
  <2>2. CASE Pass(w, k)
    BY <2>1, <2>2 DEF Pass
  <2>3. CASE Wake(w, k)
    BY <2>1, <2>3 DEF Wake, Awake
  <2> QED BY <2>2, <2>3 DEF Granted
<1> QED BY <1>1, IntervalTypes, TimersSuffice, PTL DEF IntervalSpec, OwnSpacing
=============================================================================
