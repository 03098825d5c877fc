------------------------ MODULE ModelRegistryProofs ------------------------
(***************************************************************************)
(* Proofs about ModelRegistry, for any models, credentials, scopes and any *)
(* number of changes of the database and of the proxies.                   *)
(***************************************************************************)
EXTENDS ModelRegistry, FiniteSetTheorems, SequenceTheorems, WellFoundedInduction, TLAPS

-----------------------------------------------------------------------------
(* Scopes.                                                                 *)

\* The values of a function on a finite set are finitely many.
LEMMA ImageFinite ==
  ASSUME NEW S, IsFiniteSet(S), NEW f, DOMAIN f = S, NEW T, T = {f[x] : x \in S}
  PROVE  /\ IsFiniteSet(T) /\ Cardinality(T) \in Nat
         /\ Cardinality(S) \in Nat /\ Cardinality(T) <= Cardinality(S)
<1> DEFINE g == [x \in S |-> f[x]]
<1>1. g \in Surjection(S, T)
  BY DEF Surjection
<1> HIDE DEF g
<1>2. IsFiniteSet(T) /\ Cardinality(T) <= Cardinality(S)
  BY <1>1, FS_Surjection
<1> QED BY <1>2, FS_CardinalityType

LEMMA AlternativesFinite == IsFiniteSet(Alternative)
<1> DEFINE Both == (SUBSET (SUBSET Scope)) \X (SUBSET Scope)
           made == [x \in Both |-> [needs |-> x[1], denied |-> x[2]]]
<1>1. IsFiniteSet(SUBSET Scope)
  BY ScopeAssumption, FS_SUBSET
<1>2. IsFiniteSet(SUBSET (SUBSET Scope))
  BY <1>1, FS_SUBSET
<1>3. IsFiniteSet(Both)
  <2> DEFINE A == SUBSET (SUBSET Scope)
             B == SUBSET Scope
  <2>1. IsFiniteSet(A) /\ IsFiniteSet(B)
    BY <1>1, <1>2
  <2>2. IsFiniteSet(A \X B)
    <3> HIDE DEF A, B
    <3> QED BY <2>1, FS_Product
  <2> QED BY <2>2
<1>4. IsFiniteSet({made[x] : x \in Both})
  <2> DEFINE T == {made[x] : x \in Both}
  <2>1. DOMAIN made = Both
    OBVIOUS
  <2>2. IsFiniteSet(T)
    <3> HIDE DEF Both, made
    <3> QED BY <1>3, <2>1, ImageFinite
  <2> QED BY <2>2
<1>5. Alternative \subseteq {made[x] : x \in Both}
  <2> SUFFICES ASSUME NEW a \in Alternative PROVE a \in {made[x] : x \in Both}
    OBVIOUS
  <2> DEFINE x == <<a.needs, a.denied>>
  <2>1. a = [needs |-> a.needs, denied |-> a.denied] /\ x \in Both
    BY DEF Alternative
  <2>2. made[x] = a
    BY <2>1
  <2> QED BY <2>1, <2>2
<1> QED BY <1>4, <1>5, FS_Subset

\* A normalised expression has finitely many alternatives, no more than the
\* bound, and each of its requirements can be met.
LEMMA Normalized ==
  ASSUME NEW e \in Expression
  PROVE  LET n == NormalizeExpression(e) IN
         /\ n \subseteq e /\ n \in Expression /\ IsFiniteSet(n)
         /\ Cardinality(n) \in Nat /\ Cardinality(n) <= MaxAlternatives
         /\ \A a \in n : {} \notin a.needs
<1> DEFINE kept == {a \in e : {} \notin a.needs}
           n == NormalizeExpression(e)
<1>1. IsFiniteSet(kept) /\ Cardinality(kept) \in Nat
  BY AlternativesFinite, FS_Subset, FS_CardinalityType DEF Expression
<1>2. n = {} \/ (n = kept /\ Cardinality(kept) <= MaxAlternatives)
  <2>1. n = IF Cardinality(kept) > MaxAlternatives THEN {} ELSE kept
    BY DEF NormalizeExpression, FalseExpression
  <2> HIDE DEF kept, n
  <2> QED BY <1>1, <2>1, ScopeAssumption
<1>3. IsFiniteSet(n) /\ Cardinality(n) \in Nat /\ Cardinality(n) <= MaxAlternatives
  BY <1>1, <1>2, FS_EmptySet, ScopeAssumption
<1>4. n \subseteq e /\ n \in Expression /\ \A a \in n : {} \notin a.needs
  BY <1>2 DEF Expression
<1> QED BY <1>3, <1>4

\* What is normalised already stays.
LEMMA NormalizedTwice ==
  ASSUME NEW e \in Expression, Cardinality(e) <= MaxAlternatives, \A a \in e : {} \notin a.needs
  PROVE  NormalizeExpression(e) = e
<1>1. {a \in e : {} \notin a.needs} = e
  OBVIOUS
<1>2. Cardinality(e) \in Nat
  BY AlternativesFinite, FS_Subset, FS_CardinalityType DEF Expression
<1> QED BY <1>1, <1>2, ScopeAssumption DEF NormalizeExpression

LEMMA FromScopesIs ==
  ASSUME NEW scopes \in SUBSET Scope, NEW denied \in SUBSET Scope
  PROVE  \E a \in Alternative : FromScopes(scopes, denied) = {a} /\ {} \notin a.needs
<1> DEFINE a == [needs |-> IF scopes = {} THEN {} ELSE {scopes}, denied |-> denied]
<1>1. a \in Alternative /\ {} \notin a.needs
  BY DEF Alternative
<1> QED BY <1>1 DEF FromScopes

\* A caller is denied by two lists if one of them denies it.
LEMMA DeniedByEither ==
  ASSUME NEW c \in Context, NEW d \in SUBSET Scope, NEW f \in SUBSET Scope
  PROVE  Allows(c, {}, d \cup f) <=> Allows(c, {}, d) /\ Allows(c, {}, f)
BY DEF Allows, Intersects

\* Both of an alternative and an expression are what each of them is.
LEMMA BothAlternatives ==
  ASSUME NEW c \in Context, NEW a \in Alternative, NEW b \in Alternative
  PROVE  AllowsAlternative(c, [needs |-> a.needs \cup b.needs, denied |-> a.denied \cup b.denied])
            <=> AllowsAlternative(c, a) /\ AllowsAlternative(c, b)
<1>1. a.denied \in SUBSET Scope /\ b.denied \in SUBSET Scope
  BY DEF Alternative
<1>2. Allows(c, {}, a.denied \cup b.denied) <=> Allows(c, {}, a.denied) /\ Allows(c, {}, b.denied)
  BY <1>1, DeniedByEither
<1> QED BY <1>2, Zenon DEF AllowsAlternative

\* Both of two expressions, when the first has one alternative.
Joined(a, f) == {[needs |-> a.needs \cup b.needs, denied |-> a.denied \cup b.denied]
                    : b \in NormalizeExpression(f)}

LEMMA AndIs ==
  ASSUME NEW a \in Alternative, {} \notin a.needs, NEW f \in Expression
  PROVE  /\ And({a}, f) = Joined(a, f) /\ Joined(a, f) \in Expression
         /\ NormalizeExpression(Joined(a, f)) = Joined(a, f)
<1> DEFINE right == NormalizeExpression(f)
           Both(b) == [needs |-> a.needs \cup b.needs, denied |-> a.denied \cup b.denied]
<1>1. {a} \in Expression /\ Cardinality({a}) = 1
  BY FS_Singleton DEF Expression
<1>2. NormalizeExpression({a}) = {a}
  BY <1>1, NormalizedTwice, ScopeAssumption
<1>3. /\ right \in Expression /\ IsFiniteSet(right)
      /\ Cardinality(right) \in Nat /\ Cardinality(right) <= MaxAlternatives
      /\ \A b \in right : {} \notin b.needs
  BY Normalized
<1>5. And({a}, f) = {Both(b) : b \in right}
  <2> DEFINE Of(left) == {[needs |-> x.needs \cup b.needs, denied |-> x.denied \cup b.denied]
                             : x \in left, b \in right}
             l == NormalizeExpression({a})
  <2>1. And({a}, f) = IF Cardinality(l) * Cardinality(right) > MaxAlternatives
                      THEN FalseExpression ELSE Of(l)
    BY DEF And
  <2>2. l = {a} /\ ~(Cardinality(l) * Cardinality(right) > MaxAlternatives)
    <3> HIDE DEF right
    <3> QED BY <1>1, <1>2, <1>3, ScopeAssumption
  <2>3. And({a}, f) = Of({a})
    <3> HIDE DEF Of, right, l
    <3>1. And({a}, f) = Of(l)
      BY <2>1, <2>2
    <3> QED BY <2>2, <3>1
  <2>4. Of({a}) = {Both(b) : b \in right}
    <3> HIDE DEF right
    <3> QED OBVIOUS
  <2> HIDE DEF Of, right, Both
  <2> QED BY <2>3, <2>4
<1>6. Joined(a, f) \in Expression
  <2>1. \A b \in right : Both(b) \in Alternative
    BY <1>3 DEF Expression, Alternative
  <2> QED BY <2>1 DEF Joined, Expression
<1>7. Cardinality(Joined(a, f)) <= MaxAlternatives
  <2>1. /\ Cardinality({Both(b) : b \in right}) <= Cardinality(right) /\ IsFiniteSet({Both(b) : b \in right})
    <3> DEFINE both == [b \in right |-> Both(b)]
               T == {both[b] : b \in right}
    <3>1. DOMAIN both = right
      OBVIOUS
    <3>2. T = {Both(b) : b \in right}
      OBVIOUS
    <3>3. Cardinality(T) <= Cardinality(right) /\ IsFiniteSet(T)
      <4>1. IsFiniteSet(right)
        BY <1>3
      <4> HIDE DEF right, both
      <4> QED BY <4>1, <3>1, ImageFinite
    <3> HIDE DEF right, Both, both, T
    <3> QED BY <3>2, <3>3
  <2>2. Cardinality(Joined(a, f)) \in Nat
    BY <2>1, FS_CardinalityType DEF Joined
  <2> QED BY <2>1, <2>2, <1>3, ScopeAssumption DEF Joined
<1>8. \A x \in Joined(a, f) : {} \notin x.needs
  BY <1>3 DEF Joined
<1> QED BY <1>5, <1>6, <1>7, <1>8, NormalizedTwice DEF Joined

\* Whom both expressions allow is whom their conjunction allows.
LEMMA AndAllows ==
  ASSUME NEW c \in Context, NEW a \in Alternative, {} \notin a.needs, NEW f \in Expression
  PROVE  AllowsExpression(c, And({a}, f)) <=> AllowsExpression(c, {a}) /\ AllowsExpression(c, f)
<1> DEFINE right == NormalizeExpression(f)
           Both(b) == [needs |-> a.needs \cup b.needs, denied |-> a.denied \cup b.denied]
<1>1. NormalizeExpression(And({a}, f)) = {Both(b) : b \in right}
  BY AndIs DEF Joined
<1>2. NormalizeExpression({a}) = {a}
  <2>1. {a} \in Expression /\ Cardinality({a}) = 1
    BY FS_Singleton DEF Expression
  <2> QED BY <2>1, NormalizedTwice, ScopeAssumption
<1>3. right \subseteq Alternative
  BY Normalized DEF Expression
<1>4. \A b \in right : AllowsAlternative(c, Both(b)) <=> AllowsAlternative(c, a) /\ AllowsAlternative(c, b)
  BY <1>3, BothAlternatives
<1>5. AllowsExpression(c, And({a}, f))
         <=> right # {} /\ (c.admin \/ \E b \in right : AllowsAlternative(c, Both(b)))
  <2> HIDE DEF right, Both
  <2> QED BY <1>1, Zenon DEF AllowsExpression
<1>6. AllowsExpression(c, {a}) <=> c.admin \/ AllowsAlternative(c, a)
  BY <1>2 DEF AllowsExpression
<1>7. AllowsExpression(c, f) <=> right # {} /\ (c.admin \/ \E b \in right : AllowsAlternative(c, b))
  BY DEF AllowsExpression
<1> HIDE DEF right, Both
<1> QED BY <1>4, <1>5, <1>6, <1>7, Zenon

\* A set of at most one requirement that is not empty is one requirement.
LEMMA OneRequirement ==
  ASSUME NEW a \in Alternative, Cardinality(a.needs) <= 1, a.needs # {}
  PROVE  \E need \in SUBSET Scope : a.needs = {need}
<1>1. IsFiniteSet(SUBSET Scope)
  BY ScopeAssumption, FS_SUBSET
<1>2. a.needs \in SUBSET (SUBSET Scope)
  BY DEF Alternative
<1>3. IsFiniteSet(a.needs)
  BY <1>1, <1>2, FS_Subset
<1>4. Cardinality(a.needs) \in Nat /\ Cardinality(a.needs) # 0
  BY <1>3, FS_CardinalityType, FS_EmptySet
<1>5. Cardinality(a.needs) = 1
  BY <1>4
<1>6. PICK x : a.needs = {x}
  BY <1>3, <1>5, FS_Singleton
<1> QED BY <1>2, <1>6

\* The lists that a router publishes for readers that do not know expressions
\* admit nobody whom the expression does not allow (LegacyProjection).
LEMMA LegacyIsSafe ==
  ASSUME NEW c \in Context, NEW e \in Expression,
         NEW s \in SetToSeqs(NormalizeExpression(e)),
         Allows(c, LegacyProjection(s).scopes, LegacyProjection(s).denied)
  PROVE  AllowsExpression(c, e)
<1> DEFINE n == NormalizeExpression(e)
           Unlike(i) == s[i].denied # s[1].denied \/ Cardinality(s[i].needs) > 1
           last == Cardinality(n)
<1>1. /\ last \in Nat /\ n \subseteq Alternative
      /\ \A a \in n : {} \notin a.needs
  BY Normalized DEF Expression
<1>2. s \in [1 .. last -> n]
  BY DEF SetToSeqs
<1>3. DOMAIN s = 1 .. last /\ \A i \in 1 .. last : s[i] \in n /\ s[i] \in Alternative
  BY <1>1, <1>2
<1>4. \A i \in 1 .. last : Cardinality(s[i].needs) \in Nat
  <2>1. IsFiniteSet(SUBSET Scope)
    BY ScopeAssumption, FS_SUBSET
  <2> SUFFICES ASSUME NEW i \in 1 .. last PROVE Cardinality(s[i].needs) \in Nat
    OBVIOUS
  <2>2. s[i].needs \in SUBSET (SUBSET Scope)
    BY <1>3 DEF Alternative
  <2> QED BY <2>1, <2>2, FS_Subset, FS_CardinalityType
<1>5. ~Allows(c, Nobody.scopes, Nobody.denied)
  BY DEF Nobody, Projection, Allows
<1>6. s # <<>> /\ ~\E i \in DOMAIN s : Wildcard \in s[i].denied
  BY <1>5, Zenon DEF LegacyProjection
<1>7. last >= 1
  <2>1. s \in Seq(n) /\ Len(s) = last
    BY <1>1, <1>2, <1>3, LenProperties
  <2> HIDE DEF last, n
  <2> QED BY <1>1, <1>6, <2>1, EmptySeq
<1>8. n # {} /\ 1 \in 1 .. last
  BY <1>1, <1>3, <1>7
<1> SUFFICES ASSUME ~c.admin PROVE \E a \in n : AllowsAlternative(c, a)
  BY <1>8 DEF AllowsExpression
<1> HIDE DEF n, last
<1>9. CASE \E i \in DOMAIN s : s[i].needs = {} /\ \A j \in 1 .. i : ~Unlike(j)
  <2>1. PICK i \in 1 .. last : s[i].needs = {} /\ \A j \in 1 .. i : ~Unlike(j)
    BY <1>3, <1>9
  <2>2. s[i].denied = s[1].denied
    BY <2>1
  <2>3. LegacyProjection(s) = Projection({}, s[1].denied)
    BY <1>6, <1>9 DEF LegacyProjection
  <2>4. Allows(c, {}, s[1].denied)
    BY <2>3 DEF Projection
  <2>5. AllowsAlternative(c, s[i])
    BY <2>1, <2>2, <2>4 DEF AllowsAlternative
  <2> QED BY <1>3, <2>5
<1>10. CASE ~\E i \in DOMAIN s : s[i].needs = {} /\ \A j \in 1 .. i : ~Unlike(j)
  <2> DEFINE all == UNION UNION {s[i].needs : i \in DOMAIN s}
  <2>1. ~\E i \in DOMAIN s : Unlike(i)
    BY <1>5, <1>6, <1>10, Zenon DEF LegacyProjection
  <2>2. LegacyProjection(s) = Projection(all, s[1].denied)
    BY <1>6, <1>10, <2>1 DEF LegacyProjection
  <2>3. Allows(c, all, s[1].denied)
    BY <2>2 DEF Projection
  <2>4. \A i \in 1 .. last : /\ s[i].denied = s[1].denied
                              /\ \E need \in SUBSET Scope : s[i].needs = {need} /\ need # {}
    <3> SUFFICES ASSUME NEW i \in 1 .. last
                 PROVE  /\ s[i].denied = s[1].denied
                        /\ \E need \in SUBSET Scope : s[i].needs = {need} /\ need # {}
      OBVIOUS
    <3>1. ~Unlike(i) /\ \A j \in 1 .. i : ~Unlike(j)
      <4>1. 1 .. i \subseteq 1 .. last
        BY <1>1
      <4>2. \A j \in 1 .. last : ~Unlike(j)
        BY <1>3, <2>1
      <4> HIDE DEF Unlike
      <4> QED BY <4>1, <4>2
    <3>2. s[i].needs # {}
      BY <1>3, <1>10, <3>1
    <3>3. Cardinality(s[i].needs) <= 1
      BY <1>4, <3>1
    <3>4. PICK need \in SUBSET Scope : s[i].needs = {need}
      BY <1>3, <3>2, <3>3, OneRequirement
    <3>5. need # {}
      BY <1>1, <1>3, <3>4
    <3> QED BY <3>1, <3>4, <3>5
  <2>5. \A i \in 1 .. last : \A need \in s[i].needs : need \subseteq all
    BY <1>3
  <2>6. \A x \in all : \E i \in 1 .. last : \E need \in s[i].needs : x \in need
    BY <1>3
  <2> HIDE DEF all, Unlike
  <2>7. PICK i \in 1 .. last : \E need \in s[i].needs :
                Wildcard \in c.allowed \/ Intersects(c.allowed, need)
    <3>1. PICK first \in SUBSET Scope : s[1].needs = {first} /\ first # {}
      BY <1>8, <2>4
    <3>2. CASE Wildcard \in c.allowed
      BY <1>8, <3>1, <3>2
    <3>3. CASE all = {}
      BY <1>8, <2>5, <3>1, <3>3
    <3>4. CASE Intersects(c.allowed, all) /\ Wildcard \notin c.allowed
      <4>1. PICK x \in all : x = Wildcard \/ x \in c.allowed
        BY <3>4 DEF Intersects
      <4>2. PICK i \in 1 .. last : \E need \in s[i].needs : x \in need
        BY <2>6
      <4>3. PICK need \in s[i].needs : x \in need
        BY <4>2
      <4>4. Intersects(c.allowed, need)
        BY <3>4, <4>1, <4>3 DEF Intersects
      <4> QED BY <4>3, <4>4
    <3> QED BY <2>3, <3>2, <3>3, <3>4 DEF Allows
  <2>8. PICK need \in s[i].needs : Wildcard \in c.allowed \/ Intersects(c.allowed, need)
    BY <2>7
  <2>9. s[i].needs = {need} /\ need \subseteq all
    BY <2>4, <2>5
  <2>10. Allows(c, need, {})
    <3>1. ~Intersects(c.denied, need)
      BY <2>3, <2>9 DEF Allows, Intersects
    <3>2. NoMatch \notin need /\ Wildcard \notin c.denied /\ ~Intersects(c.allowed, {})
      BY <2>3, <2>9 DEF Allows, Intersects
    <3> QED BY <2>8, <3>1, <3>2 DEF Allows
  <2>11. Allows(c, {}, s[i].denied)
    BY <2>3, <2>4 DEF Allows, Intersects
  <2>12. AllowsAlternative(c, s[i])
    BY <2>9, <2>10, <2>11 DEF AllowsAlternative
  <2> QED BY <1>3, <2>12
<1> QED BY <1>9, <1>10

-----------------------------------------------------------------------------
(* Calls of other routers: what they carry.                                *)

\* A scope is known, or nobody has it.
Guards(x) == x.known \/ x.scope = FalseExpression

GoodSnapshot(s) ==
  /\ s.models \subseteq Model /\ s.scope \in Expression /\ s.known \in BOOLEAN /\ Guards(s)
  /\ DOMAIN s.scopes \subseteq s.models /\ DOMAIN s.weights \subseteq s.models

CallFields == {"pc", "snap", "ok", "scope", "known", "gone", "new", "model", "rpm"}

Call(x) ==
  /\ DOMAIN x = CallFields /\ GoodSnapshot(x.snap)
  /\ x.scope \in Expression /\ x.known \in BOOLEAN

CallsAre ==
  /\ health \in [Proxies -> Healths]
  /\ DOMAIN fetch = Fetchers /\ \A t \in Fetchers : Call(fetch[t])
  /\ DOMAIN remote = Proxies /\ \A p \in Proxies : remote[p] = NoList \/ GoodSnapshot(remote[p])

LEMMA ClosedIsGood == GoodSnapshot(ClosedSnapshot)
<1>1. DOMAIN <<>> = {}
  OBVIOUS
<1> QED BY <1>1 DEF GoodSnapshot, ClosedSnapshot, Guards, FalseExpression, Expression

LEMMA AnyoneIs == Anyone \in Expression
BY DEF Anyone, NoConstraint, Expression, Alternative

LEMMA IdleIsCall == Call(Idle) /\ Idle.pc = "idle" /\ Idle.snap = ClosedSnapshot
<1>1. DOMAIN Idle = CallFields
  BY DEF Idle, CallFields
<1>2. Idle.snap = ClosedSnapshot /\ Idle.scope = Anyone /\ Idle.known = FALSE /\ Idle.pc = "idle"
  BY DEF Idle
<1> QED BY <1>1, <1>2, ClosedIsGood, AnyoneIs, Zenon DEF Call

LEMMA OrIs ==
  ASSUME NEW f, \A x \in DOMAIN f : f[x] \in Expression
  PROVE  Or(f) \in Expression
<1>1. \A x \in DOMAIN f : NormalizeExpression(f[x]) \subseteq Alternative
  BY Normalized DEF Expression
<1>2. UNION {NormalizeExpression(f[x]) : x \in DOMAIN f} \in Expression
  BY <1>1 DEF Expression
<1>3. FalseExpression \in Expression
  BY DEF FalseExpression, Expression
<1>4. Or(f) = FalseExpression \/ Or(f) = UNION {NormalizeExpression(f[x]) : x \in DOMAIN f}
  BY DEF Or
<1> QED BY <1>2, <1>3, <1>4, Zenon

LEMMA SnapshotIsGood ==
  ASSUME NEW p \in Proxies, NEW h \in Healths
  PROVE  GoodSnapshot(Snapshot(p, h)) /\ GoodSnapshot(LegacySnapshot(h))
<1>1. \A r \in h.rows : r.model \in Model /\ r.scope \in Expression
  BY RegistryAssumption
<1>2. GoodSnapshot(LegacySnapshot(h))
  <2>1. DOMAIN <<>> = {}
    OBVIOUS
  <2> QED BY <1>1, <2>1, AnyoneIs DEF GoodSnapshot, LegacySnapshot, Guards
<1>3. Or([r \in Rows(p, h) |-> r.scope]) \in Expression
  <2> DEFINE f == [r \in Rows(p, h) |-> r.scope]
  <2>1. \A x \in DOMAIN f : f[x] \in Expression
    BY <1>1 DEF Rows
  <2> HIDE DEF f
  <2>2. Or(f) \in Expression
    BY <2>1, OrIs
  <2> QED BY <2>2 DEF f
<1>4. ModelsOf(p, h) \subseteq Model
  BY <1>1 DEF ModelsOf, Rows
<1> DEFINE s == Snapshot(p, h)
<1>5. /\ s.models = ModelsOf(p, h) /\ s.scope = Or([r \in Rows(p, h) |-> r.scope]) /\ s.known = TRUE
      /\ DOMAIN s.scopes = ModelsOf(p, h) /\ DOMAIN s.weights = ModelsOf(p, h)
  BY DEF Snapshot
<1> HIDE DEF s
<1>6. GoodSnapshot(s)
  BY <1>3, <1>4, <1>5 DEF GoodSnapshot, Guards
<1> QED BY <1>2, <1>6 DEF s

\* One call changes.
Moves(t, y) == fetch' = [fetch EXCEPT ![t] = y]

LEMMA CallMoves ==
  ASSUME CallsAre, NEW t \in Fetchers, NEW y, Call(y), Moves(t, y)
  PROVE  /\ DOMAIN fetch' = Fetchers /\ fetch'[t] = y
         /\ \A u \in Fetchers : Call(fetch'[u]) /\ (u # t => fetch'[u] = fetch[u])
BY DEF CallsAre, Moves

LEMMA FetcherOf ==
  ASSUME NEW p \in Proxies
  PROVE  Updater(p) \in Fetchers /\ Reader(p) \in Fetchers
BY DEF Fetchers

\* The updater's own notes on a call do not matter to what the call carries.
LEMMA NotesKeepCall ==
  ASSUME NEW x, Call(x), NEW y, DOMAIN y = DOMAIN x,
         y.snap = x.snap, y.scope = x.scope, y.known = x.known
  PROVE  Call(y)
BY DEF Call

\* Tables and lists do not change.
Untouched == UNCHANGED <<tables, allModels, listed, scoped>>

RemoteStays == \A q \in Proxies : remote'[q] = remote[q] \/ GoodSnapshot(remote'[q])

\* What one step of a call does.
CallStep(t, p) ==
  /\ UNCHANGED <<world, phase, balancer, limits, pairs, sync, lister>>
  /\ DOMAIN remote' = Proxies /\ RemoteStays
  /\ fetch[t].pc \in {"start", "apply", "store", "failed", "close"}
  /\ \E y : /\ Call(y) /\ Moves(t, y) /\ y.pc \in {"apply", "store", "failed", "close", "done"}
            /\ \/ /\ Untouched
                  /\ y.pc = "done" => ~Accepts(p) \/ creds[Min(Entries(p))].known
               \/ \E s : GoodSnapshot(s) /\ Accepts(p) /\ ApplySnapshot(p, s)

LEMMA FinishMoves ==
  ASSUME CallsAre, NEW t \in Fetchers, NEW ok, Finish(t, ok)
  PROVE  \E y : Call(y) /\ Moves(t, y) /\ y.pc = "done"
<1> DEFINE x == fetch[t]
           snap == IF ok /\ t[1] = "updater" THEN x.snap ELSE ClosedSnapshot
           y == [x EXCEPT !.pc = "done", !.ok = ok, !.snap = snap]
<1>1. Call(x)
  BY DEF CallsAre
<1>2. fetch' = [fetch EXCEPT ![t] = y]
  BY DEF Finish, CallsAre
<1>3. GoodSnapshot(snap)
  BY <1>1, ClosedIsGood DEF Call
<1> HIDE DEF x, snap
<1>4. DOMAIN y = CallFields /\ y.pc = "done" /\ y.snap = snap /\ y.scope = x.scope /\ y.known = x.known
  BY <1>1 DEF Call, CallFields
<1> HIDE DEF y
<1>5. Call(y)
  BY <1>1, <1>3, <1>4 DEF Call
<1> QED BY <1>2, <1>4, <1>5 DEF Moves

LEMMA FetchDoes ==
  ASSUME CallsAre, NEW p \in Proxies, NEW t \in Fetchers, Fetch(t, p)
  PROVE  CallStep(t, p)
<1> DEFINE x == fetch[t]
           h == health[p]
<1>1. Call(x) /\ h \in Healths
  BY DEF CallsAre
<1>2. PICK pc, snap :
        /\ pc \in {"apply", "store", "failed"} /\ GoodSnapshot(snap)
        /\ fetch' = [fetch EXCEPT ![t].pc = pc, ![t].snap = snap]
  <2>1. Answer(t, p)
    BY DEF Fetch
  <2>2. CASE remote[p] # NoList
    <3>1. fetch' = [fetch EXCEPT ![t].pc = "apply", ![t].snap = remote[p]]
      BY <2>1, <2>2 DEF Answer
    <3>2. GoodSnapshot(remote[p])
      BY <2>2 DEF CallsAre
    <3> QED BY <3>1, <3>2
  <2>3. CASE remote[p] = NoList /\ h.kind = "up"
    <3>1. fetch' = [fetch EXCEPT ![t].pc = "store", ![t].snap = Snapshot(p, h)]
      BY <2>1, <2>3 DEF Answer
    <3> QED BY <1>1, <3>1, SnapshotIsGood
  <2>4. CASE remote[p] = NoList /\ h.kind # "up" /\ h.kind = "legacy" /\ AllowsLegacy(p)
    <3>1. fetch' = [fetch EXCEPT ![t].pc = "store", ![t].snap = LegacySnapshot(h)]
      BY <2>1, <2>4 DEF Answer
    <3> QED BY <1>1, <3>1, SnapshotIsGood
  <2>5. CASE remote[p] = NoList /\ h.kind # "up" /\ ~(h.kind = "legacy" /\ AllowsLegacy(p))
    <3>1. fetch' = [fetch EXCEPT ![t].pc = "failed", ![t].snap = ClosedSnapshot]
      BY <2>1, <2>5 DEF Answer
    <3> QED BY <3>1, ClosedIsGood
  <2> QED BY <2>2, <2>3, <2>4, <2>5
<1> DEFINE y == [x EXCEPT !.pc = pc, !.snap = snap]
<1>3. fetch' = [fetch EXCEPT ![t] = y]
  BY <1>2 DEF CallsAre
<1>4. UNCHANGED <<world, phase, balancer, limits, pairs, sync, lister, remote>> /\ Untouched /\ x.pc = "start"
  BY DEF Fetch, Untouched, tables, caches
<1> HIDE DEF x, h
<1>5. DOMAIN y = CallFields /\ y.pc = pc /\ y.snap = snap /\ y.scope = x.scope /\ y.known = x.known
  BY <1>1 DEF Call, CallFields
<1> HIDE DEF y
<1>6. Call(y) /\ Moves(t, y) /\ y.pc \in {"apply", "store", "failed"}
  BY <1>1, <1>2, <1>3, <1>5 DEF Call, Moves
<1>7. DOMAIN remote' = Proxies /\ RemoteStays
  BY <1>4 DEF CallsAre, RemoteStays
<1> QED BY <1>4, <1>6, <1>7 DEF CallStep, x

LEMMA ApplyDoes ==
  ASSUME CallsAre, NEW p \in Proxies, NEW t \in Fetchers, Apply(t, p)
  PROVE  CallStep(t, p)
<1> DEFINE s == fetch[t].snap
<1>1. /\ UNCHANGED <<world, phase, balancer, pairs, sync, lister>> /\ fetch[t].pc \in {"apply", "store"}
      /\ GoodSnapshot(s)
  BY DEF Apply, CallsAre, Call
<1>2. CASE Accepts(p)
  <2>1. /\ ApplySnapshot(p, s) /\ Finish(t, TRUE)
        /\ remote' = remote \/ remote' = [remote EXCEPT ![p] = s]
    BY <1>2 DEF Apply
  <2>2. PICK y : Call(y) /\ Moves(t, y) /\ y.pc = "done"
    BY <2>1, FinishMoves
  <2> HIDE DEF s
  <2>3. limits' = limits
    BY <2>1 DEF ApplySnapshot
  <2>4. DOMAIN remote' = Proxies /\ RemoteStays
    BY <1>1, <2>1 DEF CallsAre, RemoteStays
  <2> QED BY <1>1, <1>2, <2>1, <2>2, <2>3, <2>4 DEF CallStep
<1>3. CASE ~Accepts(p)
  <2>1. Finish(t, FALSE) /\ UNCHANGED <<tables, caches>>
    BY <1>3 DEF Apply
  <2>2. PICK y : Call(y) /\ Moves(t, y) /\ y.pc = "done"
    BY <2>1, FinishMoves
  <2>3. Untouched /\ UNCHANGED <<limits, remote>>
    BY <2>1 DEF Untouched, tables, caches
  <2>4. DOMAIN remote' = Proxies /\ RemoteStays
    BY <2>3 DEF CallsAre, RemoteStays
  <2> QED BY <1>1, <1>3, <2>2, <2>3, <2>4 DEF CallStep
<1> QED BY <1>2, <1>3

LEMMA LookDoes ==
  ASSUME CallsAre, NEW p \in Proxies, NEW t \in Fetchers, LookUnknown(t, p)
  PROVE  CallStep(t, p)
<1> DEFINE x == fetch[t]
<1>1. /\ UNCHANGED <<world, phase, balancer, pairs, sync, lister, limits, remote>> /\ x.pc = "failed"
      /\ Untouched
  BY DEF LookUnknown, Untouched, tables, caches
<1>2. DOMAIN remote' = Proxies /\ RemoteStays
  BY <1>1 DEF CallsAre, RemoteStays
<1>3. CASE creds[Min(Entries(p))].known
  <2>1. Finish(t, FALSE)
    BY <1>3 DEF LookUnknown
  <2>2. PICK y : Call(y) /\ Moves(t, y) /\ y.pc = "done"
    BY <2>1, FinishMoves
  <2> QED BY <1>1, <1>2, <1>3, <2>2 DEF CallStep
<1>4. CASE ~creds[Min(Entries(p))].known
  <2> DEFINE y == [x EXCEPT !.pc = "close"]
  <2>1. Moves(t, y)
    BY <1>4 DEF LookUnknown, CallsAre, Moves
  <2>2. Call(x)
    BY DEF CallsAre
  <2>3. Call(y) /\ y.pc = "close"
    BY <2>2 DEF Call, CallFields
  <2> HIDE DEF y
  <2> QED BY <1>1, <1>2, <2>1, <2>3 DEF CallStep
<1> QED BY <1>3, <1>4

LEMMA CloseDoes ==
  ASSUME CallsAre, NEW p \in Proxies, NEW t \in Fetchers, FailClosed(t, p)
  PROVE  CallStep(t, p)
<1>1. /\ UNCHANGED <<world, phase, balancer, pairs, sync, lister, remote>> /\ fetch[t].pc = "close"
      /\ Finish(t, FALSE)
      /\ IF Accepts(p) THEN ApplySnapshot(p, ClosedSnapshot) ELSE UNCHANGED <<tables, allModels, listed, scoped>>
  BY DEF FailClosed
<1>2. PICK y : Call(y) /\ Moves(t, y) /\ y.pc = "done"
  BY <1>1, FinishMoves
<1>3. DOMAIN remote' = Proxies /\ RemoteStays
  BY <1>1 DEF CallsAre, RemoteStays
<1>4. limits' = limits
  BY <1>1 DEF ApplySnapshot, tables
<1>5. \/ Untouched /\ ~Accepts(p)
      \/ Accepts(p) /\ ApplySnapshot(p, ClosedSnapshot)
  BY <1>1, Zenon DEF Untouched
<1> QED BY <1>1, <1>2, <1>3, <1>4, <1>5, ClosedIsGood DEF CallStep

LEMMA CallDoes ==
  ASSUME CallsAre, NEW p \in Proxies, NEW t \in Fetchers, FetchStep(t, p)
  PROVE  CallStep(t, p)
BY FetchDoes, ApplyDoes, LookDoes, CloseDoes DEF FetchStep

-----------------------------------------------------------------------------
(* The manager's credentials: those of config.yaml first, in their order.  *)

\* The sequence made of a finite set lists each of its elements once.
LEMMA ListOfSet ==
  ASSUME NEW S, IsFiniteSet(S)
  PROVE  /\ Cardinality(S) \in Nat
         /\ SetToSeq(S) \in [1 .. Cardinality(S) -> S]
         /\ \A i, j \in 1 .. Cardinality(S) : SetToSeq(S)[i] = SetToSeq(S)[j] => i = j
         /\ \A x \in S : \E i \in 1 .. Cardinality(S) : SetToSeq(S)[i] = x
<1> DEFINE last == Cardinality(S)
           f == SetToSeq(S)
<1>1. last \in Nat /\ ExistsBijection(1 .. last, S)
  BY FS_CardinalityType
<1>2. \E g \in [1 .. last -> S] : IsInjective(g)
  BY <1>1 DEF ExistsBijection, Bijection, Injection, Surjection, IsInjective
<1>3. f \in [1 .. last -> S] /\ IsInjective(f)
  BY <1>2, Zenon DEF SetToSeq
<1>4. f \in Injection(1 .. last, S)
  BY <1>3 DEF Injection, IsInjective
<1>5. Cardinality(1 .. last) = last
  BY <1>1, FS_Interval
<1>6. f \in Surjection(1 .. last, S)
  <2> HIDE DEF f
  <2>1. Cardinality(1 .. last) = Cardinality(S) <=> f \in Surjection(1 .. last, S)
    <3> DEFINE D == 1 .. last
    <3>1. f \in Injection(D, S)
      BY <1>4
    <3> HIDE DEF D
    <3>2. Cardinality(D) = Cardinality(S) <=> f \in Surjection(D, S)
      BY <3>1, FS_Injection
    <3> QED BY <3>2 DEF D
  <2> QED BY <1>5, <2>1
<1> HIDE DEF f
<1>7. \A i, j \in 1 .. last : f[i] = f[j] => i = j
  BY <1>3 DEF IsInjective
<1>8. \A x \in S : \E i \in 1 .. last : f[i] = x
  BY <1>6 DEF Surjection
<1> QED BY <1>1, <1>3, <1>7, <1>8 DEF f

YamlCount == Cardinality(Yaml)
YamlAt(i) == SetToSeq(Yaml)[i]

\* Where the manager keeps the entry of a credential of config.yaml.
At(p) == CHOOSE i \in 1 .. YamlCount : YamlAt(i) = p

LEMMA AtIs ==
  /\ YamlCount \in Nat /\ \A i \in 1 .. YamlCount : YamlAt(i) \in Yaml
  /\ \A p \in Yaml : /\ At(p) \in 1 .. YamlCount /\ YamlAt(At(p)) = p
                     /\ \A i \in 1 .. YamlCount : YamlAt(i) = p => i = At(p)
<1>1. IsFiniteSet(Yaml)
  BY RegistryAssumption
<1>2. /\ YamlCount \in Nat /\ SetToSeq(Yaml) \in [1 .. YamlCount -> Yaml]
      /\ \A i, j \in 1 .. YamlCount : YamlAt(i) = YamlAt(j) => i = j
      /\ \A x \in Yaml : \E i \in 1 .. YamlCount : YamlAt(i) = x
  BY <1>1, ListOfSet DEF YamlCount, YamlAt
<1>3. \A i \in 1 .. YamlCount : YamlAt(i) \in Yaml
  BY <1>2 DEF YamlAt
<1>4. \A p \in Yaml : At(p) \in 1 .. YamlCount /\ YamlAt(At(p)) = p
  BY <1>2, Zenon DEF At
<1> QED BY <1>2, <1>3, <1>4

EntryFields == {"name", "src", "scope", "known"}

Entry(x) ==
  /\ DOMAIN x = EntryFields /\ x.src \in {"yaml", "db"}
  /\ x.scope \in Expression /\ x.known \in BOOLEAN

CredsAre ==
  \E k \in Nat :
    /\ YamlCount <= k /\ DOMAIN creds = 1 .. k
    /\ phase = "list" => k = YamlCount
    /\ \A i \in 1 .. k : Entry(creds[i]) /\ (i > YamlCount => creds[i].src = "db")
    /\ \A i \in 1 .. YamlCount : creds[i].name = YamlAt(i) /\ creds[i].src = "yaml"

\* The first entry of the name is that of config.yaml.
LEMMA EntryAt ==
  ASSUME CredsAre, NEW p \in Yaml
  PROVE  /\ At(p) \in DOMAIN creds /\ Min(Entries(p)) = At(p) /\ At(p) \in Entries(p)
         /\ Entry(creds[At(p)]) /\ creds[At(p)].name = p /\ creds[At(p)].src = "yaml"
<1>1. PICK k \in Nat :
        /\ YamlCount <= k /\ DOMAIN creds = 1 .. k
        /\ \A i \in 1 .. k : Entry(creds[i]) /\ (i > YamlCount => creds[i].src = "db")
        /\ \A i \in 1 .. YamlCount : creds[i].name = YamlAt(i) /\ creds[i].src = "yaml"
  BY DEF CredsAre
<1>2. /\ YamlCount \in Nat /\ At(p) \in 1 .. YamlCount /\ YamlAt(At(p)) = p
      /\ \A i \in 1 .. YamlCount : YamlAt(i) = p => i = At(p)
  BY AtIs
<1>3. At(p) \in Entries(p) /\ Entries(p) \subseteq 1 .. k
  BY <1>1, <1>2 DEF Entries
<1>4. \A i \in Entries(p) : At(p) <= i
  BY <1>1, <1>2 DEF Entries
<1>5. \A x \in Entries(p) : (\A y \in Entries(p) : x =< y) => x = At(p)
  BY <1>2, <1>3, <1>4
<1>6. Min(Entries(p)) = At(p)
  BY <1>3, <1>4, <1>5, Zenon DEF Min
<1> QED BY <1>1, <1>2, <1>3, <1>6

\* A set of numbers up to k that is not empty has a greatest one.
LEMMA GreatestNumber ==
  ASSUME NEW k \in Nat, NEW S \in SUBSET (1 .. k), S # {}
  PROVE  Max(S) \in S /\ \A y \in S : Max(S) >= y
<1> DEFINE R == {ss \in Nat \X Nat : ss[1] < ss[2]}
           T == {j \in 0 .. k : k - j \in S}
<1>1. IsWellFoundedOn(R, Nat)
  BY NatLessThanWellFounded, Zenon DEF OpToRel
<1>2. T # {} /\ T \in SUBSET Nat
  <2>1. PICK y \in S : TRUE
    OBVIOUS
  <2>2. k - y \in 0 .. k /\ k - (k - y) = y
    BY <2>1
  <2>3. k - y \in T
    BY <2>1, <2>2
  <2>4. T \subseteq 0 .. k
    OBVIOUS
  <2> HIDE DEF T
  <2>5. T \in SUBSET Nat
    BY <2>4
  <2> QED BY <2>3, <2>5
<1>3. PICK j \in T : \A m \in T : <<m, j>> \notin R
  <2> HIDE DEF R, T
  <2> QED BY <1>1, <1>2, WFMin, Zenon
<1>4. k - j \in S /\ \A y \in S : k - j >= y
  <2> SUFFICES ASSUME NEW y \in S PROVE k - j >= y
    OBVIOUS
  <2>1. k - y \in 0 .. k /\ k - (k - y) = y /\ j \in 0 .. k
    OBVIOUS
  <2>2. k - y \in T
    BY <2>1
  <2>3. <<k - y, j>> \notin R
    BY <1>3, <2>2
  <2>4. ~(k - y < j)
    <3> HIDE DEF T
    <3> QED BY <2>1, <2>3
  <2> QED BY <2>1, <2>4
<1>5. \E x \in S : \A y \in S : x >= y
  BY <1>4
<1> QED BY <1>5, Zenon DEF Max

LEMMA LastEntry ==
  ASSUME CredsAre, NEW c, Entries(c) # {}
  PROVE  Max(Entries(c)) \in Entries(c) /\ Max(Entries(c)) \in DOMAIN creds
<1>1. PICK k \in Nat : DOMAIN creds = 1 .. k
  BY DEF CredsAre
<1>2. Entries(c) \in SUBSET (1 .. k)
  BY <1>1 DEF Entries
<1> HIDE DEF Entries
<1>3. Max(Entries(c)) \in Entries(c)
  BY <1>2, GreatestNumber
<1> QED BY <1>1, <1>2, <1>3

\* What a snapshot does to them.
LEMMA CredsApplied ==
  ASSUME CredsAre, NEW p \in Proxies, NEW s, GoodSnapshot(s), ApplySnapshot(p, s), phase' = phase
  PROVE  /\ CredsAre' /\ DOMAIN creds' = DOMAIN creds /\ Guards(creds'[At(p)])
         /\ \A q \in Proxies : q # p => creds'[At(q)] = creds[At(q)]
<1>1. p \in Yaml /\ Proxies \subseteq Yaml
  BY RegistryAssumption
<1>2. /\ At(p) \in DOMAIN creds /\ Min(Entries(p)) = At(p) /\ Entry(creds[At(p)])
      /\ creds[At(p)].name = p /\ creds[At(p)].src = "yaml"
  BY <1>1, EntryAt
<1> DEFINE new == [creds[At(p)] EXCEPT !.scope = s.scope, !.known = s.known]
<1>3. creds' = [i \in DOMAIN creds |-> IF i = At(p) THEN new ELSE creds[i]]
  BY <1>2 DEF ApplySnapshot
<1>4. /\ Entry(new) /\ new.name = p /\ new.src = "yaml" /\ new.scope = s.scope /\ new.known = s.known
  BY <1>2 DEF Entry, EntryFields, GoodSnapshot
<1>5. Guards(new)
  BY <1>4 DEF GoodSnapshot, Guards
<1> HIDE DEF new
<1>6. /\ DOMAIN creds' = DOMAIN creds /\ creds'[At(p)] = new
      /\ \A i \in DOMAIN creds : i # At(p) => creds'[i] = creds[i]
  BY <1>2, <1>3
<1>7. \A q \in Proxies : q # p => creds'[At(q)] = creds[At(q)]
  <2> SUFFICES ASSUME NEW q \in Proxies, q # p PROVE creds'[At(q)] = creds[At(q)]
    OBVIOUS
  <2>1. At(q) # At(p) /\ At(q) \in DOMAIN creds
    BY <1>1, AtIs, EntryAt
  <2> QED BY <1>6, <2>1
<1>8. CredsAre'
  <2>1. PICK k \in Nat :
          /\ YamlCount <= k /\ DOMAIN creds = 1 .. k
          /\ phase = "list" => k = YamlCount
          /\ \A i \in 1 .. k : Entry(creds[i]) /\ (i > YamlCount => creds[i].src = "db")
          /\ \A i \in 1 .. YamlCount : creds[i].name = YamlAt(i) /\ creds[i].src = "yaml"
    BY DEF CredsAre
  <2>2. At(p) \in 1 .. YamlCount /\ YamlAt(At(p)) = p /\ YamlCount \in Nat
    BY <1>1, AtIs
  <2>3. \A i \in 1 .. k : Entry(creds'[i]) /\ (i > YamlCount => creds'[i].src = "db")
    BY <1>4, <1>6, <2>1, <2>2
  <2>4. \A i \in 1 .. YamlCount : creds'[i].name = YamlAt(i) /\ creds'[i].src = "yaml"
    BY <1>4, <1>6, <2>1, <2>2
  <2> QED BY <1>6, <2>1, <2>3, <2>4 DEF CredsAre
<1> QED BY <1>5, <1>6, <1>7, <1>8

\* What a reload does to them.
LEMMA CredsReloaded ==
  ASSUME CredsAre, IsFiniteSet(sync.creds), phase # "list", phase' = phase, SetCredentials
  PROVE  /\ CredsAre'
         /\ \A p \in Proxies : Guards(creds'[At(p)]) \/ creds'[At(p)] = creds[At(p)]
<1> DEFINE m == Cardinality(sync.creds)
           DBAt(i) == SetToSeq(sync.creds)[i]
           first == [i \in 1 .. YamlCount |-> YamlEntry(YamlAt(i))]
           second == [i \in 1 .. m |-> DBEntry(DBAt(i))]
           next == first \o second
           k == YamlCount + m
           old(c) == creds[Max(Entries(c))]
           same(e) == Entries(e.name) # {} /\ old(e.name).src = e.src
           carried(e) == IF same(e) THEN old(e.name)
                         ELSE IF Entries(e.name) # {} /\ e.src = "yaml" /\ e.name \in Proxies
                              THEN [e EXCEPT !.scope = FalseExpression]
                              ELSE e
<1>0. YamlEntries = first /\ EntriesOf(SetToSeq(sync.creds)) = second
  <2>1. YamlEntries = first
    BY Zenon DEF YamlEntries, YamlCount, YamlAt
  <2>2. DOMAIN SetToSeq(sync.creds) = 1 .. m
    BY ListOfSet
  <2>3. EntriesOf(SetToSeq(sync.creds)) = second
    BY <2>2, Zenon DEF EntriesOf
  <2> QED BY <2>1, <2>3
<1>1. creds' = [i \in DOMAIN next |-> carried(next[i])]
  <2>1. PICK list \in {YamlEntries \o EntriesOf(SetToSeq(sync.creds))} :
          creds' = [i \in DOMAIN list |-> carried(list[i])]
    BY Zenon DEF SetCredentials
  <2>2. list = next
    BY <1>0, Zenon
  <2> HIDE DEF next
  <2> QED BY <2>1, <2>2, Zenon
<1>2. YamlCount \in Nat /\ m \in Nat
  BY AtIs, ListOfSet
<1>3. /\ DOMAIN next = 1 .. k
      /\ \A i \in 1 .. YamlCount : next[i] = YamlEntry(YamlAt(i))
      /\ \A i \in 1 .. k : i > YamlCount => next[i] = DBEntry(DBAt(i - YamlCount))
  <2> DEFINE E == {YamlEntry(YamlAt(i)) : i \in 1 .. YamlCount} \cup {DBEntry(DBAt(i)) : i \in 1 .. m}
  <2> HIDE DEF m
  <2>1. first \in Seq(E) /\ Len(first) = YamlCount
    BY <1>2
  <2>2. second \in Seq(E) /\ Len(second) = m
    BY <1>2
  <2>3. /\ \A i \in 1 .. YamlCount : first[i] = YamlEntry(YamlAt(i))
        /\ \A i \in 1 .. m : second[i] = DBEntry(DBAt(i))
    OBVIOUS
  <2> HIDE DEF E, first, second, DBAt
  <2>4. /\ next \in Seq(E) /\ Len(next) = YamlCount + m
        /\ \A i \in 1 .. YamlCount + m : next[i] = IF i <= YamlCount THEN first[i] ELSE second[i - YamlCount]
    BY <2>1, <2>2, ConcatProperties
  <2> HIDE DEF next
  <2>5. DOMAIN next = 1 .. k
    BY <2>4, LenProperties
  <2>6. \A i \in 1 .. YamlCount : next[i] = YamlEntry(YamlAt(i))
    BY <1>2, <2>3, <2>4
  <2>7. ASSUME NEW i \in 1 .. k, i > YamlCount PROVE next[i] = DBEntry(DBAt(i - YamlCount))
    <3>1. i \in 1 .. YamlCount + m /\ ~(i <= YamlCount) /\ i - YamlCount \in 1 .. m
      BY <1>2, <2>7
    <3>2. next[i] = second[i - YamlCount]
      BY <2>4, <3>1
    <3> QED BY <2>3, <3>1, <3>2
  <2> QED BY <2>5, <2>6, <2>7
<1> HIDE DEF next, first, second, m, DBAt
<1>4. /\ \A c : LET e == YamlEntry(c) IN
                /\ Entry(e) /\ e.name = c /\ e.src = "yaml" /\ Entry([e EXCEPT !.scope = FalseExpression])
                /\ Guards([e EXCEPT !.scope = FalseExpression])
                /\ [e EXCEPT !.scope = FalseExpression].name = c
                /\ [e EXCEPT !.scope = FalseExpression].src = "yaml"
      /\ \A c : LET e == DBEntry(c) IN Entry(e) /\ e.name = c /\ e.src = "db"
  <2>1. FalseExpression \in Expression
    BY DEF FalseExpression, Expression
  <2> QED BY <2>1, AnyoneIs DEF YamlEntry, DBEntry, Entry, EntryFields, Guards
<1>5. PICK l \in Nat :
        /\ YamlCount <= l /\ DOMAIN creds = 1 .. l
        /\ \A i \in 1 .. l : Entry(creds[i]) /\ (i > YamlCount => creds[i].src = "db")
        /\ \A i \in 1 .. YamlCount : creds[i].name = YamlAt(i) /\ creds[i].src = "yaml"
  BY DEF CredsAre
<1>6. \A e : same(e) => /\ Entry(old(e.name)) /\ old(e.name).name = e.name /\ old(e.name).src = e.src
                        /\ Max(Entries(e.name)) \in 1 .. l
  <2> SUFFICES ASSUME NEW e, same(e)
               PROVE  /\ Entry(old(e.name)) /\ old(e.name).name = e.name /\ old(e.name).src = e.src
                      /\ Max(Entries(e.name)) \in 1 .. l
    OBVIOUS
  <2>1. Max(Entries(e.name)) \in Entries(e.name) /\ Max(Entries(e.name)) \in DOMAIN creds
    BY LastEntry
  <2> QED BY <1>5, <2>1 DEF Entries
<1>7. ASSUME NEW i \in 1 .. YamlCount
      PROVE  /\ Entry(creds'[i]) /\ creds'[i].name = YamlAt(i) /\ creds'[i].src = "yaml"
             /\ YamlAt(i) \in Proxies => Guards(creds'[i]) \/ creds'[i] = creds[At(YamlAt(i))]
  <2> DEFINE c == YamlAt(i)
             e == YamlEntry(c)
  <2>1. creds'[i] = carried(e)
    BY <1>1, <1>2, <1>3
  <2>2. Entry(e) /\ e.name = c /\ e.src = "yaml" /\ c \in Yaml
    BY <1>4, AtIs
  <2> HIDE DEF e, c
  <2>3. CASE same(e)
    <3>1. creds'[i] = old(c) /\ Entry(old(c)) /\ old(c).name = c /\ old(c).src = "yaml"
      BY <1>6, <2>1, <2>2, <2>3
    <3>2. Max(Entries(c)) \in 1 .. YamlCount
      <4>1. Max(Entries(c)) \in 1 .. l
        BY <1>6, <2>2, <2>3
      <4>2. creds[Max(Entries(c))].src # "db"
        BY <3>1
      <4>3. ~(Max(Entries(c)) > YamlCount)
        BY <1>5, <4>1, <4>2
      <4> QED BY <1>2, <4>1, <4>3
    <3>3. Max(Entries(c)) = At(c)
      BY <1>5, <2>2, <3>1, <3>2, AtIs
    <3> QED BY <3>1, <3>3 DEF c
  <2>4. CASE ~same(e) /\ Entries(c) # {} /\ c \in Proxies
    <3>1. creds'[i] = [e EXCEPT !.scope = FalseExpression]
      BY <2>1, <2>2, <2>4
    <3>2. Entry(creds'[i]) /\ creds'[i].name = c /\ creds'[i].src = "yaml" /\ Guards(creds'[i])
      BY <1>4, <3>1 DEF e
    <3> QED BY <3>2 DEF c
  <2>5. CASE ~same(e) /\ ~(Entries(c) # {} /\ c \in Proxies)
    <3>1. creds'[i] = e
      BY <2>1, <2>2, <2>5
    <3>2. c \notin Proxies
      BY <2>2, <2>5, EntryAt
    <3> QED BY <2>2, <3>1, <3>2 DEF c
  <2> QED BY <2>3, <2>4, <2>5
<1>8. ASSUME NEW i \in 1 .. k, i > YamlCount
      PROVE  Entry(creds'[i]) /\ creds'[i].src = "db"
  <2> DEFINE c == DBAt(i - YamlCount)
             e == DBEntry(c)
  <2>1. creds'[i] = carried(e)
    BY <1>1, <1>3, <1>8
  <2>2. Entry(e) /\ e.name = c /\ e.src = "db"
    BY <1>4
  <2> HIDE DEF e, c
  <2>3. CASE same(e)
    BY <1>6, <2>1, <2>2, <2>3
  <2>4. CASE ~same(e)
    BY <2>1, <2>2, <2>4
  <2> QED BY <2>3, <2>4
<1>9. DOMAIN creds' = 1 .. k
  BY <1>1, <1>3
<1>10. CredsAre'
  <2>1. k \in Nat /\ YamlCount <= k /\ 1 .. YamlCount \subseteq 1 .. k
    BY <1>2
  <2>2. \A i \in 1 .. k : Entry(creds'[i])
    BY <1>2, <1>7, <1>8
  <2> HIDE DEF k
  <2> QED BY <1>7, <1>8, <1>9, <2>1, <2>2 DEF CredsAre
<1>11. \A p \in Proxies : Guards(creds'[At(p)]) \/ creds'[At(p)] = creds[At(p)]
  <2> SUFFICES ASSUME NEW p \in Proxies PROVE Guards(creds'[At(p)]) \/ creds'[At(p)] = creds[At(p)]
    OBVIOUS
  <2>1. At(p) \in 1 .. YamlCount /\ YamlAt(At(p)) = p
    BY AtIs, RegistryAssumption
  <2> QED BY <1>7, <2>1
<1> QED BY <1>10, <1>11

-----------------------------------------------------------------------------
(* Types of what the syncer, the reader and the balancer keep.             *)

SyncIs ==
  /\ DOMAIN db = {"up", "creds", "rows"} /\ db.creds \subseteq DBNames /\ db.rows \subseteq DBRows
  /\ DOMAIN sync = {"pc", "creds", "rows", "left"} /\ IsFiniteSet(sync.creds) /\ IsFiniteSet(sync.rows)
  /\ sync.pc # "idle" => phase # "list"

ListerIs ==
  /\ DOMAIN lister = {"pc", "who", "left"}
  /\ lister.who \in Callers \cup {NoList} /\ lister.left \in Seq(Proxies)

BalancerIs ==
  \A p \in Proxies :
    /\ p \in DOMAIN balancer /\ DOMAIN balancer[p] = {"src", "scope", "known"}
    /\ balancer[p].scope \in Expression

LEMMA InitCalls == Init => CallsAre
<1> SUFFICES ASSUME Init PROVE CallsAre
  OBVIOUS
<1>1. /\ health \in [Proxies -> Healths] /\ fetch = [t \in Fetchers |-> Idle]
      /\ remote = [p \in Proxies |-> NoList]
  BY DEF Init
<1> QED BY <1>1, IdleIsCall DEF CallsAre

LEMMA InitCreds == Init => CredsAre
<1> SUFFICES ASSUME Init PROVE CredsAre
  OBVIOUS
<1>1. creds = [i \in 1 .. YamlCount |-> YamlEntry(YamlAt(i))]
  BY Zenon DEF Init, YamlEntries, YamlCount, YamlAt
<1>2. \A c : LET e == YamlEntry(c) IN Entry(e) /\ e.name = c /\ e.src = "yaml"
  BY AnyoneIs DEF YamlEntry, Entry, EntryFields
<1>3. YamlCount \in Nat
  BY AtIs
<1>4. DOMAIN creds = 1 .. YamlCount /\ \A i \in 1 .. YamlCount : creds[i] = YamlEntry(YamlAt(i))
  BY <1>1
<1>5. \A i \in 1 .. YamlCount : Entry(creds[i]) /\ creds[i].name = YamlAt(i) /\ creds[i].src = "yaml"
  BY <1>2, <1>4
<1> QED BY <1>3, <1>4, <1>5 DEF CredsAre

LEMMA InitOthers == Init => SyncIs /\ ListerIs /\ BalancerIs
<1> SUFFICES ASSUME Init PROVE SyncIs /\ ListerIs /\ BalancerIs
  OBVIOUS
<1>1. /\ db \in [up : {TRUE}, creds : {DBNames}, rows : {DBRows}]
      /\ sync = [pc |-> "idle", creds |-> {}, rows |-> {}, left |-> {}]
      /\ lister = [pc |-> "idle", who |-> NoList, left |-> <<>>]
      /\ balancer = [c \in Yaml |-> [src |-> "yaml", scope |-> Anyone, known |-> FALSE]]
  BY DEF Init, NoSync
<1>2. SyncIs
  BY <1>1, FS_EmptySet DEF SyncIs
<1>3. ListerIs
  BY <1>1 DEF ListerIs
<1>4. BalancerIs
  BY <1>1, AnyoneIs, RegistryAssumption DEF BalancerIs
<1> QED BY <1>2, <1>3, <1>4

\* What the steps of the updater and of the reader do to the calls.
LEMMA CopyMoves ==
  ASSUME CallsAre, CredsAre, NEW p \in Proxies, CopyScope(p)
  PROVE  \E y : /\ Call(y) /\ Moves(Updater(p), y) /\ y.pc = "copied"
                /\ y.scope = creds[At(p)].scope /\ y.known = creds[At(p)].known
<1> DEFINE t == Updater(p)
           x == fetch[t]
           entry == creds[At(p)]
           y == [x EXCEPT !.pc = "copied", !.scope = entry.scope, !.known = entry.known]
<1>1. t \in Fetchers /\ Call(x)
  BY FetcherOf DEF CallsAre
<1>2. Min(Entries(p)) = At(p) /\ Entry(entry)
  BY EntryAt, RegistryAssumption
<1>3. Moves(t, y)
  BY <1>1, <1>2 DEF CopyScope, CallsAre, Moves
<1> HIDE DEF x, entry
<1>4. Call(y) /\ y.pc = "copied" /\ y.scope = entry.scope /\ y.known = entry.known
  BY <1>1, <1>2 DEF Call, CallFields, Entry
<1> HIDE DEF y
<1> QED BY <1>3, <1>4 DEF entry

LEMMA UpdateMoves ==
  ASSUME CallsAre, NEW p \in Proxies, UpdateProviderScopes(p)
  PROVE  \E y : Call(y) /\ Moves(Updater(p), y) /\ y.pc \in {"limits", "idle"}
<1> DEFINE t == Updater(p)
           x == fetch[t]
<1>1. t \in Fetchers /\ Call(x)
  BY FetcherOf DEF CallsAre
<1>2. fetch' = [fetch EXCEPT ![t] = IF fetch[t].ok THEN [fetch[t] EXCEPT !.pc = "limits"] ELSE Idle]
  BY DEF UpdateProviderScopes
<1>3. CASE x.ok
  <2> DEFINE y == [x EXCEPT !.pc = "limits"]
  <2>1. Moves(t, y)
    BY <1>2, <1>3 DEF Moves
  <2> HIDE DEF x
  <2>2. Call(y) /\ y.pc = "limits"
    BY <1>1 DEF Call, CallFields
  <2> HIDE DEF y
  <2> QED BY <2>1, <2>2
<1>4. CASE ~x.ok
  BY <1>2, <1>4, IdleIsCall DEF Moves
<1> QED BY <1>3, <1>4

LEMMA LimitsMove ==
  ASSUME CallsAre, NEW p \in Proxies, UpdateLimits(p)
  PROVE  /\ UNCHANGED <<world, phase, balancer, tables, caches, sync, lister>>
         /\ fetch[Updater(p)].pc \in LimitSteps
         /\ \E y : /\ Call(y) /\ Moves(Updater(p), y) /\ y.pc \in LimitSteps \cup {"idle"}
                   /\ y.pc = "remove" => ~HasModel(p, y.model)
<1> DEFINE t == Updater(p)
           x == fetch[t]
<1>1. Call(x) /\ DOMAIN x = CallFields
  BY FetcherOf DEF CallsAre, Call
<1>2. \A y : LimitStep(p, y) => Moves(t, y) /\ UNCHANGED <<world, phase, balancer, tables, caches, sync, lister>>
  BY Zenon DEF LimitStep, Moves
<1>3. CASE GetAllModelPairs(p)
  <2>1. PICK gone, new :
          x.pc = "limits" /\ LimitStep(p, [x EXCEPT !.pc = "pairs", !.gone = gone, !.new = new])
    BY <1>3, Zenon DEF GetAllModelPairs
  <2> DEFINE y == [x EXCEPT !.pc = "pairs", !.gone = gone, !.new = new]
  <2> HIDE DEF x
  <2>2. /\ DOMAIN y = DOMAIN x /\ y.pc = "pairs"
        /\ y.snap = x.snap /\ y.scope = x.scope /\ y.known = x.known
    BY <1>1 DEF CallFields
  <2> HIDE DEF y
  <2> QED BY <1>1, <1>2, <2>1, <2>2, NotesKeepCall DEF LimitSteps, x, y
<1>4. CASE CheckPair(p)
  <2>1. PICK m \in x.gone :
          /\ x.pc = "pairs"
          /\ LimitStep(p, IF HasModel(p, m) THEN [x EXCEPT !.gone = @ \ {m}]
                          ELSE [x EXCEPT !.pc = "remove", !.model = m, !.gone = @ \ {m}])
    BY <1>4, Zenon DEF CheckPair
  <2> DEFINE y == IF HasModel(p, m) THEN [x EXCEPT !.gone = @ \ {m}]
                  ELSE [x EXCEPT !.pc = "remove", !.model = m, !.gone = @ \ {m}]
  <2> HIDE DEF x
  <2>2. /\ DOMAIN y = DOMAIN x /\ y.pc \in {x.pc, "remove"}
        /\ y.snap = x.snap /\ y.scope = x.scope /\ y.known = x.known
        /\ x.pc = "pairs" /\ y.pc = "remove" => y.model = m /\ ~HasModel(p, m)
    BY <1>1 DEF CallFields
  <2>3. LimitStep(p, y)
    BY <2>1 DEF x
  <2> HIDE DEF y
  <2> QED BY <1>1, <1>2, <2>1, <2>2, <2>3, NotesKeepCall DEF LimitSteps, x
<1>5. CASE RemoveModel(p)
  <2>1. x.pc = "remove" /\ LimitStep(p, [x EXCEPT !.pc = "pairs", !.model = NoList])
    BY <1>5, Zenon DEF RemoveModel
  <2> DEFINE y == [x EXCEPT !.pc = "pairs", !.model = NoList]
  <2> HIDE DEF x
  <2>2. /\ DOMAIN y = DOMAIN x /\ y.pc = "pairs"
        /\ y.snap = x.snap /\ y.scope = x.scope /\ y.known = x.known
    BY <1>1 DEF CallFields
  <2> HIDE DEF y
  <2> QED BY <1>1, <1>2, <2>1, <2>2, NotesKeepCall DEF LimitSteps, x, y
<1>6. CASE GetModelRPM(p)
  <2>1. PICK m, rpm :
          x.pc = "pairs" /\ LimitStep(p, [x EXCEPT !.pc = "add", !.model = m, !.rpm = rpm, !.new = @ \ {m}])
    BY <1>6, Zenon DEF GetModelRPM
  <2> DEFINE y == [x EXCEPT !.pc = "add", !.model = m, !.rpm = rpm, !.new = @ \ {m}]
  <2> HIDE DEF x
  <2>2. /\ DOMAIN y = DOMAIN x /\ y.pc = "add"
        /\ y.snap = x.snap /\ y.scope = x.scope /\ y.known = x.known
    BY <1>1 DEF CallFields
  <2> HIDE DEF y
  <2> QED BY <1>1, <1>2, <2>1, <2>2, NotesKeepCall DEF LimitSteps, x, y
<1>7. CASE AddModel(p)
  <2>1. x.pc = "add" /\ LimitStep(p, [x EXCEPT !.pc = "pairs", !.model = NoList, !.rpm = DefaultRPM])
    BY <1>7, Zenon DEF AddModel
  <2> DEFINE y == [x EXCEPT !.pc = "pairs", !.model = NoList, !.rpm = DefaultRPM]
  <2> HIDE DEF x
  <2>2. /\ DOMAIN y = DOMAIN x /\ y.pc = "pairs"
        /\ y.snap = x.snap /\ y.scope = x.scope /\ y.known = x.known
    BY <1>1 DEF CallFields
  <2> HIDE DEF y
  <2> QED BY <1>1, <1>2, <2>1, <2>2, NotesKeepCall DEF LimitSteps, x, y
<1>8. CASE LimitsDone(p)
  <2>1. x.pc = "pairs" /\ LimitStep(p, Idle)
    BY <1>8, Zenon DEF LimitsDone
  <2> QED BY <1>2, <2>1, IdleIsCall DEF LimitSteps
<1> QED BY <1>3, <1>4, <1>5, <1>6, <1>7, <1>8 DEF UpdateLimits

\* What it leaves alone, in the words of the tables.
LEMMA LimitsLeave ==
  ASSUME CallsAre, NEW p \in Proxies, UpdateLimits(p)
  PROVE  /\ UNCHANGED <<health, db, phase, balancer, creds, remote, sync, lister>>
         /\ Untouched
BY LimitsMove DEF world, tables, caches, Untouched

LEMMA StartIsCall == Call([Idle EXCEPT !.pc = "start"]) /\ [Idle EXCEPT !.pc = "start"].pc = "start"
<1> DEFINE x == Idle
<1>1. Call(x)
  BY IdleIsCall
<1> HIDE DEF x
<1>2. Call([x EXCEPT !.pc = "start"]) /\ [x EXCEPT !.pc = "start"].pc = "start"
  BY <1>1 DEF Call, CallFields
<1> QED BY <1>2 DEF x

LEMMA TickMoves ==
  ASSUME CallsAre, UpdaterTick
  PROVE  /\ DOMAIN fetch' = Fetchers /\ \A u \in Fetchers : Call(fetch'[u])
         /\ \A p \in Proxies : /\ fetch'[Updater(p)].pc = "start"
                               /\ fetch'[Reader(p)] = fetch[Reader(p)]
<1> DEFINE start == [Idle EXCEPT !.pc = "start"]
<1>1. fetch' = [t \in Fetchers |-> IF t[1] = "updater" THEN start ELSE fetch[t]]
  BY DEF UpdaterTick
<1>2. Call(start) /\ start.pc = "start"
  BY StartIsCall
<1> HIDE DEF start
<1>3. \A p \in Proxies : Updater(p)[1] = "updater" /\ Reader(p)[1] # "updater"
  BY DEF Updater, Reader
<1> QED BY <1>1, <1>2, <1>3, FetcherOf DEF CallsAre

LEMMA CallsKept ==
  ASSUME CallsAre, DOMAIN fetch' = Fetchers, \A u \in Fetchers : Call(fetch'[u]),
         UNCHANGED <<health, remote>>
  PROVE  CallsAre'
BY DEF CallsAre

LEMMA HeadOfLeft ==
  ASSUME ListerIs, lister.left # <<>>
  PROVE  Head(lister.left) \in Proxies /\ Tail(lister.left) \in Seq(Proxies)
BY HeadTailProperties DEF ListerIs

LEMMA CallsNext ==
  ASSUME CallsAre, CredsAre, ListerIs, Next
  PROVE  CallsAre'
<1>1. ASSUME NEW p \in Proxies, NEW t \in Fetchers, FetchStep(t, p) PROVE CallsAre'
  <2>1. CallStep(t, p)
    BY <1>1, CallDoes
  <2>2. health' = health /\ DOMAIN remote' = Proxies /\ RemoteStays
    BY <2>1 DEF CallStep, world
  <2>3. PICK y : Call(y) /\ Moves(t, y)
    BY <2>1 DEF CallStep
  <2>4. DOMAIN fetch' = Fetchers /\ \A u \in Fetchers : Call(fetch'[u])
    BY <2>3, CallMoves
  <2>5. \A q \in Proxies : remote'[q] = NoList \/ GoodSnapshot(remote'[q])
    BY <2>2 DEF CallsAre, RemoteStays
  <2> QED BY <2>2, <2>4, <2>5 DEF CallsAre
<1>2. ASSUME NEW p \in Proxies, CopyScope(p) PROVE CallsAre'
  <2>1. PICK y : Call(y) /\ Moves(Updater(p), y)
    BY <1>2, CopyMoves
  <2>2. DOMAIN fetch' = Fetchers /\ \A u \in Fetchers : Call(fetch'[u])
    BY <2>1, CallMoves, FetcherOf
  <2> QED BY <1>2, <2>2, CallsKept DEF CopyScope, world, caches
<1>3. ASSUME NEW p \in Proxies, UpdateProviderScopes(p) PROVE CallsAre'
  <2>1. PICK y : Call(y) /\ Moves(Updater(p), y)
    BY <1>3, UpdateMoves
  <2>2. DOMAIN fetch' = Fetchers /\ \A u \in Fetchers : Call(fetch'[u])
    BY <2>1, CallMoves, FetcherOf
  <2> QED BY <1>3, <2>2, CallsKept DEF UpdateProviderScopes, world, caches
<1>4. ASSUME NEW p \in Proxies, UpdateLimits(p) PROVE CallsAre'
  <2>1. PICK y : Call(y) /\ Moves(Updater(p), y)
    BY <1>4, LimitsMove
  <2>2. DOMAIN fetch' = Fetchers /\ \A u \in Fetchers : Call(fetch'[u])
    BY <2>1, CallMoves, FetcherOf
  <2> QED BY <1>4, <2>2, CallsKept, LimitsLeave
<1>5. CASE UpdaterTick
  BY <1>5, TickMoves, CallsKept DEF UpdaterTick, world, caches
<1>6. CASE ListAsk
  <2>1. /\ Head(lister.left) \in Proxies /\ UNCHANGED <<health, remote>>
        /\ Moves(Reader(Head(lister.left)), [Idle EXCEPT !.pc = "start"])
    BY <1>6, HeadOfLeft DEF ListAsk, Moves, world, caches
  <2>2. DOMAIN fetch' = Fetchers /\ \A u \in Fetchers : Call(fetch'[u])
    BY <2>1, CallMoves, FetcherOf, StartIsCall
  <2> QED BY <2>1, <2>2, CallsKept
<1>7. CASE ListCollect
  <2>1. /\ Head(lister.left) \in Proxies /\ UNCHANGED <<health, remote>>
        /\ Moves(Reader(Head(lister.left)), Idle)
    BY <1>7, HeadOfLeft DEF ListCollect, Moves, world, caches
  <2>2. DOMAIN fetch' = Fetchers /\ \A u \in Fetchers : Call(fetch'[u])
    BY <2>1, CallMoves, FetcherOf, IdleIsCall
  <2> QED BY <2>1, <2>2, CallsKept
<1>8. CASE SetCredentials
  <2>1. /\ UNCHANGED <<health, fetch>> /\ DOMAIN remote' = Proxies
        /\ \A q \in Proxies : remote'[q] = NoList \/ remote'[q] = remote[q]
    BY <1>8 DEF SetCredentials, world
  <2> QED BY <2>1 DEF CallsAre
<1>9. ASSUME NEW p \in Proxies, ExpireRemote(p) PROVE CallsAre'
  <2>1. UNCHANGED <<health, fetch>> /\ remote' = [remote EXCEPT ![p] = NoList]
    BY <1>9 DEF ExpireRemote, world
  <2> QED BY <2>1 DEF CallsAre
<1>10. ASSUME NEW p \in Proxies, HealthChange(p) PROVE CallsAre'
  <2>1. UNCHANGED <<remote, fetch>> /\ \E h \in Healths : health' = [health EXCEPT ![p] = h]
    BY <1>10 DEF HealthChange, caches
  <2> QED BY <2>1 DEF CallsAre
<1>11. CASE UNCHANGED <<health, remote, fetch>>
  BY <1>11 DEF CallsAre
<1>12. ASSUME Serve \/ FetchCredentials \/ FetchModels \/ UpdateDBCredentials \/ UpdateDBModels \/ SyncLimits
              \/ ListFinish \/ DBChange \/ \E who \in Callers \cup {NoList} : ListStart(who)
       PROVE  UNCHANGED <<health, remote, fetch>>
  BY <1>12 DEF Serve, FetchCredentials, FetchModels, UpdateDBCredentials, UpdateDBModels, SyncLimits,
       ListFinish, DBChange, ListStart, world, caches
<1> QED BY <1>1, <1>2, <1>3, <1>4, <1>5, <1>6, <1>7, <1>8, <1>9, <1>10, <1>11, <1>12, FetcherOf, Zenon
     DEF Next, ModelUpdater, UpdaterStep, Syncer, Lister

\* The phases of the start follow each other, and each is left by one action.
LEMMA PhaseNext ==
  ASSUME Next, CallsAre
  PROVE  /\ phase' = "list" => phase = "list"
         /\ phase' = "updating" => phase = "updating" \/ UpdaterTick
         /\ phase' = "serving" => phase = "serving" \/ Serve
         /\ phase = "list" => phase' = "list" \/ ListFinish \/ Serve \/ UpdaterTick
                                \/ FetchCredentials \/ FetchModels \/ SyncLimits
<1>1. ASSUME NEW p \in Proxies, NEW t \in Fetchers, FetchStep(t, p) PROVE phase' = phase
  BY <1>1, CallDoes DEF CallStep
<1>2. ASSUME NEW p \in Proxies, CopyScope(p) \/ UpdateProviderScopes(p) \/ UpdateLimits(p) PROVE phase' = phase
  BY <1>2, LimitsLeave DEF CopyScope, UpdateProviderScopes
<1>3. ASSUME UpdateDBCredentials \/ UpdateDBModels \/ SetCredentials \/ ListAsk \/ ListCollect \/ DBChange
             \/ \E who \in Callers \cup {NoList} : ListStart(who)
             \/ \E p \in Proxies : HealthChange(p) \/ ExpireRemote(p)
      PROVE  phase' = phase
  BY <1>3 DEF UpdateDBCredentials, UpdateDBModels, SetCredentials, ListAsk, ListCollect, DBChange, ListStart,
       HealthChange, ExpireRemote
<1>4. CASE FetchCredentials \/ FetchModels \/ SyncLimits
  <2>1. phase' = phase \/ (phase = "sync" /\ phase' = "update")
    BY <1>4, Zenon DEF FetchCredentials, FetchModels, SyncLimits
  <2> QED BY <1>4, <2>1
<1>5. CASE ListFinish
  <2>1. phase' = phase \/ (phase = "list" /\ phase' = "sync")
    BY <1>5, Zenon DEF ListFinish
  <2> QED BY <1>5, <2>1
<1>6. CASE UpdaterTick
  BY <1>6 DEF UpdaterTick
<1>7. CASE Serve
  BY <1>7 DEF Serve
<1>8. CASE phase' = phase
  BY <1>8
<1> QED BY <1>1, <1>2, <1>3, <1>4, <1>5, <1>6, <1>7, <1>8, FetcherOf, Zenon
     DEF Next, ModelUpdater, UpdaterStep, Syncer, Lister

LEMMA CredsNext ==
  ASSUME CallsAre, CredsAre, SyncIs, Next
  PROVE  CredsAre'
<1>1. ASSUME NEW p \in Proxies, NEW t \in Fetchers, FetchStep(t, p) PROVE CredsAre'
  <2>1. CallStep(t, p)
    BY <1>1, CallDoes
  <2>2. phase' = phase
    BY <2>1 DEF CallStep
  <2>3. CASE Untouched
    BY <2>2, <2>3 DEF Untouched, tables, CredsAre
  <2>4. CASE ~Untouched
    <3>1. PICK s : GoodSnapshot(s) /\ ApplySnapshot(p, s)
      BY <2>1, <2>4 DEF CallStep
    <3> QED BY <2>2, <3>1, CredsApplied
  <2> QED BY <2>3, <2>4
<1>2. CASE SetCredentials
  <2>1. phase # "list" /\ phase' = phase /\ IsFiniteSet(sync.creds)
    BY <1>2 DEF SetCredentials, SyncIs
  <2> QED BY <1>2, <2>1, CredsReloaded
<1>3. CASE creds' = creds
  BY <1>3, PhaseNext DEF CredsAre
<1>4. ASSUME NEW p \in Proxies, CopyScope(p) \/ UpdateProviderScopes(p) \/ UpdateLimits(p) PROVE creds' = creds
  BY <1>4, LimitsLeave DEF CopyScope, UpdateProviderScopes, tables
<1>5. ASSUME UpdaterTick \/ Serve \/ FetchCredentials \/ FetchModels \/ UpdateDBCredentials \/ UpdateDBModels
             \/ SyncLimits
      PROVE  creds' = creds
  BY <1>5 DEF UpdaterTick, Serve, FetchCredentials, FetchModels, UpdateDBCredentials, UpdateDBModels,
       SyncLimits, tables
<1>6. ASSUME ListAsk \/ ListCollect \/ ListFinish \/ DBChange
             \/ \E who \in Callers \cup {NoList} : ListStart(who)
             \/ \E p \in Proxies : HealthChange(p) \/ ExpireRemote(p)
      PROVE  creds' = creds
  BY <1>6 DEF ListAsk, ListCollect, ListFinish, DBChange, ListStart, HealthChange, ExpireRemote, tables
<1> QED BY <1>1, <1>2, <1>3, <1>4, <1>5, <1>6, FetcherOf, Zenon
     DEF Next, ModelUpdater, UpdaterStep, Syncer, Lister

\* Whom a reader asks; at the start it asks every proxy.
LEMMA AskedProxies ==
  ASSUME CredsAre, NEW who, ListStart(who), ListerIs, who \in Callers \cup {NoList}
  PROVE  /\ ListerIs' /\ lister'.pc = "reading"
         /\ phase = "list" => \A p \in Proxies : \E i \in DOMAIN lister'.left : lister'.left[i] = p
<1> DEFINE asked == {i \in DOMAIN creds : /\ creds[i].src = "yaml" /\ creds[i].name \in Proxies
                                          /\ who = NoList \/ VisibleTo(creds[i], who)}
           S == {creds[i].name : i \in asked}
           left == SetToSeq(S)
<1>1. /\ lister' = [pc |-> "reading", who |-> who, left |-> left]
      /\ phase = (IF who = NoList THEN "list" ELSE "serving")
  BY Zenon DEF ListStart
<1>2. S \subseteq Proxies
  OBVIOUS
<1>3. IsFiniteSet(S)
  <2> HIDE DEF S
  <2> QED BY <1>2, RegistryAssumption, FS_Subset
<1>4. phase = "list" => Proxies \subseteq S
  <2> SUFFICES ASSUME phase = "list", NEW p \in Proxies PROVE p \in S
    OBVIOUS
  <2>1. who = NoList
    BY <1>1
  <2>2. At(p) \in DOMAIN creds /\ creds[At(p)].name = p /\ creds[At(p)].src = "yaml"
    BY EntryAt, RegistryAssumption
  <2> QED BY <2>1, <2>2
<1> HIDE DEF S
<1>5. /\ Cardinality(S) \in Nat /\ left \in [1 .. Cardinality(S) -> S]
      /\ \A x \in S : \E i \in 1 .. Cardinality(S) : left[i] = x
  BY <1>3, ListOfSet
<1> HIDE DEF left
<1>6. left \in Seq(Proxies) /\ DOMAIN left = 1 .. Cardinality(S)
  BY <1>2, <1>5
<1> QED BY <1>1, <1>4, <1>5, <1>6 DEF ListerIs

LEMMA ListerNext ==
  ASSUME CallsAre, CredsAre, ListerIs, Next
  PROVE  ListerIs'
<1>1. ASSUME NEW p \in Proxies, NEW t \in Fetchers, FetchStep(t, p) PROVE lister' = lister
  BY <1>1, CallDoes DEF CallStep
<1>2. ASSUME NEW p \in Proxies, CopyScope(p) \/ UpdateProviderScopes(p) \/ UpdateLimits(p) PROVE lister' = lister
  BY <1>2, LimitsLeave DEF CopyScope, UpdateProviderScopes
<1>3. ASSUME UpdaterTick \/ Serve \/ FetchCredentials \/ FetchModels \/ UpdateDBCredentials \/ UpdateDBModels
             \/ SetCredentials \/ SyncLimits
      PROVE  lister' = lister
  BY <1>3 DEF UpdaterTick, Serve, FetchCredentials, FetchModels, UpdateDBCredentials, UpdateDBModels,
       SetCredentials, SyncLimits
<1>4. ASSUME ListAsk \/ DBChange \/ \E p \in Proxies : HealthChange(p) \/ ExpireRemote(p)
      PROVE  lister' = lister
  BY <1>4 DEF ListAsk, DBChange, HealthChange, ExpireRemote
<1>5. CASE ListCollect
  <2>1. lister' = [lister EXCEPT !.left = Tail(@)] /\ Tail(lister.left) \in Seq(Proxies)
    BY <1>5, HeadOfLeft DEF ListCollect
  <2> QED BY <2>1 DEF ListerIs
<1>6. CASE ListFinish
  <2>1. lister' = [pc |-> "idle", who |-> NoList, left |-> <<>>]
    BY <1>6 DEF ListFinish
  <2> QED BY <2>1 DEF ListerIs
<1>7. ASSUME NEW who \in Callers \cup {NoList}, ListStart(who) PROVE ListerIs'
  BY <1>7, AskedProxies
<1>8. CASE lister' = lister
  BY <1>8 DEF ListerIs
<1> QED BY <1>1, <1>2, <1>3, <1>4, <1>5, <1>6, <1>7, <1>8, FetcherOf, Zenon
     DEF Next, ModelUpdater, UpdaterStep, Syncer, Lister

LEMMA BalancerNext ==
  ASSUME CallsAre, BalancerIs, Next
  PROVE  BalancerIs'
<1>1. ASSUME NEW p \in Proxies, NEW t \in Fetchers, FetchStep(t, p) PROVE balancer' = balancer
  BY <1>1, CallDoes DEF CallStep
<1>2. ASSUME NEW p \in Proxies, CopyScope(p) \/ UpdateLimits(p) PROVE balancer' = balancer
  BY <1>2, LimitsLeave DEF CopyScope
<1>3. ASSUME UpdaterTick \/ Serve \/ FetchCredentials \/ FetchModels \/ UpdateDBModels
             \/ SetCredentials \/ SyncLimits
      PROVE  balancer' = balancer
  BY <1>3 DEF UpdaterTick, Serve, FetchCredentials, FetchModels, UpdateDBModels,
       SetCredentials, SyncLimits
<1>4. ASSUME ListAsk \/ ListCollect \/ ListFinish \/ DBChange
             \/ \E who \in Callers \cup {NoList} : ListStart(who)
             \/ \E p \in Proxies : HealthChange(p) \/ ExpireRemote(p)
      PROVE  balancer' = balancer
  BY <1>4 DEF ListAsk, ListCollect, ListFinish, DBChange, ListStart, HealthChange, ExpireRemote
<1>5. CASE UpdateDBCredentials
  <2>1. \A p \in Proxies : p \in DOMAIN balancer' /\ balancer'[p] = balancer[p]
    BY <1>5, RegistryAssumption DEF UpdateDBCredentials, BalancerIs
  <2> QED BY <2>1 DEF BalancerIs
<1>6. ASSUME NEW p \in Proxies, UpdateProviderScopes(p) PROVE BalancerIs'
  <2> DEFINE x == fetch[Updater(p)]
             b == [balancer[p] EXCEPT !.scope = x.scope, !.known = x.known]
  <2>1. p \in DOMAIN balancer /\ DOMAIN balancer[p] = {"src", "scope", "known"} /\ x.scope \in Expression
    BY FetcherOf DEF BalancerIs, CallsAre, Call
  <2>2. balancer' = [balancer EXCEPT ![p] = b]
    BY <1>6, <2>1 DEF UpdateProviderScopes
  <2> HIDE DEF x
  <2>3. DOMAIN b = {"src", "scope", "known"} /\ b.scope = x.scope
    BY <2>1
  <2> HIDE DEF b
  <2> QED BY <2>1, <2>2, <2>3 DEF BalancerIs
<1>7. CASE balancer' = balancer
  BY <1>7 DEF BalancerIs
<1> QED BY <1>1, <1>2, <1>3, <1>4, <1>5, <1>6, <1>7, FetcherOf, Zenon
     DEF Next, ModelUpdater, UpdaterStep, Syncer, Lister

LEMMA RowsFinite ==
  ASSUME SyncIs
  PROVE  IsFiniteSet(db.creds) /\ IsFiniteSet(db.rows)
BY FS_Subset, RegistryAssumption DEF SyncIs

LEMMA FetchedFinite ==
  ASSUME SyncIs, FetchModels
  PROVE  DOMAIN sync' = {"pc", "creds", "rows", "left"} /\ IsFiniteSet(sync'.creds) /\ IsFiniteSet(sync'.rows)
<1> DEFINE rows == {r \in db.rows : r.ref \in {Global, InlineRef} \cup sync.creds}
           cred(r) == IF r.ref = InlineRef THEN Inline[r.model] ELSE r.ref
           own == {x \in rows : x.ref = InlineRef}
           brought == {Inline[r.model] : r \in own}
           got == {[model |-> r.model, cred |-> cred(r), rpm |-> r.rpm] : r \in rows}
<1>1. IsFiniteSet(rows) /\ IsFiniteSet(own)
  BY RowsFinite, FS_Subset
<1>2. IsFiniteSet(brought)
  <2> DEFINE f == [r \in own |-> Inline[r.model]]
             T == {f[r] : r \in own}
  <2>1. DOMAIN f = own /\ T = brought
    OBVIOUS
  <2>2. IsFiniteSet(T)
    <3> HIDE DEF own, f
    <3> QED BY <1>1, <2>1, ImageFinite
  <2> HIDE DEF T, brought
  <2> QED BY <2>1, <2>2
<1>3. IsFiniteSet(got)
  <2> DEFINE f == [r \in rows |-> [model |-> r.model, cred |-> cred(r), rpm |-> r.rpm]]
             T == {f[r] : r \in rows}
  <2>1. DOMAIN f = rows
    OBVIOUS
  <2>2. T = got
    OBVIOUS
  <2>3. IsFiniteSet(T)
    <3> HIDE DEF rows, f
    <3> QED BY <1>1, <2>1, ImageFinite
  <2> HIDE DEF T, got
  <2> QED BY <2>2, <2>3
<1>4. \/ \E left : sync' = [pc |-> "balancer", creds |-> sync.creds \cup brought, rows |-> got, left |-> left]
      \/ sync' = [pc |-> "idle", creds |-> {}, rows |-> {}, left |-> {}]
  BY Zenon DEF FetchModels, SyncReset, NoSync
<1>5. IsFiniteSet(sync.creds \cup brought)
  <2> HIDE DEF brought
  <2> QED BY <1>2, FS_Union DEF SyncIs
<1> HIDE DEF brought, got
<1> QED BY <1>3, <1>4, <1>5, FS_EmptySet

LEMMA SyncNext ==
  ASSUME CallsAre, SyncIs, Next
  PROVE  SyncIs'
<1>1. ASSUME NEW p \in Proxies, NEW t \in Fetchers, FetchStep(t, p) PROVE UNCHANGED <<db, sync>>
  BY <1>1, CallDoes DEF CallStep, world
<1>2. ASSUME NEW p \in Proxies, CopyScope(p) \/ UpdateProviderScopes(p) \/ UpdateLimits(p)
      PROVE  UNCHANGED <<db, sync>>
  BY <1>2, LimitsLeave DEF CopyScope, UpdateProviderScopes, world
<1>3. ASSUME UpdaterTick \/ Serve \/ ListAsk \/ ListCollect \/ ListFinish
             \/ \E who \in Callers \cup {NoList} : ListStart(who)
             \/ \E p \in Proxies : HealthChange(p) \/ ExpireRemote(p)
      PROVE  UNCHANGED <<db, sync>>
  BY <1>3 DEF UpdaterTick, Serve, ListAsk, ListCollect, ListFinish, ListStart, HealthChange, ExpireRemote, world
<1>4. CASE UNCHANGED <<db, sync>>
  BY <1>4, PhaseNext DEF SyncIs
<1>5. CASE DBChange
  <2>1. UNCHANGED <<sync, phase>>
    BY <1>5 DEF DBChange
  <2>2. DOMAIN db' = {"up", "creds", "rows"} /\ db'.creds \subseteq DBNames /\ db'.rows \subseteq DBRows
    <3>1. CASE db' = [db EXCEPT !.up = ~@]
      BY <3>1 DEF SyncIs
    <3>2. ASSUME NEW c \in DBNames, db' = [db EXCEPT !.creds = SymDiff(@, {c})]
          PROVE  DOMAIN db' = {"up", "creds", "rows"} /\ db'.creds \subseteq DBNames /\ db'.rows \subseteq DBRows
      BY <3>2 DEF SyncIs, SymDiff
    <3>3. ASSUME NEW r \in DBRows, db' = [db EXCEPT !.rows = SymDiff(@, {r})]
          PROVE  DOMAIN db' = {"up", "creds", "rows"} /\ db'.creds \subseteq DBNames /\ db'.rows \subseteq DBRows
      BY <3>3 DEF SyncIs, SymDiff
    <3> QED BY <1>5, <3>1, <3>2, <3>3 DEF DBChange
  <2> QED BY <2>1, <2>2 DEF SyncIs
<1>6. CASE FetchCredentials
  <2>1. db' = db /\ (sync' = sync \/ (/\ sync' = [sync EXCEPT !.pc = "models", !.creds = db.creds]
                                      /\ phase' = phase /\ phase # "list"))
    BY <1>6 DEF FetchCredentials, world
  <2>2. IsFiniteSet(db.creds)
    BY RowsFinite
  <2> QED BY <1>4, <2>1, <2>2 DEF SyncIs
<1>7. CASE FetchModels
  <2>1. db' = db /\ sync.pc # "idle"
    BY <1>7 DEF FetchModels, world
  <2>2. phase' # "list"
    BY <2>1, PhaseNext DEF SyncIs
  <2> QED BY <1>7, <2>1, <2>2, FetchedFinite DEF SyncIs
<1>8. CASE UpdateDBCredentials \/ UpdateDBModels \/ SetCredentials \/ SyncLimits
  <2>1. /\ db' = db /\ sync.pc # "idle"
        /\ \/ \E pc \in {"tables", "credentials", "limits"} : sync' = [sync EXCEPT !.pc = pc]
           \/ \E left : sync' = [sync EXCEPT !.left = left]
           \/ sync' = [pc |-> "idle", creds |-> {}, rows |-> {}, left |-> {}]
    BY <1>8 DEF UpdateDBCredentials, UpdateDBModels, SetCredentials, SyncLimits, SyncTo, SyncReset, NoSync, world
  <2>2. phase' # "list"
    BY <2>1, PhaseNext DEF SyncIs
  <2> QED BY <2>1, <2>2, FS_EmptySet DEF SyncIs
<1> QED BY <1>1, <1>2, <1>3, <1>4, <1>5, <1>6, <1>7, <1>8, FetcherOf, Zenon
     DEF Next, ModelUpdater, UpdaterStep, Syncer, Lister

-----------------------------------------------------------------------------
(* Scopes stay closed until they are known.                                *)

Closed(p) == Guards(creds[At(p)])
IsLeft(p) == \E i \in DOMAIN lister.left : lister.left[i] = p

\* The first list asks every proxy, and what a proxy is asked for either is
\* learnt or closes it; from then on it stays closed until it is known, in the
\* manager and on the way to the balancer.
Guarded(p) ==
  /\ phase # "list" => Closed(p)
  /\ fetch[Updater(p)].pc = "done" \/ fetch[Reader(p)].pc = "done" => Closed(p)
  /\ phase = "list" /\ lister.pc = "reading" => Closed(p) \/ IsLeft(p)
  /\ fetch[Updater(p)].pc = "copied" => Guards(fetch[Updater(p)])
  /\ phase = "updating" /\ fetch[Updater(p)].pc \in LimitSteps \cup {"idle"} => Guards(balancer[p])
  /\ phase = "serving" => Guards(balancer[p])

AllGuarded == \A p \in Proxies : Guarded(p)

Types == CallsAre /\ CredsAre /\ SyncIs /\ ListerIs /\ BalancerIs

LEMMA InitTypes == Init => Types
BY InitCalls, InitCreds, InitOthers DEF Types

LEMMA TypesNext == Types /\ Next => Types'
BY CallsNext, CredsNext, SyncNext, ListerNext, BalancerNext DEF Types

LEMMA InitGuarded == Init => AllGuarded
<1> SUFFICES ASSUME Init, NEW p \in Proxies PROVE Guarded(p)
  BY DEF AllGuarded
<1>1. phase = "list" /\ lister.pc = "idle" /\ fetch = [t \in Fetchers |-> Idle]
  BY DEF Init
<1> QED BY <1>1, FetcherOf, IdleIsCall DEF Guarded

\* What else is at work leaves a proxy guarded.
LEMMA StaysGuarded ==
  ASSUME NEW p \in Proxies, Guarded(p), Closed(p) => Closed(p)',
         phase' = phase, lister' = lister, balancer'[p] = balancer[p],
         fetch'[Updater(p)] = fetch[Updater(p)], fetch'[Reader(p)] = fetch[Reader(p)]
  PROVE  Guarded(p)'
BY DEF Guarded, IsLeft

LEMMA CallGuarded ==
  ASSUME Types, AllGuarded, NEW p \in Proxies, NEW t \in {Updater(p), Reader(p)}, CallStep(t, p)
  PROVE  AllGuarded'
<1>1. t \in Fetchers /\ \A q \in Proxies : q # p => Updater(q) # t /\ Reader(q) # t
  <2>1. t \in Fetchers
    BY FetcherOf
  <2>2. \A q \in Proxies : q # p => Updater(q) # t /\ Reader(q) # t
    BY DEF Updater, Reader
  <2> QED BY <2>1, <2>2
<1>2. UNCHANGED <<phase, lister, balancer>> /\ fetch[t].pc \in {"start", "apply", "store", "failed", "close"}
  BY DEF CallStep
<1>3. PICK y : /\ Call(y) /\ Moves(t, y) /\ y.pc \in {"apply", "store", "failed", "close", "done"}
               /\ \/ /\ Untouched
                     /\ y.pc = "done" => ~Accepts(p) \/ creds[Min(Entries(p))].known
                  \/ \E s : GoodSnapshot(s) /\ Accepts(p) /\ ApplySnapshot(p, s)
  BY DEF CallStep
<1>4. fetch'[t] = y /\ \A u \in Fetchers : u # t => fetch'[u] = fetch[u]
  BY <1>1, <1>3, CallMoves DEF Types
<1>5. /\ \A q \in Proxies : Closed(q) => Closed(q)'
      /\ y.pc = "done" => Closed(p)'
  <2>1. CASE /\ Untouched
             /\ y.pc = "done" => ~Accepts(p) \/ creds[Min(Entries(p))].known
    <3>1. creds' = creds
      BY <2>1 DEF Untouched, tables
    <3>2. ASSUME y.pc = "done" PROVE Closed(p)
      <4>1. CASE phase = "list"
        <5>1. Accepts(p)
          <6>1. At(p) \in Entries(p)
            BY EntryAt, RegistryAssumption DEF Types
          <6>2. \A i \in DOMAIN creds : creds[i].src = "yaml"
            BY <4>1 DEF Types, CredsAre
          <6> QED BY <6>1, <6>2 DEF Accepts, Entries
        <5>2. ~Accepts(p) \/ creds[Min(Entries(p))].known
          BY <3>2, <2>1
        <5> QED BY <5>1, <5>2, EntryAt, RegistryAssumption DEF Types, Closed, Guards
      <4>2. CASE phase # "list"
        BY <4>2 DEF AllGuarded, Guarded
      <4> QED BY <4>1, <4>2
    <3> QED BY <3>1, <3>2 DEF Closed, Guards
  <2>2. CASE \E s : GoodSnapshot(s) /\ ApplySnapshot(p, s)
    <3>1. PICK s : GoodSnapshot(s) /\ ApplySnapshot(p, s)
      BY <2>2
    <3>2. Guards(creds'[At(p)]) /\ \A q \in Proxies : q # p => creds'[At(q)] = creds[At(q)]
      BY <1>2, <3>1, CredsApplied DEF Types
    <3> QED BY <3>2 DEF Closed, Guards
  <2> QED BY <1>3, <2>1, <2>2
<1>6. ASSUME NEW q \in Proxies, q # p PROVE Guarded(q)'
  BY <1>1, <1>2, <1>4, <1>5, <1>6, FetcherOf, StaysGuarded DEF AllGuarded
<1>7. Guarded(p)'
  <2>1. Guarded(p)
    BY DEF AllGuarded
  <2>2. \A u \in {Updater(p), Reader(p)} : u = t \/ fetch'[u] = fetch[u]
    BY <1>4, FetcherOf
  <2> QED BY <1>2, <1>3, <1>4, <1>5, <2>1, <2>2 DEF Guarded, IsLeft, LimitSteps
<1> QED BY <1>6, <1>7 DEF AllGuarded

LEMMA UpdaterGuarded ==
  ASSUME Types, AllGuarded, NEW p \in Proxies, CopyScope(p) \/ UpdateProviderScopes(p) \/ UpdateLimits(p)
  PROVE  AllGuarded'
<1>1. /\ Updater(p) \in Fetchers
      /\ \A q \in Proxies : Reader(q) # Updater(p) /\ (q # p => Updater(q) # Updater(p))
  <2>1. \A q \in Proxies : Reader(q) # Updater(p) /\ (q # p => Updater(q) # Updater(p))
    BY DEF Updater, Reader
  <2> QED BY <2>1, FetcherOf
<1>2. UNCHANGED <<phase, creds, lister>> /\ fetch[Updater(p)].pc \in LimitSteps \cup {"done", "copied"}
  BY LimitsMove, LimitsLeave DEF CopyScope, UpdateProviderScopes, tables, Types
<1>3. PICK y : /\ Call(y) /\ Moves(Updater(p), y)
               /\ \/ y.pc = "copied" /\ Guards(y) /\ balancer' = balancer
                  \/ /\ y.pc \in {"limits", "idle"} /\ Guards(balancer'[p])
                     /\ \A q \in Proxies : q # p => balancer'[q] = balancer[q]
                  \/ /\ y.pc \in LimitSteps \cup {"idle"} /\ balancer' = balancer
                     /\ fetch[Updater(p)].pc \in LimitSteps
  <2>1. CASE CopyScope(p)
    <3>1. PICK y : /\ Call(y) /\ Moves(Updater(p), y) /\ y.pc = "copied"
                   /\ y.scope = creds[At(p)].scope /\ y.known = creds[At(p)].known
      BY <2>1, CopyMoves DEF Types
    <3>2. fetch[Updater(p)].pc = "done" /\ balancer' = balancer
      BY <2>1 DEF CopyScope
    <3>3. Guards(y)
      BY <3>1, <3>2 DEF AllGuarded, Guarded, Closed, Guards
    <3> QED BY <3>1, <3>2, <3>3
  <2>2. CASE UpdateProviderScopes(p)
    <3>1. PICK y : Call(y) /\ Moves(Updater(p), y) /\ y.pc \in {"limits", "idle"}
      BY <2>2, UpdateMoves DEF Types
    <3> DEFINE x == fetch[Updater(p)]
               b == [balancer[p] EXCEPT !.scope = x.scope, !.known = x.known]
    <3>2. p \in DOMAIN balancer /\ DOMAIN balancer[p] = {"src", "scope", "known"} /\ Guards(x)
      BY <2>2 DEF Types, BalancerIs, AllGuarded, Guarded, UpdateProviderScopes
    <3>3. balancer' = [balancer EXCEPT ![p] = b]
      BY <2>2, <3>2 DEF UpdateProviderScopes
    <3> HIDE DEF x
    <3>4. Guards(b)
      BY <3>2 DEF Guards
    <3> HIDE DEF b
    <3>5. Guards(balancer'[p]) /\ \A q \in Proxies : q # p => balancer'[q] = balancer[q]
      BY <3>2, <3>3, <3>4 DEF Types, BalancerIs
    <3> QED BY <3>1, <3>5
  <2>3. CASE UpdateLimits(p)
    BY <2>3, LimitsMove DEF Types
  <2> QED BY <2>1, <2>2, <2>3
<1>4. fetch'[Updater(p)] = y /\ \A u \in Fetchers : u # Updater(p) => fetch'[u] = fetch[u]
  BY <1>1, <1>3, CallMoves DEF Types
<1>5. \A q \in Proxies : Closed(q) => Closed(q)'
  BY <1>2 DEF Closed, Guards
<1>6. ASSUME NEW q \in Proxies, q # p PROVE Guarded(q)'
  BY <1>1, <1>2, <1>3, <1>4, <1>5, <1>6, FetcherOf, StaysGuarded DEF AllGuarded
<1>7. Guarded(p)'
  <2>1. Guarded(p) /\ fetch'[Reader(p)] = fetch[Reader(p)]
    BY <1>1, <1>4, FetcherOf DEF AllGuarded
  <2>2. UNCHANGED IsLeft(p)
    BY <1>2 DEF IsLeft
  <2> QED BY <1>2, <1>3, <1>4, <1>5, <2>1, <2>2 DEF Guarded, Guards, LimitSteps
<1> QED BY <1>6, <1>7 DEF AllGuarded

LEMMA ListerGuarded ==
  ASSUME Types, AllGuarded,
         ListAsk \/ ListCollect \/ ListFinish \/ \E who \in Callers \cup {NoList} : ListStart(who)
  PROVE  AllGuarded'
<1>1. UNCHANGED <<creds, balancer>>
  BY DEF ListAsk, ListCollect, ListFinish, ListStart, tables
<1>2. CASE ListAsk
  <2>1. /\ UNCHANGED <<phase, lister>> /\ Reader(Head(lister.left)) \in Fetchers
        /\ Moves(Reader(Head(lister.left)), [Idle EXCEPT !.pc = "start"])
    BY <1>2, HeadOfLeft, FetcherOf DEF Types, ListAsk, Moves
  <2>2. \A u \in Fetchers : fetch'[u].pc = "start" \/ fetch'[u] = fetch[u]
    BY <2>1, StartIsCall, CallMoves DEF Types
  <2>3. \A p \in Proxies : fetch'[Updater(p)] = fetch[Updater(p)]
    <3>1. \A p \in Proxies : Updater(p) # Reader(Head(lister.left))
      BY DEF Updater, Reader
    <3> QED BY <2>1, <3>1, FetcherOf, StartIsCall, CallMoves DEF Types
  <2> SUFFICES ASSUME NEW p \in Proxies PROVE Guarded(p)'
    BY DEF AllGuarded
  <2>4. Guarded(p) /\ (fetch'[Reader(p)].pc = "start" \/ fetch'[Reader(p)] = fetch[Reader(p)])
    BY <2>2, FetcherOf DEF AllGuarded
  <2>5. UNCHANGED <<IsLeft(p), Closed(p)>>
    BY <1>1, <2>1 DEF IsLeft, Closed, Guards
  <2> QED BY <1>1, <2>1, <2>3, <2>4, <2>5 DEF Guarded, Guards
<1>3. CASE ListCollect
  <2> DEFINE h == Head(lister.left)
  <2>1. /\ UNCHANGED phase /\ h \in Proxies /\ Reader(h) \in Fetchers
        /\ Moves(Reader(h), Idle) /\ fetch[Reader(h)].pc = "done"
        /\ lister' = [lister EXCEPT !.left = Tail(@)] /\ lister.left # <<>> /\ lister.left \in Seq(Proxies)
    BY <1>3, HeadOfLeft, FetcherOf DEF Types, ListCollect, Moves, ListerIs
  <2>2. lister'.left = Tail(lister.left) /\ lister'.pc = lister.pc
    BY <2>1 DEF Types, ListerIs
  <2>3. \A u \in Fetchers : fetch'[u].pc = "idle" \/ fetch'[u] = fetch[u]
    BY <2>1, IdleIsCall, CallMoves DEF Types
  <2>4. \A p \in Proxies : fetch'[Updater(p)] = fetch[Updater(p)]
    <3>1. \A p \in Proxies : Updater(p) # Reader(h)
      BY DEF Updater, Reader
    <3> QED BY <2>1, <3>1, FetcherOf, IdleIsCall, CallMoves DEF Types
  <2> SUFFICES ASSUME NEW p \in Proxies PROVE Guarded(p)'
    BY DEF AllGuarded
  <2>5. Guarded(p) /\ (fetch'[Reader(p)].pc = "idle" \/ fetch'[Reader(p)] = fetch[Reader(p)])
    BY <2>3, FetcherOf DEF AllGuarded
  <2>6. UNCHANGED Closed(p)
    BY <1>1 DEF Closed, Guards
  <2>7. IsLeft(p) => IsLeft(p)' \/ p = h
    <3> SUFFICES ASSUME NEW i \in DOMAIN lister.left, lister.left[i] = p
                 PROVE  IsLeft(p)' \/ p = h
      BY DEF IsLeft
    <3>1. CASE i = 1
      BY <2>1, <3>1
    <3>2. CASE i # 1
      <4> DEFINE n == Len(lister.left)
      <4>1. /\ n \in Nat /\ DOMAIN lister.left = 1 .. n
            /\ Len(Tail(lister.left)) = n - 1 /\ Tail(lister.left) \in Seq(Proxies)
            /\ \A k \in 1 .. Len(Tail(lister.left)) : Tail(lister.left)[k] = lister.left[k + 1]
        BY <2>1, HeadTailProperties, LenProperties
      <4>2. DOMAIN Tail(lister.left) = 1 .. n - 1
        BY <4>1, LenProperties
      <4> HIDE DEF n
      <4>3. i - 1 \in 1 .. n - 1 /\ (i - 1) + 1 = i
        BY <3>2, <4>1
      <4>4. Tail(lister.left)[i - 1] = p
        BY <4>1, <4>3
      <4> QED BY <2>2, <4>2, <4>3, <4>4 DEF IsLeft
    <3> QED BY <3>1, <3>2
  <2>8. Closed(h)
    BY <2>1 DEF AllGuarded, Guarded
  <2> QED BY <1>1, <2>1, <2>2, <2>4, <2>5, <2>6, <2>7, <2>8 DEF Guarded, Guards
<1>4. CASE ListFinish
  <2>1. /\ lister.pc = "reading" /\ lister.left = <<>> /\ fetch' = fetch
        /\ lister' = [pc |-> "idle", who |-> NoList, left |-> <<>>]
        /\ phase' = (IF phase = "list" THEN "sync" ELSE phase)
    BY <1>4 DEF ListFinish
  <2> SUFFICES ASSUME NEW p \in Proxies PROVE Guarded(p)'
    BY DEF AllGuarded
  <2>2. Guarded(p) /\ ~IsLeft(p)
    BY <2>1 DEF AllGuarded, IsLeft
  <2>3. Closed(p)
    BY <2>1, <2>2 DEF Guarded
  <2>4. Closed(p)'
    BY <1>1, <2>3 DEF Closed, Guards
  <2> QED BY <1>1, <2>1, <2>2, <2>4 DEF Guarded, Guards
<1>5. ASSUME NEW who \in Callers \cup {NoList}, ListStart(who)
      PROVE  AllGuarded'
  <2>1. /\ UNCHANGED <<fetch, phase>>
        /\ phase = "list" => \A p \in Proxies : IsLeft(p)'
    BY <1>5, AskedProxies DEF Types, ListStart, IsLeft
  <2> SUFFICES ASSUME NEW p \in Proxies PROVE Guarded(p)'
    BY DEF AllGuarded
  <2>2. Guarded(p)
    BY DEF AllGuarded
  <2>3. UNCHANGED Closed(p)
    BY <1>1 DEF Closed, Guards
  <2> QED BY <1>1, <2>1, <2>2, <2>3 DEF Guarded, Guards
<1> QED BY <1>2, <1>3, <1>4, <1>5

LEMMA PhaseGuarded ==
  ASSUME Types, AllGuarded, UpdaterTick \/ Serve \/ FetchCredentials \/ FetchModels \/ SyncLimits
  PROVE  AllGuarded'
<1>1. UNCHANGED <<creds, balancer, lister>>
  BY DEF UpdaterTick, Serve, FetchCredentials, FetchModels, SyncLimits, tables
<1> SUFFICES ASSUME NEW p \in Proxies PROVE Guarded(p)'
  BY DEF AllGuarded
<1>2. Guarded(p)
  BY DEF AllGuarded
<1>3. UNCHANGED <<Closed(p), IsLeft(p)>>
  BY <1>1 DEF Closed, Guards, IsLeft
<1>4. CASE UpdaterTick
  <2>1. /\ phase \in {"update", "serving"} /\ phase' \in {"updating", "serving"}
        /\ phase' = "serving" => phase = "serving"
    BY <1>4, Zenon DEF UpdaterTick
  <2>2. fetch'[Updater(p)].pc = "start" /\ fetch'[Reader(p)] = fetch[Reader(p)]
    BY <1>4, TickMoves DEF Types
  <2> QED BY <1>1, <1>2, <1>3, <2>1, <2>2 DEF Guarded, Guards, LimitSteps
<1>5. CASE Serve
  <2>1. phase = "updating" /\ phase' = "serving" /\ fetch[Updater(p)].pc = "idle" /\ fetch' = fetch
    BY <1>5 DEF Serve, UpdaterIdle
  <2> QED BY <1>1, <1>2, <1>3, <2>1 DEF Guarded, Guards
<1>6. CASE FetchCredentials \/ FetchModels \/ SyncLimits
  <2>1. fetch' = fetch /\ (phase' = phase \/ (phase = "sync" /\ phase' = "update"))
    BY <1>6, Zenon DEF FetchCredentials, FetchModels, SyncLimits
  <2> QED BY <1>1, <1>2, <1>3, <2>1 DEF Guarded, Guards
<1> QED BY <1>4, <1>5, <1>6

LEMMA OthersGuarded ==
  ASSUME Types, AllGuarded,
         UpdateDBCredentials \/ UpdateDBModels \/ SetCredentials \/ DBChange
         \/ \E p \in Proxies : HealthChange(p) \/ ExpireRemote(p)
  PROVE  AllGuarded'
<1> SUFFICES ASSUME NEW p \in Proxies PROVE Guarded(p)'
  BY DEF AllGuarded
<1>1. UNCHANGED <<phase, lister, fetch>>
  BY DEF UpdateDBCredentials, UpdateDBModels, SetCredentials, DBChange, HealthChange, ExpireRemote
<1>2. balancer'[p] = balancer[p]
  <2>1. CASE UpdateDBCredentials
    BY <2>1, RegistryAssumption DEF UpdateDBCredentials
  <2>2. CASE ~UpdateDBCredentials
    BY <2>2 DEF UpdateDBModels, SetCredentials, DBChange, HealthChange, ExpireRemote
  <2> QED BY <2>1, <2>2
<1>3. Closed(p) => Closed(p)'
  <2>1. CASE SetCredentials
    <3>1. phase # "list" /\ IsFiniteSet(sync.creds)
      BY <2>1 DEF SetCredentials, Types, SyncIs
    <3>2. Guards(creds'[At(p)]) \/ creds'[At(p)] = creds[At(p)]
      BY <1>1, <2>1, <3>1, CredsReloaded DEF Types
    <3> QED BY <3>2 DEF Closed, Guards
  <2>2. CASE ~SetCredentials
    <3>1. creds' = creds
      BY <2>2 DEF UpdateDBCredentials, UpdateDBModels, DBChange, HealthChange, ExpireRemote, tables
    <3> QED BY <3>1 DEF Closed, Guards
  <2> QED BY <2>1, <2>2
<1> QED BY <1>1, <1>2, <1>3, StaysGuarded DEF AllGuarded

LEMMA GuardedNext ==
  ASSUME Types, AllGuarded, Next
  PROVE  AllGuarded'
<1>1. ASSUME NEW p \in Proxies, NEW t \in {Updater(p), Reader(p)}, FetchStep(t, p) PROVE AllGuarded'
  BY <1>1, CallDoes, CallGuarded, FetcherOf DEF Types
<1> QED BY <1>1, UpdaterGuarded, ListerGuarded, PhaseGuarded, OthersGuarded, Zenon
     DEF Next, ModelUpdater, UpdaterStep, Syncer, Lister

\* What config.yaml says of a credential is one alternative.
LEMMA YamlScopeIs ==
  ASSUME NEW c \in Yaml
  PROVE  \E a \in Alternative : YamlScope[c] = {a} /\ {} \notin a.needs
<1>1. PICK scopes \in SUBSET Scope, denied \in SUBSET Scope : YamlScope[c] = FromScopes(scopes, denied)
  BY RegistryAssumption
<1> QED BY <1>1, FromScopesIs

LEMMA GuardImplies ==
  ASSUME Types, AllGuarded
  PROVE  ScopesGuard
<1> SUFFICES ASSUME phase = "serving", NEW p \in Proxies
             PROVE  /\ balancer[p].known \/ balancer[p].scope = FalseExpression
                    /\ \A who \in Callers :
                        /\ AllowsExpression(who, And(YamlScope[p], balancer[p].scope))
                             <=> /\ AllowsExpression(who, YamlScope[p])
                                 /\ AllowsExpression(who, balancer[p].scope)
                        /\ \A order \in SetToSeqs(NormalizeExpression(And(YamlScope[p], balancer[p].scope))) :
                             Allows(who, LegacyProjection(order).scopes, LegacyProjection(order).denied)
                               => AllowsExpression(who, And(YamlScope[p], balancer[p].scope))
  BY Zenon DEF ScopesGuard
<1>1. balancer[p].known \/ balancer[p].scope = FalseExpression
  BY DEF AllGuarded, Guarded, Guards
<1>2. PICK a \in Alternative : YamlScope[p] = {a} /\ {} \notin a.needs
  BY YamlScopeIs, RegistryAssumption
<1>3. balancer[p].scope \in Expression
  BY DEF Types, BalancerIs
<1>4. ASSUME NEW who \in Callers
      PROVE  /\ AllowsExpression(who, And(YamlScope[p], balancer[p].scope))
                  <=> /\ AllowsExpression(who, YamlScope[p])
                      /\ AllowsExpression(who, balancer[p].scope)
             /\ \A order \in SetToSeqs(NormalizeExpression(And(YamlScope[p], balancer[p].scope))) :
                  Allows(who, LegacyProjection(order).scopes, LegacyProjection(order).denied)
                    => AllowsExpression(who, And(YamlScope[p], balancer[p].scope))
  <2>1. who \in Context
    BY RegistryAssumption
  <2>2. And(YamlScope[p], balancer[p].scope) \in Expression
    BY <1>2, <1>3, AndIs
  <2>3. AllowsExpression(who, And({a}, balancer[p].scope))
          <=> AllowsExpression(who, {a}) /\ AllowsExpression(who, balancer[p].scope)
    BY <1>2, <1>3, <2>1, AndAllows
  <2> QED BY <1>2, <2>1, <2>2, <2>3, LegacyIsSafe
<1> QED BY <1>1, <1>4

-----------------------------------------------------------------------------
(* The tables agree.                                                       *)

\* What an action does to the tables and the lists.
LEMMA TablesChange ==
  ASSUME Types, Next
  PROVE  \/ Untouched
         \/ \E p \in Proxies : \E s : GoodSnapshot(s) /\ ApplySnapshot(p, s) /\ UNCHANGED <<phase, pairs>>
         \/ UpdateDBModels
         \/ SetCredentials
         \/ ListFinish
<1>1. ASSUME NEW p \in Proxies, NEW t \in Fetchers, FetchStep(t, p)
      PROVE  \/ Untouched
             \/ \E s : GoodSnapshot(s) /\ ApplySnapshot(p, s) /\ UNCHANGED <<phase, pairs>>
  BY <1>1, CallDoes DEF CallStep, Types
<1>2. ASSUME NEW p \in Proxies, CopyScope(p) \/ UpdateProviderScopes(p) \/ UpdateLimits(p) PROVE Untouched
  BY <1>2, LimitsLeave DEF CopyScope, UpdateProviderScopes, Untouched, tables, caches, Types
<1>3. ASSUME UpdaterTick \/ Serve \/ FetchCredentials \/ FetchModels \/ UpdateDBCredentials \/ SyncLimits
      PROVE  Untouched
  BY <1>3 DEF UpdaterTick, Serve, FetchCredentials, FetchModels, UpdateDBCredentials, SyncLimits, Untouched, tables, caches
<1>4. ASSUME ListAsk \/ ListCollect \/ DBChange
             \/ \E who \in Callers \cup {NoList} : ListStart(who)
             \/ \E p \in Proxies : HealthChange(p) \/ ExpireRemote(p)
      PROVE  Untouched
  BY <1>4 DEF ListAsk, ListCollect, DBChange, ListStart, HealthChange, ExpireRemote, Untouched, tables, caches
<1> QED BY <1>1, <1>2, <1>3, <1>4, FetcherOf, Zenon
     DEF Next, ModelUpdater, UpdaterStep, Syncer, Lister

TablesAre ==
  /\ \A c \in DOMAIN credModels : credModels[c] \subseteq Model
  /\ DOMAIN learned = Proxies /\ DOMAIN scoped = Callers

\* What config.yaml gives to a credential stays configured and served.
YamlIsServed ==
  \A c \in Yaml, m \in Model :
    IsConfigured(YamlLimits, m, c) => IsConfigured(limits, m, c) /\ <<m, c>> \in served

Agree == TablesAre /\ MapsAgree /\ YamlIsServed

LEMMA MappedIs ==
  ASSUME NEW lims, NEW targets, NEW all, NEW m \in Model, NEW c \in all
  PROVE  <<m, c>> \in Mapped(lims, targets, all)
            <=> \E i \in DOMAIN lims[m] :
                  IF lims[m][i].cred = Global THEN c \in targets ELSE c = lims[m][i].cred
BY DEF Mapped

LEMMA MappedPairs ==
  ASSUME NEW lims, NEW targets, NEW all
  PROVE  Mapped(lims, targets, all) \subseteq Model \X all
BY DEF Mapped

LEMMA InitAgree == Init => Agree
<1> SUFFICES ASSUME Init PROVE Agree
  OBVIOUS
<1> DEFINE registered == {x \in Yaml : x \notin Proxies \/ \E m \in Model : <<m, x>> \in served}
<1>1. /\ limits = YamlLimits /\ served = Mapped(YamlLimits, Yaml, Yaml)
      /\ credModels = [c \in registered |-> {m \in Model : <<m, c>> \in served}]
      /\ learned = [p \in Proxies |-> [scopes |-> <<>>, weights |-> <<>>]]
      /\ scoped = NoScoped
  BY DEF Init
<1>2. TablesAre
  BY <1>1 DEF TablesAre, NoScoped
<1>3. MapsAgree
  <2>1. DOMAIN <<>> = {}
    OBVIOUS
  <2>2. \A x \in served : x[1] \in Model /\ x[2] \in Yaml /\ x = <<x[1], x[2]>>
    BY <1>1, MappedPairs
  <2>3. \A c \in DOMAIN credModels : \A m \in credModels[c] : <<m, c>> \in served
    BY <1>1
  <2>4. \A x \in served : x[2] \notin Proxies => x[2] \in DOMAIN credModels /\ x[1] \in credModels[x[2]]
    <3> SUFFICES ASSUME NEW x \in served, x[2] \notin Proxies
                 PROVE  x[2] \in DOMAIN credModels /\ x[1] \in credModels[x[2]]
      OBVIOUS
    <3>1. x[1] \in Model /\ x[2] \in registered /\ <<x[1], x[2]>> \in served
      BY <2>2
    <3> QED BY <1>1, <3>1
  <2>5. \A p \in Proxies : DOMAIN learned[p].scopes = {} /\ DOMAIN learned[p].weights = {}
    BY <1>1, <2>1
  <2> QED BY <2>3, <2>4, <2>5 DEF MapsAgree
<1>4. YamlIsServed
  <2> SUFFICES ASSUME NEW c \in Yaml, NEW m \in Model, IsConfigured(YamlLimits, m, c)
               PROVE  IsConfigured(limits, m, c) /\ <<m, c>> \in served
    BY DEF YamlIsServed
  <2>1. \E i \in DOMAIN YamlLimits[m] :
          IF YamlLimits[m][i].cred = Global THEN c \in Yaml ELSE c = YamlLimits[m][i].cred
    BY DEF IsConfigured
  <2>2. <<m, c>> \in Mapped(YamlLimits, Yaml, Yaml)
    BY <2>1, MappedIs
  <2> QED BY <1>1, <2>2
<1> QED BY <1>2, <1>3, <1>4 DEF Agree

LEMMA ApplyAgrees ==
  ASSUME Agree, NEW p \in Proxies, NEW s, GoodSnapshot(s), ApplySnapshot(p, s)
  PROVE  Agree'
<1> DEFINE R == Replacement(p, s.models)
<1>1. /\ credModels' = Over([x \in {p} |-> R], credModels)
      /\ served' = {x \in served : x[2] # p} \cup (R \X {p})
      /\ learned' = [learned EXCEPT ![p] = [scopes |-> s.scopes, weights |-> s.weights]]
      /\ limits' = limits /\ scoped' = NoScoped
  BY DEF ApplySnapshot
<1>2. R \subseteq Model /\ s.models \subseteq R
  BY DEF GoodSnapshot, Replacement
<1>3. \A m \in Model : IsConfigured(limits, m, p) => m \in R
  BY DEF Replacement
<1> HIDE DEF R
<1>4. /\ DOMAIN credModels' = {p} \cup DOMAIN credModels /\ credModels'[p] = R
      /\ \A c \in DOMAIN credModels : c # p => credModels'[c] = credModels[c]
  BY <1>1 DEF Over
<1>5. /\ DOMAIN learned' = Proxies /\ learned'[p].scopes = s.scopes /\ learned'[p].weights = s.weights
      /\ \A q \in Proxies : q # p => learned'[q] = learned[q]
  BY <1>1 DEF Agree, TablesAre
<1>6. \A m, c : <<m, c>> \in served' <=> IF c = p THEN m \in R ELSE <<m, c>> \in served
  BY <1>1
<1>7. TablesAre'
  BY <1>1, <1>2, <1>4, <1>5 DEF Agree, TablesAre, NoScoped
<1>8. MapsAgree'
  <2>1. \A c \in DOMAIN credModels' : \A m \in credModels'[c] : <<m, c>> \in served'
    BY <1>4, <1>6 DEF Agree, MapsAgree
  <2>2. \A x \in served' : x[2] \notin Proxies => x[2] \in DOMAIN credModels' /\ x[1] \in credModels'[x[2]]
    <3> SUFFICES ASSUME NEW x \in served', x[2] \notin Proxies
                 PROVE  x[2] \in DOMAIN credModels' /\ x[1] \in credModels'[x[2]]
      OBVIOUS
    <3>1. x \in served /\ x[2] # p
      BY <1>1
    <3> QED BY <1>4, <3>1 DEF Agree, MapsAgree
  <2>3. ASSUME NEW q \in Proxies, NEW m \in DOMAIN learned'[q].scopes \cup DOMAIN learned'[q].weights
        PROVE  q \in DOMAIN credModels' /\ m \in credModels'[q]
    BY <1>2, <1>4, <1>5 DEF Agree, MapsAgree, GoodSnapshot
  <2> QED BY <2>1, <2>2, <2>3 DEF MapsAgree
<1>9. YamlIsServed'
  BY <1>1, <1>3, <1>6 DEF Agree, YamlIsServed, IsConfigured
<1> QED BY <1>7, <1>8, <1>9 DEF Agree

LEMMA RowsForIs ==
  ASSUME SyncIs, NEW m
  PROVE  \E S : RowsFor(m) \in Seq(S)
<1> DEFINE about == {x \in sync.rows : x.model = m}
           f == [r \in about |-> [cred |-> r.cred, rpm |-> r.rpm]]
           S == {f[r] : r \in about}
<1>1. IsFiniteSet(about)
  BY FS_Subset DEF SyncIs
<1>2. DOMAIN f = about
  OBVIOUS
<1>3. S = {[cred |-> r.cred, rpm |-> r.rpm] : r \in about}
  OBVIOUS
<1>4. IsFiniteSet(S)
  <2> HIDE DEF about, f
  <2> QED BY <1>1, <1>2, ImageFinite
<1> HIDE DEF S
<1>5. Cardinality(S) \in Nat /\ SetToSeq(S) \in [1 .. Cardinality(S) -> S]
  BY <1>4, ListOfSet
<1>6. SetToSeq(S) \in Seq(S)
  BY <1>5
<1>7. RowsFor(m) = SetToSeq(S)
  BY <1>3, Zenon DEF RowsFor
<1> QED BY <1>6, <1>7

\* The limits of config.yaml come first in the new ones.
LEMMA NewLimitsAre ==
  ASSUME SyncIs, NEW m \in Model
  PROVE  \A i \in DOMAIN YamlLimits[m] :
           /\ i \in DOMAIN (YamlLimits[m] \o RowsFor(m))
           /\ (YamlLimits[m] \o RowsFor(m))[i] = YamlLimits[m][i]
<1>1. PICK S : RowsFor(m) \in Seq(S)
  BY RowsForIs
<1> DEFINE E == S \cup Limits
           a == YamlLimits[m]
           b == RowsFor(m)
           c == a \o b
<1>2. a \in Seq(Limits)
  BY RegistryAssumption
<1> HIDE DEF a, b
<1>3. a \in Seq(E) /\ b \in Seq(E)
  BY <1>1, <1>2 DEF b
<1> HIDE DEF E
<1>4. /\ c \in Seq(E) /\ Len(c) = Len(a) + Len(b)
      /\ \A i \in 1 .. Len(a) + Len(b) : c[i] = IF i <= Len(a) THEN a[i] ELSE b[i - Len(a)]
  BY <1>3, ConcatProperties
<1> HIDE DEF c
<1>5. DOMAIN a = 1 .. Len(a) /\ DOMAIN c = 1 .. Len(c) /\ Len(a) \in Nat /\ Len(b) \in Nat
  BY <1>3, <1>4, LenProperties
<1>6. \A i \in DOMAIN a : i \in DOMAIN c /\ c[i] = a[i]
  BY <1>4, <1>5
<1> QED BY <1>6 DEF a, b, c

LEMMA ModelsAgree ==
  ASSUME Agree, SyncIs, UpdateDBModels
  PROVE  Agree'
<1> DEFINE all == Yaml \cup sync.creds
           newLimits == [m \in Model |-> YamlLimits[m] \o RowsFor(m)]
           targets == IF Yaml # {} THEN Yaml ELSE sync.creds \ Synthetic
           mapped == Mapped(newLimits, targets, all)
           modelsOf(c) == {m \in Model : <<m, c>> \in mapped}
           kept == {p \in Proxies \cap DOMAIN credModels : credModels[p] # {}}
           registered == {c \in all : c \notin Proxies \/ modelsOf(c) # {}} \cup kept
<1>1. /\ limits' = newLimits /\ learned' = learned /\ scoped' = NoScoped
      /\ credModels' = [c \in registered |-> IF c \in kept THEN credModels[c] ELSE modelsOf(c)]
      /\ served' = mapped \cup {x \in Model \X kept : x[1] \in credModels[x[2]]}
  BY Zenon DEF UpdateDBModels
<1>2. mapped \subseteq Model \X all
  BY MappedPairs
<1>3. \A m \in Model, c \in all :
        <<m, c>> \in mapped
          <=> \E i \in DOMAIN newLimits[m] :
                IF newLimits[m][i].cred = Global THEN c \in targets ELSE c = newLimits[m][i].cred
  <2>1. SUFFICES ASSUME NEW m \in Model, NEW c \in all
                 PROVE  <<m, c>> \in Mapped(newLimits, targets, all)
                          <=> \E i \in DOMAIN newLimits[m] :
                                IF newLimits[m][i].cred = Global THEN c \in targets ELSE c = newLimits[m][i].cred
    BY Zenon
  <2> HIDE DEF newLimits, targets, all, mapped
  <2> QED BY MappedIs
<1> HIDE DEF mapped
<1>4. TablesAre'
  BY <1>1 DEF Agree, TablesAre, NoScoped
<1>5. MapsAgree'
  <2>1. ASSUME NEW c \in DOMAIN credModels', NEW m \in credModels'[c] PROVE <<m, c>> \in served'
    <3>1. CASE c \in kept
      <4>1. m \in credModels[c] /\ m \in Model
        BY <1>1, <2>1, <3>1 DEF Agree, TablesAre
      <4> QED BY <1>1, <3>1, <4>1
    <3>2. CASE c \notin kept
      BY <1>1, <2>1, <3>2
    <3> QED BY <3>1, <3>2
  <2>2. ASSUME NEW x \in served', x[2] \notin Proxies
        PROVE  x[2] \in DOMAIN credModels' /\ x[1] \in credModels'[x[2]]
    <3>1. x[2] \notin kept
      BY <2>2
    <3>2. x \in mapped
      BY <1>1, <2>2
    <3>3. x = <<x[1], x[2]>> /\ x[1] \in Model /\ x[2] \in all
      BY <1>2, <3>2
    <3>4. x[2] \in registered /\ x[1] \in modelsOf(x[2])
      BY <2>2, <3>2, <3>3
    <3> QED BY <1>1, <3>1, <3>4
  <2>3. ASSUME NEW q \in Proxies, NEW m \in DOMAIN learned'[q].scopes \cup DOMAIN learned'[q].weights
        PROVE  q \in DOMAIN credModels' /\ m \in credModels'[q]
    <3>1. q \in DOMAIN credModels /\ m \in credModels[q]
      BY <1>1, <2>3 DEF Agree, MapsAgree
    <3>2. q \in kept
      BY <3>1
    <3> QED BY <1>1, <3>1, <3>2
  <2> QED BY <2>1, <2>2, <2>3 DEF MapsAgree
<1>6. YamlIsServed'
  <2> SUFFICES ASSUME NEW c \in Yaml, NEW m \in Model, IsConfigured(YamlLimits, m, c)
               PROVE  IsConfigured(newLimits, m, c) /\ <<m, c>> \in mapped
    BY <1>1 DEF YamlIsServed, IsConfigured
  <2>1. PICK i \in DOMAIN YamlLimits[m] : YamlLimits[m][i].cred \in {Global, c}
    BY DEF IsConfigured
  <2>2. i \in DOMAIN newLimits[m] /\ newLimits[m][i] = YamlLimits[m][i]
    BY NewLimitsAre
  <2>3. IsConfigured(newLimits, m, c)
    BY <2>1, <2>2, Zenon DEF IsConfigured
  <2>4. c \in targets /\ c \in all
    OBVIOUS
  <2> HIDE DEF newLimits, targets, all
  <2>5. <<m, c>> \in mapped
    BY <1>3, <2>1, <2>2, <2>4
  <2> QED BY <2>3, <2>5
<1> QED BY <1>4, <1>5, <1>6 DEF Agree

LEMMA AgreeNext ==
  ASSUME Types, Agree, Next
  PROVE  Agree'
<1>1. CASE \E p \in Proxies : \E s : GoodSnapshot(s) /\ ApplySnapshot(p, s)
  BY <1>1, ApplyAgrees
<1>2. CASE UpdateDBModels
  BY <1>2, ModelsAgree DEF Types
<1>3. CASE UNCHANGED <<limits, credModels, served, learned>> /\ DOMAIN scoped' = Callers
  BY <1>3 DEF Agree, TablesAre, MapsAgree, YamlIsServed, IsConfigured
<1>4. ASSUME Untouched \/ SetCredentials \/ ListFinish
      PROVE  UNCHANGED <<limits, credModels, served, learned>> /\ DOMAIN scoped' = Callers
  BY <1>4 DEF Untouched, SetCredentials, ListFinish, tables, NoScoped, Agree, TablesAre
<1> QED BY <1>1, <1>2, <1>3, <1>4, TablesChange

-----------------------------------------------------------------------------
(* Lists of models are current.                                            *)

LEMMA InitLists == Init => ListsAreCurrent
<1> SUFFICES ASSUME Init PROVE ListsAreCurrent
  OBVIOUS
<1>1. allModels = {} /\ listed = NoList /\ \A who \in Callers : scoped[who] = NoList
  BY DEF Init, NoScoped
<1>2. \A who \in Callers : ~Cached(who)
  BY <1>1, RegistryAssumption DEF Cached
<1> QED BY <1>1, <1>2 DEF ListsAreCurrent

\* Whatever changes a table forgets the lists.
LEMMA ForgottenIsCurrent ==
  ASSUME allModels' = {}, listed' = NoList, scoped' = NoScoped
  PROVE  ListsAreCurrent'
<1>1. \A who \in Callers : ~(Cached(who)')
  BY RegistryAssumption DEF Cached, NoScoped
<1> QED BY <1>1 DEF ListsAreCurrent

LEMMA FinishIsCurrent ==
  ASSUME Types, Agree, ListsAreCurrent, ListFinish
  PROVE  ListsAreCurrent'
<1> DEFINE who == lister.who
           seen == VisibleNames(who)
           all == CurrentModels({creds[i].name : i \in DOMAIN creds})
<1>1. UNCHANGED <<creds, limits, credModels, served, learned>>
  BY DEF ListFinish, tables
<1>2. \A w : /\ VisibleNames(w)' = VisibleNames(w) /\ LimitedModels' = LimitedModels
             /\ \A m, n : ModelVisible(m, n, w)' = ModelVisible(m, n, w)
  BY <1>1 DEF VisibleNames, VisibleTo, ScopeOf, OwnScope, LimitedModels, ModelVisible, ModelScopeAllows
<1>3. CASE who = NoList
  <2>1. listed' = all /\ allModels' = all /\ scoped' = NoScoped
    BY <1>3 DEF ListFinish
  <2>2. all \subseteq LimitedModels \cup UNION {credModels[c] : c \in DOMAIN credModels}
    BY DEF CurrentModels, ListsAreCurrent
  <2>3. \A w \in Callers : ~(Cached(w)')
    BY <2>1, RegistryAssumption DEF Cached, NoScoped
  <2> HIDE DEF all
  <2>4. allModels' \cup (IF listed' = NoList THEN {} ELSE listed')
            \subseteq LimitedModels' \cup UNION {credModels'[c] : c \in DOMAIN credModels'}
    BY <1>1, <1>2, <2>1, <2>2
  <2> QED BY <2>3, <2>4 DEF ListsAreCurrent
<1>4. CASE who # NoList
  <2> DEFINE answer == [names |-> seen, models |-> {m \in CurrentModels(seen) : ModelVisible(m, seen, who)}]
  <2>1. scoped' = [scoped EXCEPT ![who] = answer] /\ UNCHANGED <<listed, allModels>>
    BY <1>4, Zenon DEF ListFinish
  <2>2. who \in Callers /\ who \in DOMAIN scoped /\ DOMAIN scoped = Callers
    BY <1>4 DEF Types, ListerIs, Agree, TablesAre
  <2>3. \A n : CurrentModels(n)' = CurrentModels(n)
    BY <1>1, <1>2, <2>1 DEF CurrentModels
  <2>4. answer.models \subseteq CurrentModels(seen) /\ \A m \in answer.models : ModelVisible(m, seen, who)
    OBVIOUS
  <2>5. answer.names = seen
    OBVIOUS
  <2> HIDE DEF answer, who, seen, all
  <2>6. scoped'[who] = answer /\ \A w \in Callers : w # who => scoped'[w] = scoped[w]
    BY <2>1, <2>2
  <2> SUFFICES ASSUME NEW w \in Callers, Cached(w)'
               PROVE  /\ scoped'[w].models \subseteq CurrentModels(VisibleNames(w))'
                      /\ \A m \in scoped'[w].models : ModelVisible(m, VisibleNames(w), w)'
    <3>1. allModels' \cup (IF listed' = NoList THEN {} ELSE listed')
            \subseteq LimitedModels' \cup UNION {credModels'[c] : c \in DOMAIN credModels'}
      BY <1>1, <1>2, <2>1 DEF ListsAreCurrent
    <3> QED BY <3>1 DEF ListsAreCurrent
  <2>7. /\ CurrentModels(VisibleNames(w))' = CurrentModels(VisibleNames(w))
        /\ \A m : ModelVisible(m, VisibleNames(w), w)' = ModelVisible(m, VisibleNames(w), w)
    BY <1>1, <1>2, <2>1 DEF CurrentModels, VisibleNames, VisibleTo, ScopeOf, OwnScope, LimitedModels, ModelVisible, ModelScopeAllows
  <2>8. CASE w = who
    <3>1. VisibleNames(w) = seen
      BY <2>8 DEF seen, who
    <3> QED BY <2>4, <2>6, <2>7, <2>8, <3>1
  <2>9. CASE w # who
    <3>1. w # NoList
      BY RegistryAssumption
    <3>2. scoped'[w] = scoped[w]
      BY <2>6, <2>9
    <3>3. Cached(w)
      BY <1>2, <3>1, <3>2 DEF Cached
    <3> QED BY <2>7, <3>2, <3>3 DEF ListsAreCurrent
  <2> QED BY <2>8, <2>9
<1> QED BY <1>3, <1>4

\* A step that leaves the tables and the lists leaves them current.
LEMMA SameTablesSameLists ==
  ASSUME ListsAreCurrent, Untouched
  PROVE  ListsAreCurrent'
<1>1. UNCHANGED <<creds, limits, credModels, served, learned, allModels, listed, scoped>>
  BY DEF Untouched, tables
<1>2. \A w : VisibleNames(w)' = VisibleNames(w)
  BY <1>1 DEF VisibleNames, VisibleTo, ScopeOf, OwnScope
<1>3. \A w, m, n : ModelVisible(m, n, w)' = ModelVisible(m, n, w)
  BY <1>1 DEF ModelVisible, ModelScopeAllows
<1>4. LimitedModels' = LimitedModels
  BY <1>1 DEF LimitedModels
<1>5. \A n : CurrentModels(n)' = CurrentModels(n)
  BY <1>1, <1>4 DEF CurrentModels
<1>6. SUFFICES ASSUME NEW w \in Callers, Cached(w)'
               PROVE  /\ scoped'[w].models \subseteq CurrentModels(VisibleNames(w))'
                      /\ \A m \in scoped'[w].models : ModelVisible(m, VisibleNames(w), w)'
  <2>1. allModels' \cup (IF listed' = NoList THEN {} ELSE listed')
          \subseteq LimitedModels' \cup UNION {credModels'[c] : c \in DOMAIN credModels'}
    BY <1>1, <1>4 DEF ListsAreCurrent
  <2> QED BY <2>1 DEF ListsAreCurrent
<1>7. CurrentModels(VisibleNames(w))' = CurrentModels(VisibleNames(w))
  BY <1>1, <1>2, <1>4 DEF CurrentModels
<1>8. \A m : ModelVisible(m, VisibleNames(w), w)' = ModelVisible(m, VisibleNames(w), w)
  BY <1>1, <1>2 DEF ModelVisible, ModelScopeAllows
<1>9. Cached(w)
  BY <1>1, <1>2, <1>6 DEF Cached
<1> QED BY <1>1, <1>7, <1>8, <1>9 DEF ListsAreCurrent

LEMMA ListsNext ==
  ASSUME Types, Agree, ListsAreCurrent, Next
  PROVE  ListsAreCurrent'
<1>1. CASE Untouched
  BY <1>1, SameTablesSameLists
<1>2. CASE \E p \in Proxies : \E s : GoodSnapshot(s) /\ ApplySnapshot(p, s)
  BY <1>2, ForgottenIsCurrent DEF ApplySnapshot
<1>3. CASE UpdateDBModels \/ SetCredentials
  BY <1>3, ForgottenIsCurrent DEF UpdateDBModels, SetCredentials
<1>4. CASE ListFinish
  BY <1>4, FinishIsCurrent
<1> QED BY <1>1, <1>2, <1>3, <1>4, TablesChange

-----------------------------------------------------------------------------
(* Limits of the models of config.yaml.                                    *)

PairsLater ==
  phase # "list" =>
  \A c \in Yaml, m \in Model : IsConfigured(YamlLimits, m, c) => <<c, m>> \in DOMAIN pairs

\* The updater is about to remove limits that config.yaml does not ask for.
RemovalsAre ==
  \A p \in Proxies, m \in Model :
    fetch[Updater(p)].pc = "remove" /\ fetch[Updater(p)].model = m => ~IsConfigured(YamlLimits, m, p)

LEMMA RemovalsNext ==
  ASSUME Types, Agree, RemovalsAre, Next
  PROVE  RemovalsAre'
<1> SUFFICES ASSUME NEW p \in Proxies, NEW m \in Model,
                    fetch'[Updater(p)].pc = "remove", fetch'[Updater(p)].model = m
             PROVE  ~IsConfigured(YamlLimits, m, p)
  BY DEF RemovalsAre, IsConfigured
<1>1. CASE fetch'[Updater(p)] = fetch[Updater(p)]
  BY <1>1 DEF RemovalsAre
<1>2. \A q \in Proxies : Updater(q) \in Fetchers /\ Updater(p) # Reader(q) /\ (q # p => Updater(q) # Updater(p))
  <2>1. \A q \in Proxies : Updater(p) # Reader(q) /\ (q # p => Updater(q) # Updater(p))
    BY DEF Updater, Reader
  <2> QED BY <2>1, FetcherOf
<1>3. ASSUME NEW q \in Proxies, NEW t \in Fetchers, FetchStep(t, q) PROVE fetch'[Updater(p)] = fetch[Updater(p)]
  <2>1. PICK y : Call(y) /\ Moves(t, y) /\ y.pc \in {"apply", "store", "failed", "close", "done"}
    BY <1>3, CallDoes DEF CallStep, Types
  <2>2. fetch'[t] = y /\ \A u \in Fetchers : u # t => fetch'[u] = fetch[u]
    BY <2>1, CallMoves DEF Types
  <2> QED BY <1>2, <2>1, <2>2
<1>4. ASSUME NEW q \in Proxies, CopyScope(q) \/ UpdateProviderScopes(q)
      PROVE  fetch'[Updater(p)] = fetch[Updater(p)]
  <2>1. PICK y : Call(y) /\ Moves(Updater(q), y) /\ y.pc \in {"copied", "limits", "idle"}
    BY <1>4, CopyMoves, UpdateMoves DEF Types
  <2>2. fetch'[Updater(q)] = y /\ \A u \in Fetchers : u # Updater(q) => fetch'[u] = fetch[u]
    BY <1>2, <2>1, CallMoves DEF Types
  <2> QED BY <1>2, <2>1, <2>2
<1>5. ASSUME NEW q \in Proxies, UpdateLimits(q) PROVE ~IsConfigured(YamlLimits, m, p)
  <2>1. PICK y : Call(y) /\ Moves(Updater(q), y) /\ (y.pc = "remove" => ~HasModel(q, y.model))
    BY <1>5, LimitsMove DEF Types
  <2>2. fetch'[Updater(q)] = y /\ \A u \in Fetchers : u # Updater(q) => fetch'[u] = fetch[u]
    BY <1>2, <2>1, CallMoves DEF Types
  <2>3. CASE q # p
    BY <1>1, <1>2, <2>2, <2>3
  <2>4. CASE q = p
    <3>1. ~HasModel(p, m)
      BY <2>1, <2>2, <2>4
    <3> QED BY <3>1, RegistryAssumption DEF HasModel, Agree, YamlIsServed
  <2> QED BY <2>3, <2>4
<1>6. ~UpdaterTick
  BY TickMoves DEF Types
<1>7. ASSUME ListAsk \/ ListCollect PROVE fetch'[Updater(p)] = fetch[Updater(p)]
  <2>1. PICK y : Call(y) /\ Head(lister.left) \in Proxies /\ Moves(Reader(Head(lister.left)), y)
    BY <1>7, HeadOfLeft, StartIsCall, IdleIsCall DEF ListAsk, ListCollect, Moves, Types
  <2>2. \A u \in Fetchers : u # Reader(Head(lister.left)) => fetch'[u] = fetch[u]
    BY <2>1, CallMoves, FetcherOf DEF Types
  <2> QED BY <1>2, <2>1, <2>2
<1>8. ASSUME Serve \/ FetchCredentials \/ FetchModels \/ UpdateDBCredentials \/ UpdateDBModels \/ SetCredentials
             \/ SyncLimits \/ ListFinish \/ DBChange \/ (\E who \in Callers \cup {NoList} : ListStart(who))
             \/ \E q \in Proxies : HealthChange(q) \/ ExpireRemote(q)
      PROVE  fetch' = fetch
  BY <1>8 DEF Serve, FetchCredentials, FetchModels, UpdateDBCredentials, UpdateDBModels, SetCredentials, SyncLimits,
       ListFinish, DBChange, ListStart, HealthChange, ExpireRemote
<1> QED BY <1>1, <1>3, <1>4, <1>5, <1>6, <1>7, <1>8, FetcherOf, Zenon
     DEF Next, ModelUpdater, UpdaterStep, Syncer, Lister

LEMMA OverIs ==
  ASSUME NEW f, NEW g
  PROVE  DOMAIN Over(f, g) = DOMAIN f \cup DOMAIN g
BY DEF Over

\* The actions that write limits leave those of config.yaml.
LEMMA PairsChange ==
  ASSUME Types, Agree, RemovalsAre, Next
  PROVE  ListFinish \/ \A c \in Yaml, m \in Model :
           IsConfigured(YamlLimits, m, c) /\ <<c, m>> \in DOMAIN pairs => <<c, m>> \in DOMAIN pairs'
<1>1. ASSUME NEW p \in Proxies, NEW t \in Fetchers, FetchStep(t, p) PROVE pairs' = pairs
  BY <1>1, CallDoes DEF CallStep, Types
<1>2. ASSUME NEW p \in Proxies, UpdateLimits(p), NEW c \in Yaml, NEW m \in Model,
             IsConfigured(YamlLimits, m, c), <<c, m>> \in DOMAIN pairs
      PROVE  <<c, m>> \in DOMAIN pairs'
  <2> DEFINE x == fetch[Updater(p)]
  <2>1. CASE RemoveModel(p)
    <3>1. x.pc = "remove" /\ pairs' = [y \in DOMAIN pairs \ {<<p, x.model>>} |-> pairs[y]]
      BY <2>1, Zenon DEF RemoveModel
    <3>2. <<c, m>> # <<p, x.model>>
      BY <1>2, <3>1 DEF RemovalsAre
    <3> QED BY <1>2, <3>1, <3>2
  <2>2. CASE AddModel(p)
    <3>1. pairs' = Over([y \in {<<p, x.model>>} |-> x.rpm], pairs)
      BY <2>2, Zenon DEF AddModel
    <3> QED BY <1>2, <3>1, OverIs
  <2>3. CASE GetAllModelPairs(p) \/ CheckPair(p) \/ GetModelRPM(p) \/ LimitsDone(p)
    <3>1. pairs' = pairs
      BY <2>3, Zenon DEF GetAllModelPairs, CheckPair, GetModelRPM, LimitsDone
    <3> QED BY <1>2, <3>1
  <2> QED BY <1>2, <2>1, <2>2, <2>3 DEF UpdateLimits
<1>3. ASSUME NEW p \in Proxies, CopyScope(p) \/ UpdateProviderScopes(p) PROVE pairs' = pairs
  BY <1>3 DEF CopyScope, UpdateProviderScopes
<1>4. ASSUME UpdaterTick \/ Serve \/ FetchCredentials \/ FetchModels \/ UpdateDBCredentials \/ UpdateDBModels
             \/ SetCredentials
      PROVE  pairs' = pairs
  BY <1>4 DEF UpdaterTick, Serve, FetchCredentials, FetchModels, UpdateDBCredentials, UpdateDBModels, SetCredentials
<1>5. ASSUME ListAsk \/ ListCollect \/ DBChange
             \/ \E who \in Callers \cup {NoList} : ListStart(who)
             \/ \E p \in Proxies : HealthChange(p) \/ ExpireRemote(p)
      PROVE  pairs' = pairs
  BY <1>5 DEF ListAsk, ListCollect, DBChange, ListStart, HealthChange, ExpireRemote
<1>6. ASSUME SyncLimits PROVE DOMAIN pairs \subseteq DOMAIN pairs'
  <2>1. pairs' = pairs \/ \E rpm : pairs' = Over(rpm, pairs)
    BY <1>6, Zenon DEF SyncLimits
  <2>2. ASSUME NEW rpm, pairs' = Over(rpm, pairs) PROVE DOMAIN pairs \subseteq DOMAIN pairs'
    BY <2>2, OverIs
  <2> QED BY <2>1, <2>2
<1>7. \/ pairs' = pairs \/ SyncLimits \/ ListFinish \/ \E p \in Proxies : UpdateLimits(p)
  BY <1>1, <1>3, <1>4, <1>5, FetcherOf, Zenon DEF Next, ModelUpdater, UpdaterStep, Syncer, Lister
<1>8. CASE \E p \in Proxies : UpdateLimits(p)
  BY <1>2, <1>8
<1> QED BY <1>6, <1>7, <1>8

LEMMA PairsNext ==
  ASSUME Types, Agree, RemovalsAre, PairsLater, Next
  PROVE  PairsLater'
<1> SUFFICES ASSUME phase' # "list", NEW c \in Yaml, NEW m \in Model, IsConfigured(YamlLimits, m, c)
             PROVE  <<c, m>> \in DOMAIN pairs'
  BY DEF PairsLater
<1>1. IsConfigured(limits, m, c) /\ <<m, c>> \in served
  BY DEF Agree, YamlIsServed
<1>2. CASE ListFinish /\ phase = "list"
  <2> DEFINE all == CurrentModels({creds[i].name : i \in DOMAIN creds})
             covered == {y \in Yaml \X all : HasModel(y[1], y[2])}
  <2>1. pairs' = [x \in covered |-> RPMFor(limits, x[2], x[1])]
    BY <1>2, Zenon DEF ListFinish
  <2>2. m \in all
    <3>1. limits[m] # <<>>
      <4>1. DOMAIN <<>> = {}
        OBVIOUS
      <4> QED BY <1>1, <4>1 DEF IsConfigured
    <3> QED BY <3>1 DEF CurrentModels, LimitedModels
  <2>3. HasModel(c, m)
    BY <1>1 DEF HasModel
  <2> HIDE DEF all
  <2>4. <<c, m>> \in covered
    BY <2>2, <2>3
  <2> QED BY <2>1, <2>4
<1>3. CASE ~ListFinish /\ phase = "list"
  <2>1. sync.pc = "idle"
    BY <1>3 DEF Types, SyncIs
  <2>2. ~Serve /\ ~UpdaterTick /\ ~FetchCredentials /\ ~FetchModels /\ ~SyncLimits
    BY <1>3, <2>1 DEF Serve, UpdaterTick, FetchCredentials, FetchModels, SyncLimits
  <2> QED BY <1>3, <2>2, PhaseNext DEF Types
<1>4. CASE ListFinish /\ phase # "list"
  <2>1. pairs' = pairs
    BY <1>4 DEF ListFinish
  <2> QED BY <1>4, <2>1 DEF PairsLater
<1>5. CASE ~ListFinish /\ phase # "list"
  BY <1>5, PairsChange DEF PairsLater
<1> QED BY <1>2, <1>3, <1>4, <1>5

Inv == Types /\ AllGuarded /\ Agree /\ ListsAreCurrent /\ RemovalsAre /\ PairsLater

LEMMA StepInv == Inv /\ [Next]_vars => Inv'
<1> SUFFICES ASSUME Inv, [Next]_vars PROVE Inv'
  OBVIOUS
<1>1. CASE Next
  BY <1>1, TypesNext, GuardedNext, AgreeNext, ListsNext, RemovalsNext, PairsNext DEF Inv
<1>2. CASE UNCHANGED vars
  <2>1. UNCHANGED <<Types, AllGuarded>>
    BY <1>2 DEF vars, world, tables, caches, Types, CallsAre, CredsAre, SyncIs, ListerIs, BalancerIs,
         AllGuarded, Guarded, Closed, IsLeft, Guards, Call, GoodSnapshot, Entry
  <2>2. UNCHANGED <<Agree, RemovalsAre, PairsLater>>
    BY <1>2 DEF vars, world, tables, caches, Agree, TablesAre, MapsAgree, YamlIsServed, IsConfigured, RemovalsAre,
         PairsLater
  <2>3. ListsAreCurrent'
    BY <1>2, SameTablesSameLists DEF Inv, Untouched, vars, caches
  <2> QED BY <2>1, <2>2, <2>3 DEF Inv
<1> QED BY <1>1, <1>2

LEMMA InitInv == Init => Inv
<1>1. Init => PairsLater
  BY DEF Init, PairsLater
<1>2. Init => RemovalsAre
  BY FetcherOf, IdleIsCall DEF Init, RemovalsAre
<1> QED BY <1>1, <1>2, InitTypes, InitGuarded, InitAgree, InitLists DEF Inv

\* The inductive invariant: what each part keeps has its type, proxies stay
\* closed until they are known, the two directions of the model map agree, the
\* lists are forgotten with what they were made of, and the limits of
\* config.yaml stay (all of manager.go, updater.go and the reload of main.go).
THEOREM RegistryInvariant == Spec => []Inv
BY InitInv, StepInv, PTL DEF Spec

\* The model map's two directions agree, no cached list shows what has gone, and
\* the models of config.yaml keep their limits, for any models, credentials,
\* rows, proxies and number of changes (UpdateDBModels,
\* replaceModelsForCredentialLocked, GetAllModels, UpdateAllProxyCredentials).
THEOREM TablesStayTrue == Spec => []RegistryAgrees
<1>1. Inv => RegistryAgrees
  <2>1. PairsLater => PairsCovered
    BY DEF PairsLater, PairsCovered
  <2> QED BY <2>1 DEF Inv, Agree, RegistryAgrees
<1> QED BY <1>1, RegistryInvariant, PTL

\* While requests are served a proxy's scopes in the balancer are known or
\* closed, admit whom both the proxy and config.yaml admit, and what is
\* published for older routers admits nobody else, for any scopes, expressions
\* and callers (UpdateProviderScopes, failClosedUnknownRemoteScope, SetCredentials, And, LegacyProjection).
THEOREM ScopesStayClosed == Spec => []ScopesGuard
<1>1. Inv => ScopesGuard
  BY GuardImplies DEF Inv
<1> QED BY <1>1, RegistryInvariant, PTL
=============================================================================
