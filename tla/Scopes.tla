------------------------------- MODULE Scopes -------------------------------
(***************************************************************************)
(* Scopes: who may use a credential (internal/scope, internal/config).     *)
(* A caller (scope.Context) has allowed and denied scopes; a credential    *)
(* has its own scopes and, when it is another router, the scopes that      *)
(* router advertises.  An expression is a disjunction of alternatives, an  *)
(* alternative a conjunction of requirements with a set of denied scopes.  *)
(* Lists are sets here: the code normalises, sorts and deduplicates them.  *)
(***************************************************************************)
EXTENDS Integers, Sequences, FiniteSets, FiniteSetsExt

CONSTANTS
    Scope,              \* the scopes, the wildcard and the no-match scope among them
    Wildcard,           \* "*"
    NoMatch,            \* legacyNoMatchScope: a scope that nobody holds
    MaxAlternatives     \* maxExpressionAlternatives

ASSUME ScopeAssumption ==
    /\ IsFiniteSet(Scope) /\ Wildcard \in Scope /\ NoMatch \in Scope /\ Wildcard # NoMatch
    /\ MaxAlternatives \in Nat \ {0}

Context == [admin : BOOLEAN, allowed : SUBSET Scope, denied : SUBSET Scope]
Alternative == [needs : SUBSET (SUBSET Scope), denied : SUBSET Scope]
Expression == SUBSET Alternative

FalseExpression == {}
NoConstraint == [needs |-> {}, denied |-> {}]

\* An alternative with an empty requirement is dropped, and more alternatives
\* than the bound close the expression.
NormalizeExpression(e) ==
    LET kept == {a \in e : {} \notin a.needs}
    IN  IF Cardinality(kept) > MaxAlternatives THEN FalseExpression ELSE kept

FromScopes(scopes, denied) ==
    {[needs |-> IF scopes = {} THEN {} ELSE {scopes}, denied |-> denied]}

Intersects(set, values) ==
    /\ set # {} /\ values # {}
    /\ Wildcard \in set \/ Wildcard \in values \/ set \cap values # {}

Allows(c, scopes, denied) ==
    /\ NoMatch \notin scopes
    /\ \/ c.admin
       \/ /\ Wildcard \notin denied /\ Wildcard \notin c.denied
          /\ ~Intersects(c.allowed, denied)
          /\ ~Intersects(c.denied, scopes)
          /\ Wildcard \in c.allowed \/ scopes = {} \/ Intersects(c.allowed, scopes)

AllowsAlternative(c, a) ==
    /\ Allows(c, {}, a.denied)
    /\ \A need \in a.needs : Allows(c, need, {})

AllowsExpression(c, e) ==
    LET normalized == NormalizeExpression(e)
    IN  /\ normalized # {}
        /\ c.admin \/ \E a \in normalized : AllowsAlternative(c, a)

\* Both of two expressions. 
And(e, f) ==
    LET left == NormalizeExpression(e)
        right == NormalizeExpression(f)
    IN  IF Cardinality(left) * Cardinality(right) > MaxAlternatives
        THEN FalseExpression
        ELSE {[needs |-> a.needs \cup b.needs, denied |-> a.denied \cup b.denied]
                : a \in left, b \in right}

\* Any of the expressions f[x], x in the domain of f.
Or(f) ==
    IF MapThenSumSet(LAMBDA x : Cardinality(NormalizeExpression(f[x])), DOMAIN f) > MaxAlternatives
    THEN FalseExpression
    ELSE UNION {NormalizeExpression(f[x]) : x \in DOMAIN f}

\* The two lists that a router publishes for readers that do not know expressions.
Projection(scopes, denied) == [scopes |-> scopes, denied |-> denied]
Nobody == Projection({NoMatch}, {})

\* The alternatives are a sequence here, in the order of the normalised list:
\* the first one without a requirement ends the comparison.
LegacyProjection(s) ==
    LET unlike(i) == s[i].denied # s[1].denied \/ Cardinality(s[i].needs) > 1
    IN  IF s = <<>> \/ \E i \in DOMAIN s : Wildcard \in s[i].denied
        THEN Nobody
        ELSE IF \E i \in DOMAIN s : s[i].needs = {} /\ \A j \in 1..i : ~unlike(j)
        THEN Projection({}, s[1].denied)
        ELSE IF \E i \in DOMAIN s : unlike(i)
        THEN Nobody
        ELSE Projection(UNION UNION {s[i].needs : i \in DOMAIN s}, s[1].denied)
=============================================================================
