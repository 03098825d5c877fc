-------------------------- MODULE CredentialChoice --------------------------
(***************************************************************************)
(* src/internal/balancer/roundrobin.go: which credentials a lookup of the  *)
(* balancer may return.  Creds are the credentials that the caller may see *)
(* and that serve the model of the request.                                *)
(*                                                                         *)
(* What a lookup finds out about the moment is given by two sets: `live`,  *)
(* the credentials neither banned nor over a limit at the first look, and  *)
(* `admitted`, those of them that TryAllowAll admits as well.  The order   *)
(* among the members of a result is the weighted round robin's, which      *)
(* other requests advance too: here every member can be the next one.      *)
(***************************************************************************)
EXTENDS Naturals

CONSTANTS
  Creds,
  Type,         \* credential -> the provider's type
  IsFallback,   \* credential -> is_fallback
  Priority      \* credential -> fallback_priority, 0 when it is not set

ProxyType == "proxy"
TokenType == "vertex-ai"    \* the type that needs a token before a call

ASSUME CredsAssumption ==
  /\ Type \in [Creds -> STRING]
  /\ IsFallback \in [Creds -> BOOLEAN]
  /\ Priority \in [Creds -> Nat]
  /\ \A c \in Creds : IsFallback[c] => Priority[c] = 0

Regular == {c \in Creds : ~IsFallback[c]}
Fallbacks == {c \in Creds : IsFallback[c]}

\* NextFallbackProxyForModel: the fallback credentials that are routers.
FallbackProxies == {c \in Fallbacks : Type[c] = ProxyType}

\* NextSameTypeForModelExcluding, for routers too.
SameType(t, tried) == {c \in Regular \ tried : Type[c] = t}

\* The credentials that a retry may move to when priorities are in use, from
\* the given priority on.
Prioritised(from, tried) ==
  {c \in Regular \ tried : /\ Type[c] # ProxyType
                           /\ Priority[c] > 0
                           /\ Priority[c] >= from}

Unprioritised(tried) ==
  {c \in Regular \ tried : Type[c] # ProxyType /\ Priority[c] = 0}

\* The credentials of the lowest priority number among S.
LowestTier(S) == {c \in S : \A d \in S : Priority[c] <= Priority[d]}

HasTriedPriority(tried) ==
  \E c \in tried : ~IsFallback[c] /\ Type[c] # ProxyType /\ Priority[c] > 0

\* nextPriorityRetry: the lowest tier that has a live member, and only when no
\* tier has one the credentials without a priority.
PriorityRetry(from, tried, live, admitted) ==
  LET tiers == Prioritised(from, tried) \cap live
  IN IF tiers # {} THEN LowestTier(tiers) \cap admitted
                   ELSE Unprioritised(tried) \cap admitted

\* Mutation: a chain without priorities goes on with any type.
RetryAnyType(current, tried, live, admitted) ==
  IF Type[current] = ProxyType \/ IsFallback[current]
  THEN SameType(Type[current], tried) \cap admitted
  ELSE PriorityRetry(Priority[current], tried, live, admitted)

\* NextRetryForModelExcluding: what a retry after `current` may move to.
RetryChoices(current, tried, live, admitted) ==
  IF \/ Type[current] = ProxyType
     \/ IsFallback[current]
     \/ Priority[current] = 0 /\ ~HasTriedPriority(tried)
  THEN SameType(Type[current], tried) \cap admitted
  ELSE IF Priority[current] = 0
  THEN Unprioritised(tried) \cap admitted
  ELSE PriorityRetry(Priority[current], tried, live, admitted)
=============================================================================
