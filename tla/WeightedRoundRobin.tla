------------------------ MODULE WeightedRoundRobin ------------------------
(***************************************************************************)
(* src/internal/balancer: smooth weighted round robin over the credentials *)
(* that can serve a request now (weighted.go and the selection of          *)
(* roundrobin.go that uses it), for one scheduling cycle.                  *)
(*                                                                         *)
(* A selection runs under the balancer's lock and is one step.  Its inputs *)
(* are the set of live credentials, those neither banned nor over a limit  *)
(* at the first look, and the set of those that TryAllowAll refuses all    *)
(* the same, because the traffic of another request came in between.       *)
(***************************************************************************)
EXTENDS Integers

CONSTANTS
  N,            \* the candidates are 1 .. N, in the order of the configuration
  Weight,       \* candidate -> effective weight
  LiveSets,     \* the sets of credentials that can be live together
  MaxRefusals   \* bound: selections in which TryAllowAll refuses somebody

Candidates == 1 .. N

ASSUME WeightAssumption == N \in Nat \ {0} /\ Weight \in [Candidates -> Nat \ {0}]
ASSUME LiveAssumption == LiveSets \subseteq SUBSET Candidates /\ {} \notin LiveSets
ASSUME RefusalAssumption == MaxRefusals \in Nat

VARIABLES
  nodes,        \* the credentials that have a node in the scheduler
  current,      \* candidate -> the counter of its node, 0 without a node
  refusals,     \* selections with a refusal so far
  live,         \* the live credentials of the last selection
  owed,         \* candidate -> its share of the selections made since the
                \* live set last changed, less those it won, times the
                \* total live weight
  waited,       \* candidate -> selections in a row it was live and passed over
  streak        \* candidate -> selections in a row it won against a rival

ghosts == <<live, owed, waited, streak>>
schedulerVars == <<nodes, current, refusals, ghosts>>

\* The sum of f over the candidates in S, in their order.
Total(f, S) ==
  LET upto[n \in 0 .. N] ==
        IF n = 0 THEN 0 ELSE upto[n - 1] + (IF n \in S THEN f[n] ELSE 0)
  IN  upto[N]

TotalWeight(L) == Total(Weight, L)

-----------------------------------------------------------------------------
SchedulerInit ==
  /\ nodes = {}
  /\ current = [c \in Candidates |-> 0]
  /\ refusals = 0
  /\ live = {}
  /\ owed = [c \in Candidates |-> 0]
  /\ waited = [c \in Candidates |-> 0]
  /\ streak = [c \in Candidates |-> 0]

\* The nodes that are not live are deleted, the others gain their weight.
Advanced(L) == [c \in Candidates |-> IF c \in L THEN current[c] + Weight[c] ELSE 0]

\* Mutation: the heaviest of the live credentials first.
BeforeHeavy(counter, c, d) ==
  \/ Weight[c] > Weight[d]
  \/ Weight[c] = Weight[d] /\ c < d

\* The stable sort: by counter, highest first, and in the order of the
\* configuration between equal counters.
Before(counter, c, d) ==
  \/ counter[c] > counter[d]
  \/ counter[c] = counter[d] /\ c < d

\* The winner pays the total live weight.
Charged(counter, c, L) == [counter EXCEPT ![c] = @ - TotalWeight(L)]

\* The first credential in that order which TryAllowAll admits.
Chosen(counter, admitted) ==
  CHOOSE c \in admitted : \A d \in admitted \ {c} : Before(counter, c, d)

\* What the history records of a selection of c among L.
Record(c, L, refused) ==
  /\ live' = L
  /\ owed' = [d \in Candidates |->
       IF d \notin L THEN 0
       ELSE (IF L = live THEN owed[d] ELSE 0) + Weight[d]
              - (IF d = c THEN TotalWeight(L) ELSE 0)]
  /\ waited' = [d \in Candidates |->
       IF d \in L \ (refused \cup {c}) THEN waited[d] + 1 ELSE 0]
  /\ streak' = [d \in Candidates |->
       IF d = c /\ L \ refused # {c} THEN streak[d] + 1 ELSE 0]

\* A selection that admits some live credential.
Select(L, refused) ==
  /\ L \ refused # {}
  /\ LET counter == Advanced(L)
         c == Chosen(counter, L \ refused)
     IN /\ nodes' = L
        /\ current' = Charged(counter, c, L)
        /\ Record(c, L, refused)

\* TryAllowAll refuses everybody: the counters advanced and nobody is charged.
SelectNone(L) ==
  /\ nodes' = L
  /\ current' = Advanced(L)
  /\ live' = L
  /\ owed' = [c \in Candidates |-> 0]
  /\ waited' = [c \in Candidates |-> 0]
  /\ streak' = [c \in Candidates |-> 0]

SchedulerNext ==
  \/ \E L \in LiveSets : Select(L, {}) /\ UNCHANGED refusals
  \/ /\ refusals < MaxRefusals
     /\ refusals' = refusals + 1
     /\ \E L \in LiveSets :
          \/ \E refused \in (SUBSET L) \ {{}} : Select(L, refused)
          \/ SelectNone(L)

SchedulerSpec == SchedulerInit /\ [][SchedulerNext]_schedulerVars

-----------------------------------------------------------------------------
AllWeight == TotalWeight(Candidates)

\* What a counter can come to.  A credential that is banned right after it was
\* selected leaves its debt to nobody, and the others keep the credit; it can
\* happen once with each of them.  A selection that TryAllowAll disturbs leaves
\* weight gained and not paid for.
Bound == (N + refusals) * AllWeight

\* The scheduler keeps nodes for the last live set, and only a node has a
\* counter.  Deleting nodes breaks the balance of the counters, whose sum is
\* then no longer zero; still they stay bounded, so that no history of bans
\* makes a debt or a credit that grows.
SchedulerTypeOK ==
  /\ nodes \in SUBSET Candidates
  /\ nodes = live
  /\ refusals \in 0 .. MaxRefusals
  /\ current \in [Candidates -> -Bound .. Bound]
  /\ \A c \in Candidates \ nodes : current[c] = 0

\* A credential that stays live is selected again after a bounded number of
\* selections, however the others come and go between them.
NoStarvation == \A c \in Candidates : waited[c] * Weight[c] <= 2 * Bound

\* While the live set does not change the selections are proportional to the
\* weights up to a constant, whatever counters the past has left.
Proportional == \A c \in live : owed[c] \in -2 * Bound .. 2 * Bound

\* A credential that comes back from a ban wins a bounded number of selections
\* in a row against a rival that could have served as well.
BurstBounded == \A c \in Candidates : streak[c] <= 2 * Bound

\* Over any time a credential gets its share up to a constant: it is neither
\* passed over for long nor preferred, in the long run and in a row.
SharesAreFair == SchedulerTypeOK /\ NoStarvation /\ Proportional /\ BurstBounded

\* The comment on the selection (roundrobin.go:322-324): a credential over its
\* limit does not gain weight while it is down, so that there is no burst when
\* it recovers, whatever TryAllowAll has refused before.
NoBurst == \A c \in Candidates : streak[c] <= 2 * AllWeight
===========================================================================
