----------------------- MODULE MCWeightedRoundRobin -----------------------
\* Small instances of WeightedRoundRobin: three credentials of different
\* weights, any non-empty set of which can be live, and two credentials, one
\* much heavier, that are always live.
EXTENDS WeightedRoundRobin

MCWeight == <<3, 2, 1>>
AnyLive == SUBSET (1 .. 3) \ {{}}

TwoWeights == <<3, 1>>
BothLive == {{1, 2}}
===========================================================================
