--------------------------- MODULE MCRateLimiter ---------------------------
\* Small instances of RateLimiter: two requests a window for the credential and
\* one for the model m1, two tokens each.
EXTENDS RateLimiter

CONSTANTS m1

RpmLimits == [k \in {Cred} \cup Models |-> IF k = m1 THEN 1 ELSE 2]
TpmLimits == [k \in {Cred} \cup Models |-> IF k = Cred THEN 2 ELSE 1]
===========================================================================
