---------------------------- MODULE MCFail2Ban ----------------------------
\* Small instances of Fail2Ban: 429 bans for a while on the second failure,
\* 401 bans for ever on the first.
EXTENDS Fail2Ban

CONSTANTS rateLimited, unauthorized

OneCode  == {rateLimited}
TwoCodes == {rateLimited, unauthorized}
Attempts == [c \in Codes |-> IF c = rateLimited THEN 2 ELSE 1]
Duration == [c \in Codes |-> IF c = rateLimited THEN 1 ELSE 0]
===========================================================================
