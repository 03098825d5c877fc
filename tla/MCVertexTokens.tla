--------------------------- MODULE MCVertexTokens ---------------------------
\* A small instance of VertexTokens.  A call is one call of GetToken, so a
\* caller that comes back is one more call.
EXTENDS VertexTokens, TLC

CONSTANTS k1, k2, k3
Three == {k1, k2, k3}
=============================================================================
