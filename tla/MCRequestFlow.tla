--------------------------- MODULE MCRequestFlow ---------------------------
\* Small instances of RequestFlow.  Mixed has providers of two types, one of
\* them with a priority, two routers, two fallback routers and a fallback that
\* is not a router.  Providers4 has no routers but two priorities and two fallback
\* routers: the statements of the documents that the code does not keep are
\* refuted on it.
EXTENDS RequestFlow

CONSTANTS a1, b0, a2, b3, x0, y0, d, f, g

Providers4 == {a1, b0, a2, b3, f, g}
Mixed == {a1, b0, a2, x0, y0, d, f, g}

MCType == [c \in Creds |->
  CASE c \in {a1, a2, d} -> TokenType
    [] c \in {b0, b3} -> "openai"
    [] OTHER -> ProxyType]

MCIsFallback == [c \in Creds |-> c \in {d, f, g}]

\* a2 and b3 have priorities.
MCPriority == [c \in Creds |-> CASE c = a2 -> 2 [] c = b3 -> 3 [] OTHER -> 0]

OnlyGood == {{}}
GoodOrTokens == {{}, {a1, a2}}
=============================================================================
