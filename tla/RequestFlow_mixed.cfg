CONSTANTS
  None = None
  a1 = a1
  b0 = b0
  a2 = a2
  b3 = b3
  x0 = x0
  y0 = y0
  d = d
  f = f
  g = g
  Creds <- Mixed
  Type <- MCType
  IsFallback <- MCIsFallback
  Priority <- MCPriority
  MaxProviderRetries = 2
  MaxFallbackAttempts = 2
  BadSets <- GoodOrTokens
SPECIFICATION FairSpec
INVARIANTS EntryOnce AnsweredOnce CompleteIsAttributed SessionFollowsSuccess ChainOrder
PROPERTIES KeepsContract Ends
