CONSTANTS
  Entries = {e1, e2}
  Aggregators = {a1, a2}
  QueueCap = 1
  BatchSize = 2
  MaxAttempts = 2
  DLQMax = 1
  PendingCap = 1
  MaxFaults = 4
SPECIFICATION FairSpec
INVARIANTS CountedOnce KeptUntilDLQ
PROPERTIES LedgerSpec ShutdownTerminates DeadLettersDrain AcceptedIsWritten
