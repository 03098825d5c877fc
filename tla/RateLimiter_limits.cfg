CONSTANTS
  m1 = m1
  Models = {m1}
  NoModel = NoModel
  Cred = Cred
  Rpm <- RpmLimits
  Tpm <- TpmLimits
  Window = 2
  Callers = {w1, w2}
  MaxAmount = 1
  Reloads = 1
SPECIFICATION FairSpec
INVARIANTS WithinLimits
PROPERTIES AtomicDecisions CapacityReturns
