CONSTANTS
  Direct = {d}
  Hybrid = {h}
  NoReplica = NoReplica
  Requests = {r1, r2}
  cred = cred
  model = model
  Keys = {cred, model}
  Asks <- CredAndModel
  ModelKeys = {model}
  Counters <- MCCounters
  Limit <- Limits
  Amount = 1
  Window = 2
  CallTicks = 1
  AnswerTicks = 0
  MaxRetries = 1
  QueueCap = 2
  BatchSize = 2
  MaxEvents = 1
SPECIFICATION Spec
INVARIANTS SharedLimit
CHECK_DEADLOCK FALSE
PROPERTIES LeftAloneRecovers
