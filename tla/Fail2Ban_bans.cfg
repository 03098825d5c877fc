CONSTANTS
  Creds = {c1}
  Models = {m1, m2}
  rateLimited = rateLimited
  unauthorized = unauthorized
  Codes <- TwoCodes
  MaxAttempts <- Attempts
  BanDuration <- Duration
  Callers = {w1, w2}
  NoBan = NoBan
  Idle = Idle
SPECIFICATION Spec
INVARIANTS BansMatchCounters
PROPERTIES ActiveBanSurvives PolicySpec
