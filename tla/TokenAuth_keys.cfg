CONSTANTS
  Unset = Unset
  Forever = Forever
  NoRow = NoRow
  Requests = {r1, r2}
  Keys = {k1}
  Master = master
  Rows <- MCRows
  TTL = 1
  CacheSize = 1
  Threshold = 2
  MaxBackoff = 2
  MaxQuery = 1
  MaxChanges = 1
  MaxOutages = 1
SPECIFICATION FairSpec
PROPERTIES DecisionsAreRecent Recovers
