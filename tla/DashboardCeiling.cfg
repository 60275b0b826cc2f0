SPECIFICATION DashSafety
CONSTANTS
  Groups = {g1}
  Members = {alice}
  Nonces = {n1}
  Requests = {r1, r2}
  Browsers = {phone}
  LinkTTL = 1
  SessionTTL = 3
  RecheckInterval = 2
  LinkSingleUse = TRUE
  TicksPerSecond = 1
  MaxNow = 4
  MaxIssued = 2
  CookieMaxAge = 3
INVARIANTS
  ViewsWithinCeiling
SYMMETRY Symmetry
CHECK_DEADLOCK FALSE
