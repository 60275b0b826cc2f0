SPECIFICATION DashSpec
CONSTANTS
  Groups = {g1}
  Members = {alice}
  Nonces = {n1}
  Requests = {r1, r2}
  Browsers = {phone}
  LinkTTL = 1
  SessionTTL = 3
  RecheckInterval = 2
  LinkSingleUse = TRUE
  TicksPerSecond = 1
  MaxNow = 5
  MaxIssued = 2
  CookieMaxAge = 3
INVARIANTS
  DashTypeOK
  ViewsVouched
  ViewsEndAfterCeiling
PROPERTIES
  FetchAnswered
CHECK_DEADLOCK FALSE
