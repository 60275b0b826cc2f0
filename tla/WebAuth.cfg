SPECIFICATION Spec
CONSTANTS
  Groups = {g1}
  Members = {alice}
  Nonces = {n1, n2}
  Requests = {r1, r2}
  LinkTTL = 1
  SessionTTL = 3
  RecheckInterval = 2
  LinkSingleUse = TRUE
  TicksPerSecond = 1
  MaxNow = 5
  MaxIssued = 2
  ourToken = ourToken
  ourKey = ourKey
  Secrets = {ourToken, ourKey}
  DefaultLinkTTL = 1
  DefaultSessionTTL = 3
  DefaultRecheckInterval = 2
INVARIANTS
  TypeOK
  SingleWinner
  RevocationLag
  SessionCeiling
PROPERTIES
  SweepSparesLive
  KeepsPromise
CHECK_DEADLOCK FALSE
SYMMETRY Symmetry
