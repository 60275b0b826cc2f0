SPECIFICATION BotSpec
CONSTANTS
  Groups = {g1}
  Members = {alice}
  Nonces = {n1}
  Requests = {r1}
  LinkTTL = 1
  SessionTTL = 1
  RecheckInterval = 1
  LinkSingleUse = FALSE
  TicksPerSecond = 2
  MaxNow = 2
  MaxIssued = 2
  Jobs = {digest}
  Daily = {digest}
  Slots = {s1}
  Day = 2
  Hour = 1
  Every = 1
  Jitter = 1
  MaxStagger = 0
  MaxStarts = 2
  MaxHooks = 1
  Grace = 1
INVARIANTS
  StopSparesLogins
CHECK_DEADLOCK FALSE
PROPERTIES
  LinksUndisturbed
  JobsUndisturbed
  PromiseOfLinks
  StopsWhenAsked
