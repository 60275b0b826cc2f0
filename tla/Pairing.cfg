SPECIFICATION Spec
CONSTANTS
  Requests = {r1, r2}
  Cooldown = 2
  MaxNow = 4
  MaxStarts = 2
  MaxLosses = 2
INVARIANTS
  TypeOK
  PairsNoSession
PROPERTIES
  LossReported
  AttemptsSpaced
CHECK_DEADLOCK FALSE
