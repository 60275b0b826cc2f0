SPECIFICATION SafeSpec
CONSTANTS
  Jobs = {digest}
  Daily = {digest}
  Slots = {s1, s2}
  Day = 2
  Hour = 1
  Every = 1
  Jitter = 1
  TicksPerSecond = 1
  MaxStagger = 0
  MaxWall = 4
  MaxSteps = 0
  MaxStarts = 2
  MaxHooks = 1
INVARIANTS
  AtMostOncePerDay
CHECK_DEADLOCK FALSE
