SPECIFICATION Spec
CONSTANTS
  Jobs = {digest, sweep}
  Daily = {digest}
  Slots = {s1, s2}
  Day = 2
  Hour = 1
  Every = 1
  Jitter = 0
  TicksPerSecond = 1
  MaxStagger = 0
  MaxWall = 3
  MaxSteps = 1
  MaxStarts = 2
  MaxHooks = 1
INVARIANTS
  TypeOK
  OncePerDay
  MarkersEarned
  Sequential
  StartsOnline
PROPERTIES
  KeepsFiring
CHECK_DEADLOCK FALSE
