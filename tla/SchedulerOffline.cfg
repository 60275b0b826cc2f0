SPECIFICATION Spec
CONSTANTS
  Jobs = {digest}
  Daily = {digest}
  Slots = {s1, s2}
  Day = 2
  Hour = 1
  Every = 1
  Jitter = 1
  TicksPerSecond = 1
  MaxStagger = 0
  MaxWall = 3
  MaxSteps = 0
  MaxStarts = 1
  MaxHooks = 1
PROPERTIES
  TicksOnline
CHECK_DEADLOCK FALSE
