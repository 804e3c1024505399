SPECIFICATION AllSpec
CONSTANTS
  Modes = {"guarded", "best_effort", "none"}
  a = a
  b = b
  none = none
  f1 = f1
  f2 = f2
  d = d
  c = c
  u = u
  s1 = s1
INVARIANT AllTypeOK
PROPERTIES GuardHolds StatusIsTrue Converges
CHECK_DEADLOCK FALSE
