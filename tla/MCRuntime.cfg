SPECIFICATION Spec
CONSTANTS
  p1 = p1
  p2 = p2
  k1 = k1
  k2 = k2
  Keys = {y1, y2}
  Runtimes = {r1, r2}
  Tokens = {t1, t2, t3}
  None = None
INVARIANTS TypeOK OwnedOnce
PROPERTIES ClosedInOrder SupervisorHolds TeardownEnds
CHECK_DEADLOCK FALSE
