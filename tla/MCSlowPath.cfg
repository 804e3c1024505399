SPECIFICATION Spec
CONSTANTS
  c1 = c1
  c2 = c2
  c3 = c3
  k1 = k1
  k2 = k2
  f1 = f1
  f2 = f2
  u1 = u1
  u2 = u2
  d1 = d1
  d2 = d2
  p1 = p1
  p2 = p2
INVARIANTS TypeOK ClosedIsUnused PacketsWhole
PROPERTIES WrittenOnce ActionsInOrder
CHECK_DEADLOCK FALSE
