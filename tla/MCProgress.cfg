SPECIFICATION ProgressSpec
CONSTANTS
  Packets = {p1, p2}
  MaxInflight = 5
  CasAttempts = 2
  RingCapacity = 1
  Flows = {f1, f2}
  r1 = r1
  c1 = c1
  c2 = c2
  k1 = k1
  k2 = k2
  f1 = f1
  u1 = u1
  u2 = u2
  d1 = d1
  p1 = p1
  p2 = p2
INVARIANTS TypeOK PolicyWhileInside QuiescedIsDrained NeverPoisoned
PROPERTIES SessionsSettle CallsEnd RecoveryFinishes
CHECK_DEADLOCK FALSE
