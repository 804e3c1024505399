SPECIFICATION AllSpec
CONSTANTS
  Flows = {f1, f2}
  Packets = {h1}
  Sources = {r1}
  SourceOf <- OneSource
  SessionCapacity = 2
  MaxHalfOpenSessions = 1
  MaxHalfOpenPerSource = 1
  MaxPendingFlows = 1
  MaxPendingPacketsPerFlow = 1
  MaxPendingBytes = 1
  HandshakeRetries = 1
  MaxSessionID = 2
  MaxRevision = 2
  QFlows = {q1, q2}
  QPackets = {p1, p2, p3}
  CFlows = {w1, w2, w3}
  r1 = r1
  SYNSources = {s1, s2, s3}
  Runtimes = {t1, t2}
  Doctor = doctor
INVARIANTS AllTypeOK CountersExact
PROPERTIES FastPathOwned LimitsHold ServedByOwner
CHECK_DEADLOCK FALSE
