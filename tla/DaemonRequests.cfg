SPECIFICATION Spec
CONSTANTS
  Clients = {r1, s1}
  Stoppers = {s1}
  MaxInstances = 2
  maxPendingRequestFiles = 1
  maxRetainedAckFiles = 1
INVARIANTS Serialized AnswersHold
PROPERTIES DecisionIsFinal
CHECK_DEADLOCK FALSE
