CONSTANTS
    Callers = {c1}
    Closers = {k1}
    Flows = {f1, f2}
    Cpus = {u1}
    MaxCaptures = 2
    MaxStreams = 1
    MaxFaults = 0
SPECIFICATION Spec
CHECK_DEADLOCK FALSE
INVARIANT FlowsIndependent
