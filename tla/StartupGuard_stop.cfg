CONSTANT Modes = {"guarded"}
SPECIFICATION Spec
INVARIANT StopDetaches
