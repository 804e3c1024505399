CONSTANT Modes = {"guarded"}
SPECIFICATION Spec
PROPERTY GuardKeptOnFailure
