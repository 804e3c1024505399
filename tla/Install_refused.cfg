SPECIFICATION Spec
CONSTANTS
  ExistingLimit = 1
  MaxOps = 2
  MaxCrash = 0
  MaxForeign = 0
INVARIANT UninstallAccepted
CHECK_DEADLOCK FALSE
