SPECIFICATION Spec
CONSTANTS
  Contents = {a, b}
  NoFile = none
  Facts = {f1, f2}
  Environments = {{"late"}}
PROPERTY ActiveMeansApplied
