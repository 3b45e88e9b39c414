SPECIFICATION Spec
CONSTANTS
  Max = 5
  Limits <- MCLimits
  Sizes = {1, 2, 4}
  Depths = {1, 2}
  Policies = {2, 5}
  Baselines = {0, 1}
INVARIANTS
  TypeOK
  Conserved
  WithinLimits
  FailuresExplained
PROPERTIES
  FirstDenialStands
  CeilingIsTheLimit
CHECK_DEADLOCK FALSE
