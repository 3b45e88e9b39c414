SPECIFICATION Spec
CONSTANTS
  MaxScopes = 3
  MaxSlots = 3
  MaxBytes = 8
  MaxWork = 3
  MaxDepth = 1
  Additional = {1, 4}
  Header = 1
  Pad = 2
  Object = 1
INVARIANTS
  TypeOK
  NoInternalError
  Accounted
  CeilingsNest
  PeakIsHighWater
