SPECIFICATION Spec
CONSTANTS
  Threads = {t1, t2}
  Keys = {k1, k2, k3}
  NoKey = NoKey
  BadKeys = {k3}
  HugeKeys = {k3}
  Slots = {s1, s2, s3, s4}
  NoSlot = NoSlot
  KeyCharge = 1
  ValueCharges = {1, 3}
  MaxPayload = 4
  MaxEntries = 2
  Capacities = {0, 1, 2}
  MaxGeneration = 1
  Funded = TRUE
  Client = "core"
SYMMETRY Symmetry
INVARIANTS
  TypeOK
  Bounded
  ActiveUseFunded
  Conserved
PROPERTIES
  NoStalePublication
  ImplementsPlanMap
