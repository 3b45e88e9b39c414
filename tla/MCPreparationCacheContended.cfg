SPECIFICATION Spec
CONSTANTS
  Threads = {t1, t2, t3}
  Keys = {k1, k2}
  NoKey = NoKey
  BadKeys = {}
  HugeKeys = {}
  Slots = {s1, s2, s3, s4}
  NoSlot = NoSlot
  KeyCharge = 1
  ValueCharges = {1, 3}
  MaxPayload = 4
  MaxEntries = 2
  Capacities = {2}
  MaxGeneration = 1
  Funded = FALSE
  Client = "core"
SYMMETRY Symmetry
INVARIANTS
  OneEntryPerKey
  SingleFlight
