SPECIFICATION FairSpec
CONSTANTS
  Threads = {t1, t2, t3}
  Uses = {u1, u2, u3}
  NoUse = NoUse
  Charge = 2
INVARIANTS
  TypeOK
  NoRefundUnderUse
  ChargeInOnePlace
  LeaveNeverThrows
PROPERTIES
  EventuallyRefunded
  ImplementsLease
CHECK_DEADLOCK FALSE
