SPECIFICATION Spec
CONSTANTS
  Threads = {t1, t2}
  NoThread = NoThread
  Cursors = {c1, c2}
  NoCursor = NoCursor
  Receipts = {r1, r2}
  NoReceipt = NoReceipt
  Accounts = {host, other}
  Program = host
  ProgramBytes = 3
  ScratchBytes = 1
  ResultBytes = 2
SYMMETRY Symmetry
INVARIANTS
  TypeOK
  Conserved
  OpenCursorsFunded
  ClosedHoldsNothing
  TokenAuthority
  NoFundingGap
PROPERTIES
  TerminalStays
CHECK_DEADLOCK FALSE
