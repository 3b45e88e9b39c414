SPECIFICATION FairSpec
CONSTANTS
  Threads = {t1, t2}
  NoThread = NoThread
  Cursors = {c1, c2}
  NoCursor = NoCursor
  Receipts = {r1}
  NoReceipt = NoReceipt
  Accounts = {host}
  Program = host
  ProgramBytes = 3
  ScratchBytes = 1
  ResultBytes = 2
PROPERTIES
  ProgramRefunded
CHECK_DEADLOCK FALSE
