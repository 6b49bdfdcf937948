CONSTANTS
  Backends = {b1}
  Admins = {a1, a2}
  NoProc = NoProc
  MaxStmts = 3
  MaxPair = 3
  MaxConns = 1
  MaxCaptures = 2
SPECIFICATION FairSpec
INVARIANTS PendingExact OneLsnPerCapture
PROPERTY SyncHappens
CHECK_DEADLOCK FALSE
