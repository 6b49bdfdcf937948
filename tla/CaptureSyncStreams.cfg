CONSTANTS
  Backends = {b1, b2}
  Admins = {a1}
  NoProc = NoProc
  MaxStmts = 2
  MaxPair = 3
  MaxConns = 1
  MaxCaptures = 2
SPECIFICATION Spec
SYMMETRY Symmetry
INVARIANTS TypeOK LsnFirst FirstClientStream PreInBase FirstReadyTxCaptured UniqueClientIds
CHECK_DEADLOCK FALSE
