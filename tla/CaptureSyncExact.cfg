CONSTANTS
  Backends = {b1, b2}
  Admins = {a1}
  NoProc = NoProc
  MaxStmts = 2
  MaxPair = 3
  MaxConns = 1
  MaxCaptures = 1
SPECIFICATION Spec
SYMMETRY Symmetry
INVARIANT ReplayExact
CHECK_DEADLOCK FALSE
