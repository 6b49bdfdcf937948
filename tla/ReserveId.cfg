CONSTANTS
  Callers = {c1, c2, c3}
  Existing = {1, 3}
  MayFail = TRUE
  MaxCalls = 3
SPECIFICATION ReserveFairSpec
INVARIANTS Unique Dense
PROPERTY Returns
CHECK_DEADLOCK FALSE
