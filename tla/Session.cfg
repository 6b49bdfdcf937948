CONSTANTS
  Gucs = {path, g}
  Path = path
  Forbidden = {g}
  Values = {v0, v1}
  Default = v0
  Names = {unnamed, n1}
  Unnamed = unnamed
  Tables = {t1, t2}
  Nothing = Nothing
  MayFail = TRUE
  MayDie = TRUE
  MaxRows = 1
  MaxCommands = 3
SPECIFICATION Spec
INVARIANTS TypeOK FileWhole FailsCleanly RoundTrip
CHECK_DEADLOCK FALSE
