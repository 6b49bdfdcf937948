CONSTANTS
  Clients = {k1}
  QueueCap = 1
  WakeBatch = 2
  Horizon = 1
  CatchUp = 0
  Failures = {}
  MaxCmds = 2
  MaxTs = 0
  MaxNow = 1
SPECIFICATION FairSpec
PROPERTY Terminates
CHECK_DEADLOCK FALSE
