CONSTANTS
  Clients = {k1, k2}
  QueueCap = 1
  WakeBatch = 2
  Horizon = 0
  CatchUp = 1
  Failures = {"connect", "drop"}
  MaxCmds = 3
  MaxTs = 1
  MaxNow = 0
SPECIFICATION FairSpec
INVARIANTS TypeOK WireOrder TimersServe
PROPERTIES AllSent EndedTerminates
CHECK_DEADLOCK FALSE
