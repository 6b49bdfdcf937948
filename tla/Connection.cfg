SPECIFICATION FairSpec
CONSTANTS
  HeaderLen = 2
  BodyLen <- Bodies
  ReadBuf = 2
  Threshold = 2
  NetCap = 4
  HasPassword = TRUE
  Failures = {"socket", "refuse", "drop", "reset", "spurious"}
  MaxCmds = 2
  MaxSaid = 9
INVARIANTS
  Conveyed
  Framed
PROPERTIES
  ImplementsDialog
  EveryWaitEnds
CHECK_DEADLOCK FALSE
