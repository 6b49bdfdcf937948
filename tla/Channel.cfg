CONSTANTS
  Controllers = {c1, c2}
  Producers = {p1}
  Failures = {"register", "fork", "open", "term"}
  MaxStarts = 2
  MaxMsgs = 3
SPECIFICATION FairSpec
INVARIANTS IInv SingleConsumer FilesWellFormed
PROPERTY WorkerServes
CHECK_DEADLOCK FALSE
