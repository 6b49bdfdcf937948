CONSTANTS
  Producers = {p1, p2}
  HeaderSize = 3
  BufferSize = 4
  MsgLens = {1, 2, 3}
  MaxSent = 5
SPECIFICATION FairSpec
INVARIANTS IInv Exclusive
PROPERTIES ImplementsQueue AllDelivered
CHECK_DEADLOCK FALSE
