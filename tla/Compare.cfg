CONSTANTS
  Clients = {c1, c2}
  Restored = {c1}
  Kinds = {"SimpleQuery", "Sync"}
  MaxMessages = 5
  MaxLost = 2
SPECIFICATION Spec
INVARIANTS QueuesServe NeverAhead AllMatched
CHECK_DEADLOCK FALSE
