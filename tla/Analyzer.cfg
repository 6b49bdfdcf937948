CONSTANTS
  None = None
  Clients = {c1, c2}
  Restored = {c1}
  Kinds = {"SimpleQuery", "Parse", "Bind", "Execute", "Sync"}
  Queries = {q1, q2}
  Names = {s1}
  Arities = {0, 1}
  Types <- Oids
  StartTs = 0
  MaxTs = 1
  ChunkTs = 1
  Durations = {1, 2}
  MaxMessages = 3
  MaxTraces = 2
SPECIFICATION Spec
SYMMETRY Symmetry
INVARIANTS TypeOK Attributed ChunksServe Served
CHECK_DEADLOCK FALSE
