SPECIFICATION LifeSpec
CONSTANTS
  p1 = p1
  p2 = p2
  n1 = n1
  n2 = n2
  None = None
  Backend = "scylla"
  SignBit = 16
  Nodes = {n1}
  Procs = {p1, p2}
  NodeOf <- OneNode
  Chats = {"c1"}
  Requests <- OneRequest
  SnapshotInterval = 1
  MaxAppends = 3
  Faults = {"query", "write", "crash"}
INVARIANTS
  SnapshotsCover
PROPERTIES
  AllAnswered
  ShutdownCompletes
