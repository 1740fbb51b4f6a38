SPECIFICATION Spec
CONSTANTS
  p1 = p1
  p2 = p2
  n1 = n1
  n2 = n2
  None = None
  Backend = "scylla"
  SignBit = 16
  Nodes = {n1, n2}
  Procs = {p1, p2}
  NodeOf <- TwoNodes
  Chats = {"c1"}
  Requests <- MixedRequests
  SnapshotInterval = 3
  MaxAppends = 4
  Faults = {"query", "write", "broker", "cache", "crash"}
SYMMETRY NodeSymmetry
INVARIANTS
  ChainOK
  PendingLinked
  AckDurable
  EventsBacked
PROPERTIES
  AppendOnly
  Implements
