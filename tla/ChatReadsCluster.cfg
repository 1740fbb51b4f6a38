SPECIFICATION AllSpec
CONSTANTS
  p1 = p1
  p2 = p2
  n1 = n1
  n2 = n2
  None = None
  Backend = "scylla"
  SignBit = 16
  Nodes = {n1, n2}
  Procs = {p1, p2}
  NodeOf <- TwoNodes
  Chats = {"c1"}
  Requests <- OneRequest
  SnapshotInterval = 2
  MaxAppends = 4
  Faults = {"query"}
  Readers = {"r1"}
  Garbage = Garbage
  defaultHistoryLimit = 2
  maxHistoryLimit = 3
  FromParams <- SmallFroms
  LimitParams <- Limits
SYMMETRY NodeSymmetry
INVARIANTS
  HistoryComplete
  SyncReplays
  SyncNotAhead
  ProofSound
  NoFalseAlarm
