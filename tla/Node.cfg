SPECIFICATION AllSpec
CONSTANTS
  p1 = p1
  p2 = p2
  n1 = n1
  n2 = n2
  None = None
  Backend = "memory"
  SignBit = 16
  Nodes = {n1}
  Procs = {p1, p2}
  NodeOf <- OneNode
  Chats = {"c1", "c2"}
  Requests <- TwoChatRequests
  SnapshotInterval = 2
  MaxAppends = 4
  Faults = {}
  Readers = {"r1"}
  Garbage = Garbage
  defaultHistoryLimit = 2
  maxHistoryLimit = 3
  FromParams <- Froms
  LimitParams <- Limits
INVARIANTS
  TypeOK
  AllAuthentic
  PublishedInOrder
  SnapshotRange
  SnapshotsTile
  HistoryComplete
  CoveredIsProved
  NoFalseAlarm
