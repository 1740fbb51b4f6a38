SPECIFICATION Spec
CONSTANTS
  Backend = "memory"
  SignBit = 16
  LeafIds = {1, 2, 3, 4, 5}
  MaxLeaves = 5
  MaxEntries = 3
CHECK_DEADLOCK FALSE
INVARIANTS
  ProofsVerify
  ProofsBindLeaf
  RootDeterminesWindow
  VerifyExact
  TipCommits
  EachEntryVerifies
