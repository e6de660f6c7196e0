SPECIFICATION Spec
CONSTANTS
  MaxTrees = 2
  Capacity = 3
  Hashes <- AllHashes
  Blocks <- AllBlocks
  Nullifiers <- AllNullifiers
  NoNode = NoNode
  ZeroLeaf = ZeroLeaf
  NoSnapshot = NoSnapshot
  Never = Never
  CommitmentRows <- MisindexedCommitments
  NullifierRows <- ChainNullifiers
  TxBlocks <- ChainTxBlocks
  MaxId = 6
  PageLimit = 1
  Syncers = {s1, s2}
  Floor = 1
  BlockWindow = 2
  MaxRetries = 1
  U64Max = 9
  Targets = {1, 3, 5}
  LastBlock = 5
  MaxDisruptions = 2
  PastHead = FALSE
  ClearWhileRunning = FALSE
SYMMETRY SyncerSymmetry
INVARIANTS
  WatermarkCovered
  CountersExact
  RootsCurrent
PROPERTY NodesPermanent
