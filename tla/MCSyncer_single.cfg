SPECIFICATION ScheduledSpec
CONSTANTS
  MaxTrees = 2
  Capacity = 3
  Hashes <- AllHashes
  Blocks <- AllBlocks
  Nullifiers <- AllNullifiers
  NoNode = NoNode
  ZeroLeaf = ZeroLeaf
  NoSnapshot = NoSnapshot
  Never = Never
  CommitmentRows <- ChainCommitments
  NullifierRows <- ChainNullifiers
  TxBlocks <- ChainTxBlocks
  MaxId = 6
  PageLimit = 1
  Syncers = {s1}
  Floor = 1
  BlockWindow = 2
  MaxRetries = 1
  U64Max = 9
  Targets = {1, 3, 4}
  LastBlock = 4
  MaxDisruptions = 3
  PastHead = FALSE
  ClearWhileRunning = FALSE
INVARIANTS
  TypeOK
  WatermarkCovered
  CountersExact
  RootsCurrent
PROPERTIES
  RunReturns
  CatchesUp
  ImplementsReplica
  SummaryExact
