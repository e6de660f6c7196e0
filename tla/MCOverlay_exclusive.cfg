SPECIFICATION Spec
CONSTANTS
  MaxTrees = 2
  Capacity = 3
  Hashes <- AllHashes
  Blocks <- AllBlocks
  Nullifiers <- AllNullifiers
  NoNode = NoNode
  ZeroLeaf = ZeroLeaf
  NoSnapshot = NoSnapshot
  Never = Never
  Chain <- SmallChain
  MaxWindow = 2
  NoBatch = NoBatch
  Exclusive = TRUE
  FrontierPolicy = "rebuild"
INVARIANTS
  TypeOK
  CountersExact
  RootsCurrent
  ValidatedRootCurrent
PROPERTIES
  NodesPermanent
  LandsAsOneWindow
