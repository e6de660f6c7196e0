SPECIFICATION Spec
CONSTANTS
  MaxTrees = 1
  Capacity = 8
  Hashes <- AllHashes
  Blocks <- OneBlock
  Nullifiers = {}
  NoNode = NoNode
  ZeroLeaf = ZeroLeaf
  NoSnapshot = NoSnapshot
  Never = Never
  Depth = 3
  Chain <- FullTree
  Contract <- ContractLeaves
  MaxWindow = 3
  h0 = h0
  h1 = h1
  h2 = h2
  h3 = h3
  h4 = h4
  h5 = h5
  h6 = h6
  h7 = h7
INVARIANTS
  SnapshotRepresents
  WalkExact
  ValidationDetects
