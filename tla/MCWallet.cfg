SPECIFICATION WalletSpec
CONSTANTS
  MaxTrees = 2
  Capacity = 4
  Hashes <- AllHashes
  Blocks <- AllBlocks
  Nullifiers <- AllNullifiers
  NoNode = NoNode
  ZeroLeaf = ZeroLeaf
  NoSnapshot = NoSnapshot
  Never = Never
  CommitmentRows <- ChainCommitments
  NullifierRows <- ChainNullifiers
  TxBlocks = {}
  MaxId = 8
  PageLimit = 1
  Floor = 1
  Wallets = {w1, w2}
  Account <- First
  Body <- ChainBodies
  Paid <- ChainPaid
  HARDENED_OFFSET = 4
  TypeBits = 2
  IdBits = 3
  NETWORK_ID_XOR_KEY <- Mask
  U128Max = 8
  Assets = {"dai", "weth"}
  U256Max = 100
INVARIANTS
  BalanceSound
  BalanceComplete
  NotesReproduceCommitments
