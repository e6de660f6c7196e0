-------------------------- MODULE MerkleAccumulator --------------------------
(***************************************************************************)
(* crates/crypto/src/merkle.rs: the incremental Merkle accumulator, and    *)
(* the two loops that feed it, advance_frontiers (manager.rs) and          *)
(* tree_frontier.  An accumulator keeps only the pending left child of     *)
(* every level, so its root is right only if every earlier leaf was folded *)
(* in at its own index; module UtxoStore takes for granted that it is, and *)
(* stands an accumulator for its leaf assignment.  Here one tree is kept   *)
(* both ways, side by side: `store` by the operators of UtxoStore and      *)
(* `snapshot` as the code's frontier bytes.                                *)
(*                                                                         *)
(* Hash is free: a pair is its own hash, so two roots are equal exactly    *)
(* when the trees under them are.  (Poseidon is only collision resistant.) *)
(***************************************************************************)
EXTENDS UtxoStore

CONSTANTS
  Depth,      \* MerkleConfig::DEPTH
  Chain,      \* the placed nodes that windows are drawn from
  Contract,   \* the leaf hashes of the tree the contract keeps, by position
  MaxWindow   \* bound: leaves per window

(* The number of leaves under a node, by the height of the node: 1 << h.   *)
Width[height \in 0 .. Depth] == IF height = 0 THEN 1 ELSE 2 * Width[height - 1]

ASSUME DepthAssumption ==
  /\ Depth \in Nat \ {0}
  /\ Capacity = Width[Depth]
  /\ MaxTrees = 1
  /\ Chain \subseteq PlacedNodes
  /\ Contract \in [Leaves -> Hashes]
  /\ MaxWindow \in Nat
  /\ 0 \in Blocks

VARIABLES
  store,     \* the tables, the frontier by its leaf assignment
  snapshot   \* the tree's row of the frontiers table: none, or one
             \* MerkleAccumulatorState

vars == <<store, snapshot>>

Levels == 0 .. Depth - 1

Hash(left, right) == <<left, right>>

(* zero_value_levels: the empty subtree of every level.                    *)
Zeros[level \in 0 .. Depth] ==
  IF level = 0 THEN ZeroLeaf ELSE Hash(Zeros[level - 1], Zeros[level - 1])

(* MerkleAccumulator::new                                                  *)
New == [filled |-> [level \in Levels |-> Zeros[level]], next |-> 0, root |-> Zeros[Depth]]

(* The two variables of insert's loop, as they are when it comes to a      *)
(* level.  `index' is halved from level to level.                          *)
Index(position) ==
  LET index[level \in 0 .. Depth] ==
        IF level = 0 THEN position ELSE index[level - 1] \div 2
  IN  index

(* `current' climbs from the leaf: a left child is paired with the empty   *)
(* subtree, a right child with the cached left sibling.                    *)
Current(acc, leaf) ==
  LET index == Index(acc.next)
      current[level \in 0 .. Depth] ==
        IF level = 0 THEN leaf
        ELSE IF index[level - 1] % 2 = 0
          THEN Hash(current[level - 1], Zeros[level - 1])
          ELSE Hash(acc.filled[level - 1], current[level - 1])
  IN  current

(* insert: every left child on the way up is cached.                       *)
Insert(acc, leaf) ==
  LET index == Index(acc.next)
      current == Current(acc, leaf)
  IN  [filled |-> [level \in Levels |->
                     IF index[level] % 2 = 0 THEN current[level] ELSE acc.filled[level]],
       next |-> acc.next + 1,
       root |-> current[Depth]]

(* Mutant: the holes are skipped, not filled.                              *)
AppendDense(acc, hash, end) ==
  LET after[n \in acc.next .. end] ==
        IF n = acc.next THEN acc
        ELSE IF n - 1 \in DOMAIN hash THEN Insert(after[n - 1], hash[n - 1])
        ELSE after[n - 1]
  IN  after[end]

(* The loops around insert: from the accumulator's own length up to `end`, *)
(* every position with a hash gets it and every hole the zero leaf.        *)
AppendThrough(acc, hash, end) ==
  LET after[n \in acc.next .. end] ==
        IF n = acc.next THEN acc
        ELSE Insert(after[n - 1], IF n - 1 \in DOMAIN hash THEN hash[n - 1] ELSE ZeroLeaf)
  IN  after[end]

(* leaf_hashes: the stored positions of the tree with their hashes.        *)
LeafHashes(nodes) ==
  [l \in {k \in Leaves : nodes[0][k] # NoNode} |-> nodes[0][l].hash]

(* tree_frontier: the full walk, with the number of holes it filled.       *)
Walk(nodes, length) ==
  LET hash == LeafHashes(nodes)
      end  == Max({length[0]} \cup {l + 1 : l \in DOMAIN hash})
  IN  [acc |-> AppendThrough(New, hash, end),
       missing |-> end - Cardinality(DOMAIN hash)]

(* The window's leaves by position (the inner BTreeMap).                   *)
WindowLeaves(placed) ==
  [l \in {p.leaf : p \in placed} |-> (CHOOSE p \in placed : p.leaf = l).node.hash]

(* Mutant: the backfill test looks at the window's last leaf, not its      *)
(* first.                                                                  *)
AdvanceByLastLeaf(old, nodes, length, placed) ==
  LET acc  == IF old = {} THEN New ELSE CHOOSE state \in old : TRUE
      hash == WindowLeaves(placed)
  IN  IF Max(DOMAIN hash) < acc.next
        THEN Walk(nodes, length).acc
        ELSE AppendThrough(acc, hash, Max(DOMAIN hash) + 1)

(* advance_frontiers for the tree: resume the snapshot and append, or walk *)
(* the staged tree again when the window starts below the frontier.        *)
Advance(old, nodes, length, placed) ==
  LET acc  == IF old = {} THEN New ELSE CHOOSE state \in old : TRUE
      hash == WindowLeaves(placed)
  IN  IF Min(DOMAIN hash) < acc.next
        THEN Walk(nodes, length).acc
        ELSE AppendThrough(acc, hash, Max(DOMAIN hash) + 1)

-----------------------------------------------------------------------------
(* The nodes of the tree over a leaf assignment, row by row from the       *)
(* leaves, from the definition of a Merkle tree.                           *)
Row(level) == 0 .. Width[Depth - level] - 1

Tree(leaf) ==
  LET node[level \in 0 .. Depth] ==
        IF level = 0 THEN leaf
        ELSE [i \in Row(level) |-> Hash(node[level - 1][2 * i], node[level - 1][2 * i + 1])]
  IN  node

TreeRoot(leaf) == Tree(leaf)[Depth][0]

(* The validator's side: the root the contract had when `last' was its     *)
(* last leaf.                                                              *)
ContractRoot(last) == TreeRoot([l \in Leaves |-> IF l <= last THEN Contract[l] ELSE ZeroLeaf])

IsValid(last_leaf_index, root) == root = ContractRoot(last_leaf_index)

(* Mutant: the validator is asked for the leaf after the last one.         *)
ValidatePastLast(nodes, length) ==
  LET walk == Walk(nodes, length)
  IN  [leaf_count |-> length[0], root |-> walk.acc.root, missing |-> walk.missing,
       valid |-> IsValid(length[0], walk.acc.root)]

(* validate: a full walk, never the snapshot, and the validator asked for  *)
(* the last leaf; for an empty tree that is leaf 0 as well.                *)
Validate(nodes, length) ==
  LET walk == Walk(nodes, length)
  IN  [leaf_count |-> length[0], root |-> walk.acc.root, missing |-> walk.missing,
       valid |-> IsValid(Max({0, length[0] - 1}), walk.acc.root)]

-----------------------------------------------------------------------------
Init == store = EmptyStore /\ snapshot = {}

(* A window without a conflict is committed to both representations.       *)
Commit(placed) ==
  /\ ~CommitmentConflict(store.nodes, placed)
  /\ store' = CommitWindow(store, placed, {}, 0)
  /\ snapshot' = {Advance(snapshot, store'.nodes, store'.length, placed)}

Next ==
  \E placed \in UNION {kSubset(k, Chain) : k \in 1 .. MaxWindow} : Commit(placed)

Spec == Init /\ [][Next]_vars

-----------------------------------------------------------------------------
(* The frontier the code persists represents the leaf assignment UtxoStore *)
(* keeps in its place: same length, and its root is the root of that tree. *)
(* This is what entitles the other modules to their representation.        *)
SnapshotRepresents ==
  LET abstract == store.frontier[0]
  IN  /\ snapshot = {} <=> abstract = NoSnapshot
      /\ \A acc \in snapshot :
           acc.next = abstract.len /\ acc.root = TreeRoot(abstract.leaf)

(* validate's full walk agrees with the definition: the root of the stored *)
(* leaves, the recorded length, and as many missing positions as the tree  *)
(* has holes.                                                              *)
WalkExact ==
  LET walk  == Walk(store.nodes, store.length)
      holes == {l \in Leaves : l < store.length[0] /\ store.nodes[0][l] = NoNode}
  IN  /\ walk.acc.root = TreeRoot(StoredLeaves(store.nodes, 0))
      /\ walk.acc.next = store.length[0]
      /\ walk.missing = Cardinality(holes)

(* validate accepts a tree that has leaves exactly if every leaf of the    *)
(* contract up to the last stored one is stored under its own hash: holes  *)
(* left by skipped rows and a leaf the indexer reported wrongly are both   *)
(* found, and only the former count as missing.                            *)
ValidationDetects ==
  LET integrity == Validate(store.nodes, store.length)
      Differ == {l \in Leaves : l < integrity.leaf_count /\ StoredLeaves(store.nodes, 0)[l] # Contract[l]}
  IN  integrity.leaf_count > 0 =>
        /\ integrity.valid <=> Differ = {}
        /\ integrity.missing <= Cardinality(Differ)
=============================================================================
