------------------------------ MODULE UtxoStore ------------------------------
(***************************************************************************)
(* The tables of crates/database that a sync window writes, as one record, *)
(* and the operations on them: the commitments by (tree, leaf), the        *)
(* nullifier set, the per-tree length and the tree count, the Merkle       *)
(* frontier snapshots and the watermark.  Every operator is a function     *)
(* from a record to a value or to a new record; who calls them and when is *)
(* the business of the modules that extend this one.                       *)
(*                                                                         *)
(* A Merkle accumulator is represented by what its root depends on: the    *)
(* number of leaves folded in and the leaf at every position of the        *)
(* fixed-depth tree, the positions never folded in holding the zero leaf.  *)
(* Module MerkleAccumulator justifies the representation: there the        *)
(* accumulator is the code's frontier of pending left children, and its    *)
(* root is shown to be the root of exactly this leaf assignment.           *)
(***************************************************************************)
EXTENDS Integers, FiniteSets, FiniteSetsExt

CONSTANTS
  MaxTrees,   \* tree numbers are 0 .. MaxTrees-1 (u32 in the code)
  Capacity,   \* leaves per tree (TREE_LEAF_CAPACITY, 65536 in the code)
  Hashes,     \* commitment hashes
  Blocks,     \* block numbers
  Nullifiers, \* <<tree, nullifier>> pairs
  NoNode,     \* an empty slot of the commitments table
  ZeroLeaf,   \* the zero value of MerkleConfig
  NoSnapshot, \* no frontier snapshot stored for a tree
  Never       \* no watermark stored

Trees  == 0 .. MaxTrees - 1
Leaves == 0 .. Capacity - 1

(* A node is compared and stored byte for byte (codec::encode_node): two   *)
(* nodes differ as soon as their hash or their block differs.              *)
Nodes == [hash : Hashes, block : Blocks]

(* A node together with the slot its NodePosition names.                   *)
PlacedNodes == [tree : Trees, leaf : Leaves, node : Nodes]

Accumulators == [len : 0 .. Capacity, leaf : [Leaves -> Hashes \cup {ZeroLeaf}]]

Stores ==
  [nodes      : [Trees -> [Leaves -> Nodes \cup {NoNode}]],
   nullifiers : SUBSET Nullifiers,
   length     : [Trees -> 0 .. Capacity],
   count      : 0 .. MaxTrees,
   frontier   : [Trees -> Accumulators \cup {NoSnapshot}],
   synced     : Blocks \cup {Never}]

ASSUME StoreAssumption ==
  /\ MaxTrees \in Nat \ {0}
  /\ Capacity \in Nat \ {0}
  /\ Blocks \subseteq Nat
  /\ NoNode \notin Nodes
  /\ ZeroLeaf \notin Hashes
  /\ NoSnapshot \notin Accumulators
  /\ Never \notin Nat

-----------------------------------------------------------------------------
(* Opening a fresh file, and clear_all: every table is empty.              *)
EmptyStore ==
  [nodes      |-> [t \in Trees |-> [l \in Leaves |-> NoNode]],
   nullifiers |-> {},
   length     |-> [t \in Trees |-> 0],
   count      |-> 0,
   frontier   |-> [t \in Trees |-> NoSnapshot],
   synced     |-> Never]

(* insert_node over all nodes of a window fails on the first one whose     *)
(* slot already holds, or was just given, a different node.                *)
CommitmentConflict(nodes, placed) ==
  \E p \in placed :
     \/ nodes[p.tree][p.leaf] \notin {NoNode, p.node}
     \/ \E q \in placed : q.tree = p.tree /\ q.leaf = p.leaf /\ q.node # p.node

(* Otherwise every empty slot named by the window takes its node and an    *)
(* identical re-insert changes nothing.                                    *)
InsertNodes(nodes, placed) ==
  [t \in Trees |-> [l \in Leaves |->
     IF nodes[t][l] = NoNode /\ \E p \in placed : p.tree = t /\ p.leaf = l
       THEN (CHOOSE p \in placed : p.tree = t /\ p.leaf = l).node
       ELSE nodes[t][l]]]

(* Mutants: the length is overwritten instead of raised, or it counts the  *)
(* inserts.                                                                *)
LengthOfWindow(store, placed) ==
  [t \in Trees |->
     IF \E p \in placed : p.tree = t
       THEN Max({p.leaf + 1 : p \in {q \in placed : q.tree = t}})
       ELSE store.length[t]]

LengthCountsInserts(store, placed) ==
  [t \in Trees |->
     Min({Capacity, store.length[t] + Cardinality({p \in placed : p.tree = t})})]

(* The tracked length of a tree only grows, to the highest inserted leaf   *)
(* plus one; an already stored node returns before the counters.           *)
ExtendLength(store, placed) ==
  LET fresh == {p \in placed : store.nodes[p.tree][p.leaf] = NoNode}
  IN  [t \in Trees |->
         Max({store.length[t]} \cup {p.leaf + 1 : p \in {q \in fresh : q.tree = t}})]

(* Likewise for the number of trees.                                       *)
ExtendCount(store, placed) ==
  LET fresh == {p \in placed : store.nodes[p.tree][p.leaf] = NoNode}
  IN  Max({store.count} \cup {p.tree + 1 : p \in fresh})

-----------------------------------------------------------------------------
(* What tree_length documents: the highest stored position plus one.       *)
HighestLeafPlusOne(nodes, t) ==
  Max({0} \cup {l + 1 : l \in {k \in Leaves : nodes[t][k] # NoNode}})

(* The leaves a full walk folds: stored hashes, zero in every gap.         *)
StoredLeaves(nodes, t) ==
  [l \in Leaves |-> IF nodes[t][l] = NoNode THEN ZeroLeaf ELSE nodes[t][l].hash]

(* tree_frontier: a range scan of the stored leaves, zero-filling interior *)
(* gaps and then up to the recorded length.                                *)
TreeFrontier(nodes, length, t) ==
  [len  |-> Max({length[t], HighestLeafPlusOne(nodes, t)}),
   leaf |-> StoredLeaves(nodes, t)]

EmptyAccumulator == [len |-> 0, leaf |-> [l \in Leaves |-> ZeroLeaf]]

(* The zero-fill-and-append loop of advance_frontiers: the accumulated     *)
(* leaves stay, the window's leaves follow, zeros fill the holes.          *)
AppendLeaves(acc, placed, t) ==
  LET mine == {p \in placed : p.tree = t}
  IN  [len  |-> Max({p.leaf + 1 : p \in mine}),
       leaf |-> [l \in Leaves |->
                   IF l < acc.len THEN acc.leaf[l]
                   ELSE IF \E p \in mine : p.leaf = l
                     THEN (CHOOSE p \in mine : p.leaf = l).node.hash
                     ELSE ZeroLeaf]]

(* Mutants: a backfill leaves the frontier as it was, or rebuilds it from  *)
(* the window alone.                                                       *)
IgnoreBackfill(old, nodes, length, placed, t) ==
  LET acc == IF old = NoSnapshot THEN EmptyAccumulator ELSE old
  IN  IF \E p \in placed : p.tree = t /\ p.leaf < acc.len
        THEN acc ELSE AppendLeaves(acc, placed, t)

RebuildFromWindow(old, nodes, length, placed, t) ==
  LET acc == IF old = NoSnapshot THEN EmptyAccumulator ELSE old
  IN  IF \E p \in placed : p.tree = t /\ p.leaf < acc.len
        THEN AppendLeaves(EmptyAccumulator, placed, t)
        ELSE AppendLeaves(acc, placed, t)

(* advance_frontiers for one tree the window touches.  nodes and length    *)
(* are the staged ones: the scan of a rebuild reads its own writes.        *)
AdvanceFrontier(old, nodes, length, placed, t) ==
  LET acc == IF old = NoSnapshot THEN EmptyAccumulator ELSE old
      backfill == \E p \in placed : p.tree = t /\ p.leaf < acc.len
  IN  IF backfill THEN TreeFrontier(nodes, length, t) ELSE AppendLeaves(acc, placed, t)

(* The state commit_window's closure stages when no insert conflicts.      *)
CommitWindow(store, placed, spent, through) ==
  LET nodes  == InsertNodes(store.nodes, placed)
      length == ExtendLength(store, placed)
  IN  [nodes      |-> nodes,
       nullifiers |-> store.nullifiers \cup spent,
       length     |-> length,
       count      |-> ExtendCount(store, placed),
       frontier   |-> [t \in Trees |->
                        IF \E p \in placed : p.tree = t
                          THEN AdvanceFrontier(store.frontier[t], nodes, length, placed, t)
                          ELSE store.frontier[t]],
       synced     |-> through]

(* merkle_root: the snapshot's root when its length is the tree's, else a  *)
(* full walk.  A root is identified with the leaves it is the root of.     *)
MerkleRoot(store, t) ==
  IF store.frontier[t] # NoSnapshot /\ store.frontier[t].len = store.length[t]
    THEN store.frontier[t].leaf
    ELSE TreeFrontier(store.nodes, store.length, t).leaf

-----------------------------------------------------------------------------
(* The relations between the tables that every write must keep.            *)

(* tree_length and tree_count are the highest position and tree plus one.  *)
CountersMatch(store) ==
  /\ \A t \in Trees : store.length[t] = HighestLeafPlusOne(store.nodes, t)
  /\ store.count = Max({0} \cup {t + 1 : t \in {u \in Trees : store.length[u] > 0}})

(* The snapshot of a tree is what a rebuild would give, and only a tree    *)
(* without leaves may have none.                                           *)
FrontierFits(store, t) ==
  \/ store.frontier[t] = [len |-> store.length[t], leaf |-> StoredLeaves(store.nodes, t)]
  \/ store.length[t] = 0 /\ store.frontier[t] = NoSnapshot

FrontierMatches(store) == \A t \in Trees : FrontierFits(store, t)
=============================================================================
