--------------------------- MODULE UtxoStoreProofs ---------------------------
(***************************************************************************)
(* What the operators of UtxoStore guarantee, for every number of trees,   *)
(* every capacity and every window: the facts about one write transaction  *)
(* that the proofs about the syncer rest on.                               *)
(***************************************************************************)
EXTENDS UtxoStore, WellFoundedInduction, TLAPS

(* A non-empty set of numbers with an upper bound has the maximum that Max *)
(* chooses.                                                                *)
LEMMA MaxIsGreatest ==
  ASSUME NEW n \in Nat, NEW S \in SUBSET (0 .. n), S # {}
  PROVE  /\ Max(S) \in S
         /\ \A y \in S : y <= Max(S)
<1> DEFINE T == {n - x : x \in S}
<1>1. T \subseteq Nat /\ T # {}
  <2>1. T \subseteq Nat
    OBVIOUS
  <2>2. PICK x \in S : TRUE
    OBVIOUS
  <2>3. n - x \in T
    BY <2>2
  <2> QED
    BY <2>1, <2>3
<1>2. PICK m \in T : \A y \in T : ~(<<y, m>> \in OpToRel(<, Nat))
  BY <1>1, WFMin, NatLessThanWellFounded
<1>3. \A y \in T : ~(y < m)
  BY <1>1, <1>2 DEF OpToRel
<1>4. PICK x \in S : m = n - x
  OBVIOUS
<1>5. \A y \in S : x >= y
  <2> TAKE y \in S
  <2>1. n - y \in T
    OBVIOUS
  <2>2. ~(n - y < n - x)
    BY <1>3, <1>4, <2>1
  <2> QED
    BY <2>2
<1>6. \E z \in S : \A y \in S : z >= y
  BY <1>5
<1>7. /\ Max(S) \in S
      /\ \A y \in S : Max(S) >= y
  BY <1>6, Zenon DEF Max
<1> QED
  BY <1>7

(* insert_node over a window keeps the table a table.                      *)
LEMMA InsertNodesType ==
  ASSUME NEW nodes \in [Trees -> [Leaves -> Nodes \cup {NoNode}]],
         NEW placed \in SUBSET PlacedNodes
  PROVE  InsertNodes(nodes, placed) \in [Trees -> [Leaves -> Nodes \cup {NoNode}]]
<1> SUFFICES ASSUME NEW t \in Trees, NEW l \in Leaves,
                    \E p \in placed : p.tree = t /\ p.leaf = l
             PROVE  (CHOOSE p \in placed : p.tree = t /\ p.leaf = l).node \in Nodes
  BY DEF InsertNodes
<1>1. (CHOOSE p \in placed : p.tree = t /\ p.leaf = l) \in placed
  OBVIOUS
<1> QED
  BY <1>1 DEF PlacedNodes

(* A stored node stays what it is.                                         *)
LEMMA InsertNodesKeeps ==
  ASSUME NEW nodes, NEW placed, NEW t \in Trees, NEW l \in Leaves,
         nodes[t][l] # NoNode
  PROVE  InsertNodes(nodes, placed)[t][l] = nodes[t][l]
  BY DEF InsertNodes

(* Without a conflict every node of the window is stored in its slot.      *)
LEMMA InsertNodesStores ==
  ASSUME NEW nodes, NEW placed \in SUBSET PlacedNodes,
         ~CommitmentConflict(nodes, placed), NEW p \in placed
  PROVE  InsertNodes(nodes, placed)[p.tree][p.leaf] = p.node
<1> DEFINE q == CHOOSE q \in placed : q.tree = p.tree /\ q.leaf = p.leaf
<1>1. p.tree \in Trees /\ p.leaf \in Leaves
  BY DEF PlacedNodes
<1>2. q \in placed /\ q.tree = p.tree /\ q.leaf = p.leaf
  OBVIOUS
<1>3. q.node = p.node
  BY <1>2 DEF CommitmentConflict
<1>4. nodes[p.tree][p.leaf] \in {NoNode, p.node}
  BY DEF CommitmentConflict
<1> QED
  BY <1>1, <1>2, <1>3, <1>4 DEF InsertNodes

(* The filled slots afterwards are the filled ones and the window's.       *)
LEMMA InsertNodesFilled ==
  ASSUME NEW nodes, NEW placed \in SUBSET PlacedNodes,
         NEW t \in Trees, NEW l \in Leaves
  PROVE  InsertNodes(nodes, placed)[t][l] # NoNode <=>
           nodes[t][l] # NoNode \/ \E p \in placed : p.tree = t /\ p.leaf = l
<1>1. ASSUME \E p \in placed : p.tree = t /\ p.leaf = l
      PROVE  (CHOOSE p \in placed : p.tree = t /\ p.leaf = l).node # NoNode
  <2>1. (CHOOSE p \in placed : p.tree = t /\ p.leaf = l) \in placed
    BY <1>1
  <2> QED
    BY <2>1, StoreAssumption DEF PlacedNodes
<1> QED
  BY <1>1 DEF InsertNodes

-----------------------------------------------------------------------------
(* HighestLeafPlusOne bounds the filled leaves, and is reached by one.     *)
LEMMA HighestLeaf ==
  ASSUME NEW nodes, NEW t \in Trees
  PROVE  /\ HighestLeafPlusOne(nodes, t) \in 0 .. Capacity
         /\ \A l \in Leaves : nodes[t][l] # NoNode => l < HighestLeafPlusOne(nodes, t)
         /\ \/ HighestLeafPlusOne(nodes, t) = 0
            \/ \E l \in Leaves : /\ nodes[t][l] # NoNode
                                 /\ HighestLeafPlusOne(nodes, t) = l + 1
<1> DEFINE S == {0} \cup {l + 1 : l \in {k \in Leaves : nodes[t][k] # NoNode}}
<1>0. Capacity \in Nat
  BY StoreAssumption
<1>1. S \in SUBSET (0 .. Capacity) /\ S # {}
  BY <1>0 DEF Leaves
<1>2. Max(S) \in S /\ \A y \in S : y <= Max(S)
  BY <1>0, <1>1, MaxIsGreatest, Zenon
<1>3. HighestLeafPlusOne(nodes, t) = Max(S)
  BY DEF HighestLeafPlusOne
<1> HIDE DEF S
<1>4. HighestLeafPlusOne(nodes, t) \in 0 .. Capacity
  BY <1>1, <1>2, <1>3
<1>5. ASSUME NEW l \in Leaves, nodes[t][l] # NoNode
      PROVE  l < HighestLeafPlusOne(nodes, t)
  <2>1. l + 1 \in S
    BY <1>5 DEF S
  <2> QED
    BY <1>0, <1>4, <1>2, <1>3, <2>1 DEF Leaves
<1> QED
  BY <1>2, <1>3, <1>4, <1>5 DEF S

(* ... and is the only number that does both.                              *)
LEMMA HighestLeafUnique ==
  ASSUME NEW nodes, NEW t \in Trees, NEW n \in 0 .. Capacity,
         \A l \in Leaves : nodes[t][l] # NoNode => l < n,
         n = 0 \/ \E l \in Leaves : nodes[t][l] # NoNode /\ n = l + 1
  PROVE  n = HighestLeafPlusOne(nodes, t)
<1>1. Capacity \in Nat
  BY StoreAssumption
<1> QED
  BY <1>1, HighestLeaf DEF Leaves

-----------------------------------------------------------------------------
(* The facts about a store and a window that the lemmas below share.       *)
StoreInv(store) ==
  /\ store \in Stores
  /\ CountersMatch(store)
  /\ FrontierMatches(store)

(* ExtendLength takes the maximum of the old length and the new leaves.    *)
LEMMA ExtendLengthMax ==
  ASSUME NEW store \in Stores, NEW placed \in SUBSET PlacedNodes, NEW t \in Trees
  PROVE  LET n == ExtendLength(store, placed)[t]
         IN  /\ n \in 0 .. Capacity
             /\ store.length[t] <= n
             /\ \A p \in placed : p.tree = t /\ store.nodes[t][p.leaf] = NoNode
                                    => p.leaf < n
             /\ \/ n = store.length[t]
                \/ \E p \in placed : p.tree = t /\ n = p.leaf + 1
<1> DEFINE fresh == {p \in placed : store.nodes[p.tree][p.leaf] = NoNode}
           S == {store.length[t]} \cup {p.leaf + 1 : p \in {q \in fresh : q.tree = t}}
<1>0. Capacity \in Nat
  BY StoreAssumption
<1>1. S \in SUBSET (0 .. Capacity) /\ S # {}
  <2>1. store.length[t] \in 0 .. Capacity
    BY DEF Stores
  <2>2. \A p \in fresh : p.leaf + 1 \in 0 .. Capacity
    BY <1>0 DEF PlacedNodes, Leaves
  <2> QED
    BY <2>1, <2>2
<1>2. Max(S) \in S /\ \A y \in S : y <= Max(S)
  BY <1>0, <1>1, MaxIsGreatest, Zenon
<1>3. ExtendLength(store, placed)[t] = Max(S)
  BY DEF ExtendLength
<1>4. \A p \in placed : p.tree = t /\ store.nodes[t][p.leaf] = NoNode => p.leaf + 1 \in S
  OBVIOUS
<1>5. store.length[t] \in S
  OBVIOUS
<1>6. \A y \in S : y = store.length[t] \/ \E p \in placed : p.tree = t /\ y = p.leaf + 1
  OBVIOUS
<1> HIDE DEF S, fresh
<1>7. \A p \in placed : p.leaf \in Int
  BY DEF PlacedNodes, Leaves
<1>8. Max(S) \in 0 .. Capacity
  BY <1>1, <1>2
<1>9. \A p \in placed : p.tree = t /\ store.nodes[t][p.leaf] = NoNode
                          => p.leaf < Max(S)
  BY <1>2, <1>4, <1>7, <1>8
<1>10. store.length[t] <= Max(S)
  BY <1>2, <1>5
<1>11. Max(S) = store.length[t] \/ \E p \in placed : p.tree = t /\ Max(S) = p.leaf + 1
  BY <1>2, <1>6
<1> QED
  BY <1>3, <1>8, <1>9, <1>10, <1>11

(* After the window the tracked length is again the highest leaf plus one. *)
LEMMA ExtendLengthExact ==
  ASSUME NEW store \in Stores, NEW placed \in SUBSET PlacedNodes, NEW t \in Trees,
         CountersMatch(store)
  PROVE  ExtendLength(store, placed)[t]
           = HighestLeafPlusOne(InsertNodes(store.nodes, placed), t)
<1> DEFINE new == InsertNodes(store.nodes, placed)
           n == ExtendLength(store, placed)[t]
<1>0. Capacity \in Nat
  BY StoreAssumption
<1>1. /\ n \in 0 .. Capacity
      /\ store.length[t] <= n
      /\ \A p \in placed : p.tree = t /\ store.nodes[t][p.leaf] = NoNode => p.leaf < n
      /\ n = store.length[t] \/ \E p \in placed : p.tree = t /\ n = p.leaf + 1
  BY ExtendLengthMax
<1>2. store.length[t] = HighestLeafPlusOne(store.nodes, t)
  BY DEF CountersMatch
<1>3. \A l \in Leaves : new[t][l] # NoNode <=>
          store.nodes[t][l] # NoNode \/ \E p \in placed : p.tree = t /\ p.leaf = l
  BY InsertNodesFilled
<1> HIDE DEF new, n
<1>4. ASSUME NEW l \in Leaves, new[t][l] # NoNode
      PROVE  l < n
  <2>1. CASE store.nodes[t][l] # NoNode
    <3>1. l < store.length[t]
      BY <2>1, <1>2, HighestLeaf
    <3>2. store.length[t] \in Int
      BY <1>2, HighestLeaf
    <3> QED
      BY <1>0, <1>1, <3>1, <3>2 DEF Leaves
  <2>2. CASE store.nodes[t][l] = NoNode
    BY <2>2, <1>1, <1>3, <1>4
  <2> QED
    BY <2>1, <2>2
<1>5. n = 0 \/ \E l \in Leaves : new[t][l] # NoNode /\ n = l + 1
  <2>1. CASE n = store.length[t]
    BY <2>1, <1>2, <1>3, HighestLeaf
  <2>2. CASE \E p \in placed : p.tree = t /\ n = p.leaf + 1
    <3>1. PICK p \in placed : p.tree = t /\ n = p.leaf + 1
      BY <2>2
    <3>2. p.leaf \in Leaves
      BY DEF PlacedNodes
    <3>3. new[t][p.leaf] # NoNode
      BY <1>3, <3>1, <3>2
    <3> QED
      BY <3>1, <3>2, <3>3
  <2> QED
    BY <1>1, <2>1, <2>2
<1>6. n = HighestLeafPlusOne(new, t)
  BY <1>1, <1>4, <1>5, HighestLeafUnique
<1> QED
  BY <1>6 DEF n, new

(* The set tree_count is the maximum of.                                   *)
TreesSeen(length) == {0} \cup {t + 1 : t \in {u \in Trees : length[u] > 0}}

(* The highest tree with leaves exists.                                    *)
LEMMA TreesSeenMax ==
  ASSUME NEW length
  PROVE  /\ Max(TreesSeen(length)) \in 0 .. MaxTrees
         /\ Max(TreesSeen(length)) \in TreesSeen(length)
         /\ \A y \in TreesSeen(length) : y <= Max(TreesSeen(length))
<1>1. MaxTrees \in Nat
  BY StoreAssumption
<1>2. TreesSeen(length) \in SUBSET (0 .. MaxTrees) /\ TreesSeen(length) # {}
  BY <1>1 DEF TreesSeen, Trees
<1>3. /\ Max(TreesSeen(length)) \in TreesSeen(length)
      /\ \A y \in TreesSeen(length) : y <= Max(TreesSeen(length))
  BY <1>1, <1>2, MaxIsGreatest, Zenon
<1> QED
  BY <1>2, <1>3

(* After the window the tree count is again the highest tree plus one.     *)
LEMMA ExtendCountExact ==
  ASSUME NEW store \in Stores, NEW placed \in SUBSET PlacedNodes,
         CountersMatch(store)
  PROVE  ExtendCount(store, placed) = Max(TreesSeen(ExtendLength(store, placed)))
<1> DEFINE fresh == {p \in placed : store.nodes[p.tree][p.leaf] = NoNode}
           A == {store.count} \cup {p.tree + 1 : p \in fresh}
           length == ExtendLength(store, placed)
           B == TreesSeen(length)
<1>0. MaxTrees \in Nat /\ Capacity \in Nat
  BY StoreAssumption
<1>1. store.count = Max(TreesSeen(store.length))
  BY DEF CountersMatch, TreesSeen
<1>2. A \in SUBSET (0 .. MaxTrees) /\ A # {}
  <2>1. store.count \in 0 .. MaxTrees
    BY DEF Stores
  <2>2. \A p \in fresh : p.tree + 1 \in 0 .. MaxTrees
    BY <1>0 DEF PlacedNodes, Trees
  <2> QED
    BY <2>1, <2>2
<1>3. Max(A) \in A /\ \A y \in A : y <= Max(A)
  BY <1>0, <1>2, MaxIsGreatest, Zenon
<1>4. ExtendCount(store, placed) = Max(A)
  BY DEF ExtendCount
<1>5. Max(B) \in 0 .. MaxTrees /\ Max(B) \in B /\ \A y \in B : y <= Max(B)
  BY TreesSeenMax
<1>6. \A t \in Trees :
         /\ length[t] \in 0 .. Capacity
         /\ store.length[t] \in 0 .. Capacity
         /\ store.length[t] <= length[t]
         /\ \A p \in placed : p.tree = t /\ store.nodes[t][p.leaf] = NoNode
                                => p.leaf < length[t]
  BY ExtendLengthMax DEF Stores
<1>7. A \subseteq B
  <2>1. store.count \in B
    <3>1. store.count \in TreesSeen(store.length)
      BY <1>1, TreesSeenMax
    <3>2. \A t \in Trees : store.length[t] > 0 => length[t] > 0
      BY <1>0, <1>6
    <3> HIDE DEF length
    <3> QED
      BY <3>1, <3>2 DEF TreesSeen
  <2>2. ASSUME NEW p \in fresh
        PROVE  p.tree + 1 \in B
    <3>1. p.tree \in Trees /\ p.leaf \in Leaves
      BY DEF PlacedNodes
    <3>2. length[p.tree] > 0
      BY <1>0, <1>6, <3>1 DEF Leaves
    <3> HIDE DEF length
    <3> QED
      BY <3>1, <3>2 DEF TreesSeen
  <2> QED
    BY <2>1, <2>2
<1>8. \A y \in B : \E z \in A : y <= z
  <2> SUFFICES ASSUME NEW y \in B
               PROVE  \E z \in A : y <= z
    OBVIOUS
  <2>1. CASE y = 0
    BY <1>0, <1>2, <2>1
  <2>2. ASSUME NEW t \in Trees, length[t] > 0, y = t + 1
        PROVE  \E z \in A : y <= z
    <3>1. CASE store.length[t] > 0
      <4>1. y \in TreesSeen(store.length)
        BY <2>2, <3>1 DEF TreesSeen
      <4> QED
        BY <4>1, <1>1, TreesSeenMax
    <3>2. CASE ~(store.length[t] > 0)
      <4>1. length[t] # store.length[t]
        BY <2>2, <3>2
      <4>2. PICK p \in placed : p.tree = t /\ length[t] = p.leaf + 1
        BY <4>1, ExtendLengthMax
      <4>3. p.leaf \in Leaves
        BY DEF PlacedNodes
      <4>4. store.nodes[t][p.leaf] = NoNode
        <5>1. store.length[t] = 0
          BY <1>0, <1>6, <3>2
        <5>2. store.length[t] = HighestLeafPlusOne(store.nodes, t)
          BY DEF CountersMatch
        <5> QED
          BY <1>0, <4>3, <5>1, <5>2, HighestLeaf DEF Leaves
      <4>5. p \in fresh
        BY <4>2, <4>4
      <4>6. t + 1 \in A
        BY <4>2, <4>5
      <4>7. t + 1 <= t + 1
        BY <1>0 DEF Trees
      <4> QED
        BY <2>2, <4>6, <4>7, Zenon
    <3> QED
      BY <3>1, <3>2
  <2> HIDE DEF length, A
  <2> QED
    BY <2>1, <2>2 DEF TreesSeen
<1> HIDE DEF A, B, length, fresh
<1>9. Max(A) \in 0 .. MaxTrees
  BY <1>2, <1>3
<1>10. Max(A) <= Max(B) /\ Max(B) <= Max(A)
  <2>1. Max(A) <= Max(B)
    BY <1>3, <1>5, <1>7
  <2>2. PICK z \in A : Max(B) <= z
    BY <1>5, <1>8
  <2> QED
    <3>1. z \in 0 .. MaxTrees /\ z <= Max(A)
      BY <1>2, <1>3, <2>2
    <3>2. Max(B) <= Max(A)
      BY <1>0, <1>5, <1>9, <2>2, <3>1
    <3> QED
      BY <2>1, <3>2
<1>11. Max(A) = Max(B)
  BY <1>0, <1>5, <1>9, <1>10
<1> QED
  BY <1>4, <1>11 DEF B, length

-----------------------------------------------------------------------------
(* Rebuilding a tree gives the snapshot FrontierMatches asks for.          *)
LEMMA RebuildMatches ==
  ASSUME NEW nodes, NEW length, NEW t \in Trees,
         length[t] = HighestLeafPlusOne(nodes, t)
  PROVE  TreeFrontier(nodes, length, t)
           = [len |-> length[t], leaf |-> StoredLeaves(nodes, t)]
<1>1. length[t] \in 0 .. Capacity
  BY HighestLeaf
<1>2. Capacity \in Nat
  BY StoreAssumption
<1>3. {length[t]} \in SUBSET (0 .. Capacity)
  BY <1>1
<1>4. Max({length[t]}) = length[t]
  BY <1>2, <1>3, MaxIsGreatest
<1>5. {length[t], HighestLeafPlusOne(nodes, t)} = {length[t]}
  OBVIOUS
<1> QED
  BY <1>4, <1>5 DEF TreeFrontier

(* So does appending, when every new leaf lies at or above the frontier.   *)
LEMMA AppendMatches ==
  ASSUME NEW store \in Stores, NEW placed \in SUBSET PlacedNodes, NEW t \in Trees,
         CountersMatch(store),
         ~CommitmentConflict(store.nodes, placed),
         NEW acc,
         acc.len = store.length[t],
         \A l \in Leaves : l < acc.len => acc.leaf[l] = StoredLeaves(store.nodes, t)[l],
         \E p \in placed : p.tree = t,
         \A p \in placed : p.tree = t => ~(p.leaf < acc.len)
  PROVE  AppendLeaves(acc, placed, t)
           = [len  |-> ExtendLength(store, placed)[t],
              leaf |-> StoredLeaves(InsertNodes(store.nodes, placed), t)]
<1> DEFINE new == InsertNodes(store.nodes, placed)
           mine == {p \in placed : p.tree = t}
           S == {p.leaf + 1 : p \in mine}
<1>0. Capacity \in Nat
  BY StoreAssumption
<1>1. \A l \in Leaves : new[t][l] # NoNode <=>
          store.nodes[t][l] # NoNode \/ \E p \in placed : p.tree = t /\ p.leaf = l
  BY InsertNodesFilled
<1>2. \A p \in placed : new[p.tree][p.leaf] = p.node
  BY InsertNodesStores
<1>3. \A l \in Leaves : store.nodes[t][l] # NoNode => new[t][l] = store.nodes[t][l]
  BY InsertNodesKeeps
<1>4. \A p \in placed : p.leaf \in Leaves
  BY DEF PlacedNodes
<1>5. /\ store.length[t] \in 0 .. Capacity
      /\ \A l \in Leaves : store.nodes[t][l] # NoNode => l < store.length[t]
  BY HighestLeaf DEF CountersMatch
<1>6. Max(S) = ExtendLength(store, placed)[t]
  <2>1. S \in SUBSET (0 .. Capacity) /\ S # {}
    <3>1. \A p \in mine : p.leaf + 1 \in 0 .. Capacity
      BY <1>0, <1>4 DEF Leaves
    <3>2. mine # {}
      OBVIOUS
    <3> QED
      BY <3>1, <3>2
  <2>2. Max(S) \in S /\ \A y \in S : y <= Max(S)
    BY <1>0, <2>1, MaxIsGreatest, Zenon
  <2>3. PICK p \in mine : Max(S) = p.leaf + 1
    BY <2>2
  <2>4. \A q \in mine : q.leaf + 1 <= Max(S)
    BY <2>2
  <2> HIDE DEF S
  <2>5. \A l \in Leaves : new[t][l] # NoNode => l < Max(S)
    <3> SUFFICES ASSUME NEW l \in Leaves, new[t][l] # NoNode
                 PROVE  l < Max(S)
      OBVIOUS
    <3>1. CASE \E q \in placed : q.tree = t /\ q.leaf = l
      BY <1>0, <1>4, <2>3, <2>4, <3>1 DEF Leaves
    <3>2. CASE store.nodes[t][l] # NoNode
      <4>1. l < store.length[t]
        BY <1>5, <3>2
      <4>2. ~(p.leaf < store.length[t])
        BY <2>3
      <4> QED
        BY <1>0, <1>4, <1>5, <2>3, <4>1, <4>2 DEF Leaves
    <3> QED
      BY <1>1, <3>1, <3>2
  <2>6. new[t][p.leaf] # NoNode /\ p.leaf \in Leaves
    BY <1>1, <1>4, <2>3
  <2>7. Max(S) \in 0 .. Capacity
    BY <1>0, <2>3, <2>6 DEF Leaves
  <2> HIDE DEF new
  <2>8. Max(S) = HighestLeafPlusOne(new, t)
    BY <2>3, <2>5, <2>6, <2>7, HighestLeafUnique
  <2> QED
    BY <2>8, ExtendLengthExact DEF new
<1>7. ASSUME NEW l \in Leaves
      PROVE  (IF l < acc.len THEN acc.leaf[l]
              ELSE IF \E p \in mine : p.leaf = l
                THEN (CHOOSE p \in mine : p.leaf = l).node.hash
                ELSE ZeroLeaf) = StoredLeaves(new, t)[l]
  <2>1. CASE l < acc.len
    <3>1. new[t][l] = store.nodes[t][l]
      <4>1. ~ \E p \in placed : p.tree = t /\ p.leaf = l
        BY <2>1
      <4> QED
        BY <4>1, <1>1, <1>3
    <3> QED
      BY <2>1, <3>1 DEF StoredLeaves
  <2>2. CASE ~(l < acc.len) /\ \E p \in mine : p.leaf = l
    <3> DEFINE p == CHOOSE p \in mine : p.leaf = l
    <3>1. p \in mine /\ p.leaf = l
      BY <2>2
    <3> HIDE DEF p
    <3>2. new[t][l] = p.node /\ new[t][l] # NoNode
      BY <1>1, <1>2, <3>1
    <3>3. StoredLeaves(new, t)[l] = p.node.hash
      BY <3>2 DEF StoredLeaves
    <3> QED
      BY <2>2, <3>3 DEF p
  <2>3. CASE ~(l < acc.len) /\ ~ \E p \in mine : p.leaf = l
    <3>1. new[t][l] = NoNode
      BY <1>1, <1>5, <2>3
    <3> QED
      BY <2>3, <3>1 DEF StoredLeaves
  <2> QED
    BY <2>1, <2>2, <2>3
<1>8. StoredLeaves(new, t) = [l \in Leaves |-> StoredLeaves(new, t)[l]]
  BY DEF StoredLeaves
<1> HIDE DEF new
<1>9. [l \in Leaves |->
         IF l < acc.len THEN acc.leaf[l]
         ELSE IF \E p \in mine : p.leaf = l
           THEN (CHOOSE p \in mine : p.leaf = l).node.hash
           ELSE ZeroLeaf] = StoredLeaves(new, t)
  BY <1>7, <1>8
<1> QED
  BY <1>6, <1>9 DEF AppendLeaves, new

-----------------------------------------------------------------------------
(* A freshly opened or wiped database satisfies the relations.             *)
LEMMA EmptyStoreInv ==
  StoreInv(EmptyStore)
<1>0. MaxTrees \in Nat /\ Capacity \in Nat
  BY StoreAssumption
<1>1. EmptyStore \in Stores
  <2>1. 0 \in 0 .. Capacity /\ 0 \in 0 .. MaxTrees
    BY <1>0
  <2> QED
    BY <2>1 DEF EmptyStore, Stores
<1>2. ASSUME NEW t \in Trees
      PROVE  HighestLeafPlusOne(EmptyStore.nodes, t) = 0
  <2>1. \A l \in Leaves : EmptyStore.nodes[t][l] = NoNode
    BY DEF EmptyStore
  <2>2. 0 \in 0 .. Capacity
    BY <1>0
  <2> QED
    BY <2>1, <2>2, HighestLeafUnique
<1>3. \A t \in Trees : EmptyStore.length[t] = 0
  BY DEF EmptyStore
<1>4. Max(TreesSeen(EmptyStore.length)) = 0
  <2>1. TreesSeen(EmptyStore.length) = {0}
    BY <1>3 DEF TreesSeen
  <2> QED
    BY <2>1, TreesSeenMax
<1>5. CountersMatch(EmptyStore)
  BY <1>2, <1>3, <1>4 DEF CountersMatch, TreesSeen, EmptyStore
<1>6. FrontierMatches(EmptyStore)
  BY <1>3 DEF FrontierMatches, FrontierFits, EmptyStore
<1> QED
  BY <1>1, <1>5, <1>6 DEF StoreInv

(* A window leaves tables behind, whatever was in them and whether or not  *)
(* the counters and snapshots were right.                                  *)
LEMMA TreeFrontierType ==
  ASSUME NEW nodes \in [Trees -> [Leaves -> Nodes \cup {NoNode}]],
         NEW length \in [Trees -> 0 .. Capacity], NEW t \in Trees
  PROVE  TreeFrontier(nodes, length, t) \in Accumulators
<1> DEFINE S == {length[t], HighestLeafPlusOne(nodes, t)}
<1>0. Capacity \in Nat
  BY StoreAssumption
<1>1. S \in SUBSET (0 .. Capacity) /\ S # {}
  BY HighestLeaf
<1>2. Max(S) \in 0 .. Capacity
  BY <1>0, <1>1, MaxIsGreatest
<1>3. StoredLeaves(nodes, t) \in [Leaves -> Hashes \cup {ZeroLeaf}]
  BY DEF StoredLeaves, Nodes
<1> HIDE DEF S
<1>4. TreeFrontier(nodes, length, t) = [len |-> Max(S), leaf |-> StoredLeaves(nodes, t)]
  BY DEF TreeFrontier, S
<1> QED
  BY <1>2, <1>3, <1>4 DEF Accumulators

(* Appending leaves gives an accumulator.                                  *)
LEMMA AppendLeavesType ==
  ASSUME NEW acc \in Accumulators, NEW placed \in SUBSET PlacedNodes, NEW t \in Trees,
         \E p \in placed : p.tree = t
  PROVE  AppendLeaves(acc, placed, t) \in Accumulators
<1> DEFINE mine == {p \in placed : p.tree = t}
           S == {p.leaf + 1 : p \in mine}
<1>0. Capacity \in Nat
  BY StoreAssumption
<1>1. S \in SUBSET (0 .. Capacity) /\ S # {}
  <2>1. \A p \in mine : p.leaf + 1 \in 0 .. Capacity
    BY <1>0 DEF PlacedNodes, Leaves
  <2>2. mine # {}
    OBVIOUS
  <2> QED
    BY <2>1, <2>2
<1>2. Max(S) \in 0 .. Capacity
  BY <1>0, <1>1, MaxIsGreatest
<1>3. ASSUME NEW l \in Leaves
      PROVE  (IF l < acc.len THEN acc.leaf[l]
              ELSE IF \E p \in mine : p.leaf = l
                THEN (CHOOSE p \in mine : p.leaf = l).node.hash
                ELSE ZeroLeaf) \in Hashes \cup {ZeroLeaf}
  <2>1. acc.leaf[l] \in Hashes \cup {ZeroLeaf}
    BY DEF Accumulators
  <2>2. ASSUME \E p \in mine : p.leaf = l
        PROVE  (CHOOSE p \in mine : p.leaf = l).node.hash \in Hashes
    <3>1. (CHOOSE p \in mine : p.leaf = l) \in PlacedNodes
      BY <2>2
    <3> QED
      BY <3>1 DEF PlacedNodes, Nodes
  <2> QED
    BY <2>1, <2>2
<1> HIDE DEF mine
<1>4. AppendLeaves(acc, placed, t)
        = [len |-> Max(S),
           leaf |-> [l \in Leaves |-> IF l < acc.len THEN acc.leaf[l]
                                      ELSE IF \E p \in mine : p.leaf = l
                                        THEN (CHOOSE p \in mine : p.leaf = l).node.hash
                                        ELSE ZeroLeaf]]
  BY DEF AppendLeaves, mine
<1> HIDE DEF S
<1> QED
  BY <1>2, <1>3, <1>4 DEF Accumulators

(* A window leaves tables behind.                                          *)
LEMMA CommitWindowType ==
  ASSUME NEW store \in Stores, NEW placed \in SUBSET PlacedNodes,
         NEW spent \in SUBSET Nullifiers, NEW through \in Blocks \cup {Never}
  PROVE  CommitWindow(store, placed, spent, through) \in Stores
<1> DEFINE new == InsertNodes(store.nodes, placed)
           length == ExtendLength(store, placed)
           frontier == [t \in Trees |->
                          IF \E p \in placed : p.tree = t
                            THEN AdvanceFrontier(store.frontier[t], new, length, placed, t)
                            ELSE store.frontier[t]]
<1>0. MaxTrees \in Nat /\ Capacity \in Nat
  BY StoreAssumption
<1>1. new \in [Trees -> [Leaves -> Nodes \cup {NoNode}]]
  BY InsertNodesType DEF Stores
<1>2. length \in [Trees -> 0 .. Capacity]
  <2>1. \A t \in Trees : length[t] \in 0 .. Capacity
    BY ExtendLengthMax
  <2> QED
    BY <2>1 DEF ExtendLength
<1>3. ExtendCount(store, placed) \in 0 .. MaxTrees
  <2> DEFINE fresh == {p \in placed : store.nodes[p.tree][p.leaf] = NoNode}
             A == {store.count} \cup {p.tree + 1 : p \in fresh}
  <2>1. A \in SUBSET (0 .. MaxTrees) /\ A # {}
    <3>1. store.count \in 0 .. MaxTrees
      BY DEF Stores
    <3>2. \A p \in fresh : p.tree + 1 \in 0 .. MaxTrees
      BY <1>0 DEF PlacedNodes, Trees
    <3> QED
      BY <3>1, <3>2
  <2>2. Max(A) \in 0 .. MaxTrees
    BY <1>0, <2>1, MaxIsGreatest
  <2> QED
    BY <2>2 DEF ExtendCount
<1>4. ASSUME NEW t \in Trees
      PROVE  frontier[t] \in Accumulators \cup {NoSnapshot}
  <2>1. store.frontier[t] \in Accumulators \cup {NoSnapshot}
    BY DEF Stores
  <2>2. EmptyAccumulator \in Accumulators
    <3>1. 0 \in 0 .. Capacity
      BY <1>0
    <3> QED
      BY <3>1 DEF EmptyAccumulator, Accumulators
  <2>3. TreeFrontier(new, length, t) \in Accumulators
    BY <1>1, <1>2, TreeFrontierType
  <2>4. ASSUME \E p \in placed : p.tree = t
        PROVE  AdvanceFrontier(store.frontier[t], new, length, placed, t) \in Accumulators
    <3> DEFINE acc == IF store.frontier[t] = NoSnapshot THEN EmptyAccumulator
                      ELSE store.frontier[t]
    <3>1. acc \in Accumulators
      BY <2>1, <2>2
    <3>2. AppendLeaves(acc, placed, t) \in Accumulators
      BY <2>4, <3>1, AppendLeavesType
    <3> HIDE DEF new, length
    <3> QED
      BY <2>3, <3>2 DEF AdvanceFrontier
  <2> QED
    BY <2>1, <2>4
<1>5. store.nullifiers \cup spent \in SUBSET Nullifiers
  BY DEF Stores
<1>6. frontier = [t \in Trees |-> frontier[t]]
  OBVIOUS
<1>7. CommitWindow(store, placed, spent, through)
        = [nodes |-> new, nullifiers |-> store.nullifiers \cup spent, length |-> length,
           count |-> ExtendCount(store, placed), frontier |-> frontier, synced |-> through]
  BY DEF CommitWindow
<1> HIDE DEF new, length, frontier
<1> QED
  BY <1>1, <1>2, <1>3, <1>4, <1>5, <1>6, <1>7 DEF Stores

(* It keeps the counters right even where snapshots are not.               *)
LEMMA CommitWindowCounters ==
  ASSUME NEW store \in Stores, CountersMatch(store), NEW placed \in SUBSET PlacedNodes,
         NEW spent, NEW through
  PROVE  CountersMatch(CommitWindow(store, placed, spent, through))
<1>1. \A t \in Trees : ExtendLength(store, placed)[t]
                          = HighestLeafPlusOne(InsertNodes(store.nodes, placed), t)
  BY ExtendLengthExact
<1>2. ExtendCount(store, placed) = Max(TreesSeen(ExtendLength(store, placed)))
  BY ExtendCountExact
<1> QED
  BY <1>1, <1>2 DEF CountersMatch, TreesSeen, CommitWindow

(* The transaction of one sync window keeps the counters, the snapshots    *)
(* and the stored nodes consistent with one another, whatever the window   *)
(* holds: new leaves, gaps, backfills or a replay of stored ones.          *)
THEOREM WindowKeepsStoreInv ==
  ASSUME NEW store, StoreInv(store),
         NEW placed \in SUBSET PlacedNodes,
         NEW spent \in SUBSET Nullifiers,
         NEW through \in Blocks \cup {Never},
         ~CommitmentConflict(store.nodes, placed)
  PROVE  StoreInv(CommitWindow(store, placed, spent, through))
<1> DEFINE new == InsertNodes(store.nodes, placed)
           length == ExtendLength(store, placed)
           after == CommitWindow(store, placed, spent, through)
<1>0. /\ store \in Stores /\ CountersMatch(store) /\ FrontierMatches(store)
      /\ Capacity \in Nat
  BY StoreAssumption DEF StoreInv
<1>1. /\ after.nodes = new
      /\ after.length = length
  BY DEF CommitWindow
<1>3. \A t \in Trees : length[t] = HighestLeafPlusOne(new, t)
  BY <1>0, ExtendLengthExact
<1>6. CountersMatch(after)
  BY <1>0, CommitWindowCounters
<1>7. ASSUME NEW t \in Trees
      PROVE  \/ after.frontier[t] = [len |-> length[t], leaf |-> StoredLeaves(new, t)]
             \/ length[t] = 0 /\ after.frontier[t] = NoSnapshot
  <2>0. FrontierFits(store, t)
    BY <1>0 DEF FrontierMatches
  <2>1. CASE ~ \E p \in placed : p.tree = t
    <3>1. after.frontier[t] = store.frontier[t]
      BY <2>1 DEF CommitWindow
    <3>2. length[t] = store.length[t]
      BY <1>0, <2>1, ExtendLengthMax
    <3>3. new[t] = store.nodes[t]
      BY <1>0, <2>1 DEF InsertNodes, Stores
    <3>4. StoredLeaves(new, t) = StoredLeaves(store.nodes, t)
      BY <3>3 DEF StoredLeaves
    <3> HIDE DEF after, new, length
    <3> QED
      BY <2>0, <3>1, <3>2, <3>4 DEF FrontierFits
  <2>2. CASE \E p \in placed : p.tree = t
    <3> DEFINE old == store.frontier[t]
               acc == IF old = NoSnapshot THEN EmptyAccumulator ELSE old
    <3>1. after.frontier[t] = AdvanceFrontier(old, new, length, placed, t)
      BY <2>2 DEF CommitWindow
    <3>3. CASE \E p \in placed : p.tree = t /\ p.leaf < acc.len
      BY <1>3, <3>1, <3>3, RebuildMatches DEF AdvanceFrontier
    <3>4. CASE ~ \E p \in placed : p.tree = t /\ p.leaf < acc.len
      <4>0. \/ acc = [len |-> store.length[t], leaf |-> StoredLeaves(store.nodes, t)]
            \/ store.length[t] = 0 /\ acc.len = 0
        <5>1. CASE old = NoSnapshot
          <6>1. store.length[t] = 0
            <7>1. StoredLeaves(store.nodes, t) \in [Leaves -> Hashes \cup {ZeroLeaf}]
              BY <1>0 DEF StoredLeaves, Stores, Nodes
            <7>2. [len |-> store.length[t], leaf |-> StoredLeaves(store.nodes, t)] \in Accumulators
              BY <1>0, <7>1 DEF Accumulators, Stores
            <7> QED
              BY <2>0, <5>1, <7>2, StoreAssumption DEF FrontierFits
          <6> QED
            BY <5>1, <6>1 DEF EmptyAccumulator
        <5>2. CASE old # NoSnapshot
          BY <2>0, <5>2 DEF FrontierFits
        <5> QED
          BY <5>1, <5>2
      <4>1. acc.len = store.length[t]
        BY <4>0
      <4>2. \A l \in Leaves : l < acc.len => acc.leaf[l] = StoredLeaves(store.nodes, t)[l]
        <5>1. CASE store.length[t] = 0
          BY <1>0, <4>1, <5>1 DEF Leaves
        <5>2. CASE store.length[t] # 0
          BY <4>0, <5>2
        <5> QED
          BY <5>1, <5>2
      <4> HIDE DEF acc
      <4>3. AppendLeaves(acc, placed, t)
              = [len |-> length[t], leaf |-> StoredLeaves(new, t)]
        BY <1>0, <2>2, <3>4, <4>1, <4>2, AppendMatches
      <4>4. AdvanceFrontier(old, new, length, placed, t) = AppendLeaves(acc, placed, t)
        BY <3>4 DEF AdvanceFrontier, acc
      <4> QED
        BY <3>1, <4>3, <4>4
    <3> QED
      BY <3>3, <3>4
  <2> QED
    BY <2>1, <2>2
<1>8. FrontierMatches(after)
  BY <1>1, <1>7 DEF FrontierMatches, FrontierFits
<1>9. after \in Stores
  BY <1>0, CommitWindowType
<1> QED
  BY <1>6, <1>8, <1>9 DEF StoreInv

(* Where the snapshot fits the fast path of merkle_root agrees with the    *)
(* full walk.                                                              *)
LEMMA FitsRoot ==
  ASSUME NEW store, NEW t \in Trees, FrontierFits(store, t)
  PROVE  MerkleRoot(store, t) = StoredLeaves(store.nodes, t)
<1>1. TreeFrontier(store.nodes, store.length, t).leaf = StoredLeaves(store.nodes, t)
  BY DEF TreeFrontier
<1>2. CASE store.frontier[t] = NoSnapshot
  BY <1>1, <1>2 DEF MerkleRoot
<1>3. CASE store.frontier[t] # NoSnapshot
  <2>1. store.frontier[t] = [len |-> store.length[t], leaf |-> StoredLeaves(store.nodes, t)]
    BY <1>3 DEF FrontierFits
  <2> QED
    BY <1>1, <2>1 DEF MerkleRoot
<1> QED
  BY <1>2, <1>3

(* In consistent tables a root query is a full walk.                       *)
LEMMA StoreInvRoots ==
  ASSUME NEW store, StoreInv(store), NEW t \in Trees
  PROVE  MerkleRoot(store, t) = StoredLeaves(store.nodes, t)
  BY FitsRoot DEF StoreInv, FrontierMatches
=============================================================================
