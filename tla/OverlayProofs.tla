---------------------------- MODULE OverlayProofs ----------------------------
(***************************************************************************)
(* Theorems about batches over a view, for any trees, capacity, chain and  *)
(* window size.                                                            *)
(***************************************************************************)
EXTENDS Overlay, UtxoStoreProofs

(* Staged entries are looked up as they were put.                          *)
LEMMA PutType ==
  ASSUME NEW keys, NEW values, NEW entries \in Entries(keys, values),
         NEW key \in keys, NEW value \in values
  PROVE  Put(entries, key, value) \in Entries(keys, values)
<1>1. PICK staged \in SUBSET keys : entries \in [staged -> values]
  BY DEF Entries
<1>2. Put(entries, key, value) \in [staged \cup {key} -> values]
  BY <1>1 DEF Put
<1>3. staged \cup {key} \in SUBSET keys
  OBVIOUS
<1> QED
  BY <1>2, <1>3 DEF Entries

(* A lookup yields a staged value or what lies below.                      *)
LEMMA GetType ==
  ASSUME NEW keys, NEW values, NEW entries \in Entries(keys, values), NEW key,
         NEW default
  PROVE  Get(entries, key, default) \in values \cup {default}
<1>1. PICK staged \in SUBSET keys : entries \in [staged -> values]
  BY DEF Entries
<1> QED
  BY <1>1 DEF Get

(* A lookup after a put.                                                   *)
LEMMA GetPut ==
  ASSUME NEW entries, NEW key, NEW value, NEW k, NEW default
  PROVE  Get(Put(entries, key, value), k, default)
           = IF k = key THEN value ELSE Get(entries, k, default)
  BY DEF Get, Put

(* Nothing staged is a set of staged entries, whatever the table.          *)
LEMMA EmptyEntries ==
  ASSUME NEW keys, NEW values
  PROVE  <<>> \in Entries(keys, values)
<1>1. <<>> \in [{} -> values]
  OBVIOUS
<1> QED
  BY <1>1 DEF Entries

(* WriteBatch::new is a batch.                                             *)
LEMMA EmptyBatchType == EmptyBatch \in Batches
  BY EmptyEntries DEF EmptyBatch, Batches

(* A batch over tables gives tables.                                       *)
LEMMA OverlaidType ==
  ASSUME NEW store \in Stores, NEW b \in Batches
  PROVE  Overlaid(store, b) \in Stores
<1>0. MaxTrees \in Nat /\ Capacity \in Nat
  BY StoreAssumption
<1>1. ASSUME NEW t \in Trees, NEW l \in Leaves
      PROVE  Get(b.nodes, <<t, l>>, store.nodes[t][l]) \in Nodes \cup {NoNode}
  <2>1. b.nodes \in Entries(Slots, Nodes) /\ store.nodes[t][l] \in Nodes \cup {NoNode}
    BY DEF Batches, Stores
  <2>2. Get(b.nodes, <<t, l>>, store.nodes[t][l]) \in Nodes \cup {store.nodes[t][l]}
    BY <2>1, GetType
  <2> QED
    BY <2>1, <2>2
<1>2. ASSUME NEW t \in Trees
      PROVE  Get(b.length, t, store.length[t]) \in 0 .. Capacity
  <2>1. b.length \in Entries(Trees, 1 .. Capacity) /\ store.length[t] \in 0 .. Capacity
    BY DEF Batches, Stores
  <2>2. Get(b.length, t, store.length[t]) \in (1 .. Capacity) \cup {store.length[t]}
    BY <2>1, GetType
  <2> QED
    BY <1>0, <2>1, <2>2
<1>3. Get(b.count, "count", store.count) \in 0 .. MaxTrees
  <2>1. b.count \in Entries({"count"}, 1 .. MaxTrees) /\ store.count \in 0 .. MaxTrees
    BY DEF Batches, Stores
  <2>2. Get(b.count, "count", store.count) \in (1 .. MaxTrees) \cup {store.count}
    BY <2>1, GetType
  <2> QED
    BY <1>0, <2>1, <2>2
<1>4. ASSUME NEW t \in Trees
      PROVE  Get(b.frontier, t, store.frontier[t]) \in Accumulators \cup {NoSnapshot}
  <2>1. /\ b.frontier \in Entries(Trees, Accumulators \cup {NoSnapshot})
        /\ store.frontier[t] \in Accumulators \cup {NoSnapshot}
    BY DEF Batches, Stores
  <2>2. Get(b.frontier, t, store.frontier[t])
          \in (Accumulators \cup {NoSnapshot}) \cup {store.frontier[t]}
    BY <2>1, GetType
  <2> QED
    BY <2>1, <2>2
<1>5. Get(b.synced, "synced", store.synced) \in Blocks \cup {Never}
  <2>1. b.synced \in Entries({"synced"}, Blocks) /\ store.synced \in Blocks \cup {Never}
    BY DEF Batches, Stores
  <2>2. Get(b.synced, "synced", store.synced) \in Blocks \cup {store.synced}
    BY <2>1, GetType
  <2> QED
    BY <2>1, <2>2
<1>6. store.nullifiers \cup b.nullifiers \in SUBSET Nullifiers
  BY DEF Batches, Stores
<1> QED
  BY <1>1, <1>2, <1>3, <1>4, <1>5, <1>6 DEF Overlaid, Stores

(* An empty batch shows the view as it is.                                 *)
LEMMA OverlaidEmpty ==
  ASSUME NEW store \in Stores
  PROVE  Overlaid(store, EmptyBatch) = store
<1>1. ASSUME NEW key, NEW default
      PROVE  Get(<<>>, key, default) = default
  <2>1. DOMAIN <<>> = {}
    OBVIOUS
  <2> QED
    BY <2>1 DEF Get
<1> QED
  BY <1>1 DEF Overlaid, EmptyBatch, Stores

-----------------------------------------------------------------------------
(* Staging a node in an empty slot changes the world as a window of that   *)
(* one node changes the tables: the counters that are staged as absolute   *)
(* values are those of insert_node.                                        *)
LEMMA WithNodeWorld ==
  ASSUME NEW store \in Stores, NEW b \in Batches, NEW p \in PlacedNodes,
         Overlaid(store, b).nodes[p.tree][p.leaf] = NoNode
  PROVE  LET w   == Overlaid(store, b)
             new == Overlaid(store, WithNode(b, w, p))
         IN  /\ WithNode(b, w, p) \in Batches
             /\ new.nodes = InsertNodes(w.nodes, {p})
             /\ new.length = ExtendLength(w, {p})
             /\ new.count = ExtendCount(w, {p})
             /\ new.frontier = w.frontier
<1> DEFINE w   == Overlaid(store, b)
           c   == WithNode(b, w, p)
           new == Overlaid(store, c)
<1>0. MaxTrees \in Nat /\ Capacity \in Nat
  BY StoreAssumption
<1>1. /\ p.tree \in Trees /\ p.leaf \in Leaves /\ p.node \in Nodes
      /\ p.leaf + 1 \in 1 .. Capacity /\ p.tree + 1 \in 1 .. MaxTrees
  BY <1>0 DEF PlacedNodes, Trees, Leaves
<1>2. w \in Stores
  BY OverlaidType
<1>3. /\ c.nodes = Put(b.nodes, <<p.tree, p.leaf>>, p.node)
      /\ c.length = IF p.leaf + 1 > w.length[p.tree]
                      THEN Put(b.length, p.tree, p.leaf + 1) ELSE b.length
      /\ c.count = IF p.tree + 1 > w.count THEN Put(b.count, "count", p.tree + 1) ELSE b.count
      /\ c.untended = b.untended \cup {p.tree}
      /\ c.frontier = b.frontier /\ c.synced = b.synced /\ c.nullifiers = b.nullifiers
  BY DEF WithNode, Batches
<1> HIDE DEF w
<1>4. c \in Batches
  <2> DEFINE length == IF p.leaf + 1 > w.length[p.tree]
                         THEN Put(b.length, p.tree, p.leaf + 1) ELSE b.length
             count == IF p.tree + 1 > w.count THEN Put(b.count, "count", p.tree + 1) ELSE b.count
  <2>1. <<p.tree, p.leaf>> \in Slots
    BY <1>1 DEF Slots
  <2>2. Put(b.nodes, <<p.tree, p.leaf>>, p.node) \in Entries(Slots, Nodes)
    BY <1>1, <2>1, PutType DEF Batches
  <2>3. Put(b.length, p.tree, p.leaf + 1) \in Entries(Trees, 1 .. Capacity)
    BY <1>1, PutType DEF Batches
  <2>4. Put(b.count, "count", p.tree + 1) \in Entries({"count"}, 1 .. MaxTrees)
    BY <1>1, PutType DEF Batches
  <2>5. b.untended \cup {p.tree} \in SUBSET Trees
    BY <1>1 DEF Batches
  <2>6. length \in Entries(Trees, 1 .. Capacity)
    BY <2>3 DEF Batches
  <2>7. count \in Entries({"count"}, 1 .. MaxTrees)
    BY <2>4 DEF Batches
  <2>8. c = [b EXCEPT !.nodes = Put(b.nodes, <<p.tree, p.leaf>>, p.node), !.length = length,
                      !.count = count, !.untended = b.untended \cup {p.tree}]
    BY DEF WithNode
  <2> HIDE DEF length, count, c
  <2> QED
    BY <2>2, <2>5, <2>6, <2>7, <2>8 DEF Batches
<1> HIDE DEF c
<1>5. new.nodes = InsertNodes(w.nodes, {p})
  <2>1. \A t \in Trees, l \in Leaves :
          new.nodes[t][l] = IF t = p.tree /\ l = p.leaf THEN p.node ELSE w.nodes[t][l]
    <3> TAKE t \in Trees, l \in Leaves
    <3>1. new.nodes[t][l] = Get(c.nodes, <<t, l>>, store.nodes[t][l])
      BY DEF Overlaid
    <3>2. w.nodes[t][l] = Get(b.nodes, <<t, l>>, store.nodes[t][l])
      BY DEF Overlaid, w
    <3>3. Get(c.nodes, <<t, l>>, store.nodes[t][l])
            = IF <<t, l>> = <<p.tree, p.leaf>> THEN p.node
              ELSE Get(b.nodes, <<t, l>>, store.nodes[t][l])
      BY <1>3, GetPut
    <3> QED
      BY <3>1, <3>2, <3>3
  <2>2. \A t \in Trees, l \in Leaves :
          InsertNodes(w.nodes, {p})[t][l]
            = IF t = p.tree /\ l = p.leaf THEN p.node ELSE w.nodes[t][l]
    <3>1. w.nodes[p.tree][p.leaf] = NoNode
      BY DEF w
    <3>2. (CHOOSE q \in {p} : q.tree = p.tree /\ q.leaf = p.leaf) = p
      OBVIOUS
    <3> QED
      BY <3>1, <3>2 DEF InsertNodes
  <2>3. /\ new.nodes = [t \in Trees |-> [l \in Leaves |-> new.nodes[t][l]]]
        /\ InsertNodes(w.nodes, {p})
             = [t \in Trees |-> [l \in Leaves |-> InsertNodes(w.nodes, {p})[t][l]]]
    BY DEF Overlaid, InsertNodes
  <2> HIDE DEF new
  <2>4. ASSUME NEW t \in Trees
        PROVE  [l \in Leaves |-> new.nodes[t][l]]
                 = [l \in Leaves |-> InsertNodes(w.nodes, {p})[t][l]]
    BY <2>1, <2>2
  <2> QED
    BY <2>3, <2>4
<1>6. new.length = ExtendLength(w, {p})
  <2>1. ASSUME NEW t \in Trees
        PROVE  new.length[t] = IF t = p.tree /\ p.leaf + 1 > w.length[t]
                                 THEN p.leaf + 1 ELSE w.length[t]
    <3>1. new.length[t] = Get(c.length, t, store.length[t])
      BY DEF Overlaid
    <3>2. w.length[t] = Get(b.length, t, store.length[t])
      BY DEF Overlaid, w
    <3>3. Get(Put(b.length, p.tree, p.leaf + 1), t, store.length[t])
            = IF t = p.tree THEN p.leaf + 1 ELSE Get(b.length, t, store.length[t])
      BY GetPut
    <3> HIDE DEF new
    <3> QED
      BY <1>3, <3>1, <3>2, <3>3
  <2>2. ASSUME NEW t \in Trees
        PROVE  ExtendLength(w, {p})[t] = IF t = p.tree /\ p.leaf + 1 > w.length[t]
                                           THEN p.leaf + 1 ELSE w.length[t]
    <3>1. /\ ExtendLength(w, {p})[t] \in 0 .. Capacity
          /\ w.length[t] <= ExtendLength(w, {p})[t]
          /\ p.tree = t /\ w.nodes[t][p.leaf] = NoNode => p.leaf < ExtendLength(w, {p})[t]
          /\ \/ ExtendLength(w, {p})[t] = w.length[t]
             \/ p.tree = t /\ ExtendLength(w, {p})[t] = p.leaf + 1
      BY <1>2, ExtendLengthMax
    <3>2. w.nodes[p.tree][p.leaf] = NoNode
      BY DEF w
    <3>3. w.length[t] \in Int /\ p.leaf \in Int
      BY <1>1, <1>2 DEF Stores, Leaves
    <3> QED
      BY <1>0, <3>1, <3>2, <3>3
  <2>3. /\ new.length = [t \in Trees |-> new.length[t]]
        /\ ExtendLength(w, {p}) = [t \in Trees |-> ExtendLength(w, {p})[t]]
    BY DEF Overlaid, ExtendLength
  <2> HIDE DEF new
  <2> QED
    BY <2>1, <2>2, <2>3
<1>7. new.count = ExtendCount(w, {p})
  <2> DEFINE A == {w.count} \cup {q.tree + 1 : q \in {q \in {p} : w.nodes[q.tree][q.leaf] = NoNode}}
  <2>1. w.nodes[p.tree][p.leaf] = NoNode
    BY DEF w
  <2>2. A = {w.count, p.tree + 1}
    BY <2>1
  <2>3. ExtendCount(w, {p}) = Max(A)
    BY DEF ExtendCount
  <2> HIDE DEF A
  <2>4. w.count \in 0 .. MaxTrees
    BY <1>2 DEF Stores
  <2>5. A \in SUBSET (0 .. MaxTrees) /\ A # {}
    BY <1>0, <1>1, <2>2, <2>4
  <2>6. Max(A) \in A /\ \A y \in A : y <= Max(A)
    BY <1>0, <2>5, MaxIsGreatest, Zenon
  <2>7. Max(A) = IF p.tree + 1 > w.count THEN p.tree + 1 ELSE w.count
    BY <1>0, <1>1, <2>2, <2>4, <2>6
  <2>8. /\ new.count = Get(c.count, "count", store.count)
        /\ w.count = Get(b.count, "count", store.count)
    BY DEF Overlaid, w
  <2>9. Get(Put(b.count, "count", p.tree + 1), "count", store.count) = p.tree + 1
    BY GetPut
  <2> HIDE DEF new
  <2> QED
    BY <1>3, <2>3, <2>7, <2>8, <2>9
<1>8. new.frontier = w.frontier
  BY <1>3 DEF Overlaid, w
<1> QED
  BY <1>4, <1>5, <1>6, <1>7, <1>8 DEF w, c

-----------------------------------------------------------------------------
(* Staging anything keeps the batch a batch.                               *)
LEMMA StagedTypes ==
  ASSUME NEW b \in Batches
  PROVE  /\ \A n \in Nullifiers : [b EXCEPT !.nullifiers = @ \cup {n}] \in Batches
         /\ \A block \in Blocks : [b EXCEPT !.synced = Put(@, "synced", block)] \in Batches
         /\ \A t \in Trees, f \in Accumulators \cup {NoSnapshot}, u \in SUBSET Trees :
              [b EXCEPT !.frontier = Put(@, t, f), !.untended = u] \in Batches
<1>1. ASSUME NEW n \in Nullifiers
      PROVE  [b EXCEPT !.nullifiers = @ \cup {n}] \in Batches
  BY DEF Batches
<1>2. ASSUME NEW block \in Blocks
      PROVE  [b EXCEPT !.synced = Put(@, "synced", block)] \in Batches
  <2>1. Put(b.synced, "synced", block) \in Entries({"synced"}, Blocks)
    BY PutType DEF Batches
  <2> QED
    BY <2>1 DEF Batches
<1>3. ASSUME NEW t \in Trees, NEW f \in Accumulators \cup {NoSnapshot}, NEW u \in SUBSET Trees
      PROVE  [b EXCEPT !.frontier = Put(@, t, f), !.untended = u] \in Batches
  <2>1. Put(b.frontier, t, f) \in Entries(Trees, Accumulators \cup {NoSnapshot})
    BY PutType DEF Batches
  <2> QED
    BY <2>1 DEF Batches
<1> QED
  BY <1>1, <1>2, <1>3
-----------------------------------------------------------------------------
(* The disjuncts of Next, with what the window and the batch draw from     *)
(* typed.                                                                  *)
LEMMA NextCases ==
  ASSUME Next
  PROVE  \/ \E placed \in SUBSET PlacedNodes, spent \in SUBSET Nullifiers,
              through \in Blocks : WindowCommits(placed, spent, through)
         \/ ClearAll
         \/ Open
         \/ \E p \in PlacedNodes : StageNode(p)
         \/ \E n \in Nullifiers : StageNullifier(n)
         \/ \E block \in Blocks : StageSyncedBlock(block)
         \/ \E t \in Trees : StageSnapshot(t)
         \/ \E t \in Trees : StageClear(t)
         \/ Apply
         \/ Discard
<1>1. Chain \subseteq PlacedNodes
  BY OverlayAssumption
<1>2. ASSUME NEW placed \in UNION {kSubset(k, Chain) : k \in 0 .. MaxWindow}
      PROVE  placed \in SUBSET PlacedNodes
  BY <1>1 DEF kSubset
<1>3. ASSUME NEW spent \in {{}, Nullifiers}
      PROVE  spent \in SUBSET Nullifiers
  OBVIOUS
<1>4. CASE \E placed \in UNION {kSubset(k, Chain) : k \in 0 .. MaxWindow},
             spent \in {{}, Nullifiers}, through \in Blocks :
               WindowCommits(placed, spent, through)
  BY <1>2, <1>3, <1>4
<1>5. CASE \E p \in Chain : StageNode(p)
  BY <1>1, <1>5
<1> QED
  BY <1>4, <1>5 DEF Next

(* Every step keeps the types of tables and batch.                         *)
LEMMA TypeKept ==
  ASSUME TypeOK, [Next]_vars
  PROVE  TypeOK'
<1>0. EmptyStore \in Stores
  BY EmptyStoreInv DEF StoreInv
<1>1. ASSUME NEW placed \in SUBSET PlacedNodes, NEW spent \in SUBSET Nullifiers,
             NEW through \in Blocks, WindowCommits(placed, spent, through)
      PROVE  TypeOK'
  BY <1>1, CommitWindowType DEF TypeOK, WindowCommits
<1>2. CASE ClearAll
  BY <1>0, <1>2 DEF TypeOK, ClearAll
<1>3. CASE Open
  BY <1>3, EmptyBatchType DEF TypeOK, Open
<1>4. ASSUME NEW p \in PlacedNodes, StageNode(p)
      PROVE  TypeOK'
  <2>1. batch \in Batches /\ base \in Stores
    BY <1>4 DEF TypeOK, StageNode
  <2>2. WithNode(batch, World, p) \in Batches
    BY <1>4, <2>1, WithNodeWorld DEF StageNode, World
  <2> QED
    BY <1>4, <2>2 DEF TypeOK, StageNode
<1>5. ASSUME NEW n \in Nullifiers, StageNullifier(n)
      PROVE  TypeOK'
  BY <1>5, StagedTypes DEF TypeOK, StageNullifier
<1>6. ASSUME NEW block \in Blocks, StageSyncedBlock(block)
      PROVE  TypeOK'
  BY <1>6, StagedTypes DEF TypeOK, StageSyncedBlock
<1>7. ASSUME NEW t \in Trees, StageSnapshot(t)
      PROVE  TypeOK'
  <2> DEFINE f == TreeFrontier(World.nodes, World.length, t)
             u == batch.untended \ {t}
  <2>1. batch \in Batches /\ base \in Stores
    BY <1>7 DEF TypeOK, StageSnapshot
  <2>2. World \in Stores
    BY <2>1, OverlaidType DEF World
  <2>3. f \in Accumulators
    BY <2>2, TreeFrontierType DEF Stores
  <2>4. u \in SUBSET Trees
    BY <2>1 DEF Batches
  <2>5. batch' = [batch EXCEPT !.frontier = Put(@, t, f), !.untended = u]
    BY <1>7 DEF StageSnapshot
  <2> HIDE DEF f, u
  <2>6. batch' \in Batches
    BY <2>1, <2>3, <2>4, <2>5, StagedTypes
  <2> QED
    BY <1>7, <2>6 DEF TypeOK, StageSnapshot
<1>8. ASSUME NEW t \in Trees, StageClear(t)
      PROVE  TypeOK'
  <2> DEFINE u == IF FrontierPolicy = "clear" THEN batch.untended \ {t}
                  ELSE batch.untended \cup {t}
  <2>1. batch \in Batches
    BY <1>8 DEF TypeOK, StageClear
  <2>2. u \in SUBSET Trees
    BY <2>1 DEF Batches
  <2>3. batch' = [batch EXCEPT !.frontier = Put(@, t, NoSnapshot), !.untended = u]
    BY <1>8 DEF StageClear
  <2> HIDE DEF u
  <2>4. batch' \in Batches
    BY <2>1, <2>2, <2>3, StagedTypes
  <2> QED
    BY <1>8, <2>4 DEF TypeOK, StageClear
<1>9. CASE Apply
  <2>1. batch \in Batches
    BY <1>9 DEF TypeOK, Apply
  <2>2. Overlaid(db, batch) \in Stores
    BY <2>1, OverlaidType DEF TypeOK
  <2> QED
    BY <1>0, <1>9, <2>2 DEF TypeOK, Apply
<1>10. CASE Discard
  BY <1>0, <1>10 DEF TypeOK, Discard
<1>11. CASE UNCHANGED vars
  BY <1>11 DEF TypeOK, vars
<1> QED
  BY <1>1, <1>2, <1>3, <1>4, <1>5, <1>6, <1>7, <1>8, <1>9, <1>10, <1>11, NextCases

(* Whoever writes, and whatever the author does about frontiers: tables    *)
(* and batch keep their types, so an apply never leaves a counter or a     *)
(* snapshot out of range behind.                                           *)
THEOREM OverlayTypeCorrect == Spec => []TypeOK
<1>1. Init => TypeOK
  BY EmptyStoreInv DEF Init, TypeOK, StoreInv
<1>2. TypeOK /\ [Next]_vars => TypeOK'
  BY TypeKept
<1> QED
  BY <1>1, <1>2, PTL DEF Spec
-----------------------------------------------------------------------------
(* Two stores that agree where counters and snapshots look.                *)
SameLeaves(s, r) ==
  s.nodes = r.nodes /\ s.length = r.length /\ s.count = r.count

(* A staged nullifier or watermark shows in its own table only.            *)
LEMMA OtherStaging ==
  ASSUME NEW store, NEW b \in Batches, NEW c, NEW x, NEW y,
         \/ c = [b EXCEPT !.nullifiers = x]
         \/ c = [b EXCEPT !.synced = y]
  PROVE  /\ c.nodes = b.nodes /\ c.untended = b.untended
         /\ SameLeaves(Overlaid(store, c), Overlaid(store, b))
         /\ Overlaid(store, c).frontier = Overlaid(store, b).frontier
<1>1. /\ c.nodes = b.nodes /\ c.untended = b.untended /\ c.length = b.length
      /\ c.count = b.count /\ c.frontier = b.frontier
  BY DEF Batches
<1> QED
  BY <1>1 DEF SameLeaves, Overlaid

(* Exactness of the counters is a matter of leaves and counters only.      *)
LEMMA SameCounters ==
  ASSUME NEW s, NEW r, SameLeaves(s, r), CountersMatch(r)
  PROVE  CountersMatch(s)
  BY DEF SameLeaves, CountersMatch

(* The counters of the world stay exact when a node is staged.             *)
LEMMA StagedCounters ==
  ASSUME NEW store \in Stores, NEW b \in Batches, NEW p \in PlacedNodes,
         Overlaid(store, b).nodes[p.tree][p.leaf] = NoNode,
         CountersMatch(Overlaid(store, b))
  PROVE  CountersMatch(Overlaid(store, WithNode(b, Overlaid(store, b), p)))
<1> DEFINE w   == Overlaid(store, b)
           new == Overlaid(store, WithNode(b, w, p))
<1>1. /\ new.nodes = InsertNodes(w.nodes, {p})
      /\ new.length = ExtendLength(w, {p})
      /\ new.count = ExtendCount(w, {p})
  BY WithNodeWorld
<1>2. w \in Stores /\ {p} \in SUBSET PlacedNodes
  BY OverlaidType
<1> HIDE DEF w, new
<1>3. CountersMatch(w)
  BY DEF w
<1>4. \A t \in Trees : new.length[t] = HighestLeafPlusOne(new.nodes, t)
  BY <1>1, <1>2, <1>3, ExtendLengthExact
<1>5. new.count = Max(TreesSeen(new.length))
  BY <1>1, <1>2, <1>3, ExtendCountExact
<1>6. CountersMatch(new)
  BY <1>4, <1>5 DEF CountersMatch, TreesSeen
<1> QED
  BY <1>6 DEF new, w

(* While other writers stay out the view of an open batch is the database, *)
(* the counters are exact in the database and in the world the batch       *)
(* shows, and a batch names only slots that are empty in its view.         *)
ExclusiveInv ==
  /\ TypeOK
  /\ CountersMatch(db)
  /\ batch # NoBatch =>
       /\ base = db
       /\ CountersMatch(World)
       /\ \A t \in Trees, l \in Leaves :
            <<t, l>> \in DOMAIN batch.nodes => base.nodes[t][l] = NoNode

(* No step breaks the invariant while other writers wait for a batch.      *)
LEMMA ExclusiveKept ==
  ASSUME Exclusive, ExclusiveInv, [Next]_vars
  PROVE  ExclusiveInv'
<1> USE DEF ExclusiveInv
<1>0. /\ EmptyStore \in Stores /\ CountersMatch(EmptyStore)
      /\ TypeOK'
  BY EmptyStoreInv, TypeKept DEF StoreInv
<1>w. World' = Overlaid(base', batch')
  BY DEF World
<1>1. ASSUME NEW placed \in SUBSET PlacedNodes, NEW spent \in SUBSET Nullifiers,
             NEW through \in Blocks, WindowCommits(placed, spent, through)
      PROVE  ExclusiveInv'
  <2>1. batch' = NoBatch /\ db' = CommitWindow(db, placed, spent, through)
    BY <1>1 DEF WindowCommits, OthersMayWrite
  <2>2. CountersMatch(db')
    BY <2>1, CommitWindowCounters DEF TypeOK
  <2> QED
    BY <1>0, <2>1, <2>2 DEF CountersMatch
<1>2. CASE ClearAll
  <2>1. batch' = NoBatch /\ db' = EmptyStore
    BY <1>2 DEF ClearAll, OthersMayWrite
  <2> QED
    BY <1>0, <2>1 DEF CountersMatch
<1>3. CASE Open
  <2>1. db' = db /\ base' = db /\ batch' = EmptyBatch
    BY <1>3 DEF Open
  <2>2. World' = db
    BY <1>w, <2>1, OverlaidEmpty DEF TypeOK
  <2>3. DOMAIN batch'.nodes = {}
    BY <2>1 DEF EmptyBatch
  <2> QED
    BY <1>0, <2>1, <2>2, <2>3 DEF CountersMatch
<1>4. ASSUME NEW p \in PlacedNodes, StageNode(p)
      PROVE  ExclusiveInv'
  <2>1. /\ batch \in Batches /\ base \in Stores /\ base = db
        /\ World.nodes[p.tree][p.leaf] = NoNode
        /\ batch' = WithNode(batch, World, p) /\ base' = base /\ db' = db
    BY <1>4 DEF TypeOK, StageNode
  <2>2. CountersMatch(World')
    BY <1>4, <1>w, <2>1, StagedCounters DEF StageNode, World
  <2>3. ASSUME NEW t \in Trees, NEW l \in Leaves, <<t, l>> \in DOMAIN batch'.nodes
        PROVE  base.nodes[t][l] = NoNode
    <3>1. batch'.nodes = Put(batch.nodes, <<p.tree, p.leaf>>, p.node)
      BY <2>1 DEF WithNode, Batches
    <3>2. <<t, l>> \in DOMAIN batch.nodes \/ <<t, l>> = <<p.tree, p.leaf>>
      BY <2>3, <3>1 DEF Put
    <3>3. CASE <<t, l>> \in DOMAIN batch.nodes
      BY <1>4, <3>3 DEF StageNode
    <3>4. CASE <<t, l>> \notin DOMAIN batch.nodes
      <4>1. t = p.tree /\ l = p.leaf
        BY <3>2, <3>4
      <4>2. World.nodes[t][l] = base.nodes[t][l]
        BY <3>4 DEF World, Overlaid, Get
      <4> QED
        BY <2>1, <4>1, <4>2
    <3> QED
      BY <3>3, <3>4
  <2> QED
    BY <1>0, <2>1, <2>2, <2>3 DEF CountersMatch
<1>5. ASSUME NEW n \in Nullifiers, StageNullifier(n)
      PROVE  ExclusiveInv'
  <2>1. /\ batch # NoBatch /\ batch \in Batches /\ base' = base /\ db' = db
        /\ batch' = [batch EXCEPT !.nullifiers = @ \cup {n}]
    BY <1>5 DEF TypeOK, StageNullifier
  <2>2. batch'.nodes = batch.nodes /\ SameLeaves(World', World)
    BY <1>w, <2>1, OtherStaging DEF World
  <2>3. CountersMatch(World')
    BY <2>1, <2>2, SameCounters
  <2> QED
    BY <1>0, <2>1, <2>2, <2>3 DEF CountersMatch
<1>6. ASSUME NEW block \in Blocks, StageSyncedBlock(block)
      PROVE  ExclusiveInv'
  <2>1. /\ batch # NoBatch /\ batch \in Batches /\ base' = base /\ db' = db
        /\ batch' = [batch EXCEPT !.synced = Put(@, "synced", block)]
    BY <1>6 DEF TypeOK, StageSyncedBlock
  <2>2. batch'.nodes = batch.nodes /\ SameLeaves(World', World)
    BY <1>w, <2>1, OtherStaging DEF World
  <2>3. CountersMatch(World')
    BY <2>1, <2>2, SameCounters
  <2> QED
    BY <1>0, <2>1, <2>2, <2>3 DEF CountersMatch
<1>7. ASSUME NEW t \in Trees, StageSnapshot(t) \/ StageClear(t)
      PROVE  ExclusiveInv'
  <2>1. /\ batch # NoBatch /\ batch \in Batches /\ base' = base /\ db' = db
        /\ \E f, u : batch' = [batch EXCEPT !.frontier = Put(@, t, f), !.untended = u]
    BY <1>7 DEF TypeOK, StageSnapshot, StageClear
  <2>4. PICK f, u : batch' = [batch EXCEPT !.frontier = Put(@, t, f), !.untended = u]
    BY <2>1
  <2>2. batch'.nodes = batch.nodes /\ SameLeaves(World', World)
    <3>1. /\ batch'.nodes = batch.nodes /\ batch'.length = batch.length
          /\ batch'.count = batch.count /\ batch'.frontier = Put(batch.frontier, t, f)
      BY <2>1, <2>4 DEF Batches
    <3>2. SameLeaves(Overlaid(base, batch'), Overlaid(base, batch))
      BY <3>1 DEF SameLeaves, Overlaid
    <3> QED
      BY <1>w, <2>1, <3>1, <3>2 DEF World
  <2>3. CountersMatch(World')
    BY <2>1, <2>2, SameCounters
  <2> QED
    BY <1>0, <2>1, <2>2, <2>3 DEF CountersMatch
<1>8. CASE Apply
  <2>1. batch' = NoBatch /\ db' = World
    BY <1>8 DEF Apply, World
  <2>2. CountersMatch(World)
    BY <1>8 DEF Apply
  <2> QED
    BY <1>0, <2>1, <2>2 DEF CountersMatch
<1>9. CASE Discard
  BY <1>0, <1>9 DEF Discard, CountersMatch
<1>10. CASE UNCHANGED vars
  BY <1>0, <1>10 DEF vars, World, CountersMatch
<1> QED
  BY <1>1, <1>2, <1>3, <1>4, <1>5, <1>6, <1>7, <1>8, <1>9, <1>10, NextCases

(* While other writers wait for an open batch the tracked tree lengths and *)
(* tree count stay the highest stored position and tree plus one, however  *)
(* windows, batches, discards and wipes follow one another.                *)
THEOREM CountersExactWhenExclusive ==
  ASSUME Exclusive
  PROVE  Spec => []CountersExact
<1>1. Init => ExclusiveInv
  BY EmptyStoreInv DEF Init, ExclusiveInv, TypeOK, StoreInv
<1>2. ExclusiveInv /\ [Next]_vars => ExclusiveInv'
  BY ExclusiveKept
<1>3. ExclusiveInv => CountersExact
  BY DEF ExclusiveInv, CountersExact
<1> QED
  BY <1>1, <1>2, <1>3, PTL DEF Spec

(* A stored node is never replaced: insert_node refuses a window, and a    *)
(* batch names only slots that were, and while it is open remain, empty.   *)
THEOREM NodesPermanentWhenExclusive ==
  ASSUME Exclusive
  PROVE  Spec => NodesPermanent
<1>1. Init => ExclusiveInv
  BY EmptyStoreInv DEF Init, ExclusiveInv, TypeOK, StoreInv
<1>2. ExclusiveInv /\ [Next]_vars => ExclusiveInv'
  BY ExclusiveKept
<1>3. ExclusiveInv /\ [Next]_vars
        => [\A t \in Trees, l \in Leaves :
              db.nodes[t][l] # NoNode => \/ db'.nodes[t][l] = db.nodes[t][l]
                                        \/ db' = EmptyStore]_vars
  <2> SUFFICES ASSUME ExclusiveInv, Next, NEW t \in Trees, NEW l \in Leaves,
                      db.nodes[t][l] # NoNode
               PROVE  db'.nodes[t][l] = db.nodes[t][l] \/ db' = EmptyStore
    OBVIOUS
  <2>1. ASSUME NEW placed, NEW spent, NEW through, WindowCommits(placed, spent, through)
        PROVE  db'.nodes[t][l] = db.nodes[t][l]
    <3>1. db'.nodes = InsertNodes(db.nodes, placed)
      BY <2>1 DEF WindowCommits, CommitWindow
    <3> QED
      BY <3>1, InsertNodesKeeps
  <2>2. CASE Apply
    <3>1. <<t, l>> \notin DOMAIN batch.nodes
      BY <2>2 DEF Apply, ExclusiveInv
    <3> QED
      BY <2>2, <3>1 DEF Apply, Overlaid, Get
  <2>3. CASE ClearAll
    BY <2>3 DEF ClearAll
  <2>4. ASSUME ~ClearAll, ~Apply,
               ~ \E placed \in SUBSET PlacedNodes, spent \in SUBSET Nullifiers,
                    through \in Blocks : WindowCommits(placed, spent, through)
        PROVE  db' = db
    BY <2>4, NextCases DEF Open, StageNode, StageNullifier,
       StageSyncedBlock, StageSnapshot, StageClear, Discard
  <2> QED
    BY <2>1, <2>2, <2>3, <2>4
<1> QED
  BY <1>1, <1>2, <1>3, PTL DEF Spec, NodesPermanent
-----------------------------------------------------------------------------
(* Where in addition the author rebuilds the snapshot of every tree it     *)
(* touched, the snapshots fit the leaves: in the database always, in the   *)
(* world of an open batch for every tree that is not still to be tended.   *)
RebuildInv ==
  /\ ExclusiveInv
  /\ FrontierMatches(db)
  /\ batch # NoBatch => \A t \in Trees \ batch.untended : FrontierFits(World, t)

(* A snapshot depends on the leaves, the length and itself.                *)
LEMMA SameFits ==
  ASSUME NEW s, NEW r, NEW t \in Trees, FrontierFits(r, t),
         s.nodes[t] = r.nodes[t], s.length[t] = r.length[t], s.frontier[t] = r.frontier[t]
  PROVE  FrontierFits(s, t)
<1>1. StoredLeaves(s.nodes, t) = StoredLeaves(r.nodes, t)
  BY DEF StoredLeaves
<1> QED
  BY <1>1 DEF FrontierFits

(* Nor, if snapshots are rebuilt, the one about frontiers.                 *)
LEMMA RebuildKept ==
  ASSUME Exclusive, FrontierPolicy = "rebuild", RebuildInv, [Next]_vars
  PROVE  RebuildInv'
<1>0. ExclusiveInv /\ FrontierMatches(db) /\ TypeOK /\ CountersMatch(db)
  BY DEF RebuildInv, ExclusiveInv
<1>e. ExclusiveInv'
  BY <1>0, ExclusiveKept
<1>w. World' = Overlaid(base', batch')
  BY DEF World
<1>f. /\ (FrontierMatches(db))' <=> FrontierMatches(db')
      /\ \A t \in Trees : (FrontierFits(World, t))' <=> FrontierFits(World', t)
  BY DEF FrontierMatches, FrontierFits
<1>1. ASSUME NEW placed \in SUBSET PlacedNodes, NEW spent \in SUBSET Nullifiers,
             NEW through \in Blocks, WindowCommits(placed, spent, through)
      PROVE  RebuildInv'
  <2>1. /\ batch' = NoBatch /\ db' = CommitWindow(db, placed, spent, through)
        /\ ~CommitmentConflict(db.nodes, placed)
    BY <1>1 DEF WindowCommits, OthersMayWrite
  <2>2. StoreInv(db')
    BY <1>0, <2>1, WindowKeepsStoreInv DEF StoreInv, TypeOK
  <2> QED
    BY <1>e, <1>f, <2>1, <2>2 DEF RebuildInv, StoreInv
<1>2. CASE ClearAll
  <2>1. batch' = NoBatch /\ db' = EmptyStore
    BY <1>2 DEF ClearAll, OthersMayWrite
  <2> QED
    BY <1>e, <1>f, <2>1, EmptyStoreInv DEF RebuildInv, StoreInv
<1>3. CASE Open
  <2>1. db' = db /\ base' = db /\ batch' = EmptyBatch
    BY <1>3 DEF Open
  <2>2. World' = db
    BY <1>0, <1>w, <2>1, OverlaidEmpty DEF TypeOK
  <2>3. \A t \in Trees : FrontierFits(World', t)
    BY <1>0, <2>2 DEF FrontierMatches
  <2> QED
    BY <1>0, <1>e, <1>f, <2>1, <2>3 DEF RebuildInv
<1>4. ASSUME NEW p \in PlacedNodes, StageNode(p)
      PROVE  RebuildInv'
  <2>1. /\ batch # NoBatch /\ batch \in Batches /\ base \in Stores
        /\ World.nodes[p.tree][p.leaf] = NoNode
        /\ batch' = WithNode(batch, World, p) /\ base' = base /\ db' = db
    BY <1>0, <1>4 DEF TypeOK, StageNode
  <2>2. /\ World'.nodes = InsertNodes(World.nodes, {p})
        /\ World'.length = ExtendLength(World, {p})
        /\ World'.frontier = World.frontier
    BY <1>w, <2>1, WithNodeWorld DEF World
  <2>3. batch'.untended = batch.untended \cup {p.tree}
    BY <2>1 DEF WithNode, Batches
  <2>4. World \in Stores
    BY <2>1, OverlaidType DEF World
  <2>5. ASSUME NEW t \in Trees, t \notin batch'.untended
        PROVE  FrontierFits(World', t)
    <3>1. t # p.tree /\ t \notin batch.untended
      BY <2>3, <2>5
    <3>2. FrontierFits(World, t)
      BY <2>1, <3>1 DEF RebuildInv
    <3>3. World'.length[t] = World.length[t]
      BY <2>2, <2>4, <3>1, ExtendLengthMax
    <3>4. World'.nodes[t] = World.nodes[t]
      BY <2>2, <2>4, <3>1 DEF InsertNodes, Stores
    <3> QED
      BY <2>2, <3>2, <3>3, <3>4, SameFits
  <2> QED
    BY <1>0, <1>e, <1>f, <2>1, <2>5 DEF RebuildInv
<1>5. ASSUME NEW c, SameLeaves(Overlaid(base, c), World), batch # NoBatch,
             c.untended = batch.untended, Overlaid(base, c).frontier = World.frontier,
             batch' = c, base' = base, db' = db
      PROVE  RebuildInv'
  <2>1. SameLeaves(World', World) /\ World'.frontier = World.frontier
    BY <1>5, <1>w
  <2>2. \A t \in Trees : FrontierFits(World, t) => FrontierFits(World', t)
    BY <2>1, SameFits DEF SameLeaves
  <2> QED
    BY <1>0, <1>e, <1>f, <1>5, <2>2 DEF RebuildInv
<1>6. ASSUME NEW n \in Nullifiers, StageNullifier(n)
      PROVE  RebuildInv'
  <2>1. batch \in Batches
    BY <1>0, <1>6 DEF TypeOK, StageNullifier
  <2> QED
    BY <1>5, <1>6, <2>1, OtherStaging DEF StageNullifier, World
<1>7. ASSUME NEW block \in Blocks, StageSyncedBlock(block)
      PROVE  RebuildInv'
  <2>1. batch \in Batches
    BY <1>0, <1>7 DEF TypeOK, StageSyncedBlock
  <2> QED
    BY <1>5, <1>7, <2>1, OtherStaging DEF StageSyncedBlock, World
<1>8. ASSUME NEW t \in Trees, StageSnapshot(t) \/ StageClear(t)
      PROVE  RebuildInv'
  <2> DEFINE f == TreeFrontier(World.nodes, World.length, t)
  <2>1. PICK g, u :
          /\ batch # NoBatch /\ batch \in Batches /\ base' = base /\ db' = db
          /\ batch' = [batch EXCEPT !.frontier = Put(@, t, g), !.untended = u]
          /\ \/ g = f /\ u = batch.untended \ {t}
             \/ u = batch.untended \cup {t}
    BY <1>0, <1>8 DEF TypeOK, StageSnapshot, StageClear
  <2>2. /\ batch'.untended = u /\ SameLeaves(World', World)
        /\ \A v \in Trees : World'.frontier[v] = IF v = t THEN g ELSE World.frontier[v]
    <3>1. /\ batch'.nodes = batch.nodes /\ batch'.length = batch.length
          /\ batch'.count = batch.count /\ batch'.frontier = Put(batch.frontier, t, g)
          /\ batch'.untended = u
      <4> HIDE DEF f
      <4> QED
        BY <2>1 DEF Batches
    <3>2. SameLeaves(Overlaid(base, batch'), Overlaid(base, batch))
      BY <3>1 DEF SameLeaves, Overlaid
    <3>3. ASSUME NEW v \in Trees
          PROVE  Overlaid(base, batch').frontier[v]
                   = IF v = t THEN g ELSE Overlaid(base, batch).frontier[v]
      <4>1. /\ Overlaid(base, batch').frontier[v] = Get(batch'.frontier, v, base.frontier[v])
            /\ Overlaid(base, batch).frontier[v] = Get(batch.frontier, v, base.frontier[v])
        BY DEF Overlaid
      <4> QED
        BY <3>1, <4>1, GetPut
    <3> QED
      BY <1>w, <2>1, <3>1, <3>2, <3>3 DEF World
  <2>3. ASSUME NEW v \in Trees, v \notin u
        PROVE  FrontierFits(World', v)
    <3>1. CASE v = t
      <4>1. g = f
        BY <2>1, <2>3, <3>1
      <4>2. World.length[t] = HighestLeafPlusOne(World.nodes, t)
        BY <1>0, <2>1 DEF ExclusiveInv, CountersMatch
      <4>3. f = [len |-> World.length[t], leaf |-> StoredLeaves(World.nodes, t)]
        BY <4>2, RebuildMatches
      <4> HIDE DEF f
      <4> QED
        BY <2>2, <3>1, <4>1, <4>3 DEF FrontierFits, SameLeaves
    <3>2. CASE v # t
      <4>1. FrontierFits(World, v)
        BY <2>1, <2>3, <3>2 DEF RebuildInv
      <4> QED
        BY <2>2, <3>2, <4>1, SameFits DEF SameLeaves
    <3> QED
      BY <3>1, <3>2
  <2> QED
    BY <1>0, <1>e, <1>f, <2>1, <2>2, <2>3 DEF RebuildInv
<1>9. CASE Apply
  <2>1. batch' = NoBatch /\ db' = World /\ batch # NoBatch /\ batch.untended = {}
    BY <1>0, <1>9 DEF Apply, World, ExclusiveInv
  <2>2. FrontierMatches(World)
    BY <2>1 DEF RebuildInv, FrontierMatches
  <2> QED
    BY <1>e, <1>f, <2>1, <2>2 DEF RebuildInv
<1>10. CASE Discard
  BY <1>0, <1>e, <1>f, <1>10 DEF Discard, RebuildInv
<1>11. CASE UNCHANGED vars
  BY <1>e, <1>11 DEF vars, RebuildInv, World, FrontierMatches, FrontierFits
<1> QED
  BY <1>1, <1>2, <1>3, <1>4, <1>6, <1>7, <1>8, <1>9, <1>10, <1>11, NextCases

(* With rebuilt snapshots no root query ever disagrees with the stored     *)
(* leaves, after any sequence of windows, batches and wipes.               *)
THEOREM RootsCurrentWhenRebuilt ==
  ASSUME Exclusive, FrontierPolicy = "rebuild"
  PROVE  Spec => []RootsCurrent
<1>1. Init => RebuildInv
  BY EmptyStoreInv DEF Init, RebuildInv, ExclusiveInv, TypeOK, StoreInv
<1>2. RebuildInv /\ [Next]_vars => RebuildInv'
  BY RebuildKept
<1>3. RebuildInv => RootsCurrent
  BY FitsRoot DEF RebuildInv, RootsCurrent, FrontierMatches
<1> QED
  BY <1>1, <1>2, <1>3, PTL DEF Spec

(* And the root the author validates is the root of the leaves it is about *)
(* to write.                                                               *)
THEOREM ValidatedRootCurrentWhenRebuilt ==
  ASSUME Exclusive, FrontierPolicy = "rebuild"
  PROVE  Spec => []ValidatedRootCurrent
<1>1. Init => RebuildInv
  BY EmptyStoreInv DEF Init, RebuildInv, ExclusiveInv, TypeOK, StoreInv
<1>2. RebuildInv /\ [Next]_vars => RebuildInv'
  BY RebuildKept
<1>3. RebuildInv => ValidatedRootCurrent
  BY FitsRoot DEF RebuildInv, ValidatedRootCurrent
<1> QED
  BY <1>1, <1>2, <1>3, PTL DEF Spec
-----------------------------------------------------------------------------
(* Consistent tables follow from their leaves: two of them with the same   *)
(* nodes have the same counters and the same frontiers.                    *)
LEMMA LeavesDetermine ==
  ASSUME NEW s \in Stores, NEW r \in Stores, s.nodes = r.nodes,
         CountersMatch(s), CountersMatch(r), FrontierMatches(s), FrontierMatches(r)
  PROVE  /\ s.length = r.length /\ s.count = r.count
         /\ \A t \in Trees : Frontier(s, t) = Frontier(r, t)
<1>1. s.length = r.length
  <2>1. \A t \in Trees : s.length[t] = r.length[t]
    BY DEF CountersMatch
  <2>2. s.length = [t \in Trees |-> s.length[t]] /\ r.length = [t \in Trees |-> r.length[t]]
    BY DEF Stores
  <2> QED
    BY <2>1, <2>2, Zenon
<1>2. s.count = r.count
  BY <1>1 DEF CountersMatch
<1>3. ASSUME NEW x \in Stores, CountersMatch(x), FrontierMatches(x), NEW t \in Trees
      PROVE  Frontier(x, t) = [len |-> x.length[t], leaf |-> StoredLeaves(x.nodes, t)]
  <2> DEFINE full == [len |-> x.length[t], leaf |-> StoredLeaves(x.nodes, t)]
  <2>1. full \in Accumulators
    <3>1. StoredLeaves(x.nodes, t) \in [Leaves -> Hashes \cup {ZeroLeaf}]
      BY DEF StoredLeaves, Stores, Nodes
    <3>2. x.length[t] \in 0 .. Capacity
      BY DEF Stores
    <3> QED
      BY <3>1, <3>2 DEF Accumulators
  <2>2. CASE x.frontier[t] = full
    <3> HIDE DEF full
    <3> QED
      BY <2>1, <2>2, StoreAssumption DEF Frontier, full
  <2>3. CASE x.length[t] = 0 /\ x.frontier[t] = NoSnapshot
    <3>1. HighestLeafPlusOne(x.nodes, t) = 0
      BY <1>3, <2>3 DEF CountersMatch
    <3>2. ASSUME NEW l \in Leaves
          PROVE  x.nodes[t][l] = NoNode
      <4>1. x.nodes[t][l] # NoNode => l < 0
        BY <3>1, HighestLeaf
      <4> QED
        BY <4>1 DEF Leaves
    <3>3. StoredLeaves(x.nodes, t) = [l \in Leaves |-> ZeroLeaf]
      BY <3>2 DEF StoredLeaves
    <3> QED
      BY <2>3, <3>3 DEF Frontier, EmptyAccumulator
  <2> QED
    BY <1>3, <2>2, <2>3 DEF FrontierMatches, FrontierFits
<1>4. ASSUME NEW t \in Trees
      PROVE  Frontier(s, t) = Frontier(r, t)
  <2>1. StoredLeaves(s.nodes, t) = StoredLeaves(r.nodes, t)
    OBVIOUS
  <2> QED
    BY <1>1, <1>3, <2>1
<1> QED
  BY <1>1, <1>2, <1>4

(* The nodes a batch lays over tables whose slots are empty are the nodes  *)
(* a window with its rows inserts, without a conflict.                     *)
LEMMA StagedNodesInsert ==
  ASSUME batch \in Batches, db \in Stores,
         \A t \in Trees, l \in Leaves :
           <<t, l>> \in DOMAIN batch.nodes => db.nodes[t][l] = NoNode
  PROVE  /\ StagedNodes \in SUBSET PlacedNodes
         /\ ~CommitmentConflict(db.nodes, StagedNodes)
         /\ Overlaid(db, batch).nodes = InsertNodes(db.nodes, StagedNodes)
<1>1. DOMAIN batch.nodes \in SUBSET Slots /\ \A slot \in DOMAIN batch.nodes : batch.nodes[slot] \in Nodes
  <2>1. PICK staged \in SUBSET Slots : batch.nodes \in [staged -> Nodes]
    BY DEF Batches, Entries
  <2> QED
    BY <2>1
<1>2. ASSUME NEW slot \in DOMAIN batch.nodes
      PROVE  slot[1] \in Trees /\ slot[2] \in Leaves /\ slot = <<slot[1], slot[2]>>
  BY <1>1 DEF Slots
<1>3. ASSUME NEW p \in StagedNodes
      PROVE  /\ p \in PlacedNodes /\ <<p.tree, p.leaf>> \in DOMAIN batch.nodes
             /\ p.node = batch.nodes[<<p.tree, p.leaf>>]
             /\ db.nodes[p.tree][p.leaf] = NoNode
  <2>1. PICK slot \in DOMAIN batch.nodes :
          p = [tree |-> slot[1], leaf |-> slot[2], node |-> batch.nodes[slot]]
    BY DEF StagedNodes
  <2>2. p.tree = slot[1] /\ p.leaf = slot[2] /\ p.node = batch.nodes[slot]
    BY <2>1
  <2>3. slot = <<p.tree, p.leaf>>
    BY <1>2, <2>2
  <2>4. p \in PlacedNodes
    BY <1>1, <1>2, <2>1 DEF PlacedNodes
  <2> QED
    BY <1>2, <2>2, <2>3, <2>4
<1>4. ~CommitmentConflict(db.nodes, StagedNodes)
  <2> SUFFICES ASSUME NEW p \in StagedNodes, NEW q \in StagedNodes
               PROVE  /\ db.nodes[p.tree][p.leaf] \in {NoNode, p.node}
                      /\ q.tree = p.tree /\ q.leaf = p.leaf => q.node = p.node
    BY DEF CommitmentConflict
  <2> QED
    BY <1>3
<1>5. ASSUME NEW t \in Trees, NEW l \in Leaves
      PROVE  Get(batch.nodes, <<t, l>>, db.nodes[t][l]) = InsertNodes(db.nodes, StagedNodes)[t][l]
  <2>1. CASE <<t, l>> \in DOMAIN batch.nodes
    <3> DEFINE p == [tree |-> t, leaf |-> l, node |-> batch.nodes[<<t, l>>]]
               q == CHOOSE q \in StagedNodes : q.tree = t /\ q.leaf = l
    <3>1. p \in StagedNodes /\ p.tree = t /\ p.leaf = l
      BY <2>1 DEF StagedNodes
    <3>2. q \in StagedNodes /\ q.tree = t /\ q.leaf = l
      <4> HIDE DEF p
      <4> QED
        BY <3>1
    <3> HIDE DEF q
    <3>3. q.node = batch.nodes[<<t, l>>]
      BY <1>3, <3>2
    <3>4. db.nodes[t][l] = NoNode
      BY <2>1
    <3>5. InsertNodes(db.nodes, StagedNodes)[t][l] = q.node
      <4> HIDE DEF p
      <4> QED
        BY <3>1, <3>4 DEF InsertNodes, q
    <3> QED
      BY <2>1, <3>3, <3>5 DEF Get
  <2>2. CASE <<t, l>> \notin DOMAIN batch.nodes
    <3>1. ~ \E p \in StagedNodes : p.tree = t /\ p.leaf = l
      BY <1>3, <2>2
    <3>2. InsertNodes(db.nodes, StagedNodes)[t][l] = db.nodes[t][l]
      BY <3>1 DEF InsertNodes
    <3> QED
      BY <2>2, <3>2 DEF Get
  <2> QED
    BY <2>1, <2>2
<1>6. Overlaid(db, batch).nodes
        = [t \in Trees |-> [l \in Leaves |-> InsertNodes(db.nodes, StagedNodes)[t][l]]]
  <2>1. \A t \in Trees :
          [l \in Leaves |-> Get(batch.nodes, <<t, l>>, db.nodes[t][l])]
            = [l \in Leaves |-> InsertNodes(db.nodes, StagedNodes)[t][l]]
    BY <1>5
  <2> QED
    BY <2>1 DEF Overlaid
<1>7. InsertNodes(db.nodes, StagedNodes)
        = [t \in Trees |-> [l \in Leaves |-> InsertNodes(db.nodes, StagedNodes)[t][l]]]
  BY DEF InsertNodes
<1> QED
  BY <1>3, <1>4, <1>6, <1>7

(* A batch that was staged row by row, with counters read through the      *)
(* overlay and snapshots rebuilt over it, lands as one window of the       *)
(* syncer with the same rows would: no insert of that window conflicts,    *)
(* and raising the counters and advancing the frontiers of the database    *)
(* leads to the tables that the staged values replace them by.             *)
THEOREM LandsAsOneWindowWhenRebuilt ==
  ASSUME Exclusive, FrontierPolicy = "rebuild"
  PROVE  Spec => LandsAsOneWindow
<1> DEFINE through == Get(batch.synced, "synced", db.synced)
           window == CommitWindow(db, StagedNodes, batch.nullifiers, through)
<1>1. Init => RebuildInv
  BY EmptyStoreInv DEF Init, RebuildInv, ExclusiveInv, TypeOK, StoreInv
<1>2. RebuildInv /\ [Next]_vars => RebuildInv'
  BY RebuildKept
<1>3. ASSUME RebuildInv, Next, batch # NoBatch, batch' = NoBatch, db' # db
      PROVE  ~CommitmentConflict(db.nodes, StagedNodes) /\ SameTables(db', window)
  <2>1. Apply
    <3> SUFFICES ASSUME ~Apply
                 PROVE  FALSE
      OBVIOUS
    <3> QED
      BY <1>3, NextCases DEF WindowCommits, ClearAll, Open, StageNode, StageNullifier,
         StageSyncedBlock, StageSnapshot, StageClear, Discard, OthersMayWrite
  <2>2. /\ db \in Stores /\ batch \in Batches /\ base = db
        /\ CountersMatch(db) /\ FrontierMatches(db)
        /\ \A t \in Trees, l \in Leaves :
             <<t, l>> \in DOMAIN batch.nodes => db.nodes[t][l] = NoNode
    BY <1>3 DEF RebuildInv, ExclusiveInv, TypeOK
  <2>3. db' = Overlaid(db, batch) /\ db' \in Stores
    BY <2>1, <2>2, OverlaidType DEF Apply
  <2>4. CountersMatch(db') /\ FrontierMatches(db')
    <3>1. RebuildInv'
      BY <1>2, <1>3
    <3> QED
      BY <3>1 DEF RebuildInv, ExclusiveInv, CountersMatch, FrontierMatches, FrontierFits
  <2>5. /\ StagedNodes \in SUBSET PlacedNodes
        /\ ~CommitmentConflict(db.nodes, StagedNodes)
        /\ db'.nodes = InsertNodes(db.nodes, StagedNodes)
    BY <2>2, <2>3, StagedNodesInsert
  <2>6. through \in Blocks \cup {Never} /\ batch.nullifiers \in SUBSET Nullifiers
    <3>1. through \in Blocks \cup {db.synced}
      BY <2>2, GetType DEF Batches
    <3> QED
      BY <2>2, <3>1 DEF Stores, Batches
  <2>7. /\ window.nodes = InsertNodes(db.nodes, StagedNodes)
        /\ window.nullifiers = db.nullifiers \cup batch.nullifiers
        /\ window.synced = through
    BY DEF CommitWindow
  <2>8. db'.nullifiers = db.nullifiers \cup batch.nullifiers /\ db'.synced = through
    BY <2>3 DEF Overlaid
  <2> HIDE DEF through
  <2>9. StoreInv(window)
    BY <2>2, <2>5, <2>6, WindowKeepsStoreInv DEF StoreInv
  <2> HIDE DEF window
  <2>10. /\ db'.length = window.length /\ db'.count = window.count
         /\ \A t \in Trees : Frontier(db', t) = Frontier(window, t)
    BY <2>3, <2>4, <2>5, <2>7, <2>9, LeavesDetermine DEF StoreInv
  <2> QED
    BY <2>5, <2>7, <2>8, <2>10 DEF SameTables
<1>4. RebuildInv /\ [Next]_vars
        => [batch # NoBatch /\ batch' = NoBatch /\ db' # db =>
              /\ ~CommitmentConflict(db.nodes, StagedNodes)
              /\ SameTables(db', window)]_vars
  BY <1>3
<1> QED
  BY <1>1, <1>2, <1>4, PTL DEF Spec, LandsAsOneWindow
=============================================================================
