----------------------- MODULE MerkleAccumulatorProofs -----------------------
(***************************************************************************)
(* Proofs about module MerkleAccumulator.                                  *)
(***************************************************************************)
EXTENDS MerkleAccumulator, UtxoStoreProofs, FiniteSetTheorems

(* What holds at the start of an interval and passes from each number to   *)
(* the next holds on all of it.                                            *)
LEMMA UpTo ==
  ASSUME NEW lo \in Int, NEW hi \in Int, NEW S,
         lo \in S,
         \A k \in lo .. hi - 1 : k \in S => k + 1 \in S
  PROVE  \A k \in lo .. hi : k \in S
<1> SUFFICES ASSUME NEW k0 \in lo .. hi, k0 \notin S
             PROVE  FALSE
  OBVIOUS
<1> DEFINE T == {k - lo : k \in {j \in lo .. hi : j \notin S}}
<1>1. T \subseteq Nat
  OBVIOUS
<1>2. k0 - lo \in T
  OBVIOUS
<1>3. PICK m \in T : \A y \in T : ~(<<y, m>> \in OpToRel(<, Nat))
  BY <1>1, <1>2, WFMin, NatLessThanWellFounded
<1>4. \A y \in T : ~(y < m)
  BY <1>1, <1>3 DEF OpToRel
<1>5. PICK k \in lo .. hi : k \notin S /\ m = k - lo
  OBVIOUS
<1>6. k - 1 \in lo .. hi - 1
  BY <1>5
<1>7. k - 1 \in S
  <2>1. k - 1 \notin S => (k - 1) - lo \in T
    BY <1>6
  <2> HIDE DEF T
  <2>2. (k - 1) - lo < m
    BY <1>5
  <2> QED
    BY <1>4, <2>1, <2>2
<1>8. (k - 1) + 1 \in S
  BY <1>6, <1>7
<1> QED
  BY <1>5, <1>8

-----------------------------------------------------------------------------
(* The recursive functions of the model exist and obey their equations.    *)

(* zero_value_levels.                                                      *)
LEMMA ZerosDef ==
  \A k \in 0 .. Depth :
    Zeros[k] = IF k = 0 THEN ZeroLeaf ELSE Hash(Zeros[k - 1], Zeros[k - 1])
<1> DEFINE Step(i, below) == Hash(below, below)
           P(g, n) == g = [i \in 0 .. n |-> IF i = 0 THEN ZeroLeaf ELSE Step(i, g[i - 1])]
           S == {n \in 0 .. Depth : \E g : P(g, n)}
<1>0. Depth \in Nat
  BY DepthAssumption
<1>1. 0 \in S
  <2>1. P([i \in 0 .. 0 |-> ZeroLeaf], 0)
    BY <1>0
  <2> HIDE DEF P
  <2> QED
    BY <1>0, <2>1
<1> HIDE DEF Step
<1>2. ASSUME NEW n \in 0 .. Depth - 1, n \in S
      PROVE  n + 1 \in S
  <2>1. PICK g : P(g, n)
    BY <1>2
  <2> DEFINE h == [i \in 0 .. n + 1 |-> IF i = n + 1 THEN Step(n + 1, g[n]) ELSE g[i]]
  <2>2. ASSUME NEW i \in 0 .. n + 1
        PROVE  h[i] = IF i = 0 THEN ZeroLeaf ELSE Step(i, h[i - 1])
    <3>1. CASE i = n + 1
      BY <1>0, <3>1
    <3>2. CASE i \in 0 .. n
      <4>1. g[i] = IF i = 0 THEN ZeroLeaf ELSE Step(i, g[i - 1])
        BY <2>1, <3>2
      <4> QED
        BY <1>0, <3>2, <4>1
    <3> QED
      BY <1>0, <3>1, <3>2
  <2>3. P(h, n + 1)
    BY <2>2
  <2> HIDE DEF h, P
  <2> QED
    BY <1>0, <2>3
<1>3. Depth \in S
  <2> HIDE DEF S
  <2> QED
    BY <1>0, <1>1, <1>2, UpTo
<1> HIDE DEF P
<1>4. PICK g : P(g, Depth)
  BY <1>3
<1>5. Zeros = CHOOSE c : P(c, Depth)
  BY DEF Zeros, P, Step
<1>6. P(Zeros, Depth)
  BY <1>4, <1>5
<1> QED
  BY <1>6 DEF P, Step

(* The number of leaves under a node.                                      *)
LEMMA WidthDef ==
  \A k \in 0 .. Depth : Width[k] = IF k = 0 THEN 1 ELSE 2 * Width[k - 1]
<1> DEFINE Step(i, below) == 2 * below
           P(g, n) == g = [i \in 0 .. n |-> IF i = 0 THEN 1 ELSE Step(i, g[i - 1])]
           S == {n \in 0 .. Depth : \E g : P(g, n)}
<1>0. Depth \in Nat
  BY DepthAssumption
<1>1. 0 \in S
  <2>1. P([i \in 0 .. 0 |-> 1], 0)
    BY <1>0
  <2> HIDE DEF P
  <2> QED
    BY <1>0, <2>1
<1> HIDE DEF Step
<1>2. ASSUME NEW n \in 0 .. Depth - 1, n \in S
      PROVE  n + 1 \in S
  <2>1. PICK g : P(g, n)
    BY <1>2
  <2> DEFINE h == [i \in 0 .. n + 1 |-> IF i = n + 1 THEN Step(n + 1, g[n]) ELSE g[i]]
  <2>2. ASSUME NEW i \in 0 .. n + 1
        PROVE  h[i] = IF i = 0 THEN 1 ELSE Step(i, h[i - 1])
    <3>1. CASE i = n + 1
      BY <1>0, <3>1
    <3>2. CASE i \in 0 .. n
      <4>1. g[i] = IF i = 0 THEN 1 ELSE Step(i, g[i - 1])
        BY <2>1, <3>2
      <4> QED
        BY <1>0, <3>2, <4>1
    <3> QED
      BY <1>0, <3>1, <3>2
  <2>3. P(h, n + 1)
    BY <2>2
  <2> HIDE DEF h, P
  <2> QED
    BY <1>0, <2>3
<1>3. Depth \in S
  <2> HIDE DEF S
  <2> QED
    BY <1>0, <1>1, <1>2, UpTo
<1> HIDE DEF P
<1>4. PICK g : P(g, Depth)
  BY <1>3
<1>5. Width = CHOOSE c : P(c, Depth)
  BY DEF Width, P, Step
<1>6. P(Width, Depth)
  BY <1>4, <1>5
<1> QED
  BY <1>6 DEF P, Step

(* The halving of the position.                                            *)
LEMMA IndexDef ==
  ASSUME NEW position
  PROVE  \A k \in 0 .. Depth :
           Index(position)[k] = IF k = 0 THEN position ELSE Index(position)[k - 1] \div 2
<1> DEFINE Step(i, below) == below \div 2
           P(g, n) == g = [i \in 0 .. n |-> IF i = 0 THEN position ELSE Step(i, g[i - 1])]
           S == {n \in 0 .. Depth : \E g : P(g, n)}
<1>0. Depth \in Nat
  BY DepthAssumption
<1>1. 0 \in S
  <2>1. P([i \in 0 .. 0 |-> position], 0)
    BY <1>0
  <2> HIDE DEF P
  <2> QED
    BY <1>0, <2>1
<1> HIDE DEF Step
<1>2. ASSUME NEW n \in 0 .. Depth - 1, n \in S
      PROVE  n + 1 \in S
  <2>1. PICK g : P(g, n)
    BY <1>2
  <2> DEFINE h == [i \in 0 .. n + 1 |-> IF i = n + 1 THEN Step(n + 1, g[n]) ELSE g[i]]
  <2>2. ASSUME NEW i \in 0 .. n + 1
        PROVE  h[i] = IF i = 0 THEN position ELSE Step(i, h[i - 1])
    <3>1. CASE i = n + 1
      BY <1>0, <3>1
    <3>2. CASE i \in 0 .. n
      <4>1. g[i] = IF i = 0 THEN position ELSE Step(i, g[i - 1])
        BY <2>1, <3>2
      <4> QED
        BY <1>0, <3>2, <4>1
    <3> QED
      BY <1>0, <3>1, <3>2
  <2>3. P(h, n + 1)
    BY <2>2
  <2> HIDE DEF h, P
  <2> QED
    BY <1>0, <2>3
<1>3. Depth \in S
  <2> HIDE DEF S
  <2> QED
    BY <1>0, <1>1, <1>2, UpTo
<1> HIDE DEF P
<1>4. PICK g : P(g, Depth)
  BY <1>3
<1>5. Index(position) = CHOOSE c : P(c, Depth)
  BY DEF Index, P, Step
<1>6. P(Index(position), Depth)
  BY <1>4, <1>5
<1> QED
  BY <1>6 DEF P, Step

(* The climb of insert.                                                    *)
LEMMA CurrentDef ==
  ASSUME NEW acc, NEW leaf
  PROVE  \A k \in 0 .. Depth :
           Current(acc, leaf)[k] =
             IF k = 0 THEN leaf
             ELSE IF Index(acc.next)[k - 1] % 2 = 0
               THEN Hash(Current(acc, leaf)[k - 1], Zeros[k - 1])
               ELSE Hash(acc.filled[k - 1], Current(acc, leaf)[k - 1])
<1> DEFINE Step(i, below) ==
             IF Index(acc.next)[i - 1] % 2 = 0
               THEN Hash(below, Zeros[i - 1])
               ELSE Hash(acc.filled[i - 1], below)
           P(g, n) == g = [i \in 0 .. n |-> IF i = 0 THEN leaf ELSE Step(i, g[i - 1])]
           S == {n \in 0 .. Depth : \E g : P(g, n)}
<1>0. Depth \in Nat
  BY DepthAssumption
<1>1. 0 \in S
  <2>1. P([i \in 0 .. 0 |-> leaf], 0)
    BY <1>0
  <2> HIDE DEF P
  <2> QED
    BY <1>0, <2>1
<1> HIDE DEF Step
<1>2. ASSUME NEW n \in 0 .. Depth - 1, n \in S
      PROVE  n + 1 \in S
  <2>1. PICK g : P(g, n)
    BY <1>2
  <2> DEFINE h == [i \in 0 .. n + 1 |-> IF i = n + 1 THEN Step(n + 1, g[n]) ELSE g[i]]
  <2>2. ASSUME NEW i \in 0 .. n + 1
        PROVE  h[i] = IF i = 0 THEN leaf ELSE Step(i, h[i - 1])
    <3>1. CASE i = n + 1
      BY <1>0, <3>1
    <3>2. CASE i \in 0 .. n
      <4>1. g[i] = IF i = 0 THEN leaf ELSE Step(i, g[i - 1])
        BY <2>1, <3>2
      <4> QED
        BY <1>0, <3>2, <4>1
    <3> QED
      BY <1>0, <3>1, <3>2
  <2>3. P(h, n + 1)
    BY <2>2
  <2> HIDE DEF h, P
  <2> QED
    BY <1>0, <2>3
<1>3. Depth \in S
  <2> HIDE DEF S
  <2> QED
    BY <1>0, <1>1, <1>2, UpTo
<1> HIDE DEF P
<1>4. PICK g : P(g, Depth)
  BY <1>3
<1>5. Current(acc, leaf) = CHOOSE c : P(c, Depth)
  BY DEF Current, P, Step
<1>6. P(Current(acc, leaf), Depth)
  BY <1>4, <1>5
<1> QED
  BY <1>6 DEF P, Step

(* The rows of a Merkle tree.                                              *)
LEMMA TreeDef ==
  ASSUME NEW leaf
  PROVE  \A k \in 0 .. Depth :
           Tree(leaf)[k] =
             IF k = 0 THEN leaf
             ELSE [i \in Row(k) |-> Hash(Tree(leaf)[k - 1][2 * i], Tree(leaf)[k - 1][2 * i + 1])]
<1> DEFINE Step(i, below) ==
             [j \in Row(i) |-> Hash(below[2 * j], below[2 * j + 1])]
           P(g, n) == g = [i \in 0 .. n |-> IF i = 0 THEN leaf ELSE Step(i, g[i - 1])]
           S == {n \in 0 .. Depth : \E g : P(g, n)}
<1>0. Depth \in Nat
  BY DepthAssumption
<1>1. 0 \in S
  <2>1. P([i \in 0 .. 0 |-> leaf], 0)
    BY <1>0
  <2> HIDE DEF P
  <2> QED
    BY <1>0, <2>1
<1> HIDE DEF Step
<1>2. ASSUME NEW n \in 0 .. Depth - 1, n \in S
      PROVE  n + 1 \in S
  <2>1. PICK g : P(g, n)
    BY <1>2
  <2> DEFINE h == [i \in 0 .. n + 1 |-> IF i = n + 1 THEN Step(n + 1, g[n]) ELSE g[i]]
  <2>2. ASSUME NEW i \in 0 .. n + 1
        PROVE  h[i] = IF i = 0 THEN leaf ELSE Step(i, h[i - 1])
    <3>1. CASE i = n + 1
      BY <1>0, <3>1
    <3>2. CASE i \in 0 .. n
      <4>1. g[i] = IF i = 0 THEN leaf ELSE Step(i, g[i - 1])
        BY <2>1, <3>2
      <4> QED
        BY <1>0, <3>2, <4>1
    <3> QED
      BY <1>0, <3>1, <3>2
  <2>3. P(h, n + 1)
    BY <2>2
  <2> HIDE DEF h, P
  <2> QED
    BY <1>0, <2>3
<1>3. Depth \in S
  <2> HIDE DEF S
  <2> QED
    BY <1>0, <1>1, <1>2, UpTo
<1> HIDE DEF P
<1>4. PICK g : P(g, Depth)
  BY <1>3
<1>5. Tree(leaf) = CHOOSE c : P(c, Depth)
  BY DEF Tree, P, Step
<1>6. P(Tree(leaf), Depth)
  BY <1>4, <1>5
<1> QED
  BY <1>6 DEF P, Step

-----------------------------------------------------------------------------
(* Rows and positions.                                                     *)

(* The rows of the tree: the leaves at the bottom, one node at the top,    *)
(* and two children under every node between.                              *)
LEMMA Rows ==
  /\ \A k \in 0 .. Depth : Row(k) \subseteq Nat /\ \A i \in Row(k) : i > 0 => i - 1 \in Row(k)
  /\ Row(0) = Leaves
  /\ Row(Depth) = {0}
  /\ \A k \in 1 .. Depth : \A i \in Row(k) : 2 * i \in Row(k - 1) /\ 2 * i + 1 \in Row(k - 1)
  /\ \A k \in 1 .. Depth : \A i \in Row(k - 1) : i \div 2 \in Row(k)
<1>0. Depth \in Nat \ {0} /\ Capacity = Width[Depth]
  BY DepthAssumption
<1>1. \A k \in 0 .. Depth : Width[k] \in Nat
  <2> DEFINE S == {k \in 0 .. Depth : Width[k] \in Nat}
  <2>1. 0 \in S
    BY <1>0, WidthDef
  <2>2. ASSUME NEW k \in 0 .. Depth - 1, k \in S
        PROVE  k + 1 \in S
    <3>1. Width[k + 1] = 2 * Width[k]
      BY <1>0, WidthDef
    <3> QED
      BY <1>0, <2>2, <3>1
  <2> HIDE DEF S
  <2>3. \A k \in 0 .. Depth : k \in S
    BY <1>0, <2>1, <2>2, UpTo
  <2> QED
    BY <2>3 DEF S
<1>2. Row(0) = Leaves
  BY <1>0 DEF Row, Leaves
<1>3. Row(Depth) = {0}
  <2>1. Width[0] = 1
    BY <1>0, WidthDef
  <2> QED
    BY <1>0, <2>1 DEF Row
<1>4. ASSUME NEW k \in 1 .. Depth
      PROVE  /\ \A i \in Row(k) : 2 * i \in Row(k - 1) /\ 2 * i + 1 \in Row(k - 1)
             /\ \A i \in Row(k - 1) : i \div 2 \in Row(k)
  <2>1. Width[(Depth - k) + 1] = 2 * Width[Depth - k]
    BY <1>0, WidthDef
  <2>2. Depth - (k - 1) = (Depth - k) + 1
    BY <1>0
  <2>3. Width[Depth - k] \in Nat
    BY <1>0, <1>1
  <2> QED
    BY <2>1, <2>2, <2>3 DEF Row
<1>5. ASSUME NEW k \in 0 .. Depth
      PROVE  Row(k) \subseteq Nat /\ \A i \in Row(k) : i > 0 => i - 1 \in Row(k)
  BY <1>0, <1>1 DEF Row
<1> QED
  BY <1>2, <1>3, <1>4, <1>5

(* The ancestor of a leaf is in its row; at the top it is the root.        *)
LEMMA IndexInRow ==
  ASSUME NEW position \in Leaves
  PROVE  \A k \in 0 .. Depth : Index(position)[k] \in Row(k)
<1> DEFINE S == {k \in 0 .. Depth : Index(position)[k] \in Row(k)}
<1>0. Depth \in Nat
  BY DepthAssumption
<1>1. 0 \in S
  BY <1>0, IndexDef, Rows
<1>2. ASSUME NEW k \in 0 .. Depth - 1, k \in S
      PROVE  k + 1 \in S
  <2>1. Index(position)[k + 1] = Index(position)[k] \div 2
    BY <1>0, IndexDef
  <2>2. \A i \in Row(k) : i \div 2 \in Row(k + 1)
    BY <1>0, Rows
  <2> QED
    BY <1>0, <1>2, <2>1, <2>2
<1> HIDE DEF S
<1>3. \A k \in 0 .. Depth : k \in S
  BY <1>0, <1>1, <1>2, UpTo
<1> QED
  BY <1>3 DEF S

(* From one position to the next an ancestor stays or moves right by one.  *)
LEMMA IndexNext ==
  ASSUME NEW position \in Nat
  PROVE  \A k \in 0 .. Depth :
           /\ Index(position)[k] \in Nat
           /\ Index(position + 1)[k] \in {Index(position)[k], Index(position)[k] + 1}
<1> DEFINE S == {k \in 0 .. Depth :
                   /\ Index(position)[k] \in Nat
                   /\ Index(position + 1)[k] \in {Index(position)[k], Index(position)[k] + 1}}
<1>0. Depth \in Nat
  BY DepthAssumption
<1>1. 0 \in S
  BY <1>0, IndexDef
<1>2. ASSUME NEW k \in 0 .. Depth - 1, k \in S
      PROVE  k + 1 \in S
  <2>1. Index(position)[k + 1] = Index(position)[k] \div 2
    BY <1>0, IndexDef
  <2>2. Index(position + 1)[k + 1] = Index(position + 1)[k] \div 2
    BY <1>0, IndexDef
  <2>3. \A a \in Nat : a \div 2 \in Nat /\ (a + 1) \div 2 \in {a \div 2, a \div 2 + 1}
    OBVIOUS
  <2> QED
    BY <1>0, <1>2, <2>1, <2>2, <2>3
<1> HIDE DEF S
<1>3. \A k \in 0 .. Depth : k \in S
  BY <1>0, <1>1, <1>2, UpTo
<1> QED
  BY <1>3 DEF S

-----------------------------------------------------------------------------
(* Nodes of the tree over an assignment.                                   *)

(* A node above the leaves is the hash of its two children.                *)
LEMMA NodeDef ==
  ASSUME NEW leaf
  PROVE  /\ \A i \in Leaves : Tree(leaf)[0][i] = leaf[i]
         /\ \A k \in 0 .. Depth - 1 : \A i \in Row(k + 1) :
              Tree(leaf)[k + 1][i] = Hash(Tree(leaf)[k][2 * i], Tree(leaf)[k][2 * i + 1])
<1>0. Depth \in Nat
  BY DepthAssumption
<1>1. Tree(leaf)[0] = leaf
  <2>1. 0 \in 0 .. Depth
    BY <1>0
  <2> QED
    BY <2>1, TreeDef, Zenon
<1>2. ASSUME NEW k \in 0 .. Depth - 1
      PROVE  Tree(leaf)[k + 1] =
               [i \in Row(k + 1) |-> Hash(Tree(leaf)[k][2 * i], Tree(leaf)[k][2 * i + 1])]
  <2>1. (k + 1) - 1 = k /\ k + 1 # 0 /\ k + 1 \in 0 .. Depth
    BY <1>0
  <2> QED
    BY <2>1, TreeDef
<1> QED
  BY <1>1, <1>2

(* Right of the path above the last leaf that is not zero, every node is   *)
(* the empty subtree of its level.                                         *)
LEMMA ZeroSubtrees ==
  ASSUME NEW leaf, NEW m \in Nat,
         \A l \in Leaves : l > m => leaf[l] = ZeroLeaf
  PROVE  \A k \in 0 .. Depth : \A i \in Row(k) :
           i > Index(m)[k] => Tree(leaf)[k][i] = Zeros[k]
<1> DEFINE S == {k \in 0 .. Depth : \A i \in Row(k) :
                   i > Index(m)[k] => Tree(leaf)[k][i] = Zeros[k]}
<1>0. Depth \in Nat
  BY DepthAssumption
<1>1. 0 \in S
  BY <1>0, IndexDef, Rows, NodeDef, ZerosDef
<1>2. ASSUME NEW k \in 0 .. Depth - 1, k \in S
      PROVE  k + 1 \in S
  <2> SUFFICES ASSUME NEW i \in Row(k + 1), i > Index(m)[k + 1]
               PROVE  Tree(leaf)[k + 1][i] = Zeros[k + 1]
    BY <1>0
  <2>1. Index(m)[k + 1] = Index(m)[k] \div 2 /\ Index(m)[k] \in Nat
    BY <1>0, IndexDef, IndexNext
  <2>2. 2 * i \in Row(k) /\ 2 * i + 1 \in Row(k) /\ i \in Int
    BY <1>0, Rows
  <2>3. 2 * i > Index(m)[k] /\ 2 * i + 1 > Index(m)[k]
    BY <2>1, <2>2
  <2>4. Tree(leaf)[k][2 * i] = Zeros[k] /\ Tree(leaf)[k][2 * i + 1] = Zeros[k]
    BY <1>2, <2>2, <2>3
  <2>5. Zeros[k + 1] = Hash(Zeros[k], Zeros[k])
    BY <1>0, ZerosDef
  <2> QED
    BY <2>4, <2>5, NodeDef
<1> HIDE DEF S
<1>3. \A k \in 0 .. Depth : k \in S
  BY <1>0, <1>1, <1>2, UpTo
<1> QED
  BY <1>3 DEF S

(* The tree without a leaf.                                                *)
LEMMA EmptyTree ==
  ASSUME NEW leaf, \A l \in Leaves : leaf[l] = ZeroLeaf
  PROVE  TreeRoot(leaf) = Zeros[Depth]
<1> DEFINE S == {k \in 0 .. Depth : \A i \in Row(k) : Tree(leaf)[k][i] = Zeros[k]}
<1>0. Depth \in Nat
  BY DepthAssumption
<1>1. 0 \in S
  BY <1>0, Rows, NodeDef, ZerosDef
<1>2. ASSUME NEW k \in 0 .. Depth - 1, k \in S
      PROVE  k + 1 \in S
  <2> SUFFICES ASSUME NEW i \in Row(k + 1)
               PROVE  Tree(leaf)[k + 1][i] = Zeros[k + 1]
    BY <1>0
  <2>1. 2 * i \in Row(k) /\ 2 * i + 1 \in Row(k)
    BY <1>0, Rows
  <2>2. Tree(leaf)[k][2 * i] = Zeros[k] /\ Tree(leaf)[k][2 * i + 1] = Zeros[k]
    BY <1>2, <2>1
  <2>3. Zeros[k + 1] = Hash(Zeros[k], Zeros[k])
    BY <1>0, ZerosDef
  <2> QED
    BY <2>2, <2>3, NodeDef
<1> HIDE DEF S
<1>3. Depth \in S
  BY <1>0, <1>1, <1>2, UpTo
<1> QED
  BY <1>3, Rows DEF S, TreeRoot

(* A leaf decides the nodes above it, and only those.                      *)
LEMMA OtherNodes ==
  ASSUME NEW a, NEW b, NEW m \in Nat,
         \A l \in Leaves : l # m => a[l] = b[l]
  PROVE  \A k \in 0 .. Depth : \A i \in Row(k) :
           i # Index(m)[k] => Tree(a)[k][i] = Tree(b)[k][i]
<1> DEFINE S == {k \in 0 .. Depth : \A i \in Row(k) :
                   i # Index(m)[k] => Tree(a)[k][i] = Tree(b)[k][i]}
<1>0. Depth \in Nat
  BY DepthAssumption
<1>1. 0 \in S
  BY <1>0, IndexDef, Rows, NodeDef
<1>2. ASSUME NEW k \in 0 .. Depth - 1, k \in S
      PROVE  k + 1 \in S
  <2> SUFFICES ASSUME NEW i \in Row(k + 1), i # Index(m)[k + 1]
               PROVE  Tree(a)[k + 1][i] = Tree(b)[k + 1][i]
    BY <1>0
  <2>1. Index(m)[k + 1] = Index(m)[k] \div 2 /\ Index(m)[k] \in Nat
    BY <1>0, IndexDef, IndexNext
  <2>2. 2 * i \in Row(k) /\ 2 * i + 1 \in Row(k) /\ i \in Int
    BY <1>0, Rows
  <2>3. 2 * i # Index(m)[k] /\ 2 * i + 1 # Index(m)[k]
    BY <2>1, <2>2
  <2>4. /\ Tree(a)[k][2 * i] = Tree(b)[k][2 * i]
        /\ Tree(a)[k][2 * i + 1] = Tree(b)[k][2 * i + 1]
    BY <1>2, <2>2, <2>3
  <2> QED
    BY <2>4, NodeDef
<1> HIDE DEF S
<1>3. \A k \in 0 .. Depth : k \in S
  BY <1>0, <1>1, <1>2, UpTo
<1> QED
  BY <1>3 DEF S

(* Hash being free, a root has one assignment only.                        *)
LEMMA RootDecides ==
  ASSUME NEW a, NEW b, TreeRoot(a) = TreeRoot(b)
  PROVE  \A l \in Leaves : a[l] = b[l]
<1> DEFINE Same(k) == \A i \in Row(k) : Tree(a)[k][i] = Tree(b)[k][i]
           S == {d \in 0 .. Depth : Same(Depth - d)}
<1>0. Depth \in Nat
  BY DepthAssumption
<1>1. 0 \in S
  BY <1>0, Rows DEF TreeRoot
<1>2. ASSUME NEW d \in 0 .. Depth - 1, d \in S
      PROVE  d + 1 \in S
  <2> DEFINE k == Depth - (d + 1)
  <2>0. k \in 0 .. Depth - 1 /\ Depth - d = k + 1
    BY <1>0
  <2> HIDE DEF k
  <2>1. ASSUME NEW j \in Row(k)
        PROVE  Tree(a)[k][j] = Tree(b)[k][j]
    <3>1. j \div 2 \in Row(k + 1) /\ j \in Int
      BY <2>0, <1>0, Rows
    <3>2. Tree(a)[k + 1][j \div 2] = Tree(b)[k + 1][j \div 2]
      BY <1>2, <2>0, <3>1
    <3>3. /\ Tree(a)[k][2 * (j \div 2)] = Tree(b)[k][2 * (j \div 2)]
          /\ Tree(a)[k][2 * (j \div 2) + 1] = Tree(b)[k][2 * (j \div 2) + 1]
      BY <2>0, <3>1, <3>2, NodeDef DEF Hash
    <3>4. j = 2 * (j \div 2) \/ j = 2 * (j \div 2) + 1
      BY <3>1
    <3> QED
      BY <3>3, <3>4
  <2>2. Same(k) /\ d + 1 \in 0 .. Depth
    BY <1>0, <2>1
  <2> HIDE DEF Same
  <2> QED
    BY <2>2 DEF k
<1>3. Depth \in S
  <2> HIDE DEF S
  <2> QED
    BY <1>0, <1>1, <1>2, UpTo
<1>4. Same(0)
  BY <1>0, <1>3
<1> QED
  BY <1>4, Rows, NodeDef

-----------------------------------------------------------------------------
(* The accumulator.                                                        *)

Assignments == [Leaves -> Hashes \cup {ZeroLeaf}]

(* What an accumulator of n leaves keeps of their assignment: on every     *)
(* level where the path to the next position turns right, the root of the  *)
(* subtree it passes.                                                      *)
Represents(acc, leaf, n) ==
  /\ leaf \in Assignments
  /\ \A l \in Leaves : l >= n => leaf[l] = ZeroLeaf
  /\ acc.next = n
  /\ acc.root = TreeRoot(leaf)
  /\ \A k \in Levels : Index(n)[k] % 2 = 1 => acc.filled[k] = Tree(leaf)[k][Index(n)[k] - 1]

(* MerkleAccumulator::new stands for the tree without leaves.              *)
LEMMA NewRepresents == Represents(New, EmptyAccumulator.leaf, 0)
<1>0. Depth \in Nat
  BY DepthAssumption
<1> DEFINE leaf == [l \in Leaves |-> ZeroLeaf]
           S == {k \in 0 .. Depth : Index(0)[k] = 0}
<1>1. \A k \in 0 .. Depth : Index(0)[k] = 0
  <2>1. 0 \in S
    BY <1>0, IndexDef
  <2>2. ASSUME NEW k \in 0 .. Depth - 1, k \in S
        PROVE  k + 1 \in S
    <3>1. Index(0)[k + 1] = Index(0)[k] \div 2
      BY <1>0, IndexDef
    <3> QED
      BY <1>0, <2>2, <3>1
  <2> HIDE DEF S
  <2>3. \A k \in 0 .. Depth : k \in S
    BY <1>0, <2>1, <2>2, UpTo
  <2> QED
    BY <2>3 DEF S
<1>2. leaf \in Assignments /\ \A l \in Leaves : leaf[l] = ZeroLeaf
  BY DEF Assignments
<1>3. EmptyAccumulator.leaf = leaf
  BY DEF EmptyAccumulator
<1> HIDE DEF leaf
<1>4. New.next = 0 /\ New.root = Zeros[Depth]
  BY DEF New
<1>5. \A k \in Levels : Index(0)[k] = 0
  BY <1>0, <1>1 DEF Levels
<1> QED
  BY <1>2, <1>3, <1>4, <1>5, EmptyTree DEF Represents

(* insert folds a leaf in at the accumulator's own length.                 *)
LEMMA InsertRepresents ==
  ASSUME NEW acc, NEW leaf, NEW n \in Leaves, Represents(acc, leaf, n),
         NEW hash \in Hashes \cup {ZeroLeaf}
  PROVE  Represents(Insert(acc, hash), [leaf EXCEPT ![n] = hash], n + 1)
<1> DEFINE new == [leaf EXCEPT ![n] = hash]
           S == {k \in 0 .. Depth : Current(acc, hash)[k] = Tree(new)[k][Index(n)[k]]}
<1>0. Depth \in Nat /\ n \in Nat /\ acc.next = n
  BY DepthAssumption DEF Represents, Leaves
<1>1. /\ new \in Assignments
      /\ new[n] = hash
      /\ \A l \in Leaves : l # n => new[l] = leaf[l]
  BY DEF Represents, Assignments
<1>2. \A l \in Leaves : l > n => new[l] = ZeroLeaf
  BY <1>0, <1>1 DEF Represents, Leaves
<1> HIDE DEF new
<1>3. \A k \in 0 .. Depth : \A i \in Row(k) :
        i # Index(n)[k] => Tree(new)[k][i] = Tree(leaf)[k][i]
  BY <1>0, <1>1, OtherNodes
<1>4. \A k \in 0 .. Depth : \A i \in Row(k) : i > Index(n)[k] => Tree(new)[k][i] = Zeros[k]
  BY <1>0, <1>2, ZeroSubtrees
<1>5. ASSUME NEW k \in Levels, Index(n)[k] % 2 = 1
      PROVE  acc.filled[k] = Tree(new)[k][Index(n)[k] - 1]
  <2>1. acc.filled[k] = Tree(leaf)[k][Index(n)[k] - 1]
    BY <1>5 DEF Represents
  <2>2. k \in 0 .. Depth /\ k + 1 \in 1 .. Depth /\ (k + 1) - 1 = k
    BY <1>0 DEF Levels
  <2>3. Index(n)[k] \in Row(k) /\ Index(n)[k] \in Nat
    BY <2>2, IndexInRow, Rows
  <2>4. Index(n)[k] - 1 \in Row(k)
    <3>1. Index(n)[k] > 0
      BY <1>5, <2>3
    <3> QED
      BY <2>2, <2>3, <3>1, Rows
  <2> QED
    BY <1>3, <2>1, <2>2, <2>3, <2>4
<1>6. \A k \in 0 .. Depth : Current(acc, hash)[k] = Tree(new)[k][Index(n)[k]]
  <2>1. 0 \in S
    BY <1>0, <1>1, CurrentDef, IndexDef, NodeDef
  <2>2. ASSUME NEW k \in 0 .. Depth - 1, k \in S
        PROVE  k + 1 \in S
    <3> DEFINE i == Index(n)[k]
    <3>1. k \in 0 .. Depth /\ k + 1 \in 1 .. Depth /\ (k + 1) - 1 = k /\ k \in Levels
      BY <1>0 DEF Levels
    <3>2. i \in Row(k) /\ i \in Nat /\ Index(n)[k + 1] \in Row(k + 1)
      BY <3>1, IndexInRow, Rows
    <3>3. Index(n)[k + 1] = i \div 2
      BY <3>1, IndexDef
    <3>4. Tree(new)[k + 1][i \div 2]
            = Hash(Tree(new)[k][2 * (i \div 2)], Tree(new)[k][2 * (i \div 2) + 1])
      BY <3>2, <3>3, NodeDef
    <3>5. 2 * (i \div 2) \in Row(k) /\ 2 * (i \div 2) + 1 \in Row(k)
      BY <3>1, <3>2, <3>3, Rows
    <3>6. Current(acc, hash)[k + 1] =
            IF i % 2 = 0 THEN Hash(Current(acc, hash)[k], Zeros[k])
            ELSE Hash(acc.filled[k], Current(acc, hash)[k])
      BY <1>0, <3>1, CurrentDef
    <3>7. Current(acc, hash)[k] = Tree(new)[k][i]
      BY <2>2
    <3>8. CASE i % 2 = 0
      <4>1. 2 * (i \div 2) = i /\ i + 1 > i
        BY <3>2, <3>8
      <4>2. Tree(new)[k][i + 1] = Zeros[k]
        BY <1>4, <3>1, <3>5, <4>1
      <4>3. Current(acc, hash)[k + 1] = Hash(Tree(new)[k][i], Tree(new)[k][i + 1])
        BY <3>6, <3>7, <3>8, <4>2
      <4> QED
        BY <3>1, <3>3, <3>4, <4>1, <4>3
    <3>9. CASE i % 2 = 1
      <4>1. 2 * (i \div 2) = i - 1 /\ 2 * (i \div 2) + 1 = i
        BY <3>2, <3>9
      <4>2. acc.filled[k] = Tree(new)[k][i - 1]
        BY <1>5, <3>1, <3>9
      <4>3. Current(acc, hash)[k + 1] = Hash(Tree(new)[k][i - 1], Tree(new)[k][i])
        BY <3>6, <3>7, <3>9, <4>2
      <4> QED
        BY <3>1, <3>3, <3>4, <4>1, <4>3
    <3> QED
      BY <3>2, <3>8, <3>9
  <2> HIDE DEF S
  <2>3. \A k \in 0 .. Depth : k \in S
    BY <1>0, <2>1, <2>2, UpTo
  <2> QED
    BY <2>3 DEF S
<1>7. /\ Insert(acc, hash).next = n + 1
      /\ Insert(acc, hash).root = Current(acc, hash)[Depth]
      /\ \A k \in Levels :
           Insert(acc, hash).filled[k] =
             IF Index(n)[k] % 2 = 0 THEN Current(acc, hash)[k] ELSE acc.filled[k]
  BY <1>0 DEF Insert
<1>8. Insert(acc, hash).root = TreeRoot(new)
  <2>1. Index(n)[Depth] = 0
    BY <1>0, IndexInRow, Rows
  <2> QED
    BY <1>0, <1>6, <1>7, <2>1 DEF TreeRoot
<1>9. ASSUME NEW k \in Levels, Index(n + 1)[k] % 2 = 1
      PROVE  Insert(acc, hash).filled[k] = Tree(new)[k][Index(n + 1)[k] - 1]
  <2>1. /\ k \in 0 .. Depth
        /\ Index(n)[k] \in Nat
        /\ Index(n + 1)[k] \in {Index(n)[k], Index(n)[k] + 1}
    BY <1>0, IndexNext DEF Levels
  <2>2. CASE Index(n + 1)[k] = Index(n)[k]
    BY <1>5, <1>7, <1>9, <2>1, <2>2
  <2>3. CASE Index(n + 1)[k] = Index(n)[k] + 1
    <3>1. Index(n)[k] % 2 = 0 /\ Index(n + 1)[k] - 1 = Index(n)[k]
      BY <1>9, <2>1, <2>3
    <3> QED
      BY <1>6, <1>7, <2>1, <3>1
  <2> QED
    BY <2>1, <2>2, <2>3
<1>10. \A l \in Leaves : l >= n + 1 => new[l] = ZeroLeaf
  BY <1>0, <1>2 DEF Leaves
<1>11. Represents(Insert(acc, hash), new, n + 1)
  BY <1>1, <1>7, <1>8, <1>9, <1>10 DEF Represents
<1> QED
  BY <1>11 DEF new

(* The accumulators of the append loop, one insert after the other.        *)
Appending(after, acc, hash, n, end) ==
  \A m \in n .. end :
    after[m] = IF m = n THEN acc
               ELSE Insert(after[m - 1], IF m - 1 \in DOMAIN hash THEN hash[m - 1] ELSE ZeroLeaf)

(* The loop runs through them to the last.                                 *)
LEMMA AppendDef ==
  ASSUME NEW acc, NEW hash, NEW n \in Nat, NEW end \in Nat, acc.next = n, n <= end
  PROVE  \E after : /\ AppendThrough(acc, hash, end) = after[end]
                    /\ Appending(after, acc, hash, n, end)
<1> DEFINE Step(m, below) ==
             Insert(below, IF m - 1 \in DOMAIN hash THEN hash[m - 1] ELSE ZeroLeaf)
           P(g, m) == g = [i \in n .. m |-> IF i = n THEN acc ELSE Step(i, g[i - 1])]
           S == {m \in n .. end : \E g : P(g, m)}
<1>1. n \in S
  <2>1. P([i \in n .. n |-> acc], n)
    OBVIOUS
  <2> HIDE DEF P
  <2> QED
    BY <2>1
<1> HIDE DEF Step
<1>2. ASSUME NEW m \in n .. end - 1, m \in S
      PROVE  m + 1 \in S
  <2>1. PICK g : P(g, m)
    BY <1>2
  <2> DEFINE h == [i \in n .. m + 1 |-> IF i = m + 1 THEN Step(m + 1, g[m]) ELSE g[i]]
  <2>2. ASSUME NEW i \in n .. m + 1
        PROVE  h[i] = IF i = n THEN acc ELSE Step(i, h[i - 1])
    <3>1. CASE i = m + 1
      BY <3>1
    <3>2. CASE i \in n .. m
      <4>1. g[i] = IF i = n THEN acc ELSE Step(i, g[i - 1])
        BY <2>1, <3>2
      <4> QED
        BY <3>2, <4>1
    <3> QED
      BY <3>1, <3>2
  <2>3. P(h, m + 1)
    BY <2>2
  <2> HIDE DEF h, P
  <2> QED
    BY <2>3
<1>3. end \in S
  <2> HIDE DEF S
  <2>1. n \in Int /\ end \in Int /\ end \in n .. end
    OBVIOUS
  <2>2. \A m \in n .. end : m \in S
    BY <1>1, <1>2, <2>1, UpTo
  <2> QED
    BY <2>1, <2>2
<1> HIDE DEF P
<1>4. PICK g : P(g, end)
  BY <1>3
<1> DEFINE after == CHOOSE f : P(f, end)
<1>5. AppendThrough(acc, hash, end) = after[end]
  BY DEF AppendThrough, P, Step
<1>6. P(after, end)
  BY <1>4
<1> HIDE DEF after
<1>7. Appending(after, acc, hash, n, end)
  BY <1>6 DEF P, Step, Appending
<1> QED
  BY <1>5, <1>7

(* The assignment with what the loop appends from position n up to end.    *)
Extended(leaf, hash, n, end) ==
  [l \in Leaves |-> IF l < n THEN leaf[l]
                    ELSE IF l < end /\ l \in DOMAIN hash THEN hash[l]
                    ELSE ZeroLeaf]

(* The append loop folds in the hashes it has and a zero at every hole.    *)
LEMMA AppendRepresents ==
  ASSUME NEW acc, NEW leaf, NEW n \in 0 .. Capacity, Represents(acc, leaf, n),
         NEW hash, \A l \in DOMAIN hash : hash[l] \in Hashes,
         NEW end \in n .. Capacity
  PROVE  Represents(AppendThrough(acc, hash, end), Extended(leaf, hash, n, end), end)
<1>0. /\ Capacity \in Nat
      /\ n \in Nat /\ end \in Nat /\ end \in n .. end /\ n <= end
      /\ acc.next = n
  BY StoreAssumption DEF Represents
<1>1. PICK after : /\ AppendThrough(acc, hash, end) = after[end]
                   /\ Appending(after, acc, hash, n, end)
  BY <1>0, AppendDef
<1> DEFINE S == {m \in n .. end : Represents(after[m], Extended(leaf, hash, n, m), m)}
<1>2. n \in S
  <2>1. after[n] = acc
    BY <1>0, <1>1 DEF Appending
  <2>2. Extended(leaf, hash, n, n) = leaf
    <3>1. leaf \in Assignments /\ \A l \in Leaves : l >= n => leaf[l] = ZeroLeaf
      BY DEF Represents
    <3>2. \A l \in Leaves : Extended(leaf, hash, n, n)[l] = leaf[l]
      BY <3>1 DEF Extended, Leaves
    <3> QED
      BY <3>1, <3>2 DEF Extended, Assignments
  <2> QED
    BY <1>0, <2>1, <2>2
<1>3. ASSUME NEW m \in n .. end - 1, m \in S
      PROVE  m + 1 \in S
  <2> DEFINE old == Extended(leaf, hash, n, m)
             value == IF m \in DOMAIN hash THEN hash[m] ELSE ZeroLeaf
  <2>1. m \in Leaves /\ m + 1 \in n .. end /\ m + 1 # n /\ (m + 1) - 1 = m
    BY <1>0 DEF Leaves
  <2>2. after[m + 1] = Insert(after[m], value)
    BY <1>1, <2>1 DEF Appending
  <2>3. value \in Hashes \cup {ZeroLeaf}
    OBVIOUS
  <2>4. Represents(after[m], old, m)
    BY <1>3
  <2>5. [old EXCEPT ![m] = value] = Extended(leaf, hash, n, m + 1)
    <3>1. DOMAIN old = Leaves
      BY DEF Extended
    <3>2. \A l \in Leaves : old[l] = IF l < n THEN leaf[l]
                                     ELSE IF l < m /\ l \in DOMAIN hash THEN hash[l]
                                     ELSE ZeroLeaf
      BY DEF Extended
    <3> HIDE DEF old
    <3>3. ASSUME NEW l \in Leaves
          PROVE  [old EXCEPT ![m] = value][l] =
                   IF l < n THEN leaf[l]
                   ELSE IF l < m + 1 /\ l \in DOMAIN hash THEN hash[l]
                   ELSE ZeroLeaf
      <4>1. CASE l = m
        BY <1>0, <2>1, <3>1, <4>1
      <4>2. CASE l # m
        <5>1. [old EXCEPT ![m] = value][l] = old[l]
          BY <3>1, <4>2
        <5>2. l < m <=> l < m + 1
          BY <2>1, <4>2 DEF Leaves
        <5> QED
          BY <3>2, <5>1, <5>2
      <4> QED
        BY <4>1, <4>2
    <3>4. [old EXCEPT ![m] = value] = [l \in Leaves |-> [old EXCEPT ![m] = value][l]]
      BY <3>1
    <3> HIDE DEF value
    <3> QED
      BY <3>3, <3>4 DEF Extended
  <2> HIDE DEF old, value
  <2>6. Represents(Insert(after[m], value), [old EXCEPT ![m] = value], m + 1)
    BY <2>1, <2>3, <2>4, InsertRepresents
  <2> QED
    BY <2>1, <2>2, <2>5, <2>6
<1>4. end \in S
  <2> HIDE DEF S
  <2>1. \A m \in n .. end : m \in S
    BY <1>0, <1>2, <1>3, UpTo
  <2> QED
    BY <1>0, <2>1
<1> QED
  BY <1>1, <1>4

-----------------------------------------------------------------------------
(* The full walk.                                                          *)

(* A minimum over a set of naturals is in the set and bounds it.           *)
LEMMA MinIsLeast ==
  ASSUME NEW S, S \subseteq Nat, S # {}
  PROVE  Min(S) \in S /\ \A y \in S : Min(S) <= y
<1>1. PICK m \in S : \A y \in S : ~(<<y, m>> \in OpToRel(<, Nat))
  BY WFMin, NatLessThanWellFounded
<1>2. \A y \in S : ~(y < m)
  BY <1>1 DEF OpToRel
<1>3. \A y \in S : m <= y
  BY <1>2
<1>4. \E x \in S : \A y \in S : x <= y
  BY <1>3
<1>5. Min(S) \in S /\ \A y \in S : Min(S) <= y
  BY <1>4, Zenon DEF Min
<1> QED
  BY <1>5

(* The stored positions and their hashes.                                  *)
LEMMA LeafHashesType ==
  ASSUME NEW nodes \in [Trees -> [Leaves -> Nodes \cup {NoNode}]]
  PROVE  /\ DOMAIN LeafHashes(nodes) = {k \in Leaves : nodes[0][k] # NoNode}
         /\ \A l \in DOMAIN LeafHashes(nodes) : /\ LeafHashes(nodes)[l] = nodes[0][l].hash
                                                /\ nodes[0][l].hash \in Hashes
<1>1. 0 \in Trees
  BY DepthAssumption DEF Trees
<1>2. \A l \in Leaves : nodes[0][l] # NoNode => nodes[0][l].hash \in Hashes
  BY <1>1 DEF Nodes
<1> QED
  BY <1>2 DEF LeafHashes

(* A walk over a tree whose recorded length is right gives an accumulator  *)
(* of the stored leaves, and counts the positions it found empty.          *)
LEMMA WalkRepresents ==
  ASSUME NEW nodes \in [Trees -> [Leaves -> Nodes \cup {NoNode}]], NEW length,
         length[0] = HighestLeafPlusOne(nodes, 0)
  PROVE  /\ Represents(Walk(nodes, length).acc, StoredLeaves(nodes, 0), length[0])
         /\ Walk(nodes, length).missing = length[0] - Cardinality(DOMAIN LeafHashes(nodes))
<1> DEFINE hash == LeafHashes(nodes)
           S == {length[0]} \cup {l + 1 : l \in DOMAIN hash}
<1>0. 0 \in Trees /\ Capacity \in Nat
  BY DepthAssumption, StoreAssumption DEF Trees
<1>1. /\ length[0] \in 0 .. Capacity
      /\ \A l \in Leaves : nodes[0][l] # NoNode => l < length[0]
  BY <1>0, HighestLeaf
<1>2. /\ DOMAIN hash = {k \in Leaves : nodes[0][k] # NoNode}
      /\ \A l \in DOMAIN hash : hash[l] = nodes[0][l].hash /\ hash[l] \in Hashes
  BY LeafHashesType
<1> HIDE DEF hash
<1>3. Max(S) = length[0]
  <2>1. S \in SUBSET (0 .. Capacity) /\ S # {} /\ length[0] \in S
    BY <1>0, <1>1, <1>2 DEF Leaves
  <2>2. \A y \in S : y <= length[0]
    BY <1>0, <1>1, <1>2 DEF Leaves
  <2> HIDE DEF S
  <2>3. Max(S) \in S /\ \A y \in S : y <= Max(S)
    BY <1>0, <2>1, MaxIsGreatest, Zenon
  <2>4. Max(S) \in 0 .. Capacity /\ Max(S) <= length[0] /\ length[0] <= Max(S)
    BY <2>1, <2>2, <2>3
  <2> QED
    BY <1>0, <1>1, <2>4
<1>4. /\ Walk(nodes, length).acc = AppendThrough(New, hash, length[0])
      /\ Walk(nodes, length).missing = length[0] - Cardinality(DOMAIN hash)
  BY <1>3 DEF Walk, hash
<1>5. Represents(New, EmptyAccumulator.leaf, 0)
  BY NewRepresents
<1>6. Represents(AppendThrough(New, hash, length[0]),
                 Extended(EmptyAccumulator.leaf, hash, 0, length[0]), length[0])
  BY <1>0, <1>1, <1>2, <1>5, AppendRepresents
<1>7. Extended(EmptyAccumulator.leaf, hash, 0, length[0]) = StoredLeaves(nodes, 0)
  <2>1. ASSUME NEW l \in Leaves
        PROVE  (IF l < 0 THEN EmptyAccumulator.leaf[l]
                ELSE IF l < length[0] /\ l \in DOMAIN hash THEN hash[l] ELSE ZeroLeaf)
                 = IF nodes[0][l] = NoNode THEN ZeroLeaf ELSE nodes[0][l].hash
    <3>1. ~(l < 0)
      BY <1>0 DEF Leaves
    <3> QED
      BY <1>1, <1>2, <3>1
  <2> QED
    BY <2>1 DEF Extended, StoredLeaves
<1> QED
  BY <1>4, <1>6, <1>7 DEF hash

-----------------------------------------------------------------------------
(* The inductive invariant.                                                *)

(* The snapshot is none exactly as long as UtxoStore keeps none, and       *)
(* otherwise it is an accumulator of the stored leaves.                    *)
SnapshotFits ==
  \/ snapshot = {} /\ store.frontier[0] = NoSnapshot
  \/ /\ store.frontier[0] # NoSnapshot
     /\ \E acc : /\ snapshot = {acc}
                 /\ Represents(acc, StoredLeaves(store.nodes, 0), store.length[0])

MerkleInv == StoreInv(store) /\ SnapshotFits

(* The snapshot of stored leaves is a snapshot.                            *)
LEMMA StoredLeavesSnapshot ==
  ASSUME NEW s, StoreInv(s)
  PROVE  [len |-> s.length[0], leaf |-> StoredLeaves(s.nodes, 0)] # NoSnapshot
<1>1. 0 \in Trees /\ s \in Stores
  BY DepthAssumption DEF Trees, StoreInv
<1>2. s.length[0] \in 0 .. Capacity
  BY <1>1 DEF Stores
<1>3. StoredLeaves(s.nodes, 0) \in [Leaves -> Hashes \cup {ZeroLeaf}]
  <2>1. \A l \in Leaves : s.nodes[0][l] # NoNode => s.nodes[0][l].hash \in Hashes
    BY <1>1 DEF Stores, Nodes
  <2> QED
    BY <2>1 DEF StoredLeaves
<1> QED
  BY <1>2, <1>3, StoreAssumption DEF Accumulators

(* An accumulator of the stored leaves takes a window: by appending, when  *)
(* nothing of it lies below the length, and else by the walk.              *)
LEMMA AppendedWindow ==
  ASSUME StoreInv(store), NEW placed \in SUBSET PlacedNodes, placed # {},
         ~CommitmentConflict(store.nodes, placed),
         NEW acc, Represents(acc, StoredLeaves(store.nodes, 0), store.length[0]),
         \A p \in placed : p.leaf >= store.length[0]
  PROVE  LET hash  == WindowLeaves(placed)
             nodes == InsertNodes(store.nodes, placed)
         IN  Represents(AppendThrough(acc, hash, Max(DOMAIN hash) + 1), StoredLeaves(nodes, 0),
                        ExtendLength(store, placed)[0])
<1> DEFINE hash  == WindowLeaves(placed)
           nodes == InsertNodes(store.nodes, placed)
           n     == store.length[0]
           end   == Max(DOMAIN hash) + 1
           D     == {p.leaf : p \in placed}
<1>0. /\ 0 \in Trees /\ Trees = {0} /\ Capacity \in Nat
      /\ store \in Stores /\ CountersMatch(store)
  BY DepthAssumption, StoreAssumption DEF Trees, StoreInv
<1>1. \A p \in placed : p.tree = 0 /\ p.leaf \in Leaves /\ p.node \in Nodes /\ p.leaf \in D
  BY <1>0 DEF PlacedNodes
<1>2. D \in SUBSET (0 .. Capacity) /\ D # {} /\ D \subseteq Leaves
  BY <1>0, <1>1 DEF Leaves
<1>3. DOMAIN hash = D
  BY DEF WindowLeaves
<1>4. ASSUME NEW p \in placed
      PROVE  /\ hash[p.leaf] = p.node.hash
             /\ nodes[0][p.leaf] = p.node
             /\ p.node # NoNode
  <2> DEFINE q == CHOOSE q \in placed : q.leaf = p.leaf
  <2>1. q \in placed /\ q.leaf = p.leaf
    OBVIOUS
  <2>2. hash[p.leaf] = q.node.hash
    BY <1>1 DEF WindowLeaves
  <2> HIDE DEF q
  <2>3. q.node = p.node
    BY <1>1, <2>1 DEF CommitmentConflict
  <2>4. nodes[0][p.leaf] = p.node
    BY <1>1, InsertNodesStores
  <2> QED
    BY <1>1, <2>2, <2>3, <2>4, StoreAssumption
<1>5. \A l \in DOMAIN hash : hash[l] \in Hashes
  BY <1>1, <1>3, <1>4 DEF Nodes
<1>6. n \in 0 .. Capacity /\ \A l \in Leaves : store.nodes[0][l] # NoNode => l < n
  <2>1. n = HighestLeafPlusOne(store.nodes, 0)
    BY <1>0 DEF CountersMatch
  <2> QED
    BY <1>0, <2>1, HighestLeaf
<1> HIDE DEF hash, D
<1>7. Max(DOMAIN hash) \in D /\ \A l \in D : l <= Max(DOMAIN hash)
  BY <1>0, <1>2, <1>3, MaxIsGreatest, Zenon
<1>8. /\ end \in n .. Capacity
      /\ \A l \in D : l < end
  <2>1. PICK p \in placed : p.leaf = Max(DOMAIN hash)
    BY <1>7 DEF D
  <2>2. Max(DOMAIN hash) \in Leaves /\ Max(DOMAIN hash) >= n
    BY <1>1, <2>1
  <2>3. \A l \in D : l \in Int /\ l <= Max(DOMAIN hash)
    BY <1>0, <1>2, <1>7 DEF Leaves
  <2> QED
    BY <1>0, <1>6, <2>2, <2>3 DEF Leaves
<1>9. ASSUME NEW l \in Leaves
      PROVE  /\ nodes[0][l] # NoNode <=> store.nodes[0][l] # NoNode \/ l \in D
             /\ store.nodes[0][l] # NoNode => nodes[0][l] = store.nodes[0][l]
  <2>1. l \in D <=> \E p \in placed : p.tree = 0 /\ p.leaf = l
    BY <1>1 DEF D
  <2> QED
    BY <1>0, <2>1, InsertNodesFilled, InsertNodesKeeps
<1> HIDE DEF nodes
<1>10. end = HighestLeafPlusOne(nodes, 0)
  <2>1. \A l \in Leaves : nodes[0][l] # NoNode => l < end
    BY <1>0, <1>6, <1>8, <1>9 DEF Leaves
  <2>2. \E l \in Leaves : nodes[0][l] # NoNode /\ end = l + 1
    BY <1>2, <1>7, <1>9
  <2>3. end \in 0 .. Capacity
    BY <1>0, <1>6, <1>8
  <2> HIDE DEF end
  <2> QED
    BY <1>0, <2>1, <2>2, <2>3, HighestLeafUnique
<1>11. end = ExtendLength(store, placed)[0]
  BY <1>0, <1>10, ExtendLengthExact DEF nodes
<1>12. Extended(StoredLeaves(store.nodes, 0), hash, n, end) = StoredLeaves(nodes, 0)
  <2> SUFFICES ASSUME NEW l \in Leaves
               PROVE  (IF l < n THEN StoredLeaves(store.nodes, 0)[l]
                       ELSE IF l < end /\ l \in DOMAIN hash THEN hash[l] ELSE ZeroLeaf)
                        = IF nodes[0][l] = NoNode THEN ZeroLeaf ELSE nodes[0][l].hash
    BY DEF Extended, StoredLeaves
  <2>1. StoredLeaves(store.nodes, 0)[l] =
          IF store.nodes[0][l] = NoNode THEN ZeroLeaf ELSE store.nodes[0][l].hash
    BY DEF StoredLeaves
  <2>2. CASE l < n
    <3>1. l \notin D
      BY <1>0, <1>1, <1>6, <2>2 DEF D, Leaves
    <3>2. nodes[0][l] = store.nodes[0][l]
      BY <1>9, <3>1
    <3> QED
      BY <2>1, <2>2, <3>2
  <2>3. CASE ~(l < n) /\ l \in D
    <3>1. hash[l] = nodes[0][l].hash /\ nodes[0][l] # NoNode
      BY <1>1, <1>4, <2>3 DEF D
    <3> QED
      BY <1>3, <1>8, <2>3, <3>1
  <2>4. CASE ~(l < n) /\ l \notin D
    BY <1>3, <1>6, <1>9, <2>4
  <2> QED
    BY <2>2, <2>3, <2>4
<1> HIDE DEF end, n
<1>13. Represents(AppendThrough(acc, hash, end),
                  Extended(StoredLeaves(store.nodes, 0), hash, n, end), end)
  BY <1>5, <1>6, <1>8, AppendRepresents DEF n
<1>14. Represents(AppendThrough(acc, hash, end), StoredLeaves(nodes, 0),
                  ExtendLength(store, placed)[0])
  BY <1>11, <1>12, <1>13
<1> QED
  BY <1>14 DEF hash, nodes, end

(* Whichever way advance_frontiers takes, the accumulator it persists      *)
(* represents the stored leaves of the tree as the window leaves them.     *)
LEMMA AdvanceRepresents ==
  ASSUME MerkleInv, NEW placed \in SUBSET PlacedNodes, placed # {},
         ~CommitmentConflict(store.nodes, placed)
  PROVE  LET nodes  == InsertNodes(store.nodes, placed)
             length == ExtendLength(store, placed)
         IN  Represents(Advance(snapshot, nodes, length, placed), StoredLeaves(nodes, 0),
                        length[0])
<1> DEFINE nodes  == InsertNodes(store.nodes, placed)
           length == ExtendLength(store, placed)
           hash   == WindowLeaves(placed)
           acc    == IF snapshot = {} THEN New ELSE CHOOSE state \in snapshot : TRUE
<1>0. 0 \in Trees /\ store \in Stores /\ CountersMatch(store)
  BY DepthAssumption DEF Trees, MerkleInv, StoreInv
<1>1. Represents(acc, StoredLeaves(store.nodes, 0), store.length[0])
  <2>1. CASE snapshot = {}
    <3>1. store.length[0] = 0
      <4>1. store.frontier[0] = NoSnapshot /\ StoreInv(store)
        BY <2>1 DEF MerkleInv, SnapshotFits
      <4>2. FrontierFits(store, 0)
        BY <1>0, <4>1 DEF StoreInv, FrontierMatches
      <4> QED
        BY <4>1, <4>2, StoredLeavesSnapshot DEF FrontierFits
    <3>2. \A l \in Leaves : store.nodes[0][l] = NoNode
      <4>1. HighestLeafPlusOne(store.nodes, 0) = 0
        BY <1>0, <3>1 DEF CountersMatch
      <4>2. \A l \in Leaves : ~(l < 0)
        BY StoreAssumption DEF Leaves
      <4> QED
        BY <1>0, <4>1, <4>2, HighestLeaf
    <3>3. StoredLeaves(store.nodes, 0) = EmptyAccumulator.leaf
      BY <3>2 DEF StoredLeaves, EmptyAccumulator
    <3> QED
      BY <2>1, <3>1, <3>3, NewRepresents
  <2>2. CASE snapshot # {}
    <3>1. PICK a : /\ snapshot = {a}
                   /\ Represents(a, StoredLeaves(store.nodes, 0), store.length[0])
      BY <2>2 DEF MerkleInv, SnapshotFits
    <3>2. acc = a
      BY <3>1
    <3> QED
      BY <3>1, <3>2
  <2> QED
    BY <2>1, <2>2
<1>2. acc.next = store.length[0]
  BY <1>1 DEF Represents
<1>3. Advance(snapshot, nodes, length, placed) =
        IF Min(DOMAIN hash) < acc.next THEN Walk(nodes, length).acc
        ELSE AppendThrough(acc, hash, Max(DOMAIN hash) + 1)
  BY DEF Advance
<1> HIDE DEF acc
<1>4. CASE Min(DOMAIN hash) < acc.next
  <2>1. nodes \in [Trees -> [Leaves -> Nodes \cup {NoNode}]]
    BY <1>0, InsertNodesType DEF Stores
  <2>2. length[0] = HighestLeafPlusOne(nodes, 0)
    BY <1>0, ExtendLengthExact
  <2> HIDE DEF nodes, length, hash
  <2>3. Represents(Walk(nodes, length).acc, StoredLeaves(nodes, 0), length[0])
    BY <2>1, <2>2, WalkRepresents
  <2> QED
    BY <1>3, <1>4, <2>3 DEF nodes, length
<1>5. CASE ~(Min(DOMAIN hash) < acc.next)
  <2>1. DOMAIN hash = {p.leaf : p \in placed}
    BY DEF WindowLeaves
  <2>2. DOMAIN hash \subseteq Nat /\ DOMAIN hash # {}
    BY <2>1, StoreAssumption DEF PlacedNodes, Leaves
  <2> HIDE DEF hash
  <2>3. Min(DOMAIN hash) \in Nat /\ \A y \in DOMAIN hash : Min(DOMAIN hash) <= y
    BY <2>2, MinIsLeast
  <2>4. store.length[0] \in Nat
    BY <1>0, StoreAssumption DEF Stores
  <2>5. ASSUME NEW p \in placed
        PROVE  p.leaf >= store.length[0]
    <3>1. p.leaf \in DOMAIN hash
      BY <2>1
    <3> QED
      BY <1>2, <1>5, <2>2, <2>3, <2>4, <3>1
  <2>6. StoreInv(store)
    BY DEF MerkleInv
  <2> HIDE DEF nodes, length
  <2>7. Represents(AppendThrough(acc, hash, Max(DOMAIN hash) + 1), StoredLeaves(nodes, 0),
                   length[0])
    BY <1>1, <2>5, <2>6, AppendedWindow DEF hash, nodes, length
  <2> QED
    BY <1>3, <1>5, <2>7 DEF nodes, length
<1> QED
  BY <1>4, <1>5

(* The empty tables have no snapshot, and need none.                       *)
LEMMA MerkleInvInit == Init => MerkleInv
<1> SUFFICES ASSUME Init
             PROVE  MerkleInv
  OBVIOUS
<1>1. StoreInv(store)
  BY EmptyStoreInv DEF Init
<1>2. SnapshotFits
  <2>1. 0 \in Trees
    BY DepthAssumption DEF Trees
  <2> QED
    BY <2>1 DEF Init, SnapshotFits, EmptyStore
<1> QED
  BY <1>1, <1>2 DEF MerkleInv

(* Every window keeps the invariant.                                       *)
LEMMA MerkleInvNext == MerkleInv /\ [Next]_vars => MerkleInv'
<1> SUFFICES ASSUME MerkleInv, [Next]_vars
             PROVE  MerkleInv'
  OBVIOUS
<1>1. CASE UNCHANGED vars
  BY <1>1 DEF vars, MerkleInv, StoreInv, SnapshotFits, FrontierMatches, FrontierFits
<1>2. CASE Next
  <2>0. 0 \in Trees /\ 0 \in Blocks /\ Chain \subseteq PlacedNodes
    BY DepthAssumption DEF Trees
  <2>1. PICK k \in 1 .. MaxWindow : \E placed \in kSubset(k, Chain) : Commit(placed)
    BY <1>2 DEF Next
  <2>2. PICK placed \in kSubset(k, Chain) : Commit(placed)
    BY <2>1
  <2>3. placed \in SUBSET PlacedNodes /\ placed # {}
    <3>1. placed \in SUBSET Chain /\ Cardinality(placed) = k
      BY <2>2 DEF kSubset
    <3>2. k # 0
      BY <2>1
    <3> QED
      BY <2>0, <3>1, <3>2, FS_EmptySet
  <2> DEFINE nodes  == InsertNodes(store.nodes, placed)
             length == ExtendLength(store, placed)
  <2>4. /\ ~CommitmentConflict(store.nodes, placed)
        /\ store' = CommitWindow(store, placed, {}, 0)
        /\ snapshot' = {Advance(snapshot, store'.nodes, store'.length, placed)}
    BY <2>2 DEF Commit
  <2>5. store'.nodes = nodes /\ store'.length = length
    BY <2>4 DEF CommitWindow
  <2>6. StoreInv(store')
    <3>1. StoreInv(store) /\ {} \in SUBSET Nullifiers
      BY DEF MerkleInv
    <3> QED
      BY <2>0, <2>3, <2>4, <3>1, WindowKeepsStoreInv
  <2>7. Represents(Advance(snapshot, nodes, length, placed), StoredLeaves(nodes, 0), length[0])
    BY <2>3, <2>4, AdvanceRepresents
  <2>8. store'.frontier[0] # NoSnapshot
    <3>1. PICK p \in placed : TRUE
      BY <2>3
    <3>2. p.tree = 0 /\ p.leaf \in Leaves
      BY <2>3, DepthAssumption DEF PlacedNodes, Trees
    <3>3. nodes[0][p.leaf] # NoNode
      BY <2>0, <2>3, <3>1, <3>2, InsertNodesFilled
    <3> HIDE DEF nodes, length
    <3>4. store' \in Stores /\ CountersMatch(store') /\ FrontierFits(store', 0)
      BY <2>0, <2>6 DEF StoreInv, FrontierMatches
    <3>5. length[0] # 0
      <4>1. length[0] = HighestLeafPlusOne(nodes, 0)
        BY <2>0, <2>5, <3>4 DEF CountersMatch
      <4>2. p.leaf < length[0] /\ ~(p.leaf < 0)
        BY <2>0, <3>2, <3>3, <4>1, HighestLeaf, StoreAssumption DEF Leaves
      <4> QED
        BY <4>2
    <3>6. store'.frontier[0] = [len |-> length[0], leaf |-> StoredLeaves(nodes, 0)]
      BY <2>5, <3>4, <3>5 DEF FrontierFits
    <3> QED
      BY <2>5, <2>6, <3>6, StoredLeavesSnapshot
  <2> HIDE DEF nodes, length
  <2>9. SnapshotFits'
    BY <2>4, <2>5, <2>7, <2>8 DEF SnapshotFits
  <2> QED
    BY <2>6, <2>9 DEF MerkleInv, StoreInv
<1> QED
  BY <1>1, <1>2

(* The invariant holds in every reachable state.                           *)
LEMMA MerkleInvHolds == Spec => []MerkleInv
<1> QED
  BY MerkleInvInit, MerkleInvNext, PTL DEF Spec

-----------------------------------------------------------------------------
(* The snapshot advance_frontiers persists has the length and the root of  *)
(* the leaf assignment that module UtxoStore keeps in its place, for trees *)
(* of every depth and windows of every size.                               *)
THEOREM FrontierRepresented == Spec => []SnapshotRepresents
<1>1. MerkleInv => SnapshotRepresents
  <2> SUFFICES ASSUME MerkleInv
               PROVE  SnapshotRepresents
    OBVIOUS
  <2>1. CASE snapshot = {} /\ store.frontier[0] = NoSnapshot
    BY <2>1 DEF SnapshotRepresents
  <2>2. CASE store.frontier[0] # NoSnapshot
    <3>1. PICK acc : /\ snapshot = {acc}
                     /\ Represents(acc, StoredLeaves(store.nodes, 0), store.length[0])
      BY <2>2 DEF MerkleInv, SnapshotFits
    <3>2. FrontierFits(store, 0)
      BY DepthAssumption DEF MerkleInv, StoreInv, FrontierMatches, Trees
    <3>3. /\ store.frontier[0].len = store.length[0]
          /\ store.frontier[0].leaf = StoredLeaves(store.nodes, 0)
      BY <2>2, <3>2 DEF FrontierFits
    <3>4. acc.next = store.frontier[0].len /\ acc.root = TreeRoot(store.frontier[0].leaf)
      BY <3>1, <3>3 DEF Represents
    <3> QED
      BY <2>2, <3>1, <3>4 DEF SnapshotRepresents
  <2> QED
    BY <2>1, <2>2 DEF MerkleInv, SnapshotFits
<1> QED
  BY <1>1, MerkleInvHolds, PTL

(* What a tree holds and what it lacks up to its length.                   *)
LEMMA HolesCounted ==
  ASSUME StoreInv(store)
  PROVE  LET holes == {l \in Leaves : l < store.length[0] /\ store.nodes[0][l] = NoNode}
         IN  /\ IsFiniteSet(holes)
             /\ Walk(store.nodes, store.length).missing = Cardinality(holes)
             /\ Represents(Walk(store.nodes, store.length).acc, StoredLeaves(store.nodes, 0),
                           store.length[0])
             /\ \A l \in Leaves : store.nodes[0][l] # NoNode => l < store.length[0]
             /\ store.length[0] \in 0 .. Capacity
<1> DEFINE n     == store.length[0]
           holes == {l \in Leaves : l < n /\ store.nodes[0][l] = NoNode}
           full  == {l \in Leaves : store.nodes[0][l] # NoNode}
<1>0. 0 \in Trees /\ store \in Stores /\ Capacity \in Nat
  BY DepthAssumption, StoreAssumption DEF Trees, StoreInv
<1>1. store.nodes \in [Trees -> [Leaves -> Nodes \cup {NoNode}]]
  BY <1>0 DEF Stores
<1>2. n = HighestLeafPlusOne(store.nodes, 0)
  BY <1>0 DEF StoreInv, CountersMatch
<1>3. /\ n \in 0 .. Capacity
      /\ \A l \in Leaves : store.nodes[0][l] # NoNode => l < n
  BY <1>0, <1>2, HighestLeaf
<1>4. /\ Represents(Walk(store.nodes, store.length).acc, StoredLeaves(store.nodes, 0), n)
      /\ Walk(store.nodes, store.length).missing = n - Cardinality(full)
  BY <1>1, <1>2, WalkRepresents, LeafHashesType
<1>5. holes \cup full = 0 .. n - 1 /\ holes \cap full = {}
  BY <1>0, <1>3 DEF Leaves
<1>6. IsFiniteSet(0 .. n - 1) /\ Cardinality(0 .. n - 1) = n
  <2>1. 0 \in Int /\ n - 1 \in Int
    BY <1>0, <1>3
  <2> HIDE DEF n
  <2>2. /\ IsFiniteSet(0 .. n - 1)
        /\ Cardinality(0 .. n - 1) = IF 0 > n - 1 THEN 0 ELSE (n - 1) - 0 + 1
    BY <2>1, FS_Interval, Zenon
  <2>3. n \in Nat
    BY <1>0, <1>3
  <2> QED
    BY <2>2, <2>3
<1>7. IsFiniteSet(holes) /\ IsFiniteSet(full)
  BY <1>5, <1>6, FS_Subset
<1> HIDE DEF holes, full
<1>8. Cardinality(holes \cup full)
        = Cardinality(holes) + Cardinality(full) - Cardinality(holes \cap full)
  BY <1>7, FS_Union
<1>9. /\ Cardinality(holes \cap full) = 0
      /\ Cardinality(holes) \in Nat /\ Cardinality(full) \in Nat
  <2>1. Cardinality(holes) \in Nat /\ Cardinality(full) \in Nat
    BY <1>7, FS_CardinalityType
  <2> QED
    BY <1>5, <2>1, FS_EmptySet
<1>10. n - Cardinality(full) = Cardinality(holes)
  <2>1. n \in Nat
    BY <1>0, <1>3
  <2>2. Cardinality(holes \cup full) = n
    BY <1>5, <1>6, Zenon
  <2>3. n = Cardinality(holes) + Cardinality(full) - 0
    BY <1>8, <1>9, <2>2
  <2> HIDE DEF n
  <2> QED
    BY <1>9, <2>1, <2>3
<1> QED
  BY <1>3, <1>4, <1>7, <1>10 DEF holes, full

(* The full walk of validate and of a rebuild computes the Merkle root of  *)
(* the stored leaves, has the recorded length, and counts the holes.       *)
THEOREM WalkIsExact == Spec => []WalkExact
<1>1. MerkleInv => WalkExact
  BY HolesCounted DEF MerkleInv, WalkExact, Represents
<1> QED
  BY <1>1, MerkleInvHolds, PTL

(* validate accepts a tree exactly if it holds the contract's leaves, and  *)
(* never counts more positions as missing than differ.                     *)
THEOREM ValidationIsExact == Spec => []ValidationDetects
<1>1. MerkleInv => ValidationDetects
  <2> DEFINE integrity == Validate(store.nodes, store.length)
             stored == StoredLeaves(store.nodes, 0)
             n == store.length[0]
             chain == [l \in Leaves |-> IF l <= n - 1 THEN Contract[l] ELSE ZeroLeaf]
             Differ == {l \in Leaves : l < n /\ stored[l] # Contract[l]}
             holes == {l \in Leaves : l < n /\ store.nodes[0][l] = NoNode}
  <2> SUFFICES ASSUME MerkleInv, n > 0
               PROVE  /\ integrity.valid <=> Differ = {}
                      /\ integrity.missing <= Cardinality(Differ)
    BY DEF ValidationDetects, Validate
  <2>0. /\ Capacity \in Nat
        /\ Contract \in [Leaves -> Hashes] /\ ZeroLeaf \notin Hashes
    BY StoreAssumption, DepthAssumption
  <2>1. /\ IsFiniteSet(holes)
        /\ Walk(store.nodes, store.length).missing = Cardinality(holes)
        /\ Represents(Walk(store.nodes, store.length).acc, stored, n)
        /\ \A l \in Leaves : store.nodes[0][l] # NoNode => l < n
        /\ n \in 0 .. Capacity
    BY HolesCounted DEF MerkleInv
  <2>2. \A l \in Leaves : store.nodes[0][l] = NoNode => stored[l] = ZeroLeaf
    BY DEF StoredLeaves
  <2>3. integrity.valid <=> TreeRoot(stored) = TreeRoot(chain)
    <3>1. Max({0, n - 1}) = n - 1
      <4>1. {0, n - 1} \in SUBSET (0 .. Capacity) /\ {0, n - 1} # {}
        BY <2>0, <2>1
      <4>2. Max({0, n - 1}) \in {0, n - 1} /\ \A y \in {0, n - 1} : y <= Max({0, n - 1})
        BY <2>0, <4>1, MaxIsGreatest, Zenon
      <4> QED
        BY <2>0, <2>1, <4>2
    <3>2. Walk(store.nodes, store.length).acc.root = TreeRoot(stored)
      BY <2>1 DEF Represents
    <3>3. integrity.valid <=> IsValid(n - 1, TreeRoot(stored))
      BY <3>1, <3>2 DEF Validate
    <3> QED
      BY <3>3 DEF IsValid, ContractRoot
  <2>4. stored = chain <=> Differ = {}
    <3>1. \A l \in Leaves : l <= n - 1 <=> l < n
      BY <2>0, <2>1 DEF Leaves
    <3>2. \A l \in Leaves : ~(l < n) => stored[l] = ZeroLeaf
      BY <2>1, <2>2
    <3>3. \A l \in Leaves : chain[l] = IF l < n THEN Contract[l] ELSE ZeroLeaf
      BY <3>1
    <3>4. stored = [l \in Leaves |-> stored[l]] /\ chain = [l \in Leaves |-> chain[l]]
      BY DEF StoredLeaves
    <3> HIDE DEF stored, chain
    <3>5. ASSUME Differ = {}
          PROVE  stored = chain
      <4>1. \A l \in Leaves : stored[l] = chain[l]
        BY <3>2, <3>3, <3>5
      <4> QED
        BY <3>4, <4>1
    <3>6. ASSUME stored = chain
          PROVE  Differ = {}
      BY <3>3, <3>6
    <3> QED
      BY <3>5, <3>6
  <2>5. integrity.valid <=> Differ = {}
    <3>1. TreeRoot(stored) = TreeRoot(chain) => stored = chain
      <4>1. stored = [l \in Leaves |-> stored[l]] /\ chain = [l \in Leaves |-> chain[l]]
        BY DEF StoredLeaves
      <4> HIDE DEF stored, chain
      <4> SUFFICES ASSUME TreeRoot(stored) = TreeRoot(chain)
                   PROVE  stored = chain
        OBVIOUS
      <4>2. \A l \in Leaves : stored[l] = chain[l]
        BY RootDecides
      <4> QED
        BY <4>1, <4>2
    <3> HIDE DEF stored, chain, Differ, integrity
    <3> QED
      BY <2>3, <2>4, <3>1
  <2>6. integrity.missing <= Cardinality(Differ)
    <3>1. holes \subseteq Differ
      BY <2>0, <2>2
    <3>2. IsFiniteSet(Differ)
      <4>1. Differ \subseteq 0 .. Capacity
        BY <2>0 DEF Leaves
      <4>2. IsFiniteSet(0 .. Capacity)
        <5>1. 0 \in Int /\ Capacity \in Int
          BY <2>0
        <5> QED
          BY <5>1, FS_Interval, Zenon
      <4> QED
        BY <4>1, <4>2, FS_Subset
    <3>3. integrity.missing = Cardinality(holes)
      BY <2>1 DEF Validate
    <3> HIDE DEF holes, Differ, integrity
    <3>4. Cardinality(holes) <= Cardinality(Differ)
      BY <3>1, <3>2, FS_Subset
    <3> QED
      BY <3>3, <3>4
  <2> QED
    BY <2>5, <2>6
<1> QED
  BY <1>1, MerkleInvHolds, PTL
=============================================================================
