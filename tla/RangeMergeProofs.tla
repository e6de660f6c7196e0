-------------------------- MODULE RangeMergeProofs --------------------------
(***************************************************************************)
(* Theorems about the byte keys of the commitments table and about the     *)
(* merged scan of a tree, for any base of digits, any positions in use and *)
(* any contents of base and batch.                                         *)
(***************************************************************************)
EXTENDS RangeMerge, TLAPS, NaturalsInduction, WellFoundedInduction, SequenceTheorems

-----------------------------------------------------------------------------
(* Digits.                                                                 *)

(* The two digits of a number give it back.                                *)
LEMMA Digits ==
  ASSUME NEW n \in U32
  PROVE  /\ n \div Base \in 0 .. Base - 1
         /\ n % Base \in 0 .. Base - 1
         /\ (n \div Base) * Base + (n % Base) = n
<1>1. Base \in Nat /\ Base > 1 /\ n \in Nat /\ n < Base * Base
  BY KeysAssumption DEF U32
<1>2. n % Base \in 0 .. Base - 1 /\ n = Base * (n \div Base) + (n % Base) /\ n \div Base \in Int
  BY <1>1
<1>3. n \div Base >= 0 /\ n \div Base < Base
  BY <1>1, <1>2
<1> QED
  BY <1>1, <1>2, <1>3

(* Numbers are ordered as their digits are.                                *)
LEMMA DigitsOrder ==
  ASSUME NEW a \in U32, NEW b \in U32
  PROVE  (a < b) <=> \/ (a \div Base) < (b \div Base)
                     \/ (a \div Base) = (b \div Base) /\ (a % Base) < (b % Base)
<1>0. Base \in Nat /\ Base > 1 /\ a \in Int /\ b \in Int
  BY KeysAssumption DEF U32
<1> DEFINE q == a \div Base
           r == a % Base
           u == b \div Base
           v == b % Base
<1>1. /\ q \in Int /\ r \in 0 .. Base - 1 /\ a = q * Base + r
      /\ u \in Int /\ v \in 0 .. Base - 1 /\ b = u * Base + v
  BY <1>0, Digits
<1> HIDE DEF q, r, u, v
<1>2. ASSUME q < u PROVE a < b
  <2>1. q + 1 <= u
    BY <1>1, <1>2
  <2>2. (q + 1) * Base <= u * Base
    BY <1>0, <1>1, <2>1
  <2>3. (q + 1) * Base = q * Base + Base
    BY <1>0, <1>1
  <2> QED
    BY <1>0, <1>1, <2>2, <2>3
<1>3. ASSUME u < q PROVE b < a
  <2>1. u + 1 <= q
    BY <1>1, <1>3
  <2>2. (u + 1) * Base <= q * Base
    BY <1>0, <1>1, <2>1
  <2>3. (u + 1) * Base = u * Base + Base
    BY <1>0, <1>1
  <2> QED
    BY <1>0, <1>1, <2>2, <2>3
<1>4. ASSUME q = u PROVE a < b <=> r < v
  BY <1>0, <1>1, <1>4
<1>5. a < b <=> (q < u \/ (q = u /\ r < v))
  BY <1>0, <1>1, <1>2, <1>3, <1>4
<1> QED
  BY <1>5 DEF q, r, u, v

-----------------------------------------------------------------------------
(* Keys.                                                                   *)

(* The digits of a u32, high one first.                                    *)
LEMMA BigEndianBytes ==
  ASSUME NEW n \in U32
  PROVE  /\ BigEndian(n) \in Seq(Int) /\ Len(BigEndian(n)) = 2
         /\ BigEndian(n)[1] = n \div Base /\ BigEndian(n)[2] = n % Base
  BY Digits DEF BigEndian

(* The bytes of two numbers behind the byte of a kind.                     *)
LEMMA TaggedBytes ==
  ASSUME NEW tag \in Int, NEW a \in Seq(Int), NEW b \in Seq(Int), Len(a) = 2, Len(b) = 2
  PROVE  LET key == <<tag>> \o a \o b
             short == <<tag>> \o a
         IN  /\ key \in Seq(Int) /\ Len(key) = 5
             /\ key[1] = tag /\ key[2] = a[1] /\ key[3] = a[2]
             /\ key[4] = b[1] /\ key[5] = b[2]
             /\ short \in Seq(Int) /\ Len(short) = 3
             /\ short[1] = tag /\ short[2] = a[1] /\ short[3] = a[2]
<1> DEFINE one == <<tag>>
           short == one \o a
           key == short \o b
<1>1. one \in Seq(Int) /\ Len(one) = 1 /\ one[1] = tag
  OBVIOUS
<1> HIDE DEF one
<1>2. /\ short \in Seq(Int) /\ Len(short) = 3
      /\ \A i \in 1 .. 3 : short[i] = IF i <= 1 THEN one[i] ELSE a[i - 1]
  <2>1. /\ short \in Seq(Int) /\ Len(short) = Len(one) + Len(a)
        /\ \A i \in 1 .. Len(one) + Len(a) :
             short[i] = IF i <= Len(one) THEN one[i] ELSE a[i - Len(one)]
    BY <1>1, ConcatProperties
  <2> QED
    BY <1>1, <2>1
<1> HIDE DEF short
<1>3. /\ key \in Seq(Int) /\ Len(key) = 5
      /\ \A i \in 1 .. 5 : key[i] = IF i <= 3 THEN short[i] ELSE b[i - 3]
  <2>1. /\ key \in Seq(Int) /\ Len(key) = Len(short) + Len(b)
        /\ \A i \in 1 .. Len(short) + Len(b) :
             key[i] = IF i <= Len(short) THEN short[i] ELSE b[i - Len(short)]
    BY <1>2, ConcatProperties
  <2>2. Len(short) = 3 /\ Len(short) + Len(b) = 5
    BY <1>2
  <2> QED
    BY <2>1, <2>2
<1> HIDE DEF key
<1>4. short[1] = tag /\ short[2] = a[1] /\ short[3] = a[2]
  BY <1>1, <1>2
<1>5. /\ key[1] = tag /\ key[2] = a[1] /\ key[3] = a[2]
      /\ key[4] = b[1] /\ key[5] = b[2]
  BY <1>3, <1>4
<1> QED
  BY <1>2, <1>3, <1>4, <1>5 DEF key, short, one

(* The key of a node, byte by byte.                                        *)
LEMMA CommitmentKeyBytes ==
  ASSUME NEW t \in U32, NEW p \in U32
  PROVE  LET key == CommitmentKey(t, p)
         IN  /\ key \in Seq(Int) /\ Len(key) = 5 /\ key[1] = 99
             /\ key[2] = t \div Base /\ key[3] = t % Base
             /\ key[4] = p \div Base /\ key[5] = p % Base
  BY BigEndianBytes, TaggedBytes DEF CommitmentKey

(* The key of a tree's length.                                             *)
LEMMA LengthKeyBytes ==
  ASSUME NEW t \in U32
  PROVE  LET key == LengthKey(t)
         IN  /\ key \in Seq(Int) /\ Len(key) = 3 /\ key[1] = 109
             /\ key[2] = t \div Base /\ key[3] = t % Base
  BY BigEndianBytes, TaggedBytes DEF LengthKey

(* The key of a nullifier.                                                 *)
LEMMA NullifierKeyBytes ==
  ASSUME NEW t \in U32, NEW n \in Nullifiers
  PROVE  LET key == NullifierKey(t, n)
         IN  /\ key \in Seq(Int) /\ Len(key) = 5 /\ key[1] = 110
             /\ key[2] = t \div Base /\ key[3] = t % Base
             /\ key[4] = n[1] /\ key[5] = n[2]
<1>1. n \in [1 .. 2 -> Int]
  BY KeysAssumption
<1>2. n \in Seq(Int)
  <2>1. 2 \in Nat
    OBVIOUS
  <2>2. n \in UNION {[1 .. k -> Int] : k \in Nat}
    BY <1>1, <2>1, Zenon
  <2>3. Seq(Int) = UNION {[1 .. k -> Int] : k \in Nat}
    BY SeqDef, Zenon
  <2> QED
    BY <2>2, <2>3, Zenon
<1>3. Len(n) = 2
  BY <1>1, <1>2
<1> QED
  BY <1>2, <1>3, BigEndianBytes, TaggedBytes DEF NullifierKey

(* The keys of the tree count and the watermark.                           *)
LEMMA CounterKeyBytes ==
  /\ TreeCountKey \in Seq(Int) /\ Len(TreeCountKey) = 1 /\ TreeCountKey[1] = 103
  /\ SyncedBlockKey \in Seq(Int) /\ Len(SyncedBlockKey) = 1 /\ SyncedBlockKey[1] = 115
  BY DEF TreeCountKey, SyncedBlockKey

(* The order of byte strings, where the second is not the longer one.      *)
LEMMA PrecedesAtByte ==
  ASSUME NEW a \in Seq(Int), NEW b \in Seq(Int), Len(b) <= Len(a)
  PROVE  Precedes(a, b) <=> \E i \in 1 .. Len(b) : a[i] < b[i] /\ \A j \in 1 .. i - 1 : a[j] = b[j]
<1>1. ~IsStrictPrefix(a, b)
  <2> SUFFICES ASSUME IsPrefix(a, b)
               PROVE  a = b
    BY DEF IsStrictPrefix
  <2>1. Len(a) = Len(b)
    BY DEF IsPrefix
  <2>2. SubSeq(a, 1, Len(a)) = a /\ SubSeq(b, 1, Len(b)) = b
    BY SubSeqFull
  <2> QED
    BY <2>1, <2>2 DEF IsPrefix
<1>2. DOMAIN a \cap DOMAIN b = 1 .. Len(b)
  OBVIOUS
<1> QED
  BY <1>1, <1>2 DEF Precedes
(* Keys of one tree are ordered by position, and tell it.                  *)
LEMMA CommitmentOrder ==
  ASSUME NEW t \in U32, NEW p \in U32, NEW q \in U32
  PROVE  /\ Precedes(CommitmentKey(t, p), CommitmentKey(t, q)) <=> p < q
         /\ PositionFromKey(CommitmentKey(t, p)) = p
<1> DEFINE a == CommitmentKey(t, p)
           b == CommitmentKey(t, q)
<1>1. /\ a \in Seq(Int) /\ Len(a) = 5 /\ a[1] = 99 /\ a[2] = t \div Base /\ a[3] = t % Base
      /\ a[4] = p \div Base /\ a[5] = p % Base
      /\ b \in Seq(Int) /\ Len(b) = 5 /\ b[1] = 99 /\ b[2] = t \div Base /\ b[3] = t % Base
      /\ b[4] = q \div Base /\ b[5] = q % Base
  BY CommitmentKeyBytes
<1> HIDE DEF a, b
<1>2. /\ (p \div Base) \in Int /\ (p % Base) \in Int
      /\ (q \div Base) \in Int /\ (q % Base) \in Int
      /\ (p \div Base) * Base + (p % Base) = p
      /\ (t \div Base) \in Int /\ (t % Base) \in Int
  BY Digits
<1>3. Precedes(a, b) <=> \E i \in 1 .. 5 : a[i] < b[i] /\ \A j \in 1 .. i - 1 : a[j] = b[j]
  <2>1. Len(b) <= Len(a)
    BY <1>1
  <2>2. Precedes(a, b)
          <=> \E i \in 1 .. Len(b) : a[i] < b[i] /\ \A j \in 1 .. i - 1 : a[j] = b[j]
    BY <1>1, <2>1, PrecedesAtByte, Zenon
  <2> QED
    BY <1>1, <2>2, Zenon
<1>4. (\E i \in 1 .. 5 : a[i] < b[i] /\ \A j \in 1 .. i - 1 : a[j] = b[j])
        <=> (a[4] < b[4] \/ (a[4] = b[4] /\ a[5] < b[5]))
  <2>1. ASSUME NEW i \in 1 .. 5, a[i] < b[i], \A j \in 1 .. i - 1 : a[j] = b[j]
        PROVE  a[4] < b[4] \/ (a[4] = b[4] /\ a[5] < b[5])
    <3>1. i = 4 \/ i = 5
      BY <1>1, <1>2, <2>1
    <3> QED
      BY <2>1, <3>1
  <2>2. ASSUME a[4] < b[4]
        PROVE  \E i \in 1 .. 5 : a[i] < b[i] /\ \A j \in 1 .. i - 1 : a[j] = b[j]
    <3>1. 4 \in 1 .. 5 /\ \A j \in 1 .. 4 - 1 : a[j] = b[j]
      BY <1>1
    <3> QED
      BY <2>2, <3>1
  <2>3. ASSUME a[4] = b[4], a[5] < b[5]
        PROVE  \E i \in 1 .. 5 : a[i] < b[i] /\ \A j \in 1 .. i - 1 : a[j] = b[j]
    <3>1. 5 \in 1 .. 5 /\ \A j \in 1 .. 5 - 1 : a[j] = b[j]
      BY <1>1, <2>3
    <3> QED
      BY <2>3, <3>1
  <2> QED
    BY <2>1, <2>2, <2>3
<1>5. Precedes(a, b) <=> p < q
  BY <1>1, <1>3, <1>4, DigitsOrder
<1>6. PositionFromKey(a) = p
  BY <1>1, <1>2 DEF PositionFromKey
<1> QED
  BY <1>5, <1>6 DEF a, b

(* All keys of a tree precede all keys of a later one.                     *)
LEMMA CommitmentTrees ==
  ASSUME NEW t \in U32, NEW p \in U32, NEW u \in U32, NEW q \in U32, t < u
  PROVE  Precedes(CommitmentKey(t, p), CommitmentKey(u, q))
<1> DEFINE a == CommitmentKey(t, p)
           b == CommitmentKey(u, q)
<1>1. /\ a \in Seq(Int) /\ Len(a) = 5 /\ a[1] = 99 /\ a[2] = t \div Base /\ a[3] = t % Base
      /\ b \in Seq(Int) /\ Len(b) = 5 /\ b[1] = 99 /\ b[2] = u \div Base /\ b[3] = u % Base
  BY CommitmentKeyBytes
<1> HIDE DEF a, b
<1>2. a[2] < b[2] \/ (a[2] = b[2] /\ a[3] < b[3])
  BY <1>1, DigitsOrder
<1>3. \E i \in 1 .. 5 : a[i] < b[i] /\ \A j \in 1 .. i - 1 : a[j] = b[j]
  <2>1. CASE a[2] < b[2]
    <3>1. 2 \in 1 .. 5 /\ \A j \in 1 .. 2 - 1 : a[j] = b[j]
      BY <1>1
    <3> QED
      BY <2>1, <3>1
  <2>2. CASE a[2] = b[2] /\ a[3] < b[3]
    <3>1. 3 \in 1 .. 5 /\ \A j \in 1 .. 3 - 1 : a[j] = b[j]
      BY <1>1, <2>2
    <3> QED
      BY <2>2, <3>1
  <2> QED
    BY <1>2, <2>1, <2>2
<1>4. Precedes(a, b)
  <2>1. Len(b) <= Len(a)
    BY <1>1
  <2>2. Precedes(a, b)
          <=> \E i \in 1 .. Len(b) : a[i] < b[i] /\ \A j \in 1 .. i - 1 : a[j] = b[j]
    BY <1>1, <2>1, PrecedesAtByte, Zenon
  <2> QED
    BY <1>1, <1>3, <2>2, Zenon
<1> QED
  BY <1>4 DEF a, b

(* Every other kind of key follows the commitments.                        *)
LEMMA OtherKinds ==
  ASSUME NEW t \in U32, NEW p \in U32, NEW key \in Seq(Int),
         Len(key) >= 1, Len(key) <= 5, key[1] > 99
  PROVE  Precedes(CommitmentKey(t, p), key)
<1> DEFINE a == CommitmentKey(t, p)
<1>1. a \in Seq(Int) /\ Len(a) = 5 /\ a[1] = 99
  BY CommitmentKeyBytes
<1> HIDE DEF a
<1>2. 1 \in DOMAIN a \cap DOMAIN key
  BY <1>1
<1>3. a[1] < key[1] /\ \A j \in 1 .. 1 - 1 : a[j] = key[j]
  BY <1>1
<1>4. Precedes(a, key)
  BY <1>2, <1>3 DEF Precedes
<1> QED
  BY <1>4 DEF a

(* No two numbers have the same digits.                                    *)
LEMMA DigitsInjective ==
  ASSUME NEW a \in U32, NEW b \in U32, a \div Base = b \div Base, a % Base = b % Base
  PROVE  a = b
<1>1. (a \div Base) * Base + (a % Base) = a /\ (b \div Base) * Base + (b % Base) = b
  BY Digits
<1> QED
  BY <1>1

(* A position in use.                                                      *)
LEMMA SlotParts ==
  ASSUME NEW x \in Slots
  PROVE  x[1] \in U32 /\ x[2] \in U32 /\ x = <<x[1], x[2]>> /\ x[1] \in Trees
  BY KeysAssumption DEF Trees

(* A tree in use has a number.                                             *)
LEMMA TreeNumbers == Trees \subseteq U32
  BY SlotParts DEF Trees

(* The keys of two nodes are different.                                    *)
LEMMA CommitmentKeysDiffer ==
  ASSUME NEW x \in Slots, NEW y \in Slots, CommitmentKey(x[1], x[2]) = CommitmentKey(y[1], y[2])
  PROVE  x = y
<1>1. /\ x[1] \in U32 /\ x[2] \in U32 /\ x = <<x[1], x[2]>>
      /\ y[1] \in U32 /\ y[2] \in U32 /\ y = <<y[1], y[2]>>
  BY SlotParts
<1>2. /\ x[1] \div Base = y[1] \div Base /\ x[1] % Base = y[1] % Base
      /\ x[2] \div Base = y[2] \div Base /\ x[2] % Base = y[2] % Base
  BY <1>1, CommitmentKeyBytes
<1>3. x[1] = y[1] /\ x[2] = y[2]
  BY <1>1, <1>2, DigitsInjective
<1> QED
  BY <1>1, <1>3

(* So are the keys of nullifiers.                                          *)
LEMMA NullifierKeysDiffer ==
  ASSUME NEW x \in Trees \X Nullifiers, NEW y \in Trees \X Nullifiers,
         NullifierKey(x[1], x[2]) = NullifierKey(y[1], y[2])
  PROVE  x = y
<1>1. /\ x[1] \in U32 /\ x[2] \in Nullifiers /\ x = <<x[1], x[2]>>
      /\ y[1] \in U32 /\ y[2] \in Nullifiers /\ y = <<y[1], y[2]>>
  BY TreeNumbers
<1>2. /\ x[1] \div Base = y[1] \div Base /\ x[1] % Base = y[1] % Base
      /\ x[2][1] = y[2][1] /\ x[2][2] = y[2][2]
  BY <1>1, NullifierKeyBytes
<1>3. x[1] = y[1]
  BY <1>1, <1>2, DigitsInjective
<1>4. x[2] = y[2]
  <2>1. x[2] \in [1 .. 2 -> 0 .. Base - 1] /\ y[2] \in [1 .. 2 -> 0 .. Base - 1]
    BY <1>1, KeysAssumption
  <2>2. \A i \in 1 .. 2 : x[2][i] = y[2][i]
    BY <1>2
  <2> QED
    BY <2>1, <2>2
<1> QED
  BY <1>1, <1>3, <1>4

(* And those of lengths.                                                   *)
LEMMA LengthKeysDiffer ==
  ASSUME NEW t \in U32, NEW u \in U32, LengthKey(t) = LengthKey(u)
  PROVE  t = u
<1>1. t \div Base = u \div Base /\ t % Base = u % Base
  BY LengthKeyBytes
<1> QED
  BY <1>1, DigitsInjective

(* A key of a table is of one of the kinds.                                *)
LEMMA KindsOfKeys ==
  ASSUME NEW some \in SUBSET Slots, NEW revealed \in SUBSET (Trees \X Nullifiers),
         NEW key \in KeysOf(some, revealed)
  PROVE  /\ key \in Seq(Int) /\ Len(key) >= 1 /\ Len(key) <= 5
         /\ \/ key[1] = 99 /\ \E x \in some : key = CommitmentKey(x[1], x[2])
            \/ key[1] = 109 /\ \E x \in some : key = LengthKey(x[1])
            \/ key[1] = 110 /\ \E x \in revealed : key = NullifierKey(x[1], x[2])
            \/ key[1] \in {103, 115}
<1>1. \A x \in some : x[1] \in U32 /\ x[2] \in U32
  BY SlotParts
<1>2. \A x \in revealed : x[1] \in U32 /\ x[2] \in Nullifiers
  BY TreeNumbers
<1>3. CASE key \in {CommitmentKey(x[1], x[2]) : x \in some}
  <2>1. PICK x \in some : key = CommitmentKey(x[1], x[2])
    BY <1>3
  <2>2. key \in Seq(Int) /\ Len(key) = 5 /\ key[1] = 99
    BY <1>1, <2>1, CommitmentKeyBytes
  <2> QED
    BY <2>1, <2>2
<1>4. CASE key \in {LengthKey(x[1]) : x \in some}
  <2>1. PICK x \in some : key = LengthKey(x[1])
    BY <1>4
  <2>2. key \in Seq(Int) /\ Len(key) = 3 /\ key[1] = 109
    BY <1>1, <2>1, LengthKeyBytes
  <2> QED
    BY <2>1, <2>2
<1>5. CASE key \in {NullifierKey(x[1], x[2]) : x \in revealed}
  <2>1. PICK x \in revealed : key = NullifierKey(x[1], x[2])
    BY <1>5
  <2>2. key \in Seq(Int) /\ Len(key) = 5 /\ key[1] = 110
    BY <1>2, <2>1, NullifierKeyBytes
  <2> QED
    BY <2>1, <2>2
<1>6. CASE key \in {TreeCountKey, SyncedBlockKey}
  <2>1. key \in Seq(Int) /\ Len(key) = 1 /\ key[1] \in {103, 115}
    BY <1>6, CounterKeyBytes
  <2> QED
    BY <2>1
<1> QED
  BY <1>3, <1>4, <1>5, <1>6 DEF KeysOf

-----------------------------------------------------------------------------
(* Point lookups.                                                          *)

(* What is in the base and in the batch stays as it was when the scan      *)
(* began.                                                                  *)
Contents ==
  /\ tree \in Trees
  /\ nodes \in SUBSET Slots
  /\ spent \in SUBSET (Trees \X Nullifiers)
  /\ batch \in UNION {[D -> {Value, Tombstone}] : D \in SUBSET Slots}

(* No step of a scan changes them.                                         *)
LEMMA ContentsKept == Contents /\ [Next]_vars => Contents'
<1> SUFFICES ASSUME Contents, [Next]_vars
             PROVE  Contents'
  OBVIOUS
<1>1. UNCHANGED contents
  BY DEF Next, vars, contents, TakeBase, TakeOverlay, TakeBoth, End, Refill, ScanFails, Done
<1> QED
  BY <1>1 DEF Contents, contents

(* A lookup in the commitments table finds a node, a nullifier of a tree   *)
(* or the length of a tree exactly if it was inserted, for any width of    *)
(* numbers, any positions and any nullifiers.                              *)
THEOREM LookupsAreExact == Spec => []LookupsExact
<1>1. Contents => LookupsExact
  <2> SUFFICES ASSUME Contents
               PROVE  LookupsExact
    OBVIOUS
  <2>0. nodes \in SUBSET Slots /\ spent \in SUBSET (Trees \X Nullifiers)
    BY DEF Contents
  <2>1. ASSUME NEW x \in Slots
        PROVE  CommitmentKey(x[1], x[2]) \in Stored <=> x \in nodes
    <3>1. ASSUME CommitmentKey(x[1], x[2]) \in Stored
          PROVE  x \in nodes
      <4>1. CommitmentKey(x[1], x[2])[1] = 99
        BY SlotParts, CommitmentKeyBytes
      <4>2. PICK y \in nodes : CommitmentKey(x[1], x[2]) = CommitmentKey(y[1], y[2])
        BY <2>0, <3>1, <4>1, KindsOfKeys DEF Stored
      <4> QED
        BY <2>0, <4>2, CommitmentKeysDiffer
    <3> QED
      BY <3>1 DEF Stored, KeysOf
  <2>2. ASSUME NEW x \in Trees \X Nullifiers
        PROVE  NullifierKey(x[1], x[2]) \in Stored <=> x \in spent
    <3>1. ASSUME NullifierKey(x[1], x[2]) \in Stored
          PROVE  x \in spent
      <4>1. NullifierKey(x[1], x[2])[1] = 110
        BY TreeNumbers, NullifierKeyBytes
      <4>2. PICK y \in spent : NullifierKey(x[1], x[2]) = NullifierKey(y[1], y[2])
        BY <2>0, <3>1, <4>1, KindsOfKeys DEF Stored
      <4> QED
        BY <2>0, <4>2, NullifierKeysDiffer
    <3> QED
      BY <3>1 DEF Stored, KeysOf
  <2>3. ASSUME NEW t \in Trees
        PROVE  LengthKey(t) \in Stored <=> \E x \in nodes : x[1] = t
    <3>1. ASSUME LengthKey(t) \in Stored
          PROVE  \E x \in nodes : x[1] = t
      <4>1. LengthKey(t)[1] = 109
        BY TreeNumbers, LengthKeyBytes
      <4>2. PICK y \in nodes : LengthKey(t) = LengthKey(y[1])
        BY <2>0, <3>1, <4>1, KindsOfKeys DEF Stored
      <4>3. y[1] \in U32 /\ t \in U32
        BY <2>0, SlotParts, TreeNumbers
      <4> QED
        BY <4>2, <4>3, LengthKeysDiffer
    <3> QED
      BY <3>1 DEF Stored, KeysOf
  <2> QED
    BY <2>1, <2>2, <2>3 DEF LookupsExact
<1>2. Init => Contents
  BY DEF Init, Contents
<1> QED
  BY <1>1, <1>2, ContentsKept, PTL DEF Spec
-----------------------------------------------------------------------------
(* The scan of a tree.                                                     *)

(* Between the keys of position 0 and u32::MAX of a tree lie the keys of   *)
(* its positions, and no others.                                           *)
LEMMA ScanKeys ==
  ASSUME NEW some \in SUBSET Slots, NEW revealed \in SUBSET (Trees \X Nullifiers),
         NEW more \in SUBSET Slots, tree \in Trees, NEW table,
         \A key : key \in table <=> \/ key \in KeysOf(some, revealed)
                                    \/ \E x \in more : key = CommitmentKey(x[1], x[2])
  PROVE  \A key : key \in Scan(table)
                    <=> \E x \in some \cup more : x[1] = tree /\ key = CommitmentKey(x[1], x[2])
<1> DEFINE first == CommitmentKey(tree, 0)
           last == CommitmentKey(tree, Base * Base - 1)
           mine == {CommitmentKey(x[1], x[2]) : x \in {y \in some \cup more : y[1] = tree}}
<1>0. tree \in U32 /\ 0 \in U32 /\ Base * Base - 1 \in U32
  <2>1. Base * Base \in Nat /\ Base * Base > 1
    BY KeysAssumption
  <2> QED
    BY <2>1, TreeNumbers DEF U32
<1>1. ASSUME NEW key \in table, ~Precedes(key, first), ~Precedes(last, key)
      PROVE  key \in mine
  <2>1. \E x \in some \cup more : key = CommitmentKey(x[1], x[2])
    <3>1. CASE key \in KeysOf(some, revealed)
      <4>1. /\ key \in Seq(Int) /\ Len(key) >= 1 /\ Len(key) <= 5
            /\ \/ \E x \in some : key = CommitmentKey(x[1], x[2])
               \/ key[1] > 99
        BY <3>1, KindsOfKeys
      <4>2. ~(key[1] > 99)
        BY <1>0, <1>1, <4>1, OtherKinds
      <4> QED
        BY <4>1, <4>2
    <3> QED
      BY <3>1
  <2>2. PICK x \in some \cup more : key = CommitmentKey(x[1], x[2])
    BY <2>1
  <2>3. x[1] \in U32 /\ x[2] \in U32
    BY SlotParts
  <2>4. ~(x[1] < tree) /\ ~(tree < x[1])
    BY <1>0, <1>1, <2>2, <2>3, CommitmentTrees
  <2>5. x[1] = tree
    BY <1>0, <2>3, <2>4 DEF U32
  <2> QED
    BY <2>2, <2>5
<1>2. ASSUME NEW key \in mine
      PROVE  key \in table /\ ~Precedes(key, first) /\ ~Precedes(last, key)
  <2>1. PICK x \in some \cup more : x[1] = tree /\ key = CommitmentKey(x[1], x[2])
    BY <1>2
  <2>2. x[2] \in U32 /\ ~(x[2] < 0) /\ ~(Base * Base - 1 < x[2])
    BY KeysAssumption, SlotParts DEF U32
  <2>3. ~Precedes(key, first) /\ ~Precedes(last, key)
    BY <1>0, <2>1, <2>2, CommitmentOrder
  <2>4. key \in table
    BY <2>1 DEF KeysOf
  <2> QED
    BY <2>3, <2>4
<1>3. Scan(table) = mine
  <2> HIDE DEF mine
  <2>1. Scan(table) = {k \in table : ~Precedes(k, first) /\ ~Precedes(last, k)}
    BY DEF Scan, KeyRange
  <2> QED
    BY <1>1, <1>2, <2>1
<1> QED
  BY <1>3

(* What the two iterators give.                                            *)
LEMMA LayerKeys ==
  ASSUME Contents
  PROVE  /\ \A key : key \in Scan(Stored)
                       <=> \E x \in nodes : x[1] = tree /\ key = CommitmentKey(x[1], x[2])
         /\ \A key : key \in Scan(Staged)
                       <=> \E x \in DOMAIN batch : x[1] = tree /\ key = CommitmentKey(x[1], x[2])
         /\ DOMAIN batch \in SUBSET Slots /\ Puts \subseteq DOMAIN batch
<1>1. DOMAIN batch \in SUBSET Slots /\ Puts \in SUBSET Slots /\ Puts \subseteq DOMAIN batch
  BY DEF Contents, Puts
<1>2. nodes \in SUBSET Slots /\ spent \in SUBSET (Trees \X Nullifiers) /\ tree \in Trees
  BY DEF Contents
<1>3. \A key : key \in Scan(Stored)
                 <=> \E x \in nodes : x[1] = tree /\ key = CommitmentKey(x[1], x[2])
  <2> DEFINE none == {}
             table == Stored
  <2>1. none \in SUBSET Slots /\ nodes \cup none = nodes
    OBVIOUS
  <2>2. \A key : key \in table <=> \/ key \in KeysOf(nodes, spent)
                                   \/ \E x \in none : key = CommitmentKey(x[1], x[2])
    BY DEF Stored
  <2> HIDE DEF none, table
  <2>3. \A key : key \in Scan(table)
                   <=> \E x \in nodes \cup none : x[1] = tree /\ key = CommitmentKey(x[1], x[2])
    BY <1>2, <2>1, <2>2, ScanKeys
  <2> QED
    BY <2>1, <2>3 DEF table
<1>4. \A key : key \in Scan(Staged)
                 <=> \E x \in DOMAIN batch : x[1] = tree /\ key = CommitmentKey(x[1], x[2])
  <2> DEFINE none == {}
             table == Staged
             puts == Puts
             all == DOMAIN batch
  <2>1. none \in SUBSET (Trees \X Nullifiers)
    OBVIOUS
  <2>2. \A key : key \in table <=> \/ key \in KeysOf(puts, none)
                                   \/ \E x \in all : key = CommitmentKey(x[1], x[2])
    BY DEF Staged
  <2>3. puts \in SUBSET Slots /\ all \in SUBSET Slots /\ puts \cup all = all
    BY <1>1
  <2> HIDE DEF none, table, puts, all
  <2>4. \A key : key \in Scan(table)
                   <=> \E x \in puts \cup all : x[1] = tree /\ key = CommitmentKey(x[1], x[2])
    BY <1>2, <2>1, <2>2, <2>3, ScanKeys
  <2> QED
    BY <2>3, <2>4 DEF table, all
<1> QED
  BY <1>1, <1>3, <1>4

(* The keys of the tree are its positions, in their order.                 *)
TreeKeys == {CommitmentKey(tree, l) : l \in U32}

(* Order and position of a key of the tree.                                *)
LEMMA TreeKeyOrder ==
  ASSUME tree \in Trees
  PROVE  /\ \A k \in TreeKeys : /\ PositionFromKey(k) \in U32
                                /\ k = CommitmentKey(tree, PositionFromKey(k))
         /\ \A k, o \in TreeKeys : Precedes(k, o) <=> PositionFromKey(k) < PositionFromKey(o)
<1>0. tree \in U32
  BY TreeNumbers
<1>1. ASSUME NEW k \in TreeKeys
      PROVE  PositionFromKey(k) \in U32 /\ k = CommitmentKey(tree, PositionFromKey(k))
  <2>1. PICK l \in U32 : k = CommitmentKey(tree, l)
    BY DEF TreeKeys
  <2> QED
    BY <1>0, <2>1, CommitmentOrder
<1>2. ASSUME NEW k \in TreeKeys, NEW o \in TreeKeys
      PROVE  Precedes(k, o) <=> PositionFromKey(k) < PositionFromKey(o)
  <2>1. /\ PositionFromKey(k) \in U32 /\ k = CommitmentKey(tree, PositionFromKey(k))
        /\ PositionFromKey(o) \in U32 /\ o = CommitmentKey(tree, PositionFromKey(o))
    BY <1>1
  <2> QED
    BY <1>0, <2>1, CommitmentOrder
<1> QED
  BY <1>1, <1>2

(* Which keys of the tree each layer has, and what the scan is to show of  *)
(* them.                                                                   *)
LEMMA KeyContents ==
  ASSUME Contents
  PROVE  /\ Scan(Stored) \subseteq TreeKeys /\ Scan(Staged) \subseteq TreeKeys
         /\ \A k \in TreeKeys :
              LET x == <<tree, PositionFromKey(k)>>
              IN  /\ k \in Scan(Stored) <=> x \in nodes
                  /\ k \in Scan(Staged) <=> x \in DOMAIN batch
                  /\ k \in Scan(Staged) => (Deleted(k) <=> x \notin Puts)
<1>0. tree \in Trees /\ tree \in U32 /\ nodes \in SUBSET Slots /\ DOMAIN batch \in SUBSET Slots
      /\ Puts \subseteq DOMAIN batch
  BY LayerKeys, TreeNumbers DEF Contents
<1>1. \A x \in Slots : x[1] = tree => CommitmentKey(x[1], x[2]) \in TreeKeys
  BY SlotParts DEF TreeKeys
<1>2. ASSUME NEW k \in TreeKeys, NEW x \in Slots
      PROVE  k = CommitmentKey(x[1], x[2]) <=> x = <<tree, PositionFromKey(k)>>
  <2>1. PositionFromKey(k) \in U32 /\ k = CommitmentKey(tree, PositionFromKey(k))
    BY <1>0, TreeKeyOrder
  <2>2. x[1] \in U32 /\ x[2] \in U32 /\ x = <<x[1], x[2]>>
    BY SlotParts
  <2>3. ASSUME k = CommitmentKey(x[1], x[2])
        PROVE  x = <<tree, PositionFromKey(k)>>
    <3>1. /\ x[1] \div Base = tree \div Base /\ x[1] % Base = tree % Base
      BY <1>0, <2>1, <2>2, <2>3, CommitmentKeyBytes
    <3>2. x[1] = tree
      BY <1>0, <2>2, <3>1, DigitsInjective
    <3>3. PositionFromKey(k) = x[2]
      BY <2>2, <2>3, CommitmentOrder
    <3> QED
      BY <2>2, <3>2, <3>3
  <2>4. ASSUME x = <<tree, PositionFromKey(k)>>
        PROVE  k = CommitmentKey(x[1], x[2])
    BY <2>1, <2>4
  <2> QED
    BY <2>3, <2>4
<1>3. ASSUME NEW k \in TreeKeys
      PROVE  LET x == <<tree, PositionFromKey(k)>>
             IN  /\ k \in Scan(Stored) <=> x \in nodes
                 /\ k \in Scan(Staged) <=> x \in DOMAIN batch
                 /\ k \in Scan(Staged) => (Deleted(k) <=> x \notin Puts)
  <2> DEFINE z == <<tree, PositionFromKey(k)>>
  <2>0. z[1] = tree
    OBVIOUS
  <2>1. k \in Scan(Stored) <=> z \in nodes
    <3> HIDE DEF z
    <3>1. k \in Scan(Stored) <=> \E x \in nodes : x[1] = tree /\ k = CommitmentKey(x[1], x[2])
      BY LayerKeys
    <3>2. \A x \in nodes : k = CommitmentKey(x[1], x[2]) <=> x = z
      BY <1>0, <1>2 DEF z
    <3> QED
      BY <2>0, <3>1, <3>2
  <2>2. k \in Scan(Staged) <=> z \in DOMAIN batch
    <3> HIDE DEF z
    <3>1. k \in Scan(Staged)
            <=> \E x \in DOMAIN batch : x[1] = tree /\ k = CommitmentKey(x[1], x[2])
      BY LayerKeys
    <3>2. \A x \in DOMAIN batch : k = CommitmentKey(x[1], x[2]) <=> x = z
      BY <1>0, <1>2 DEF z
    <3> QED
      BY <2>0, <3>1, <3>2
  <2>3. Deleted(k) <=> z \in DOMAIN batch \ Puts
    <3> HIDE DEF z
    <3>1. \A x \in DOMAIN batch \ Puts : k = CommitmentKey(x[1], x[2]) <=> x = z
      BY <1>0, <1>2 DEF z
    <3> QED
      BY <3>1 DEF Deleted
  <2> QED
    BY <2>1, <2>2, <2>3
<1> QED
  BY <1>0, <1>1, <1>3, LayerKeys
(* A non-empty set of keys of the tree has one first key.                  *)
LEMMA FirstKey ==
  ASSUME tree \in Trees, NEW keys \in SUBSET TreeKeys
  PROVE  /\ keys # {} => First(keys) # {}
         /\ \A k, o \in First(keys) : k = o
<1>0. /\ \A k \in TreeKeys : PositionFromKey(k) \in Nat
      /\ \A k, o \in TreeKeys : PositionFromKey(k) = PositionFromKey(o) => k = o
      /\ \A k, o \in TreeKeys : Precedes(k, o) <=> PositionFromKey(k) < PositionFromKey(o)
  BY TreeKeyOrder DEF U32
<1>1. ASSUME keys # {}
      PROVE  First(keys) # {}
  <2> DEFINE S == {PositionFromKey(k) : k \in keys}
  <2>1. S \subseteq Nat /\ S # {}
    BY <1>0, <1>1
  <2>2. PICK m \in S : \A y \in S : ~(<<y, m>> \in OpToRel(<, Nat))
    BY <2>1, WFMin, NatLessThanWellFounded
  <2>3. m \in Nat /\ \A y \in S : y \in Nat /\ ~(y < m)
    BY <2>1, <2>2 DEF OpToRel
  <2>4. PICK k \in keys : PositionFromKey(k) = m
    BY <2>2
  <2>5. \A o \in keys : PositionFromKey(o) \in Nat /\ ~(PositionFromKey(o) < PositionFromKey(k))
    BY <2>3, <2>4
  <2>6. \A o \in keys : o = k \/ Precedes(k, o)
    BY <1>0, <2>4, <2>5
  <2> QED
    BY <2>6 DEF First
<1>2. \A k, o \in First(keys) : k = o
  <2> SUFFICES ASSUME NEW k \in First(keys), NEW o \in First(keys), k # o
               PROVE  FALSE
    OBVIOUS
  <2>1. k \in TreeKeys /\ o \in TreeKeys /\ Precedes(k, o) /\ Precedes(o, k)
    BY DEF First
  <2> QED
    BY <1>0, <2>1
<1> QED
  BY <1>1, <1>2

(* A peek holds at most one key, which comes before those of its iterator. *)
Ahead(peek, rest) ==
  /\ \A k, o \in peek : k = o
  /\ \A k \in peek, o \in rest : Precedes(k, o)

(* A refill keeps the keys that are yet to be given, and leaves the first  *)
(* of them, if there is one, in the peek.                                  *)
LEMMA Refilled ==
  ASSUME tree \in Trees, NEW peek \in SUBSET TreeKeys, NEW rest \in SUBSET TreeKeys,
         Ahead(peek, rest)
  PROVE  /\ Peeked(peek, rest) \cup Rest(peek, rest) = peek \cup rest
         /\ Ahead(Peeked(peek, rest), Rest(peek, rest))
         /\ Peeked(peek, rest) = {} => peek \cup rest = {}
         /\ \A k \in Peeked(peek, rest) : Rest(peek, rest) = (peek \cup rest) \ {k}
<1>0. \A k \in TreeKeys : ~Precedes(k, k)
  BY TreeKeyOrder DEF U32
<1>1. CASE peek = {}
  <2>1. /\ Peeked(peek, rest) = First(rest) /\ Rest(peek, rest) = rest \ First(rest)
        /\ First(rest) \subseteq rest
    BY <1>1 DEF Peeked, Rest, First
  <2>2. (rest # {} => First(rest) # {}) /\ \A k, o \in First(rest) : k = o
    BY FirstKey
  <2>3. \A k \in First(rest), o \in rest \ First(rest) : Precedes(k, o)
    BY DEF First
  <2>4. \A k \in First(rest) : rest \ First(rest) = rest \ {k}
    BY <2>2
  <2> QED
    BY <1>1, <2>1, <2>2, <2>3, <2>4 DEF Ahead
<1>2. CASE peek # {}
  <2>1. Peeked(peek, rest) = peek /\ Rest(peek, rest) = rest
    BY <1>2 DEF Peeked, Rest
  <2>2. \A k \in peek : rest = (peek \cup rest) \ {k}
    BY <1>0 DEF Ahead
  <2> QED
    BY <1>2, <2>1, <2>2
<1> QED
  BY <1>1, <1>2

(* Where a scan is: b and o are the keys yet to be taken from the base and *)
(* from the batch, and given is what it has returned.  A key that was      *)
(* taken precedes all that were not, and the visible entries returned are  *)
(* exactly those whose keys were taken.                                    *)
Progress(b, o, given) ==
  /\ b \subseteq Scan(Stored) /\ o \subseteq Scan(Staged)
  /\ \A taken \in (Scan(Stored) \ b) \cup (Scan(Staged) \ o), k \in b \cup o : Precedes(taken, k)
  /\ given \in Seq(U32 \X {"staged", "stored"})
  /\ \A i, j \in 1 .. Len(given) : i < j => given[i][1] < given[j][1]
  /\ \A i \in 1 .. Len(given) :
       given[i] \in Visible /\ CommitmentKey(tree, given[i][1]) \notin b \cup o
  /\ \A entry \in Visible : \/ \E i \in 1 .. Len(given) : given[i] = entry
                            \/ CommitmentKey(tree, entry[1]) \in b \cup o

ScanInv ==
  /\ Contents
  /\ Ahead(base_peek, base) /\ Ahead(overlay_peek, overlay)
  /\ Progress(base_peek \cup base, overlay_peek \cup overlay, out)
  /\ status = "end" => base_peek \cup base = {} /\ overlay_peek \cup overlay = {}

(* An entry of the scan is one of a key of the tree, and there is one at   *)
(* most for each.                                                          *)
LEMMA VisibleEntries ==
  ASSUME Contents
  PROVE  /\ Visible \subseteq U32 \X {"staged", "stored"}
         /\ \A entry \in Visible :
              CommitmentKey(tree, entry[1]) \in Scan(Stored) \cup Scan(Staged)
         /\ \A entry, other \in Visible : entry[1] = other[1] => entry = other
<1>0. /\ tree \in Trees /\ tree \in U32 /\ nodes \subseteq Slots /\ Puts \subseteq DOMAIN batch
      /\ DOMAIN batch \subseteq Slots
  BY LayerKeys, TreeNumbers DEF Contents
<1>1. ASSUME NEW entry \in Visible
      PROVE  /\ entry \in U32 \X {"staged", "stored"}
             /\ entry[2] = "staged" => <<tree, entry[1]>> \in Puts
             /\ entry[2] = "stored" => <<tree, entry[1]>> \in nodes \ DOMAIN batch
  <2>1. CASE entry \in {<<x[2], "staged">> : x \in {y \in Puts : y[1] = tree}}
    <3>1. PICK x \in Puts : x[1] = tree /\ entry = <<x[2], "staged">>
      BY <2>1
    <3>2. x = <<tree, x[2]>> /\ x[2] \in U32
      BY <1>0, <3>1, SlotParts
    <3> QED
      BY <3>1, <3>2
  <2>2. CASE entry \in {<<x[2], "stored">> : x \in {y \in nodes \ DOMAIN batch : y[1] = tree}}
    <3>1. PICK x \in nodes \ DOMAIN batch : x[1] = tree /\ entry = <<x[2], "stored">>
      BY <2>2
    <3>2. x = <<tree, x[2]>> /\ x[2] \in U32
      BY <1>0, <3>1, SlotParts
    <3> QED
      BY <3>1, <3>2
  <2> QED
    BY <2>1, <2>2 DEF Visible
<1>2. ASSUME NEW entry \in Visible
      PROVE  CommitmentKey(tree, entry[1]) \in Scan(Stored) \cup Scan(Staged)
  <2>1. CommitmentKey(tree, entry[1]) \in TreeKeys
        /\ PositionFromKey(CommitmentKey(tree, entry[1])) = entry[1]
    BY <1>0, <1>1, CommitmentOrder DEF TreeKeys
  <2>2. <<tree, entry[1]>> \in nodes \/ <<tree, entry[1]>> \in DOMAIN batch
    BY <1>0, <1>1
  <2> QED
    BY <2>1, <2>2, KeyContents
<1>3. ASSUME NEW entry \in Visible, NEW other \in Visible, entry[1] = other[1]
      PROVE  entry = other
  <2>1. /\ entry = <<entry[1], entry[2]>> /\ entry[2] \in {"staged", "stored"}
        /\ entry[2] = "staged" => <<tree, entry[1]>> \in DOMAIN batch
        /\ entry[2] = "stored" => <<tree, entry[1]>> \notin DOMAIN batch
    BY <1>0, <1>1
  <2>2. /\ other = <<other[1], other[2]>> /\ other[2] \in {"staged", "stored"}
        /\ other[2] = "staged" => <<tree, other[1]>> \in DOMAIN batch
        /\ other[2] = "stored" => <<tree, other[1]>> \notin DOMAIN batch
    BY <1>0, <1>1
  <2>3. /\ other[2] = "staged" => <<tree, entry[1]>> \in DOMAIN batch
        /\ other[2] = "stored" => <<tree, entry[1]>> \notin DOMAIN batch
    BY <1>3, <2>2, Zenon
  <2>4. entry[2] = other[2]
    <3> DEFINE staged == <<tree, entry[1]>> \in DOMAIN batch
    <3>1. /\ entry[2] \in {"staged", "stored"} /\ other[2] \in {"staged", "stored"}
          /\ entry[2] = "staged" => staged
          /\ entry[2] = "stored" => ~staged
          /\ other[2] = "staged" => staged
          /\ other[2] = "stored" => ~staged
      BY <2>1, <2>2, <2>3
    <3> HIDE DEF staged
    <3> QED
      BY <3>1
  <2> QED
    BY <1>3, <2>1, <2>2, <2>4, Zenon
<1> QED
  BY <1>1, <1>2, <1>3
(* Taking the first of all keys that are left, and returning its entry if  *)
(* it has one, is progress.                                                *)
LEMMA TakeFirst ==
  ASSUME Contents, NEW b, NEW o, NEW given, Progress(b, o, given),
         NEW key \in b \cup o, \A other \in b \cup o : other = key \/ Precedes(key, other),
         NEW then,
         \/ then = given /\ \A entry \in Visible : entry[1] # PositionFromKey(key)
         \/ \E entry \in Visible : entry[1] = PositionFromKey(key) /\ then = Append(given, entry)
  PROVE  Progress(b \ {key}, o \ {key}, then)
<1> DEFINE left == b \cup o
           rest == (b \ {key}) \cup (o \ {key})
<1>0. /\ tree \in Trees /\ tree \in U32
      /\ Scan(Stored) \subseteq TreeKeys /\ Scan(Staged) \subseteq TreeKeys
  BY KeyContents, TreeNumbers DEF Contents
<1>1. /\ b \subseteq Scan(Stored) /\ o \subseteq Scan(Staged)
      /\ \A taken \in (Scan(Stored) \ b) \cup (Scan(Staged) \ o), k \in left : Precedes(taken, k)
      /\ given \in Seq(U32 \X {"staged", "stored"})
      /\ \A i, j \in 1 .. Len(given) : i < j => given[i][1] < given[j][1]
      /\ \A i \in 1 .. Len(given) :
           given[i] \in Visible /\ CommitmentKey(tree, given[i][1]) \notin left
      /\ \A entry \in Visible : \/ \E i \in 1 .. Len(given) : given[i] = entry
                                \/ CommitmentKey(tree, entry[1]) \in left
  BY DEF Progress
<1>2. /\ key \in TreeKeys /\ left \subseteq TreeKeys /\ rest = left \ {key}
      /\ PositionFromKey(key) \in U32 /\ key = CommitmentKey(tree, PositionFromKey(key))
  BY <1>0, <1>1, TreeKeyOrder
<1>3. ASSUME NEW l \in U32
      PROVE  /\ CommitmentKey(tree, l) \in TreeKeys
             /\ PositionFromKey(CommitmentKey(tree, l)) = l
             /\ CommitmentKey(tree, l) = key <=> l = PositionFromKey(key)
  BY <1>0, <1>2, CommitmentOrder DEF TreeKeys
<1>4. \A taken \in (Scan(Stored) \ (b \ {key})) \cup (Scan(Staged) \ (o \ {key})), k \in rest :
        Precedes(taken, k)
  <2> SUFFICES ASSUME NEW taken \in (Scan(Stored) \ (b \ {key})) \cup (Scan(Staged) \ (o \ {key})),
                      NEW k \in rest
               PROVE  Precedes(taken, k)
    OBVIOUS
  <2>1. k \in left /\ k # key
    BY <1>2
  <2>2. CASE taken = key
    BY <2>1, <2>2
  <2>3. CASE taken # key
    BY <1>1, <2>1, <2>3
  <2> QED
    BY <2>2, <2>3
<1>5. \A entry \in Visible : entry[1] \in U32
  BY VisibleEntries
<1>6. ASSUME NEW entry \in Visible, CommitmentKey(tree, entry[1]) \notin left
      PROVE  entry[1] < PositionFromKey(key)
  <2> DEFINE k == CommitmentKey(tree, entry[1])
  <2>1. k \in (Scan(Stored) \ b) \cup (Scan(Staged) \ o)
    BY <1>6, VisibleEntries
  <2>2. Precedes(k, key)
    BY <1>1, <2>1
  <2>3. k \in TreeKeys /\ PositionFromKey(k) = entry[1]
    BY <1>3, <1>5
  <2> HIDE DEF k
  <2> QED
    BY <1>0, <1>2, <2>2, <2>3, TreeKeyOrder
<1>7. CASE then = given /\ \A entry \in Visible : entry[1] # PositionFromKey(key)
  <2>1. \A i \in 1 .. Len(given) :
          given[i] \in Visible /\ CommitmentKey(tree, given[i][1]) \notin rest
    BY <1>1, <1>2
  <2>2. \A entry \in Visible : \/ \E i \in 1 .. Len(given) : given[i] = entry
                               \/ CommitmentKey(tree, entry[1]) \in rest
    BY <1>1, <1>2, <1>3, <1>5, <1>7
  <2> QED
    BY <1>1, <1>4, <1>7, <2>1, <2>2 DEF Progress
<1>8. CASE \E entry \in Visible : entry[1] = PositionFromKey(key) /\ then = Append(given, entry)
  <2>1. PICK e \in Visible : e[1] = PositionFromKey(key) /\ then = Append(given, e)
    BY <1>8
  <2>2. e \in U32 \X {"staged", "stored"}
    BY VisibleEntries
  <2>3. /\ then \in Seq(U32 \X {"staged", "stored"}) /\ Len(then) = Len(given) + 1
        /\ Len(given) \in Nat
        /\ \A i \in 1 .. Len(given) : then[i] = given[i]
        /\ then[Len(given) + 1] = e
    BY <1>1, <2>1, <2>2
  <2>4. \A i \in 1 .. Len(then) : i \in 1 .. Len(given) \/ i = Len(given) + 1
    BY <2>3
  <2>5. \A i, j \in 1 .. Len(then) : i < j => then[i][1] < then[j][1]
    <3> SUFFICES ASSUME NEW i \in 1 .. Len(then), NEW j \in 1 .. Len(then), i < j
                 PROVE  then[i][1] < then[j][1]
      OBVIOUS
    <3>1. i \in 1 .. Len(given)
      BY <2>3, <2>4
    <3>2. CASE j \in 1 .. Len(given)
      BY <1>1, <2>3, <3>1, <3>2
    <3>3. CASE j = Len(given) + 1
      <4>1. given[i] \in Visible /\ CommitmentKey(tree, given[i][1]) \notin left
        BY <1>1, <3>1
      <4>2. given[i][1] < PositionFromKey(key)
        BY <1>6, <4>1
      <4> QED
        BY <2>1, <2>3, <3>1, <3>3, <4>2
    <3> QED
      BY <2>4, <3>2, <3>3
  <2>6. \A i \in 1 .. Len(then) :
          then[i] \in Visible /\ CommitmentKey(tree, then[i][1]) \notin rest
    <3> SUFFICES ASSUME NEW i \in 1 .. Len(then)
                 PROVE  then[i] \in Visible /\ CommitmentKey(tree, then[i][1]) \notin rest
      OBVIOUS
    <3>1. CASE i \in 1 .. Len(given)
      BY <1>1, <1>2, <2>3, <3>1
    <3>2. CASE i = Len(given) + 1
      <4>1. then[i] = e /\ CommitmentKey(tree, e[1]) = key
        BY <1>2, <2>1, <2>3, <3>2
      <4> QED
        BY <1>2, <4>1
    <3> QED
      BY <2>4, <3>1, <3>2
  <2>7. ASSUME NEW entry \in Visible
        PROVE  \/ \E i \in 1 .. Len(then) : then[i] = entry
               \/ CommitmentKey(tree, entry[1]) \in rest
    <3>1. CASE \E i \in 1 .. Len(given) : given[i] = entry
      <4>1. PICK i \in 1 .. Len(given) : given[i] = entry
        BY <3>1
      <4>2. i \in 1 .. Len(then) /\ then[i] = entry
        BY <2>3, <4>1
      <4> QED
        BY <4>2
    <3>2. CASE CommitmentKey(tree, entry[1]) \in left /\ CommitmentKey(tree, entry[1]) # key
      BY <1>2, <3>2
    <3>3. CASE CommitmentKey(tree, entry[1]) = key
      <4>1. entry[1] = e[1]
        BY <1>3, <1>5, <2>1, <3>3
      <4>2. entry = e
        BY <4>1, VisibleEntries
      <4>3. Len(given) + 1 \in 1 .. Len(then)
        BY <2>3
      <4> QED
        BY <2>3, <4>2, <4>3
    <3> QED
      BY <1>1, <3>1, <3>2, <3>3
  <2> QED
    BY <1>1, <1>4, <2>3, <2>5, <2>6, <2>7 DEF Progress
<1> QED
  BY <1>7, <1>8
(* The scan starts with everything before it.                              *)
LEMMA ScanInvInit == Init => ScanInv
<1> SUFFICES ASSUME Init
             PROVE  ScanInv
  OBVIOUS
<1>1. Contents
  BY DEF Init, Contents
<1>2. /\ base = Scan(Stored) /\ overlay = Scan(Staged)
      /\ base_peek = {} /\ overlay_peek = {} /\ out = <<>> /\ status = "open"
  BY DEF Init
<1>3. /\ <<>> \in Seq(U32 \X {"staged", "stored"}) /\ Len(<<>>) = 0
      /\ 1 .. 0 = {}
  OBVIOUS
<1>4. \A entry \in Visible : CommitmentKey(tree, entry[1]) \in Scan(Stored) \cup Scan(Staged)
  BY <1>1, VisibleEntries
<1>5. Progress(Scan(Stored), Scan(Staged), <<>>)
  BY <1>3, <1>4 DEF Progress
<1>6. base_peek \cup base = Scan(Stored) /\ overlay_peek \cup overlay = Scan(Staged)
  BY <1>2
<1>7. Progress(base_peek \cup base, overlay_peek \cup overlay, out)
  BY <1>2, <1>5, <1>6
<1>8. Ahead(base_peek, base) /\ Ahead(overlay_peek, overlay)
  BY <1>2 DEF Ahead
<1> QED
  BY <1>1, <1>2, <1>7, <1>8 DEF ScanInv

(* The order of the tree's keys is transitive and nothing precedes itself. *)
LEMMA TreeKeysOrdered ==
  ASSUME tree \in Trees
  PROVE  /\ \A k \in TreeKeys : ~Precedes(k, k)
         /\ \A k, m, o \in TreeKeys : Precedes(k, m) /\ Precedes(m, o) => Precedes(k, o)
<1>1. \A k \in TreeKeys : PositionFromKey(k) \in Int
  BY TreeKeyOrder DEF U32
<1> QED
  BY <1>1, TreeKeyOrder

(* A turn of the loop that takes nothing it should not keeps the           *)
(* invariant.                                                              *)
LEMMA ScanInvNext == ScanInv /\ [Next]_vars => ScanInv'
<1> SUFFICES ASSUME ScanInv, [Next]_vars
             PROVE  ScanInv'
  OBVIOUS
<1>0. UNCHANGED contents /\ Contents /\ Contents'
  <2>1. UNCHANGED contents
    BY DEF Next, vars, contents, TakeBase, TakeOverlay, TakeBoth, End, Refill, ScanFails, Done
  <2> QED
    BY <2>1, ContentsKept DEF ScanInv
<1>1. \A b, o, given : Progress(b, o, given) => Progress(b, o, given)'
  <2>1. tree' = tree /\ nodes' = nodes /\ spent' = spent /\ batch' = batch
    BY <1>0 DEF contents
  <2>2. Puts' = Puts
    BY <2>1 DEF Puts
  <2>3. Stored' = Stored /\ Staged' = Staged /\ Visible' = Visible
    BY <2>1, <2>2 DEF Stored, Staged, Visible
  <2>4. Scan(Stored)' = Scan(Stored) /\ Scan(Staged)' = Scan(Staged)
    BY <2>1, <2>3 DEF Scan
  <2> QED
    BY <2>1, <2>3, <2>4 DEF Progress
<1> DEFINE b == base_peek \cup base
           o == overlay_peek \cup overlay
           r == Rest(base_peek, base)
           q == Rest(overlay_peek, overlay)
<1>2. /\ Progress(b, o, out) /\ Ahead(base_peek, base) /\ Ahead(overlay_peek, overlay)
      /\ status = "end" => b = {} /\ o = {}
  BY DEF ScanInv
<1>3. tree \in Trees /\ b \subseteq Scan(Stored) /\ o \subseteq Scan(Staged)
      /\ Scan(Stored) \subseteq TreeKeys /\ Scan(Staged) \subseteq TreeKeys
  BY <1>0, <1>2, KeyContents DEF Progress, Contents
<1>4. /\ BasePeek \cup r = b /\ Ahead(BasePeek, r) /\ (BasePeek = {} => b = {})
      /\ \A k \in BasePeek : r = b \ {k}
  <2>1. base_peek \in SUBSET TreeKeys /\ base \in SUBSET TreeKeys
    BY <1>3
  <2> QED
    BY <1>2, <1>3, <2>1, Refilled DEF BasePeek
<1>5. /\ OverlayPeek \cup q = o /\ Ahead(OverlayPeek, q) /\ (OverlayPeek = {} => o = {})
      /\ \A k \in OverlayPeek : q = o \ {k}
  <2>1. overlay_peek \in SUBSET TreeKeys /\ overlay \in SUBSET TreeKeys
    BY <1>3
  <2> QED
    BY <1>2, <1>3, <2>1, Refilled DEF OverlayPeek
<1>6. ASSUME Refill
      PROVE  base' = r /\ overlay' = q /\ status = "open"
  BY <1>6 DEF Refill
<1> HIDE DEF r, q
<1>7. /\ \A k \in BasePeek, other \in b : other = k \/ Precedes(k, other)
      /\ \A k \in OverlayPeek, other \in o : other = k \/ Precedes(k, other)
  BY <1>4, <1>5 DEF Ahead
<1>8. \A rest : Ahead({}, rest)
  BY DEF Ahead
<1>9. ASSUME NEW key \in o, PositionFromKey(key) \in U32,
             ReturnStaged(key)
      PROVE  \/ out' = out /\ \A entry \in Visible : entry[1] # PositionFromKey(key)
             \/ \E entry \in Visible :
                  entry[1] = PositionFromKey(key) /\ out' = Append(out, entry)
  <2> DEFINE x == <<tree, PositionFromKey(key)>>
  <2>1. key \in TreeKeys /\ key \in Scan(Staged) /\ x \in DOMAIN batch
        /\ (Deleted(key) <=> x \notin Puts)
    BY <1>0, <1>3, KeyContents
  <2>2. CASE Deleted(key)
    <3>1. x \notin Puts /\ x \notin nodes \ DOMAIN batch
      BY <2>1, <2>2
    <3>2. \A y \in Puts \cup (nodes \ DOMAIN batch) : y = <<y[1], y[2]>>
      BY <1>0, LayerKeys, SlotParts DEF Contents
    <3>3. ASSUME NEW entry \in Visible, entry[1] = PositionFromKey(key)
          PROVE  FALSE
      <4>1. PICK y \in Puts \cup (nodes \ DOMAIN batch) : y[1] = tree /\ entry[1] = y[2]
        BY DEF Visible
      <4>2. y = x
        BY <3>2, <3>3, <4>1
      <4> QED
        BY <3>1, <4>1, <4>2
    <3>4. out' = out
      BY <1>9, <2>2 DEF ReturnStaged
    <3> QED
      BY <3>3, <3>4
  <2>3. CASE ~Deleted(key)
    <3>1. x \in Puts /\ x[1] = tree /\ x[2] = PositionFromKey(key)
      BY <2>1, <2>3
    <3>2. <<PositionFromKey(key), "staged">> \in Visible
      BY <3>1 DEF Visible
    <3>3. out' = Append(out, <<PositionFromKey(key), "staged">>)
      BY <1>9, <2>3 DEF ReturnStaged
    <3> QED
      BY <3>2, <3>3
  <2> QED
    BY <2>2, <2>3
<1>10. \A k \in b \cup o : k \in TreeKeys /\ PositionFromKey(k) \in U32
  BY <1>3, TreeKeyOrder
<1> HIDE DEF b, o
<1>11. CASE TakeBase
  <2>1. Refill /\ base_peek' = {} /\ overlay_peek' = OverlayPeek /\ status' = status
    BY <1>11 DEF TakeBase
  <2>2. PICK key \in BasePeek : /\ \A other \in OverlayPeek : Precedes(key, other)
                                /\ out' = Append(out, <<PositionFromKey(key), "stored">>)
    BY <1>11 DEF TakeBase
  <2>3. key \in b /\ key \in TreeKeys /\ r = b \ {key}
    BY <1>4, <1>10, <2>2
  <2>4. \A other \in o : Precedes(key, other)
    <3> SUFFICES ASSUME NEW other \in o
                 PROVE  Precedes(key, other)
      OBVIOUS
    <3>1. PICK k \in OverlayPeek : TRUE
      BY <1>5
    <3>2. k \in TreeKeys /\ other \in TreeKeys /\ Precedes(key, k)
          /\ (other = k \/ Precedes(k, other))
      BY <1>5, <1>7, <1>10, <2>2, <3>1
    <3> QED
      BY <1>3, <2>3, <3>2, TreeKeysOrdered
  <2>5. key \notin o
    BY <1>3, <2>3, <2>4, TreeKeysOrdered
  <2>6. key \notin Scan(Staged)
    <3>1. ~Precedes(key, key)
      BY <1>3, <2>3, TreeKeysOrdered
    <3> QED
      BY <1>2, <2>3, <2>5, <3>1 DEF Progress
  <2>7. <<PositionFromKey(key), "stored">> \in Visible
    <3> DEFINE x == <<tree, PositionFromKey(key)>>
    <3>1. x \in nodes \ DOMAIN batch
      BY <1>0, <1>3, <2>3, <2>6, KeyContents
    <3>2. x[1] = tree /\ x[2] = PositionFromKey(key)
      OBVIOUS
    <3> HIDE DEF x
    <3>3. <<x[2], "stored">> \in Visible
      BY <3>1, <3>2 DEF Visible
    <3> QED
      BY <3>2, <3>3
  <2>8. \A other \in b \cup o : other = key \/ Precedes(key, other)
    BY <1>7, <2>4
  <2>9. \E entry \in Visible : entry[1] = PositionFromKey(key) /\ out' = Append(out, entry)
    BY <2>2, <2>7
  <2>10. Progress(b \ {key}, o \ {key}, out')
    BY <1>0, <1>2, <2>3, <2>8, <2>9, TakeFirst
  <2>11. o \ {key} = o
    BY <2>5
  <2>12. base_peek' \cup base' = b \ {key} /\ overlay_peek' \cup overlay' = o \ {key}
    BY <1>5, <1>6, <2>1, <2>3, <2>11
  <2>13. Progress(base_peek \cup base, overlay_peek \cup overlay, out)'
    BY <1>1, <2>10, <2>12
  <2>14. Ahead(base_peek, base)' /\ Ahead(overlay_peek, overlay)'
    BY <1>5, <1>6, <1>8, <2>1
  <2> QED
    BY <1>0, <1>6, <2>1, <2>13, <2>14 DEF ScanInv
<1>12. CASE TakeOverlay
  <2>1. Refill /\ base_peek' = BasePeek /\ overlay_peek' = {} /\ status' = status
    BY <1>12 DEF TakeOverlay
  <2>2. PICK key \in OverlayPeek : /\ \A other \in BasePeek : Precedes(key, other)
                                   /\ ReturnStaged(key)
    BY <1>12 DEF TakeOverlay
  <2>3. key \in o /\ key \in TreeKeys /\ q = o \ {key} /\ PositionFromKey(key) \in U32
    BY <1>5, <1>10, <2>2
  <2>4. \A other \in b : Precedes(key, other)
    <3> SUFFICES ASSUME NEW other \in b
                 PROVE  Precedes(key, other)
      OBVIOUS
    <3>1. PICK k \in BasePeek : TRUE
      BY <1>4
    <3>2. k \in TreeKeys /\ other \in TreeKeys /\ Precedes(key, k)
          /\ (other = k \/ Precedes(k, other))
      BY <1>4, <1>7, <1>10, <2>2, <3>1
    <3> QED
      BY <1>3, <2>3, <3>2, TreeKeysOrdered
  <2>5. key \notin b
    BY <1>3, <2>3, <2>4, TreeKeysOrdered
  <2>6. \A other \in b \cup o : other = key \/ Precedes(key, other)
    BY <1>7, <2>4
  <2>7. \/ out' = out /\ \A entry \in Visible : entry[1] # PositionFromKey(key)
        \/ \E entry \in Visible : entry[1] = PositionFromKey(key) /\ out' = Append(out, entry)
    BY <1>9, <2>2, <2>3
  <2>8. Progress(b \ {key}, o \ {key}, out')
    BY <1>0, <1>2, <2>3, <2>6, <2>7, TakeFirst
  <2>9. b \ {key} = b
    BY <2>5
  <2>10. base_peek' \cup base' = b \ {key} /\ overlay_peek' \cup overlay' = o \ {key}
    BY <1>4, <1>6, <2>1, <2>3, <2>9
  <2>11. Progress(base_peek \cup base, overlay_peek \cup overlay, out)'
    BY <1>1, <2>8, <2>10
  <2>12. Ahead(base_peek, base)' /\ Ahead(overlay_peek, overlay)'
    BY <1>4, <1>6, <1>8, <2>1
  <2> QED
    BY <1>0, <1>6, <2>1, <2>11, <2>12 DEF ScanInv
<1>13. CASE TakeBoth
  <2>1. Refill /\ base_peek' = {} /\ overlay_peek' = {} /\ status' = status
    BY <1>13 DEF TakeBoth
  <2>2. PICK key \in BasePeek \cap OverlayPeek : ReturnStaged(key)
    BY <1>13 DEF TakeBoth
  <2>3. /\ key \in b /\ key \in o /\ PositionFromKey(key) \in U32
        /\ r = b \ {key} /\ q = o \ {key}
    BY <1>4, <1>5, <1>10, <2>2
  <2>4. \A other \in b \cup o : other = key \/ Precedes(key, other)
    BY <1>7, <2>2
  <2>5. \/ out' = out /\ \A entry \in Visible : entry[1] # PositionFromKey(key)
        \/ \E entry \in Visible : entry[1] = PositionFromKey(key) /\ out' = Append(out, entry)
    BY <1>9, <2>2, <2>3
  <2>6. Progress(b \ {key}, o \ {key}, out')
    BY <1>0, <1>2, <2>3, <2>4, <2>5, TakeFirst
  <2>7. base_peek' \cup base' = b \ {key} /\ overlay_peek' \cup overlay' = o \ {key}
    BY <1>6, <2>1, <2>3
  <2>8. Progress(base_peek \cup base, overlay_peek \cup overlay, out)'
    BY <1>1, <2>6, <2>7
  <2>9. Ahead(base_peek, base)' /\ Ahead(overlay_peek, overlay)'
    BY <1>8, <2>1
  <2> QED
    BY <1>0, <1>6, <2>1, <2>8, <2>9 DEF ScanInv
<1>14. CASE End
  <2>1. /\ Refill /\ BasePeek = {} /\ OverlayPeek = {}
        /\ base_peek' = base_peek /\ overlay_peek' = overlay_peek /\ out' = out
    BY <1>14 DEF End
  <2>2. b = {} /\ o = {} /\ r = {} /\ q = {}
    BY <1>4, <1>5, <2>1
  <2>3. base_peek = {} /\ overlay_peek = {}
    BY <2>2 DEF b, o
  <2>4. base_peek' \cup base' = b /\ overlay_peek' \cup overlay' = o
    BY <1>6, <2>1, <2>2, <2>3
  <2>5. Progress(base_peek \cup base, overlay_peek \cup overlay, out)'
    BY <1>1, <1>2, <2>1, <2>4
  <2>6. Ahead(base_peek, base)' /\ Ahead(overlay_peek, overlay)'
    BY <1>8, <2>1, <2>3
  <2> QED
    BY <1>0, <2>2, <2>4, <2>5, <2>6 DEF ScanInv
<1>15. CASE ScanFails \/ Done \/ UNCHANGED vars
  <2>1. /\ base' = base /\ overlay' = overlay /\ base_peek' = base_peek
        /\ overlay_peek' = overlay_peek /\ out' = out
        /\ status' = "err" \/ status' = status
    BY <1>15 DEF ScanFails, Done, vars
  <2>2. Progress(base_peek \cup base, overlay_peek \cup overlay, out)'
    BY <1>1, <1>2, <2>1 DEF b, o
  <2>3. Ahead(base_peek, base)' /\ Ahead(overlay_peek, overlay)'
    BY <1>2, <2>1 DEF Ahead
  <2> QED
    BY <1>0, <1>2, <2>1, <2>2, <2>3 DEF ScanInv, b, o
<1> QED
  BY <1>11, <1>12, <1>13, <1>14, <1>15 DEF Next

(* A scan of a tree through a batch returns the tree as the batch leaves   *)
(* it, in position order, at any moment the beginning of it and at the end *)
(* all of it, for any contents of base and batch.                          *)
THEOREM ScansAreExact == Spec => []ScanExact
<1>1. ScanInv => ScanExact
  <2> SUFFICES ASSUME ScanInv
               PROVE  ScanExact
    OBVIOUS
  <2> DEFINE b == base_peek \cup base
             o == overlay_peek \cup overlay
  <2>0. /\ Contents /\ Progress(b, o, out) /\ (status = "end" => b = {} /\ o = {})
        /\ tree \in Trees /\ tree \in U32
        /\ Scan(Stored) \subseteq TreeKeys /\ Scan(Staged) \subseteq TreeKeys
    BY KeyContents, TreeNumbers DEF ScanInv, Contents
  <2> HIDE DEF b, o
  <2>1. DOMAIN out = 1 .. Len(out)
    BY <2>0 DEF Progress
  <2>2. /\ \A i, j \in DOMAIN out : i < j => out[i][1] < out[j][1]
        /\ \A i \in DOMAIN out : out[i] \in Visible
    BY <2>0, <2>1 DEF Progress
  <2>3. ASSUME NEW entry \in Visible, ~(\E i \in DOMAIN out : out[i] = entry)
        PROVE  status # "end" /\ \A i \in DOMAIN out : out[i][1] < entry[1]
    <3> DEFINE k == CommitmentKey(tree, entry[1])
    <3>1. k \in b \cup o
      BY <2>0, <2>1, <2>3 DEF Progress
    <3>2. k \in TreeKeys /\ PositionFromKey(k) = entry[1]
      <4>1. entry[1] \in U32
        BY <2>0, VisibleEntries
      <4> QED
        BY <2>0, <4>1, CommitmentOrder DEF TreeKeys
    <3> HIDE DEF k
    <3>3. ASSUME NEW i \in DOMAIN out
          PROVE  out[i][1] < entry[1]
      <4> DEFINE m == CommitmentKey(tree, out[i][1])
      <4>1. out[i] \in Visible /\ m \notin b \cup o
        BY <2>0, <2>1 DEF Progress
      <4>2. m \in (Scan(Stored) \ b) \cup (Scan(Staged) \ o)
        BY <2>0, <4>1, VisibleEntries
      <4>3. m \in TreeKeys /\ PositionFromKey(m) = out[i][1]
        <5>1. out[i][1] \in U32
          BY <2>0, <4>1, VisibleEntries
        <5> QED
          BY <2>0, <5>1, CommitmentOrder DEF TreeKeys
      <4> HIDE DEF m
      <4>4. Precedes(m, k)
        BY <2>0, <3>1, <4>2 DEF Progress
      <4> QED
        BY <2>0, <3>2, <4>3, <4>4, TreeKeyOrder
    <3> QED
      BY <2>0, <3>1, <3>3
  <2> QED
    BY <2>2, <2>3 DEF ScanExact
<1> QED
  BY <1>1, ScanInvInit, ScanInvNext, PTL DEF Spec
=============================================================================
