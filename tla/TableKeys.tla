------------------------------ MODULE TableKeys ------------------------------
(***************************************************************************)
(* crates/database tables/commitments.rs: how nodes, nullifiers, counters  *)
(* and the watermark share one ordered table of byte keys.  The other      *)
(* modules treat them as separate maps and a scan as the leaves of a tree  *)
(* in order; this one is why they may.                                     *)
(*                                                                         *)
(* A u32 has two digits of a small base, a nullifier too.  The engine      *)
(* orders keys byte by byte.  Values are left out: which keys there are    *)
(* does not depend on them.                                                *)
(***************************************************************************)
EXTENDS Integers, Sequences, SequencesExt

CONSTANTS
  Base,
  Slots,       \* the positions in use, as <<tree, position>>
  Nullifiers   \* two digits each

U32   == 0 .. Base * Base - 1
Trees == {x[1] : x \in Slots}

ASSUME KeysAssumption ==
  /\ Base \in Nat /\ Base > 1
  /\ Slots \subseteq U32 \X U32
  /\ Nullifiers \subseteq [1 .. 2 -> 0 .. Base - 1]

(* Mutant: native byte order.                                              *)
LittleEndian(n) == <<n % Base, n \div Base>>

BigEndian(n) == <<n \div Base, n % Base>>

(* The leading byte of a key: 'c', 'g', 'm', 'n' or 's'.                   *)
CommitmentKey(tree, position) == <<99>> \o BigEndian(tree) \o BigEndian(position)

(* Mutant: one namespace for the nullifiers of all trees.                  *)
NullifierKeyGlobal(tree, nullifier) == <<110>> \o nullifier

NullifierKey(tree, nullifier) == <<110>> \o BigEndian(tree) \o nullifier
LengthKey(tree) == <<109>> \o BigEndian(tree)
TreeCountKey == <<103>>
SyncedBlockKey == <<115>>

PositionFromKey(key) == key[4] * Base + key[5]

(* The order of byte strings.                                              *)
Precedes(a, b) ==
  \/ IsStrictPrefix(a, b)
  \/ \E i \in DOMAIN a \cap DOMAIN b :
       a[i] < b[i] /\ \A j \in 1 .. i - 1 : a[j] = b[j]

(* Reader::range: the keys between two keys, both included.  The iterator  *)
(* gives them in order, the first of the rest next.                        *)
KeyRange(table, start, end) == {k \in table : ~Precedes(k, start) /\ ~Precedes(end, k)}

First(keys) == {k \in keys : \A other \in keys : other = k \/ Precedes(k, other)}

(* The keys insert_node and insert_nullifier leave behind: the node's, the *)
(* length of its tree and the tree count, or the nullifier's; and          *)
(* set_synced_block's.                                                     *)
KeysOf(nodes, spent) ==
  {CommitmentKey(x[1], x[2]) : x \in nodes} \cup {LengthKey(x[1]) : x \in nodes} \cup
  {TreeCountKey : x \in nodes} \cup {NullifierKey(x[1], x[2]) : x \in spent} \cup
  {SyncedBlockKey}
=============================================================================
