----------------------------- MODULE RangeMerge ------------------------------
(***************************************************************************)
(* The scan of one tree (Commitments::leaf_hashes, Commitments::nodes)     *)
(* through a batch over a base: Overlay::range of crates/database batch.rs *)
(* and RangeIter::next of read.rs on RangeInner::Merged, over the byte     *)
(* keys of module TableKeys.  One step is one turn of the merge loop: both *)
(* peeks are refilled and one arm of the match is taken.  Module Overlay   *)
(* takes what this scan gives for granted.                                 *)
(***************************************************************************)
EXTENDS TableKeys

CONSTANTS
  Value,      \* a staged put
  Tombstone   \* a staged delete, which Writer::delete allows in any table

ASSUME MergeAssumption == Value # Tombstone

VARIABLES
  tree,         \* the tree that is scanned
  nodes,        \* the positions stored in the base, a subset of Slots
  spent,        \* the nullifiers stored in the base, as <<tree, nullifier>>
  batch,        \* a partial function from Slots to Value or Tombstone
  base,         \* the keys the base iterator has yet to give
  overlay,      \* the keys the overlay iterator has yet to give
  base_peek,    \* an Option: the set of the key, or of none
  overlay_peek,
  out,          \* the entries returned so far, with the layer they are from
  status        \* "open", "end" (returned None) or "err"

vars == <<tree, nodes, spent, batch, base, overlay, base_peek, overlay_peek, out, status>>

contents == <<tree, nodes, spent, batch>>

(* The keys of the base table, and of the batch: what staged inserts and   *)
(* deletes leave in the batch's map.                                       *)
Stored == KeysOf(nodes, spent)
Puts   == {x \in DOMAIN batch : batch[x] = Value}
Staged == KeysOf(Puts, {}) \cup {CommitmentKey(x[1], x[2]) : x \in DOMAIN batch}

Deleted(key) == \E x \in DOMAIN batch \ Puts : key = CommitmentKey(x[1], x[2])

(* Both layers are cut to the same bounds: position 0 to u32::MAX.         *)
Scan(table) ==
  KeyRange(table, CommitmentKey(tree, 0), CommitmentKey(tree, Base * Base - 1))

Init ==
  /\ tree \in Trees
  /\ nodes \in SUBSET Slots
  /\ spent \in SUBSET (Trees \X Nullifiers)
  /\ batch \in UNION {[D -> {Value, Tombstone}] : D \in SUBSET Slots}
  /\ base = Scan(Stored)
  /\ overlay = Scan(Staged)
  /\ base_peek = {}
  /\ overlay_peek = {}
  /\ out = <<>>
  /\ status = "open"

(* The refills at the top of the loop: an empty peek takes the iterator's  *)
(* next entry, if it has one.                                              *)
Peeked(peek, rest) == IF peek = {} THEN First(rest) ELSE peek
Rest(peek, rest)   == IF peek = {} THEN rest \ First(rest) ELSE rest

BasePeek    == Peeked(base_peek, base)
OverlayPeek == Peeked(overlay_peek, overlay)

(* Both iterators move as far as the refills take them.                    *)
Refill ==
  /\ status = "open"
  /\ base' = Rest(base_peek, base)
  /\ overlay' = Rest(overlay_peek, overlay)
  /\ UNCHANGED contents

(* A staged value is returned; a tombstone makes the loop continue.        *)
ReturnStaged(key) ==
  out' = IF Deleted(key) THEN out ELSE Append(out, <<PositionFromKey(key), "staged">>)

(* The base entry comes first, or is the only one left.                    *)
TakeBase ==
  /\ Refill
  /\ \E key \in BasePeek :
       /\ \A other \in OverlayPeek : Precedes(key, other)
       /\ out' = Append(out, <<PositionFromKey(key), "stored">>)
  /\ base_peek' = {}
  /\ overlay_peek' = OverlayPeek
  /\ UNCHANGED status

(* The staged entry comes first, or is the only one left.                  *)
TakeOverlay ==
  /\ Refill
  /\ \E key \in OverlayPeek :
       /\ \A other \in BasePeek : Precedes(key, other)
       /\ ReturnStaged(key)
  /\ base_peek' = BasePeek
  /\ overlay_peek' = {}
  /\ UNCHANGED status

(* Mutant: a tombstone is not consumed.                                    *)
TombstoneStays ==
  /\ Refill
  /\ \E key \in BasePeek \cap OverlayPeek :
       /\ ReturnStaged(key)
       /\ base_peek' = IF Deleted(key) THEN BasePeek ELSE {}
       /\ overlay_peek' = IF Deleted(key) THEN OverlayPeek ELSE {}
  /\ UNCHANGED status

(* The same key in both: the overlay wins and both are consumed.           *)
TakeBoth ==
  /\ Refill
  /\ \E key \in BasePeek \cap OverlayPeek : ReturnStaged(key)
  /\ base_peek' = {}
  /\ overlay_peek' = {}
  /\ UNCHANGED status

(* Neither has anything left.                                              *)
End ==
  /\ Refill
  /\ BasePeek = {} /\ OverlayPeek = {}
  /\ status' = "end"
  /\ UNCHANGED <<base_peek, overlay_peek, out>>

(* The base scan fails in the refill; every caller stops at the error.     *)
ScanFails ==
  /\ status = "open"
  /\ base_peek = {} /\ base # {}
  /\ status' = "err"
  /\ UNCHANGED <<contents, base, overlay, base_peek, overlay_peek, out>>

Done == status # "open" /\ UNCHANGED vars

Next == TakeBase \/ TakeOverlay \/ TakeBoth \/ End \/ ScanFails \/ Done

(* The caller consumes the iterator to its end.                            *)
Spec == Init /\ [][Next]_vars /\ WF_vars(Next)

-----------------------------------------------------------------------------
(* What a scan of the tree is meant to show: the staged positions, and the *)
(* stored ones that no staged entry hides.                                 *)
Visible ==
  {<<x[2], "staged">> : x \in {y \in Puts : y[1] = tree}} \cup
  {<<x[2], "stored">> : x \in {y \in nodes \ DOMAIN batch : y[1] = tree}}

(* What a scan has returned is at every moment the beginning of the tree   *)
(* as the batch leaves it, in position order, so a consumer that stops     *)
(* early or at an error has seen nothing twice, deleted, stale, or of      *)
(* another tree or kind of key; at the end it has seen all of it.  The     *)
(* Merkle walk and the frontier's rebuild fill gaps between consecutive    *)
(* positions and would compute another root from any other order.          *)
ScanExact ==
  /\ \A i, j \in DOMAIN out : i < j => out[i][1] < out[j][1]
  /\ \A i \in DOMAIN out : out[i] \in Visible
  /\ \A entry \in Visible :
       \/ \E i \in DOMAIN out : out[i] = entry
       \/ status # "end" /\ \A i \in DOMAIN out : out[i][1] < entry[1]

(* Point lookups in the base find a node, a nullifier of a tree or a       *)
(* tree's length exactly if it was inserted: no two kinds of key and no    *)
(* two trees collide, so is_spent never answers for another tree.          *)
LookupsExact ==
  /\ \A x \in Slots : CommitmentKey(x[1], x[2]) \in Stored <=> x \in nodes
  /\ \A x \in Trees \X Nullifiers : NullifierKey(x[1], x[2]) \in Stored <=> x \in spent
  /\ \A t \in Trees : LengthKey(t) \in Stored <=> \E x \in nodes : x[1] = t

(* The loop ends, although a tombstone makes it continue without returning *)
(* anything.                                                               *)
ScanEnds == <>(status # "open")
=============================================================================
