------------------------------ MODULE MCSyncer -------------------------------
(***************************************************************************)
(* A small chain for module Syncer.  Two trees of three leaves.  Row ids   *)
(* are not in block order, so pages cut across blocks; one page consists   *)
(* of a skipped row only; one position overflows its tree and is           *)
(* normalized into the next; the skipped NFT leaves a gap; the last leaf   *)
(* is a backfill below the frontier of its tree; the same nullifier value  *)
(* occurs in both trees.                                                   *)
(***************************************************************************)
EXTENDS SyncerReplica, TLC

Commitment(id, block, kind, tree, position, hash) ==
  [id |-> id, block |-> block, kind |-> kind, tree |-> tree,
   position |-> position, hash |-> hash]

ChainCommitments ==
  {Commitment(3, 1, "Transact",  0, 0, "a"),
   Commitment(1, 2, "NftShield", 0, 1, "b"),
   Commitment(5, 2, "Shield",    0, 2, "c"),
   Commitment(2, 3, "Transact",  0, 5, "d"),
   Commitment(4, 4, "Transact",  1, 0, "e")}

(* The same chain, misindexed: block 5 reports a second node in a slot     *)
(* block 3 already filled.                                                 *)
MisindexedCommitments ==
  ChainCommitments \cup {Commitment(6, 5, "Shield", 1, 2, "f")}

ChainNullifiers ==
  {[id |-> 2, block |-> 3, tree |-> 0, nullifier |-> "n"],
   [id |-> 1, block |-> 4, tree |-> 1, nullifier |-> "n"]}

(* Blocks 2 and 5 hold shields only, which are not transactions.           *)
ChainTxBlocks == {1, 3, 4}

SyncerSymmetry == Permutations(Syncers)
AllHashes     == {"a", "b", "c", "d", "e", "f"}
AllNullifiers == {0, 1} \X {"n"}
AllBlocks     == 0 .. U64Max
=============================================================================
