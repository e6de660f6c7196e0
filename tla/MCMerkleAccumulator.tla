------------------------- MODULE MCMerkleAccumulator -------------------------
(***************************************************************************)
(* A tree of eight leaves with a hash of its own for every position, so    *)
(* that no two leaves can be exchanged unnoticed.  The indexer may report  *)
(* leaf 5 with the hash of leaf 2.                                         *)
(***************************************************************************)
EXTENDS MerkleAccumulator

CONSTANTS h0, h1, h2, h3, h4, h5, h6, h7

LeafHash == <<h0, h1, h2, h3, h4, h5, h6, h7>>
AllHashes == {LeafHash[i] : i \in 1 .. 8}
OneBlock == {0}
ContractLeaves == [l \in 0 .. 7 |-> LeafHash[l + 1]]
Placed(l, hash) == [tree |-> 0, leaf |-> l, node |-> [hash |-> hash, block |-> 0]]
FullTree == {Placed(l, ContractLeaves[l]) : l \in 0 .. 7} \cup {Placed(5, h2)}
=============================================================================
