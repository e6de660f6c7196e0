------------------------------ MODULE MCOverlay ------------------------------
(***************************************************************************)
(* Two trees of three leaves; one slot of the first can be claimed by two  *)
(* different nodes.                                                        *)
(***************************************************************************)
EXTENDS Overlay

Placed(tree, leaf, hash) ==
  [tree |-> tree, leaf |-> leaf, node |-> [hash |-> hash, block |-> 0]]

SmallChain ==
  {Placed(0, 0, "a"), Placed(0, 1, "b"), Placed(0, 2, "c"), Placed(1, 0, "d"),
   Placed(0, 1, "e")}

AllHashes == {"a", "b", "c", "d", "e"}
AllNullifiers == {<<0, "n">>}
AllBlocks == {0, 1}
=============================================================================
