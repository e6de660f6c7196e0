---------------------------- MODULE MCRangeMerge -----------------------------
(***************************************************************************)
(* Two trees, with positions on both sides of a digit boundary.            *)
(***************************************************************************)
EXTENDS RangeMerge

SomeSlots == {<<1, 0>>, <<1, 1>>, <<1, 2>>, <<2, 0>>, <<2, 1>>}
SomeNullifiers == {<<0, 1>>}
=============================================================================
