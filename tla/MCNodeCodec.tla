----------------------------- MODULE MCNodeCodec -----------------------------
(***************************************************************************)
(* Nodes with different numbers in every numeric field and with zero, one  *)
(* and two elements in every variable part.                                *)
(***************************************************************************)
EXTENDS NodeCodec

A == <<1, 2>>
B == <<2, 0>>
C == <<0, 1>>

Shield(bundle) ==
  [kind |-> "shield", npk |-> B, token |-> C, value |-> A, bundle |-> bundle, shield_key |-> B]

Transact(data, memo, annotation) ==
  [kind |-> "transact", iv |-> A, tag |-> C, data |-> data, memo |-> memo,
   sender_key |-> A, receiver_key |-> B, annotation |-> annotation]

SampleBodies ==
  {Shield(bundle) : bundle \in {<<>>, <<C>>, <<A, B>>}} \cup
  {Transact(data, memo, annotation) :
     data \in {<<>>, << <<>> >>, << <<1, 0>>, <<2>> >>}, memo \in {<<>>, <<0, 2>>},
     annotation \in {<<>>, <<1>>}}

SampleNodes ==
  [tree : {0, 5}, leaf : {0, 3}, hash : {A, B}, block : {7}, body : SampleBodies]
=============================================================================
