------------------------------ MODULE NodeCodec ------------------------------
(***************************************************************************)
(* crates/database tables/codec.rs: the stored form of a node.  encode_node *)
(* is an operator; decode_node is a reader that goes through the bytes     *)
(* field by field, one take a step, what it takes next depending on tags,  *)
(* counts and lengths it has taken.  Records are read as stored, cut       *)
(* short, continued or with one byte changed.                              *)
(*                                                                         *)
(* Bytes are digits of a small base and fields have fewer of them: a u32   *)
(* two, a u64 three, every raw array two.  The codec never looks into the  *)
(* arrays (hashes, keys, addresses, ivs, amounts).                         *)
(***************************************************************************)
EXTENDS Integers, Sequences, SequencesExt

CONSTANTS
  Base,      \* a byte is one of 0 .. Base - 1
  Capacity,  \* TREE_LEAF_CAPACITY
  Nodes      \* the nodes that are stored

Bytes == 0 .. Base - 1
U32 == 0 .. Base * Base - 1
U64 == 0 .. Base * Base * Base - 1
Arrays == [1 .. 2 -> Bytes]

ShieldBodies ==
  [kind : {"shield"}, npk : Arrays, token : Arrays, value : Arrays,
   bundle : Seq(Arrays), shield_key : Arrays]

TransactBodies ==
  [kind : {"transact"}, iv : Arrays, tag : Arrays, data : Seq(Seq(Bytes)), memo : Seq(Bytes),
   sender_key : Arrays, receiver_key : Arrays, annotation : Seq(Bytes)]

(* Lengths that do not fit their prefix make encode_node panic.            *)
Fits(node) ==
  IF node.body.kind = "shield" THEN Len(node.body.bundle) \in U32
  ELSE /\ {Len(node.body.data), Len(node.body.memo), Len(node.body.annotation)} \subseteq U32
       /\ \A i \in DOMAIN node.body.data : Len(node.body.data[i]) \in U32

ASSUME CodecAssumption ==
  /\ Base \in Nat /\ Base > 2
  /\ Capacity \in U32
  /\ \A node \in Nodes :
       /\ node.tree \in U32 /\ node.leaf \in 0 .. Capacity - 1
       /\ node.hash \in Arrays /\ node.block \in U64
       /\ node.body \in ShieldBodies \cup TransactBodies
       /\ Fits(node)

VARIABLES
  node,     \* what was stored
  bytes,    \* the record that is read
  pos,      \* Reader::pos
  todo,     \* the fields still to be taken: name and width
  got,      \* the fields taken: name and value
  outcome   \* "reading", "ok" or the CodecError

vars == <<node, bytes, pos, todo, got, outcome>>

-----------------------------------------------------------------------------
(* Big-endian numbers of up to three digits.                               *)
Place == <<1, Base, Base * Base>>
Digits(n, width) == [i \in 1 .. width |-> (n \div Place[width - i + 1]) % Base]
Number(raw) ==
  LET upto[i \in 0 .. Len(raw)] == IF i = 0 THEN 0 ELSE upto[i - 1] * Base + raw[i]
  IN  upto[Len(raw)]

Width == [tree |-> 2, leaf |-> 2, block |-> 3, body_tag |-> 1, asset_tag |-> 1,
          bundle |-> 2, blocks |-> 2, blob |-> 2]
Numeric == DOMAIN Width
Field(name) == <<name, IF name \in Numeric THEN Width[name] ELSE 2>>

(* A blob is its length and its bytes.                                     *)
Blob(b) == << <<"blob", Len(b)>>, <<"data", b>> >>

(* A node as the flat list of fields encode_node writes.                   *)
BodyFields(body) ==
  IF body.kind = "shield"
  THEN << <<"body_tag", 0>>, <<"npk", body.npk>>, <<"asset_tag", 0>>, <<"token", body.token>>,
          <<"value", body.value>>, <<"bundle", Len(body.bundle)>> >>
       \o [i \in 1 .. Len(body.bundle) |-> <<"word", body.bundle[i]>>]
       \o << <<"shield_key", body.shield_key>> >>
  ELSE << <<"body_tag", 1>>, <<"iv", body.iv>>, <<"tag", body.tag>>,
          <<"blocks", Len(body.data)>> >>
       \o FlattenSeq([i \in 1 .. Len(body.data) |-> Blob(body.data[i])])
       \o Blob(body.memo)
       \o << <<"sender_key", body.sender_key>>, <<"receiver_key", body.receiver_key>> >>
       \o Blob(body.annotation)

Fields(n) ==
  << <<"tree", n.tree>>, <<"leaf", n.leaf>>, <<"hash", n.hash>>, <<"block", n.block>> >>
  \o BodyFields(n.body)

Written(field) ==
  IF field[1] \in Numeric THEN Digits(field[2], Width[field[1]]) ELSE field[2]

Encoded(fields) == FlattenSeq([i \in 1 .. Len(fields) |-> Written(fields[i])])

EncodeNode(n) == Encoded(Fields(n))

(* What may lie in the table: the record, a prefix of it, the record with  *)
(* a byte more, or with a byte changed.                                    *)
Damaged(record) ==
  {record} \cup {SubSeq(record, 1, n) : n \in 0 .. Len(record) - 1}
           \cup {Append(record, b) : b \in Bytes}
           \cup {[record EXCEPT ![i] = b] : i \in 1 .. Len(record), b \in Bytes}

-----------------------------------------------------------------------------
(* What decode_node takes, in its order.                                   *)
Header == <<Field("tree"), Field("leaf"), Field("hash"), Field("block"), Field("body_tag")>>

ShieldPlan ==
  <<Field("npk"), Field("asset_tag"), Field("token"), Field("value"), Field("bundle"),
    Field("shield_key")>>

(* Mutant: the two blinded keys are taken in the wrong order.              *)
TransactPlanSwapped ==
  <<Field("iv"), Field("tag"), Field("blocks"), Field("blob"), Field("receiver_key"),
    Field("sender_key"), Field("blob")>>

TransactPlan ==
  <<Field("iv"), Field("tag"), Field("blocks"), Field("blob"), Field("sender_key"),
    Field("receiver_key"), Field("blob")>>

Times(n, field) == [i \in 1 .. n |-> field]

Init ==
  /\ node \in Nodes
  /\ bytes \in Damaged(EncodeNode(node))
  /\ pos = 0
  /\ todo = Header
  /\ got = <<>>
  /\ outcome = "reading"

Raw(width) == SubSeq(bytes, pos + 1, pos + width)

(* Reader::take beyond the end of the record.                              *)
UnexpectedEof ==
  /\ outcome = "reading" /\ todo # <<>>
  /\ pos + Head(todo)[2] > Len(bytes)
  /\ outcome' = "UnexpectedEof"
  /\ UNCHANGED <<node, bytes, pos, todo, got>>

(* A take of the field that is due, which leaves the plan next; the value  *)
(* may be one that decode_node refuses.                                    *)
Take(name, value, next, verdict) ==
  /\ pos' = pos + Head(todo)[2]
  /\ got' = Append(got, <<name, value>>)
  /\ todo' = next
  /\ outcome' = verdict
  /\ UNCHANGED <<node, bytes>>

Due(name) ==
  /\ outcome = "reading" /\ todo # <<>>
  /\ Head(todo)[1] = name
  /\ pos + Head(todo)[2] <= Len(bytes)

TakeTree ==
  /\ Due("tree")
  /\ Take("tree", Number(Raw(2)), Tail(todo), "reading")

(* NodePosition::try_new.                                                  *)
TakeLeaf ==
  /\ Due("leaf")
  /\ LET leaf == Number(Raw(2))
     IN  Take("leaf", leaf, Tail(todo),
              IF leaf < Capacity THEN "reading" ELSE "InvalidNodePosition")

TakeBlock ==
  /\ Due("block")
  /\ Take("block", Number(Raw(3)), Tail(todo), "reading")

TakeArray(name) ==
  /\ Due(name)
  /\ Take(name, Raw(Head(todo)[2]), Tail(todo), "reading")

TakeBodyTag ==
  /\ Due("body_tag")
  /\ LET tag == Number(Raw(1))
     IN  Take("body_tag", tag,
              CASE tag = 0 -> ShieldPlan [] tag = 1 -> TransactPlan [] OTHER -> <<>>,
              IF tag \in {0, 1} THEN "reading" ELSE "InvalidCommitmentTag")

TakeAssetTag ==
  /\ Due("asset_tag")
  /\ LET tag == Number(Raw(1))
     IN  Take("asset_tag", tag, Tail(todo), IF tag = 0 THEN "reading" ELSE "InvalidAssetTag")

(* take_bundle, take_ciphertext and take_blob: a count or a length says    *)
(* how much is taken before the plan goes on.                              *)
TakeBundle ==
  /\ Due("bundle")
  /\ LET count == Number(Raw(2))
     IN  Take("bundle", count, Times(count, Field("word")) \o Tail(todo), "reading")

TakeBlocks ==
  /\ Due("blocks")
  /\ LET count == Number(Raw(2))
     IN  Take("blocks", count, Times(count, Field("blob")) \o Tail(todo), "reading")

TakeBlob ==
  /\ Due("blob")
  /\ LET len == Number(Raw(2))
     IN  Take("blob", len, << <<"data", len>> >> \o Tail(todo), "reading")

(* Mutant: the end of the record is not looked at.                         *)
FinishAnywhere ==
  /\ outcome = "reading" /\ todo = <<>>
  /\ outcome' = "ok"
  /\ UNCHANGED <<node, bytes, pos, todo, got>>

Finish ==
  /\ outcome = "reading" /\ todo = <<>>
  /\ outcome' = IF pos = Len(bytes) THEN "ok" ELSE "TrailingBytes"
  /\ UNCHANGED <<node, bytes, pos, todo, got>>

ArrayNames ==
  {"hash", "npk", "token", "value", "word", "shield_key", "iv", "tag", "data", "sender_key",
   "receiver_key"}

Done == outcome # "reading" /\ UNCHANGED vars

Next ==
  \/ UnexpectedEof \/ TakeTree \/ TakeLeaf \/ TakeBlock \/ TakeBodyTag \/ TakeAssetTag
  \/ TakeBundle \/ TakeBlocks \/ TakeBlob \/ Finish \/ Done
  \/ \E name \in ArrayNames : TakeArray(name)

Spec == Init /\ [][Next]_vars

(* Mutant: the hash is looked for behind the tree number.                  *)
DecodeHashEarly(b) ==
  IF Len(b) >= 6 /\ Number(SubSeq(b, 3, 4)) < Capacity THEN SubSeq(b, 3, 4) ELSE "error"

(* decode_hash: position, checked, and the hash behind it.                 *)
DecodeHash(b) ==
  IF Len(b) >= 6 /\ Number(SubSeq(b, 3, 4)) < Capacity THEN SubSeq(b, 5, 6) ELSE "error"

-----------------------------------------------------------------------------
(* decode_node gives back what encode_node was given, for both kinds of    *)
(* node and any number and length of variable parts.                       *)
RoundTrip ==
  bytes = EncodeNode(node) /\ outcome # "reading" => outcome = "ok" /\ got = Fields(node)

(* "Layout is canonical": a record is decoded only if it is, to the last   *)
(* byte, the encoding of the node that comes out.  So different records    *)
(* are different nodes, and insert_node, which compares records, compares  *)
(* nodes.                                                                  *)
Canonical == outcome = "ok" => bytes = Encoded(got)

(* The Merkle walk takes its leaf from decode_hash alone: it never sees    *)
(* another hash than the decoder of whole nodes would.                     *)
LeafHashAgrees == outcome = "ok" => DecodeHash(bytes) = got[3][2]
=============================================================================
