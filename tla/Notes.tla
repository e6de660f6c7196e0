------------------------------- MODULE Notes --------------------------------
(***************************************************************************)
(* Opening a commitment: crypto note.rs, aes.rs and commitment.rs, types   *)
(* asset.rs and NoteValue.                                                 *)
(*                                                                         *)
(* Bytes come in units of 16, tagged with what they are; a block is a      *)
(* sequence of units.  A 32-byte value is its two halves.  AES-GCM is      *)
(* ideal: a unit of ciphertext tells key, iv and place, and the tag        *)
(* authenticates the units but not how they are cut into blocks.           *)
(***************************************************************************)
EXTENDS Keys

CONSTANT U128Max  \* the largest value of a note

Halves(term) == << <<"hi", term>>, <<"lo", term>> >>

\* The 32-byte value of a block of two units.
Joined(block) ==
  IF block[1][1] = "hi" /\ block[2] = <<"lo", block[1][2]>> THEN block[1][2]
  ELSE <<"mixed", block[1], block[2]>>

-----------------------------------------------------------------------------
(***************************************************************************)
(* AES-256-GCM with block framing.                                         *)
(***************************************************************************)

\* What the library's encryption makes of these units.
Sealed(key, iv, units) == [i \in DOMAIN units |-> <<"aes", key, iv, i, units[i]>>]

Tag(key, iv, units) == <<"tag", key, iv, units>>

\* The concatenated blocks and the tag verify under the key.
authentic(ciphertext, key) ==
  LET tag == ciphertext.tag
  IN /\ tag[1] = "tag"
     /\ tag = Tag(key, ciphertext.iv, tag[4])
     /\ FlattenSeq(ciphertext.data) = Sealed(key, ciphertext.iv, tag[4])

\* The plaintext cut again where the stored blocks end.
decrypt_gcm(ciphertext) ==
  LET data == ciphertext.data
      plain == ciphertext.tag[4]
      end[i \in 0..Len(data)] == IF i = 0 THEN 0 ELSE end[i - 1] + Len(data[i])
  IN [i \in DOMAIN data |-> SubSeq(plain, end[i - 1] + 1, end[i])]

-----------------------------------------------------------------------------
(***************************************************************************)
(* Commitments.                                                            *)
(***************************************************************************)

\* An ERC-20 address behind twelve zero bytes.
token_hash(asset) == <<"token", asset>>

note_public_key(master, random) == poseidon_hash(<<master, random>>)

\* Mutant: the token is left out.
note_hash_without_token(npk, asset, value) == poseidon_hash(<<npk, value>>)

note_hash(npk, asset, value) == poseidon_hash(<<npk, token_hash(asset), value>>)

\* Mutant: leaves are counted from one.
nullifier_from_one(nullifying, leaf_index) == poseidon_hash(<<nullifying, <<"u256", leaf_index + 1>> >>)

nullifier(nullifying, leaf_index) == poseidon_hash(<<nullifying, <<"u256", leaf_index>> >>)

blinded_commitment(hash, npk, tree_number, leaf_index) ==
  poseidon_hash(<<hash, npk, <<"u256", tree_number * 65536 + leaf_index>> >>)

-----------------------------------------------------------------------------
(***************************************************************************)
(* NoteDecryptor.  Whatever the error is, the decoder skips the leaf: a    *)
(* node gives the set of its one note or of none, and the conditions stand *)
(* in the order in which the code returns early.                           *)
(***************************************************************************)

assemble(keys, p, asset, value, random, memo, type) ==
  LET npk == note_public_key(master_public_key(keys.spending_public_key, keys.nullifying_key), random)
      hash == note_hash(npk, asset, value)
  IN [tree |-> p.tree, leaf |-> p.leaf, value |-> value, asset |-> asset, random |-> random,
      memo |-> memo, commitment_hash |-> hash, note_public_key |-> npk,
      nullifier |-> nullifier(keys.nullifying_key, p.leaf),
      blinded_commitment |-> blinded_commitment(hash, npk, p.tree, p.leaf),
      commitment_type |-> type]

\* The on-chain memo is the last block, also when it is empty.
with_memo(ciphertext, memo) == [ciphertext EXCEPT !.data = Append(@, memo)]

from_utf8_lossy(block) ==
  [i \in DOMAIN block |-> IF block[i][1] = "text" THEN block[i] ELSE <<"text", "replaced">>]

decrypt_transact(keys, p, hash, body) ==
  LET shared == shared_key(keys.viewing_key, body.blinded_sender_key)
      ciphertext == with_memo(body.ciphertext, body.memo)
      bundle == decrypt_gcm(ciphertext)
      master == master_public_key(keys.spending_public_key, keys.nullifying_key)
      token == Joined(bundle[2])
      memo == IF Len(bundle) = 4 THEN from_utf8_lossy(bundle[4]) ELSE <<>>
      note == assemble(keys, p, token[2], bundle[3][2], bundle[3][1], memo, "Transact")
  IN IF /\ decompresses(body.blinded_sender_key)
        /\ authentic(ciphertext, shared)
        /\ Len(bundle) \in {3, 4}
        /\ Len(bundle[1]) = 2 /\ Joined(bundle[1]) = master
        /\ Len(bundle[2]) = 2 /\ token[1] = "token"
        /\ Len(bundle[3]) = 2
        /\ note.commitment_hash = hash
     THEN {note} ELSE {}

\* iv and tag share the first word, the ciphertext is half of the second.
shield_ciphertext(bundle) ==
  [iv |-> bundle[1][1], tag |-> bundle[1][2], data |-> << <<bundle[2][1]>> >>]

decrypt_shield(keys, p, body) ==
  LET ciphertext == shield_ciphertext(body.encrypted_bundle)
      shared == shared_key(keys.viewing_key, body.shield_key)
      decrypted == decrypt_gcm(ciphertext)
      note == assemble(keys, p, body.token, <<"u128", body.value>>, decrypted[1][1], <<>>, "Shield")
  IN IF /\ Len(body.encrypted_bundle) >= 2
        /\ decompresses(body.shield_key)
        /\ authentic(ciphertext, shared)
        /\ body.value <= U128Max
        /\ note.note_public_key = body.npk
     THEN {note} ELSE {}

decrypt_node(keys, p, hash, body) ==
  IF body.kind = "Transact" THEN decrypt_transact(keys, p, hash, body) ELSE decrypt_shield(keys, p, body)
=============================================================================
