------------------------------ MODULE Senders -------------------------------
(***************************************************************************)
(* The other side of a note, which is not in the repository: how a RAILGUN *)
(* engine pays an address it was given as a text, and the nullifier the    *)
(* circuits publish for a note.  Written out from the protocol, not from   *)
(* module Notes, so that the two can disagree.                             *)
(***************************************************************************)
EXTENDS Notes

Blinded(point, blind) == Multiplied(point, <<"blind", blind>>)

Shared(viewing_key, point) == <<"sha256", Multiplied(point, <<"scalar", viewing_key>>)>>

\* poseidon(poseidon(master, random), token, value)
PaidNpk(a, random) == <<"poseidon", <<a.master_key, <<"random", random>> >> >>
PaidHash(a, random, asset, value) ==
  <<"poseidon", <<PaidNpk(a, random), <<"token", asset>>, <<"u128", value>> >> >>

\* The blocks of a private transfer: recipient, token, random and value, memo.
Plaintext(a, random, asset, value, memo) ==
  <<Halves(a.master_key), Halves(<<"token", asset>>), << <<"random", random>>, <<"u128", value>> >>, memo>>

\* A private transfer by the holder of a viewing key, blinded with `random'.
Transfer(viewing_key, text, random, asset, value, memo) ==
  LET a == from_str(text)
      blocks == Plaintext(a, random, asset, value, memo)
      key == Shared(viewing_key, Blinded(a.viewing_pubkey, random))
      sealed == Sealed(key, random, FlattenSeq(blocks))
  IN [kind |-> "Transact",
      ciphertext |-> [iv |-> random, tag |-> Tag(key, random, FlattenSeq(blocks)),
                      data |-> <<SubSeq(sealed, 1, 2), SubSeq(sealed, 3, 4), SubSeq(sealed, 5, 6)>>],
      memo |-> SubSeq(sealed, 7, Len(sealed)),
      blinded_sender_key |-> Blinded(viewing_public_key(viewing_key), random)]

\* A deposit under a fresh key.
Deposit(fresh_key, text, random, asset, value) ==
  LET a == from_str(text)
      key == Shared(fresh_key, a.viewing_pubkey)
      units == << <<"random", random>> >>
  IN [kind |-> "Shield", npk |-> PaidNpk(a, random), token |-> asset, value |-> value,
      encrypted_bundle |-> << <<random, Tag(key, random, units)>>, <<Sealed(key, random, units)[1], <<"text", "any">> >> >>,
      shield_key |-> viewing_public_key(fresh_key)]

\* What spending the note at a leaf reveals.
Revealed(viewing_key, leaf) == <<"poseidon", << <<"poseidon", <<viewing_key>> >>, <<"u256", leaf>> >> >>
=============================================================================
