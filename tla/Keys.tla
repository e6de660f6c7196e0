-------------------------------- MODULE Keys --------------------------------
(***************************************************************************)
(* The keys of an account: crypto derivation.rs, keys.rs and viewing.rs    *)
(* and the paths of types derivation.rs.  The primitives are ideal: a      *)
(* digest is the tuple of what was hashed behind a tag that says how, so   *)
(* two digests are equal only if everything that went into them is.        *)
(* (Module Primitives is about how Poseidon and the curve are computed.)   *)
(***************************************************************************)
EXTENDS Address, Bags

CONSTANT HARDENED_OFFSET  \* half the range of an index (2^31 of 2^32 in the code)

ASSUME KeysAssumption == HARDENED_OFFSET \in Nat \ {0}

\* PoseidonInput::poseidon_hash of the values' field elements.
poseidon_hash(inputs) == <<"poseidon", inputs>>

-----------------------------------------------------------------------------
(***************************************************************************)
(* Derivation.  The digest of HMAC-SHA512 is split into chain key and      *)
(* chain code and both enter the next one: a node is the seed with the     *)
(* indices derived so far.                                                 *)
(***************************************************************************)

from_seed(seed) == <<"node", seed, <<>> >>

\* The index is hardened by a wrapping addition.
derive_hardened(node, index) ==
  <<"node", node[2], Append(node[3], (index + HARDENED_OFFSET) % (2 * HARDENED_OFFSET))>>

derive_path(node, path) == FoldLeft(derive_hardened, node, path)

spending_path(index) == <<44, 1984, 0, 0, index>>
viewing_path(index) == <<420, 1984, 0, 0, index>>

-----------------------------------------------------------------------------
(***************************************************************************)
(* Viewing keys.  A point of curve25519 is the bag of the clamped scalars  *)
(* the base point was multiplied with, so that multiplications commute.    *)
(* Bytes that are not a point do not decompress.                           *)
(***************************************************************************)

to_curve25519_scalar(viewing_key) == <<"scalar", viewing_key>>

Multiplied(point, scalar) == <<"point", point[2] (+) SetToBag({scalar})>>

BasePoint == <<"point", EmptyBag>>

NotAPoint == <<"bytes">>

\* SigningKey::verifying_key.
viewing_public_key(viewing_key) == Multiplied(BasePoint, to_curve25519_scalar(viewing_key))

decompresses(bytes) == bytes[1] = "point"

shared_key(viewing_key, point) == <<"sha256", Multiplied(point, to_curve25519_scalar(viewing_key))>>

nullifying_key(viewing_key) == poseidon_hash(<<viewing_key>>)

\* A point of Baby Jubjub is hashed as its two coordinates.
Coordinates(point) == << <<"x", point>>, <<"y", point>> >>

spending_public_key(spending_key) == <<"bjj", spending_key>>

master_public_key(spend, nullifying) == poseidon_hash(Append(Coordinates(spend), nullifying))

derive_railgun_keys(mnemonic, index) ==
  LET master == from_seed(<<"seed", mnemonic, "">>)
      spending_key == derive_path(master, spending_path(index))
      viewing_key == derive_path(master, viewing_path(index))
      spend == spending_public_key(spending_key)
      nullifying == nullifying_key(viewing_key)
  IN [spending_key |-> spending_key, viewing_key |-> viewing_key, spending_public_key |-> spend,
      nullifying_key |-> nullifying, master_public_key |-> master_public_key(spend, nullifying)]

\* DerivedRailgunKeys::address.
address(keys, chain) == from_public_keys(keys.master_public_key, viewing_public_key(keys.viewing_key), chain)
=============================================================================
