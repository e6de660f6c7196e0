------------------------------ MODULE Address -------------------------------
(***************************************************************************)
(* types address.rs: the 0zk address, which an account gives out as a      *)
(* text.  The payload is version | master | network id | viewing key; the  *)
(* bech32 library writes it in characters of five bits and keeps prefix    *)
(* and characters together under a checksum.  A text is a record of them:  *)
(* the fields of the payload, and the bits its last characters hold beyond *)
(* the last whole byte.  (Upper and lower case are the same text to the    *)
(* library.)                                                               *)
(***************************************************************************)
EXTENDS Integers, Sequences, SequencesExt

CONSTANTS
  TypeBits, IdBits,   \* the chain type and the chain id in a network id (8 and 56)
  NETWORK_ID_XOR_KEY  \* the bits a network id is masked with

ASSUME AddressAssumption ==
  /\ TypeBits \in Nat \ {0} /\ IdBits \in Nat \ {0}
  /\ NETWORK_ID_XOR_KEY \in [1..(TypeBits + IdBits) -> {0, 1}]

VERSION == 1
PREFIX == "0zk"

All == [kind |-> "All", id |-> 0]
Evm(id) == [kind |-> "Evm", id |-> id]

\* The powers of two, the weights of the bits.
Power[k \in 0..(TypeBits + IdBits)] == IF k = 0 THEN 1 ELSE 2 * Power[k - 1]

ToBits(n, width) == [i \in 1..width |-> (n \div Power[width - i]) % 2]
FromBits(b) ==
  LET upto[i \in 0..Len(b)] == IF i = 0 THEN 0 ELSE 2 * upto[i - 1] + b[i]
  IN upto[Len(b)]

ALL_CHAINS_NETWORK_ID == [i \in 1..(TypeBits + IdBits) |-> 1]

to_network_id(chain) ==
  IF chain = All THEN ALL_CHAINS_NETWORK_ID ELSE ToBits(chain.id % Power[IdBits], TypeBits + IdBits)

xor_network_id(b) == [i \in DOMAIN b |-> (b[i] + NETWORK_ID_XOR_KEY[i]) % 2]

\* Mutant: the chain type is not looked at.
any_network_id(b) == b \in [1..(TypeBits + IdBits) -> {0, 1}]

\* The chain type of an EVM chain is 0.
known_network_id(b) == b = ALL_CHAINS_NETWORK_ID \/ FromBits(SubSeq(b, 1, TypeBits)) = 0

from_network_id(b) ==
  IF b = ALL_CHAINS_NETWORK_ID THEN All ELSE Evm(FromBits(SubSeq(b, TypeBits + 1, TypeBits + IdBits)))

from_public_keys(master, viewing, chain) == [master_key |-> master, viewing_pubkey |-> viewing, chain |-> chain]

\* The bits left over by a payload of 73 bytes: 117 characters hold one bit more
\* than its 584, 118 characters hold six.
Paddings == [1..1 -> {0, 1}] \cup [1..6 -> {0, 1}]

\* encode takes as few characters as will do and fills the last with zeros.
to_string(a) ==
  [checksum |-> "bech32m", hrp |-> PREFIX, version |-> VERSION, body |-> <<a.master_key, a.viewing_pubkey>>,
   network |-> xor_network_id(to_network_id(a.chain)), padding |-> <<0>>]

\* Whether FromStr accepts a text, and what it reads from one it accepts.  The
\* library's decode takes a checksum of either kind, and gives out whole bytes:
\* the bits left over are dropped without a look at them.
parses(s) ==
  /\ s.checksum \in {"bech32m", "bech32"}
  /\ s.hrp = PREFIX
  /\ Len(s.body) = 2
  /\ s.version = VERSION
  /\ known_network_id(xor_network_id(s.network))

from_str(s) ==
  from_public_keys(s.body[1], s.body[2], from_network_id(xor_network_id(s.network)))

\* The text that to_string would have given in place of s: the same prefix and
\* payload, in the newer kind of checksum and with nothing in the padding.
AsWritten(s) == [s EXCEPT !.checksum = "bech32m", !.padding = <<0>>]
=============================================================================
