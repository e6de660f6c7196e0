------------------------------- MODULE MCWallet ------------------------------
(***************************************************************************)
(* Two trees of four leaves and three accounts, two of one mnemonic.  The  *)
(* first owns a, c, d and e, of which a and d get spent; their nullifiers  *)
(* equal those of the unspent e and c in the other tree.  The rest must    *)
(* not count: b stores the ciphertext of a under another commitment, f     *)
(* pays the second account, g is encrypted to the first but names the      *)
(* second as recipient, h deposits more than a note can hold.              *)
(***************************************************************************)
EXTENDS Wallet

First == derive_railgun_keys("m1", 0)
Second == derive_railgun_keys("m1", 1)
Third == derive_railgun_keys("m2", 4)

Text(keys, chain) == to_string(address(keys, chain))
ToFirst == Text(First, Evm(5))
ToSecond == Text(Second, All)

\* The viewing key of the first account with the master key of the second.
Crossed ==
  to_string(from_public_keys(Second.master_public_key, viewing_public_key(First.viewing_key), All))

\* The key of a deposit.
Fresh(seed) == from_seed(<<"seed", seed, "">>)

Memo == << <<"text", "thanks">> >>

Of(text, random, asset, value) == PaidHash(from_str(text), random, asset, value)
a == Of(ToFirst, "r1", "dai", 1)
b == Of(ToFirst, "r2", "dai", 4)
c == Of(ToFirst, "r3", "weth", 2)
d == Of(ToFirst, "r4", "weth", 2)
e == Of(ToFirst, "r5", "dai", 3)
f == Of(ToSecond, "r6", "dai", 3)
g == Of(Crossed, "r7", "dai", 3)
h == Of(ToFirst, "r8", "dai", 9)
AllHashes == {a, b, c, d, e, f, g, h}

ChainBodies ==
  [x \in AllHashes |->
     CASE x = a -> Transfer(Third.viewing_key, ToFirst, "r1", "dai", 1, Memo)
       [] x = b -> Transfer(Third.viewing_key, ToFirst, "r1", "dai", 1, Memo)
       [] x = c -> Deposit(Fresh("s1"), ToFirst, "r3", "weth", 2)
       [] x = d -> Transfer(First.viewing_key, ToFirst, "r4", "weth", 2, <<>>)
       [] x = e -> Transfer(Second.viewing_key, ToFirst, "r5", "dai", 3, << <<"raw", 7>> >>)
       [] x = f -> Transfer(First.viewing_key, ToSecond, "r6", "dai", 3, Memo)
       [] x = g -> Transfer(Third.viewing_key, Crossed, "r7", "dai", 3, Memo)
       [] x = h -> Deposit(Fresh("s2"), ToFirst, "r8", "dai", 9)]

Payment(to, asset, value) == [to |-> to, asset |-> asset, value |-> value]

ChainPaid ==
  [x \in AllHashes |->
     CASE x = a -> Payment(First.master_public_key, "dai", 1)
       [] x = c -> Payment(First.master_public_key, "weth", 2)
       [] x = d -> Payment(First.master_public_key, "weth", 2)
       [] x = e -> Payment(First.master_public_key, "dai", 3)
       [] x = f -> Payment(Second.master_public_key, "dai", 3)
       [] OTHER -> Payment(Nobody, "dai", 0)]

Row(id, block, kind, tree, position, hash) ==
  [id |-> id, block |-> block, kind |-> kind, tree |-> tree,
   position |-> position, hash |-> hash]

ChainCommitments ==
  {Row(1, 1, "Transact", 0, 0, a),
   Row(2, 1, "Transact", 0, 1, b),
   Row(3, 2, "Shield",   0, 2, c),
   Row(4, 2, "Shield",   0, 3, h),
   Row(5, 2, "Transact", 0, 6, d),
   Row(6, 3, "Transact", 1, 0, e),
   Row(7, 3, "Transact", 1, 1, f),
   Row(8, 3, "Transact", 1, 3, g)}

ChainNullifiers ==
  {[id |-> 1, block |-> 2, tree |-> 0, nullifier |-> Revealed(First.viewing_key, 0)],
   [id |-> 2, block |-> 3, tree |-> 1, nullifier |-> Revealed(First.viewing_key, 2)],
   [id |-> 3, block |-> 3, tree |-> 1, nullifier |-> Revealed(Second.viewing_key, 0)]}

(* The indexer reports a hash for shield c that its preimage does not      *)
(* give.                                                                   *)
MismatchedBodies == [ChainBodies EXCEPT ![c] = Deposit(Fresh("s1"), ToFirst, "r3", "weth", 1)]

AllNullifiers == {<<row.tree, row.nullifier>> : row \in ChainNullifiers}
AllBlocks == 0 .. 3

\* A mask with ones and zeros in both parts of the network id.
Mask == <<0, 1, 1, 0, 1>>
=============================================================================
