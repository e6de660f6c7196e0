---------------------------- MODULE WalletProofs ----------------------------
(***************************************************************************)
(* Proofs about module Wallet: what a balance says, however the decoding,  *)
(* saving, loading and restarting of any number of processes interleave    *)
(* with the syncer and with a wipe.                                        *)
(*                                                                         *)
(* That argument needs of the bodies only that a node opens for the        *)
(* account exactly if the account was paid with it (OpensAsPaid).  That    *)
(* what senders make has this property, whatever they pay to whom, is the  *)
(* theorem BodiesOpenAsPaid.  Last, that an address is read as it was      *)
(* written (AddressesSurvive), and which texts are read as the same        *)
(* address (AddressTextsDetermined).                                       *)
(***************************************************************************)
EXTENDS Wallet, UtxoStoreProofs, SequenceTheorems

(* The account is one that derive_railgun_keys gives.                      *)
AccountDerived == \E mnemonic, index : Account = derive_railgun_keys(mnemonic, index)

(* A node opens for the account exactly if its sender paid the account,    *)
(* and then to a note of what was paid.                                    *)
OpensAsPaid ==
  \A p \in PlacedNodes :
    LET hash == p.node.hash
        opened == decrypt_node(Account, p, hash, Body[hash])
    IN  /\ opened # {} <=> Paid[hash].to = Account.master_public_key
        /\ \A n \in opened : n.asset = Paid[hash].asset /\ n.value[2] = Paid[hash].value

(* Who a body was meant for: a note that is hashed into its node and can   *)
(* exist pays the account the address belongs to, if there is one; any     *)
(* other pays nobody.                                                      *)
Belongs(keys, a) ==
  a.master_key = keys.master_public_key /\ a.viewing_pubkey = viewing_public_key(keys.viewing_key)

Meant(hash, a, random, asset, value) ==
  IF /\ value <= U128Max
     /\ hash = PaidHash(a, random, asset, value)
     /\ \E mnemonic, index : Belongs(derive_railgun_keys(mnemonic, index), a)
  THEN Paid[hash].to = a.master_key /\ Paid[hash].asset = asset /\ Paid[hash].value = value
  ELSE Paid[hash].to = Nobody

SentTransfer(hash) ==
  \E sender, master, viewing_key, chain, random, asset, value, U :
    LET a == from_public_keys(master, viewing_public_key(viewing_key), chain)
    IN  /\ \E memo \in Seq(U) : Body[hash] = Transfer(sender, to_string(a), random, asset, value, memo)
        /\ value <= U128Max
        /\ Meant(hash, a, random, asset, value)

SentDeposit(hash) ==
  \E sender, master, viewing_key, chain, random, asset, value :
    LET a == from_public_keys(master, viewing_public_key(viewing_key), chain)
    IN  /\ Body[hash] = Deposit(sender, to_string(a), random, asset, value)
        /\ hash = PaidHash(a, random, asset, value)
        /\ Meant(hash, a, random, asset, value)

(* Every node of the chain is a transfer to some address, of the note it   *)
(* is stored under the hash of or not, or a deposit the indexer reports    *)
(* with the hash of its preimage.                                          *)
NodesSent == \A p \in PlacedNodes : SentTransfer(p.node.hash) \/ SentDeposit(p.node.hash)

(* The indexer reports a shield with the hash of its preimage.             *)
ShieldsHashed ==
  \A hash \in Hashes :
    LET body == Body[hash]
    IN  body.kind # "Transact" => hash = note_hash(body.npk, body.token, <<"u128", body.value>>)

(* No two rows of the chain are about the same position.                   *)
OneNodePerSlot ==
  \A row, other \in Representable(CommitmentRows) :
    /\ PlacedNode(row).tree = PlacedNode(other).tree
    /\ PlacedNode(row).leaf = PlacedNode(other).leaf
    => PlacedNode(row) = PlacedNode(other)

-----------------------------------------------------------------------------
(* A decoded note.                                                         *)

Opened(p) == decrypt_node(Account, p, p.node.hash, Body[p.node.hash])

(* NoteDecryptor::assemble.                                                *)
LEMMA AssembledNote ==
  ASSUME NEW keys, NEW p, NEW asset, NEW value, NEW random, NEW memo, NEW type
  PROVE  LET n == assemble(keys, p, asset, value, random, memo, type)
         IN  /\ n.tree = p.tree /\ n.leaf = p.leaf
             /\ n.nullifier = nullifier(keys.nullifying_key, p.leaf)
             /\ n.commitment_hash = note_hash(n.note_public_key, asset, value)
  BY DEF assemble

(* A note stands at its node's position and carries the nullifier of that  *)
(* position.  A transfer's commitment hash has been compared; a deposit's  *)
(* is what its preimage gives.                                             *)
LEMMA OpenedNote ==
  ASSUME NEW p, NEW n \in Opened(p)
  PROVE  LET hash == p.node.hash
             body == Body[hash]
         IN  /\ n.tree = p.tree /\ n.leaf = p.leaf
             /\ n.nullifier = nullifier(Account.nullifying_key, p.leaf)
             /\ \/ body.kind = "Transact" /\ n.commitment_hash = hash
                \/ /\ body.kind # "Transact"
                   /\ n.commitment_hash = note_hash(body.npk, body.token, <<"u128", body.value>>)
<1> DEFINE hash == p.node.hash
           body == Body[hash]
<1>1. CASE body.kind = "Transact"
  <2>1. n \in decrypt_transact(Account, p, hash, body)
    BY <1>1 DEF Opened, decrypt_node
  <2> HIDE DEF body, hash
  <2>2. /\ n.commitment_hash = hash
        /\ \E asset, value, random, memo :
             n = assemble(Account, p, asset, value, random, memo, "Transact")
    BY <2>1 DEF decrypt_transact
  <2> QED
    BY <1>1, <2>2, AssembledNote DEF body, hash
<1>2. CASE body.kind # "Transact"
  <2>1. n \in decrypt_shield(Account, p, body)
    BY <1>2 DEF Opened, decrypt_node
  <2> HIDE DEF body, hash
  <2>2. /\ n.note_public_key = body.npk
        /\ \E random :
             n = assemble(Account, p, body.token, <<"u128", body.value>>, random, <<>>, "Shield")
    BY <2>1 DEF decrypt_shield
  <2> QED
    BY <1>2, <2>2, AssembledNote DEF body, hash
<1> QED
  BY <1>1, <1>2

-----------------------------------------------------------------------------
(* The inductive invariant.                                                *)

(* The tables are the chain up to the watermark.                           *)
ReplicaExact ==
  \/ synced = Never /\ stored = {} /\ nullifiers = {}
  \/ synced \in Blocks /\ stored = NodesThrough(synced) /\ nullifiers = NullifiersThrough(synced)

(* Every note held is one of a node that is stored,                        *)
Genuine(held) == \A n \in held : \E p \in stored : n \in Opened(p)

(* and what a tree held when it was decoded is among them.                 *)
Covers(held, t, block) ==
  block # Never =>
    /\ synced # Never /\ block <= synced
    /\ \A p \in NodesThrough(block) : p.tree = t => Opened(p) \subseteq held

View(held, since) ==
  /\ since \in [Trees -> Blocks \cup {Never}]
  /\ Genuine(held)
  /\ \A t \in Trees : Covers(held, t, since[t])

WalletInv ==
  /\ ReplicaExact
  /\ DOMAIN notes = Wallets
  /\ seen = [w \in Wallets |-> seen[w]]
  /\ \A w \in Wallets : View(notes[w], seen[w])
  /\ View(saved.notes, saved.seen)

(* The chain up to a later block holds all there was before.               *)
LEMMA ChainGrows ==
  ASSUME NEW b \in Blocks, NEW c \in Blocks, b <= c
  PROVE  /\ NodesThrough(b) \subseteq NodesThrough(c)
         /\ NodesThrough(b) \subseteq PlacedNodes
<1>1. Blocks \subseteq Nat
  BY StoreAssumption
<1>2. \A row \in Representable(CommitmentRows) :
        row.block \in Blocks /\ PlacedNode(row) \in PlacedNodes
  BY RowsAssumption DEF Representable
<1>3. ASSUME NEW row \in Representable(CommitmentRows), row.block <= b
      PROVE  row.block <= c
  <2>1. row.block \in Nat /\ b \in Nat /\ c \in Nat
    BY <1>1, <1>2
  <2> QED
    BY <1>3, <2>1
<1> QED
  BY <1>2, <1>3 DEF NodesThrough

(* A watermark is a block, and the tables are the chain up to it.          *)
LEMMA Watermark ==
  ASSUME ReplicaExact, synced # Never
  PROVE  synced \in Blocks /\ synced <= synced /\ stored = NodesThrough(synced)
<1>1. synced \in Blocks /\ stored = NodesThrough(synced)
  BY DEF ReplicaExact
<1>2. synced \in Nat
  BY <1>1, StoreAssumption
<1> QED
  BY <1>1, <1>2

(* tree_count reaches beyond every stored node.                            *)
LEMMA TreeCountReaches ==
  ASSUME ReplicaExact, NEW p \in stored
  PROVE  p \in PlacedNodes /\ p.tree \in 0 .. TreeCount - 1
<1> DEFINE S == {0} \cup {q.tree + 1 : q \in stored}
<1>0. MaxTrees \in Nat /\ Blocks \subseteq Nat
  BY StoreAssumption
<1>1. stored \subseteq PlacedNodes
  <2>1. CASE synced \in Blocks /\ stored = NodesThrough(synced)
    <3>1. synced <= synced
      BY <1>0, <2>1
    <3> QED
      BY <2>1, <3>1, ChainGrows
  <2> QED
    BY <2>1 DEF ReplicaExact
<1>2. \A q \in stored : q.tree \in Nat /\ q.tree + 1 \in 0 .. MaxTrees
  BY <1>0, <1>1 DEF PlacedNodes, Trees
<1>3. S \in SUBSET (0 .. MaxTrees) /\ S # {} /\ p.tree + 1 \in S
  BY <1>0, <1>2
<1> HIDE DEF S
<1>4. Max(S) \in S /\ \A y \in S : y <= Max(S)
  BY <1>0, <1>3, MaxIsGreatest, Zenon
<1>5. Max(S) \in Nat /\ p.tree + 1 <= Max(S)
  <2>1. Max(S) \in 0 .. MaxTrees
    BY <1>3, <1>4
  <2>2. p.tree + 1 <= Max(S)
    BY <1>3, <1>4
  <2> QED
    BY <1>0, <2>1, <2>2
<1>6. TreeCount = Max(S)
  BY DEF TreeCount, S
<1> QED
  BY <1>1, <1>2, <1>5, <1>6

(* What a process knows of a view it does not lose by the replica moving   *)
(* forward.                                                                *)
LEMMA ViewKept ==
  ASSUME ReplicaExact, ReplicaExact', NEW held, NEW since, View(held, since),
         synced' # Never, synced = Never \/ synced <= synced'
  PROVE  View(held, since)'
<1>1. Blocks \subseteq Nat /\ Never \notin Nat
  BY StoreAssumption
<1>2. synced' \in Blocks /\ stored' = NodesThrough(synced')
  BY DEF ReplicaExact
<1>3. stored \subseteq stored'
  <2>1. CASE synced = Never
    BY <1>1, <2>1 DEF ReplicaExact
  <2>2. CASE synced # Never
    BY <1>2, <2>2, Watermark, ChainGrows
  <2> QED
    BY <2>1, <2>2
<1>4. Genuine(held)'
  BY <1>3 DEF View, Genuine
<1>5. ASSUME NEW t \in Trees
      PROVE  Covers(held, t, since[t])'
  <2>1. CASE since[t] = Never
    BY <2>1 DEF Covers
  <2>2. CASE since[t] # Never
    <3>1. /\ since[t] \in Blocks /\ synced # Never /\ since[t] <= synced
          /\ \A p \in NodesThrough(since[t]) : p.tree = t => Opened(p) \subseteq held
      BY <2>2 DEF View, Covers
    <3>2. synced \in Blocks /\ synced <= synced'
      BY <3>1, Watermark
    <3>3. since[t] \in Nat /\ synced \in Nat /\ synced' \in Nat
      BY <1>1, <1>2, <3>1, <3>2
    <3>4. since[t] <= synced'
      BY <3>1, <3>2, <3>3
    <3> QED
      BY <3>1, <3>4 DEF Covers
  <2> QED
    BY <2>1, <2>2
<1> QED
  BY <1>4, <1>5 DEF View

(* A process that holds nothing is owed nothing.                           *)
LEMMA NothingHeld == View({}, NothingSeen)
  BY DEF View, Genuine, Covers, NothingSeen

(* decode_tree over the present tables, added to what is held.             *)
LEMMA TreeDecoded ==
  ASSUME ReplicaExact, NEW held, NEW since, View(held, since), NEW t \in Trees
  PROVE  View(held \cup DecodedFrom(stored, t), [since EXCEPT ![t] = synced])
<1> DEFINE now  == held \cup DecodedFrom(stored, t)
           upto == [since EXCEPT ![t] = synced]
<1>0. Blocks \subseteq Nat /\ Never \notin Nat
  BY StoreAssumption
<1>1. DecodedFrom(stored, t) = UNION {Opened(p) : p \in {q \in stored : q.tree = t}}
  BY DEF DecodedFrom, Opened
<1>2. Genuine(now)
  BY <1>1 DEF View, Genuine
<1>3. upto \in [Trees -> Blocks \cup {Never}]
  BY DEF View, ReplicaExact
<1>4. ASSUME NEW u \in Trees
      PROVE  Covers(now, u, upto[u])
  <2>1. CASE u = t
    <3>1. upto[u] = synced
      BY <2>1 DEF View
    <3> HIDE DEF upto
    <3>2. synced # Never => synced <= synced /\ stored = NodesThrough(synced)
      BY Watermark
    <3> QED
      BY <1>1, <2>1, <3>1, <3>2 DEF Covers
  <2>2. CASE u # t
    <3>1. upto[u] = since[u]
      BY <2>2 DEF View
    <3> QED
      BY <3>1 DEF View, Covers
  <2> QED
    BY <2>1, <2>2
<1> QED
  BY <1>2, <1>3, <1>4 DEF View

(* decode_all over the present tables.                                     *)
LEMMA AllDecoded ==
  ASSUME ReplicaExact
  PROVE  View(UNION {DecodedFrom(stored, t) : t \in 0 .. TreeCount - 1}, [t \in Trees |-> synced])
<1> DEFINE now == UNION {DecodedFrom(stored, t) : t \in 0 .. TreeCount - 1}
<1>0. Blocks \subseteq Nat /\ Never \notin Nat
  BY StoreAssumption
<1>1. \A t : DecodedFrom(stored, t) = UNION {Opened(p) : p \in {q \in stored : q.tree = t}}
  BY DEF DecodedFrom, Opened
<1>2. Genuine(now)
  BY <1>1 DEF Genuine
<1>3. \A p \in stored : Opened(p) \subseteq now
  <2> TAKE p \in stored
  <2>1. p.tree \in 0 .. TreeCount - 1
    BY TreeCountReaches
  <2>2. Opened(p) \subseteq DecodedFrom(stored, p.tree)
    BY <1>1
  <2> QED
    BY <2>1, <2>2
<1> HIDE DEF now
<1>4. synced # Never => synced <= synced /\ stored = NodesThrough(synced)
  BY Watermark
<1>5. View(now, [t \in Trees |-> synced])
  BY <1>2, <1>3, <1>4 DEF View, Covers, ReplicaExact
<1> QED
  BY <1>5 DEF now

(* Nothing decoded of an empty replica.                                    *)
LEMMA WalletInvInit == WalletInit => WalletInv
<1> SUFFICES ASSUME WalletInit
             PROVE  WalletInv
  OBVIOUS
<1>1. ReplicaExact
  BY DEF WalletInit, Init, ReplicaExact
<1>2. /\ notes = [w \in Wallets |-> {}]
      /\ seen = [w \in Wallets |-> NothingSeen]
      /\ saved.notes = {} /\ saved.seen = NothingSeen
  BY DEF WalletInit
<1> QED
  BY <1>1, <1>2, NothingHeld DEF WalletInv

(* A process exchanges what it holds; the tables and the saved list stay.  *)
LEMMA OneProcess ==
  ASSUME WalletInv, NEW w \in Wallets, NEW held, NEW since, View(held, since),
         notes' = [notes EXCEPT ![w] = held], seen' = [seen EXCEPT ![w] = since],
         UNCHANGED <<saved, replicaVars>>
  PROVE  WalletInv'
<1>1. UNCHANGED <<stored, nullifiers, synced, saved>>
  BY DEF replicaVars
<1>2. \A h, u : View(h, u) => View(h, u)'
  BY <1>1 DEF View, Genuine, Covers
<1>3. ReplicaExact' /\ View(saved.notes, saved.seen)'
  BY <1>1, <1>2 DEF WalletInv, ReplicaExact
<1>4. DOMAIN notes' = Wallets /\ seen' = [v \in Wallets |-> seen'[v]]
  BY DEF WalletInv
<1>5. ASSUME NEW v \in Wallets
      PROVE  View(notes[v], seen[v])'
  <2>1. CASE v = w
    <3>1. notes'[v] = held /\ seen'[v] = since
      BY <2>1 DEF WalletInv
    <3> QED
      BY <1>2, <3>1
  <2>2. CASE v # w
    <3>1. notes'[v] = notes[v] /\ seen'[v] = seen[v]
      BY <2>2 DEF WalletInv
    <3> QED
      BY <1>2, <3>1 DEF WalletInv
  <2> QED
    BY <2>1, <2>2
<1> QED
  BY <1>3, <1>4, <1>5 DEF WalletInv

(* The replica moves forward under processes that hold on to their notes.  *)
LEMMA SyncKeeps == ASSUME WalletInv, Sync PROVE WalletInv'
<1>1. PICK block \in Blocks : Advance(block)
  BY DEF Sync
<1>2. UNCHANGED <<notes, seen, saved>>
  BY DEF Sync, walletVars
<1>3. ReplicaExact /\ ReplicaExact'
  BY <1>1 DEF WalletInv, ReplicaExact, Advance
<1>4. synced' # Never /\ (synced = Never \/ synced <= synced')
  <2>1. block \in Nat /\ Never \notin Nat /\ synced' = block
    BY <1>1, StoreAssumption DEF Advance
  <2>2. CASE synced # Never
    <3>1. synced \in Nat
      BY <1>3, <2>2, Watermark, StoreAssumption
    <3> QED
      BY <1>1, <2>1, <2>2, <3>1 DEF Advance
  <2> QED
    BY <2>1, <2>2
<1>5. ASSUME NEW held, NEW since, View(held, since)
      PROVE  View(held, since)'
  BY <1>3, <1>4, <1>5, ViewKept
<1>6. \A w \in Wallets : View(notes[w], seen[w])'
  BY <1>2, <1>5 DEF WalletInv
<1>7. View(saved.notes, saved.seen)'
  BY <1>2, <1>5 DEF WalletInv
<1> QED
  BY <1>2, <1>3, <1>6, <1>7 DEF WalletInv

(* A wipe finds no process with notes.                                     *)
LEMMA WipeKeeps == ASSUME WalletInv, ClearAll PROVE WalletInv'
<1>1. /\ \A w \in Wallets : notes[w] = {} /\ seen[w] = NothingSeen
      /\ stored' = {} /\ nullifiers' = {} /\ synced' = Never
      /\ saved'.notes = {} /\ saved'.seen = NothingSeen
      /\ notes' = notes /\ seen' = seen
  BY DEF ClearAll, Wipe
<1>2. ReplicaExact'
  BY <1>1 DEF ReplicaExact
<1>3. View({}, NothingSeen)'
  BY <1>1 DEF View, Genuine, Covers, NothingSeen
<1>4. View(saved.notes, saved.seen)'
  BY <1>1, <1>3
<1>5. \A w \in Wallets : View(notes[w], seen[w])'
  BY <1>1, <1>3
<1> QED
  BY <1>1, <1>2, <1>4, <1>5 DEF WalletInv

(* Each of a process's own operations.                                     *)
LEMMA ProcessKeeps ==
  ASSUME WalletInv, NEW w \in Wallets,
         \/ DecodeAll(w) \/ Save(w) \/ Load(w) \/ Restart(w)
         \/ \E t \in Trees : DecodeTree(w, t)
  PROVE  WalletInv'
<1>0. /\ ReplicaExact /\ View(saved.notes, saved.seen)
      /\ View(notes[w], seen[w]) /\ DOMAIN notes = Wallets /\ seen = [v \in Wallets |-> seen[v]]
  BY DEF WalletInv
<1>1. CASE DecodeAll(w)
  <2> DEFINE held == UNION {DecodedFrom(stored, t) : t \in 0 .. TreeCount - 1}
             since == [t \in Trees |-> synced]
  <2>1. View(held, since)
    BY <1>0, AllDecoded
  <2>2. /\ notes' = [notes EXCEPT ![w] = held] /\ seen' = [seen EXCEPT ![w] = since]
        /\ UNCHANGED <<saved, replicaVars>>
    BY <1>1 DEF DecodeAll
  <2> HIDE DEF held, since
  <2> QED
    BY <2>1, <2>2, OneProcess
<1>2. CASE Save(w)
  <2>1. /\ saved'.notes = notes[w] /\ saved'.seen = seen[w]
        /\ UNCHANGED <<notes, seen, stored, nullifiers, synced>>
    BY <1>2 DEF Save, replicaVars
  <2>2. \A h, u : View(h, u) => View(h, u)'
    BY <2>1 DEF View, Genuine, Covers
  <2> QED
    BY <1>0, <2>1, <2>2 DEF WalletInv, ReplicaExact
<1>3. CASE Load(w)
  <2>1. /\ notes' = [notes EXCEPT ![w] = saved.notes] /\ seen' = [seen EXCEPT ![w] = saved.seen]
        /\ UNCHANGED <<saved, replicaVars>>
    BY <1>3 DEF Load
  <2> QED
    BY <1>0, <2>1, OneProcess
<1>4. CASE Restart(w)
  <2>1. /\ notes' = [notes EXCEPT ![w] = {}] /\ seen' = [seen EXCEPT ![w] = NothingSeen]
        /\ UNCHANGED <<saved, replicaVars>>
    BY <1>4 DEF Restart
  <2> QED
    BY <2>1, NothingHeld, OneProcess
<1>5. ASSUME NEW t \in Trees, DecodeTree(w, t)
      PROVE  WalletInv'
  <2> DEFINE held == notes[w] \cup DecodedFrom(stored, t)
             since == [seen[w] EXCEPT ![t] = synced]
  <2>1. View(held, since)
    BY <1>0, TreeDecoded
  <2>2. notes' = [notes EXCEPT ![w] = held] /\ UNCHANGED <<saved, replicaVars>>
    BY <1>0, <1>5 DEF DecodeTree
  <2>3. seen' = [seen EXCEPT ![w] = since]
    BY <1>5 DEF DecodeTree
  <2> HIDE DEF held, since
  <2> QED
    BY <2>1, <2>2, <2>3, OneProcess
<1> QED
  BY <1>1, <1>2, <1>3, <1>4, <1>5

(* The invariant holds in every reachable state.                           *)
LEMMA WalletInvHolds == WalletSpec => []WalletInv
<1>1. WalletInv /\ [WalletNext]_vars => WalletInv'
  <2> SUFFICES ASSUME WalletInv, [WalletNext]_vars
               PROVE  WalletInv'
    OBVIOUS
  <2>1. CASE UNCHANGED vars
    <3>1. UNCHANGED <<stored, nullifiers, synced, notes, seen, saved>>
      BY <2>1 DEF vars
    <3>2. \A h, u : View(h, u) => View(h, u)'
      BY <3>1 DEF View, Genuine, Covers
    <3> QED
      BY <3>1, <3>2 DEF WalletInv, ReplicaExact
  <2>2. CASE Sync
    BY <2>2, SyncKeeps
  <2>3. CASE ClearAll
    BY <2>3, WipeKeeps
  <2>4. ASSUME NEW w \in Wallets,
               \/ DecodeAll(w) \/ Save(w) \/ Load(w) \/ Restart(w)
               \/ \E t \in Trees : DecodeTree(w, t)
        PROVE  WalletInv'
    BY <2>4, ProcessKeeps
  <2> QED
    BY <2>1, <2>2, <2>3, <2>4 DEF WalletNext
<1> QED
  BY <1>1, WalletInvInit, PTL DEF WalletSpec

-----------------------------------------------------------------------------
(* What a balance reports are the notes held that are not nullified.       *)
LEMMA ReportedNotes ==
  ASSUME NEW w
  PROVE  Reported(w) = {Claim(n, n.asset, n.value[2]) : n \in {m \in notes[w] : ~IsNullified(m)}}
<1>1. Balances(notes[w]).utxos = {m \in notes[w] : ~IsNullified(m)}
  BY DEF Balances
<1> QED
  BY <1>1 DEF Reported

(* What the circuits publish when a note is spent is what the decoder      *)
(* computed for it.                                                        *)
LEMMA NullifierRevealed ==
  ASSUME AccountDerived, NEW leaf
  PROVE  nullifier(Account.nullifying_key, leaf) = Revealed(Account.viewing_key, leaf)
<1>1. Account.nullifying_key = nullifying_key(Account.viewing_key)
  <2>1. PICK mnemonic, index : Account = derive_railgun_keys(mnemonic, index)
    BY DEF AccountDerived
  <2> DEFINE master == from_seed(<<"seed", mnemonic, "">>)
             view   == derive_path(master, viewing_path(index))
  <2>2. derive_railgun_keys(mnemonic, index).viewing_key = view
    BY DEF derive_railgun_keys
  <2>3. derive_railgun_keys(mnemonic, index).nullifying_key = nullifying_key(view)
    BY DEF derive_railgun_keys
  <2> QED
    BY <2>1, <2>2, <2>3
<1> QED
  BY <1>1 DEF nullifier, nullifying_key, poseidon_hash, Revealed

(* An unspent note on the chain is one that is not nullified in the        *)
(* tables, and the other way round.                                        *)
LEMMA SpentNullified ==
  ASSUME AccountDerived, WalletInv, NEW p \in stored, NEW n \in Opened(p), NEW c,
         c.tree = p.tree, c.leaf = p.leaf, c \in OwnedThrough(synced)
  PROVE  c \in SpentThrough(synced) <=> IsNullified(n)
<1>1. /\ n.tree = p.tree
      /\ n.nullifier = Revealed(Account.viewing_key, p.leaf)
  BY OpenedNote, NullifierRevealed
<1>2. synced # Never /\ nullifiers = NullifiersThrough(synced)
  BY StoreAssumption DEF WalletInv, ReplicaExact
<1>3. IsNullified(n) <=> <<p.tree, Revealed(Account.viewing_key, p.leaf)>> \in nullifiers
  BY <1>1 DEF IsNullified
<1> QED
  BY <1>2, <1>3 DEF SpentThrough

-----------------------------------------------------------------------------
(* Keys and points.                                                        *)

(* Points as bags of the scalars in them.                                  *)
Two(x, y) == (EmptyBag (+) SetToBag({x})) (+) SetToBag({y})
Three(x, y, z) == Two(x, y) (+) SetToBag({z})
One(x, e) == IF e = x THEN 1 ELSE 0

(* How often a scalar is in a point.                                       *)
LEMMA Scalars ==
  ASSUME NEW x, NEW y, NEW z
  PROVE  /\ Two(x, y) = [e \in {x, y} |-> One(x, e) + One(y, e)]
         /\ Three(x, y, z) = [e \in {x, y, z} |-> One(x, e) + One(y, e) + One(z, e)]
<1>1. Two(x, y) = [e \in {x, y} |-> One(x, e) + One(y, e)]
  BY DEF Two, One, EmptyBag, SetToBag, (+)
<1>2. Three(x, y, z) = [e \in {x, y, z} |-> One(x, e) + One(y, e) + One(z, e)]
  <2> DEFINE P == Two(x, y)
  <2>1. DOMAIN P = {x, y} /\ \A e \in {x, y} : P[e] = One(x, e) + One(y, e)
    BY <1>1
  <2> HIDE DEF P
  <2>2. P (+) SetToBag({z}) = [e \in {x, y, z} |-> One(x, e) + One(y, e) + One(z, e)]
    BY <2>1, SMTT(30) DEF One, SetToBag, (+)
  <2> QED
    BY <2>2 DEF P, Three
<1> QED
  BY <1>1, <1>2

(* A point is the same in whichever order it was multiplied, and tells     *)
(* which scalars it was multiplied with.                                   *)
LEMMA SamePoint ==
  ASSUME NEW i, NEW j, NEW k, NEW b, b # i, b # j, b # k
  PROVE  /\ Two(i, j) = Two(k, i) <=> k = j
         /\ Three(i, b, j) = Three(k, b, i) <=> k = j
<1> DEFINE N2(x, y) == [e \in {x, y} |-> One(x, e) + One(y, e)]
           N3(x, y, z) == [e \in {x, y, z} |-> One(x, e) + One(y, e) + One(z, e)]
<1>0. /\ Two(i, j) = N2(i, j) /\ Two(k, i) = N2(k, i)
      /\ Three(i, b, j) = N3(i, b, j) /\ Three(k, b, i) = N3(k, b, i)
  <2>1. \A x, y, z : Two(x, y) = N2(x, y) /\ Three(x, y, z) = N3(x, y, z)
    BY Scalars
  <2> HIDE DEF N2, N3
  <2> QED
    BY <2>1
<1>1. N2(i, k) = N2(k, i) /\ N3(i, b, k) = N3(k, b, i)
  <2>1. \A e : One(i, e) + One(k, e) = One(k, e) + One(i, e)
    BY DEF One
  <2>2. \A e : One(i, e) + One(b, e) + One(k, e) = One(k, e) + One(b, e) + One(i, e)
    BY DEF One
  <2>3. {i, b, k} = {k, b, i} /\ {i, k} = {k, i}
    OBVIOUS
  <2> QED
    BY <2>1, <2>2, <2>3, Zenon
<1>2. ASSUME N2(i, j) = N2(k, i)
      PROVE  k = j
  <2>1. DOMAIN N2(i, j) = {i, j} /\ DOMAIN N2(k, i) = {k, i}
    BY Zenon
  <2>2. j \in {i, j} /\ j \in {k, i}
    BY <1>2, <2>1, Zenon
  <2>3. One(i, j) + One(j, j) = One(k, j) + One(i, j)
    BY <1>2, <2>2, Zenon
  <2> QED
    BY <2>3 DEF One
<1>3. ASSUME N3(i, b, j) = N3(k, b, i)
      PROVE  k = j
  <2>1. DOMAIN N3(i, b, j) = {i, b, j} /\ DOMAIN N3(k, b, i) = {k, b, i}
    BY Zenon
  <2>2. j \in {i, b, j} /\ j \in {k, b, i}
    BY <1>3, <2>1, Zenon
  <2>3. One(i, j) + One(b, j) + One(j, j) = One(k, j) + One(b, j) + One(i, j)
    BY <1>3, <2>2, Zenon
  <2> QED
    BY <2>3 DEF One
<1> HIDE DEF N2, N3
<1> QED
  BY <1>0, <1>1, <1>2, <1>3

(* FlattenSeq of four blocks.                                              *)
LEMMA FlattenFour ==
  ASSUME NEW blocks, Len(blocks) = 4
  PROVE  FlattenSeq(blocks) = ((blocks[1] \o blocks[2]) \o blocks[3]) \o blocks[4]
<1> DEFINE a == blocks[1]
           b == blocks[2]
           c == blocks[3]
           d == blocks[4]
           P(f) == f = [i \in 1..4 |-> IF i = 1 THEN blocks[i] ELSE f[i - 1] \o blocks[i]]
           ab == a \o b
           abc == ab \o c
           abcd == abc \o d
           g == [i \in 1..4 |-> IF i = 1 THEN a ELSE IF i = 2 THEN ab ELSE IF i = 3 THEN abc ELSE abcd]
<1>1. P(g)
  <2>2. g[1] = a /\ g[2] = ab /\ g[3] = abc /\ g[4] = abcd
    OBVIOUS
  <2> HIDE DEF g
  <2>3. ASSUME NEW i \in 1..4
        PROVE  g[i] = IF i = 1 THEN blocks[i] ELSE g[i - 1] \o blocks[i]
    <3>1. CASE i = 1
      BY <2>2, <3>1
    <3>2. CASE i = 2
      <4>1. i - 1 = 1
        BY <3>2
      <4> QED
        BY <2>2, <3>2, <4>1, Zenon
    <3>3. CASE i = 3
      <4>1. i - 1 = 2 /\ i # 1
        BY <3>3
      <4> QED
        BY <2>2, <3>3, <4>1, Zenon
    <3>4. CASE i = 4
      <4>1. i - 1 = 3 /\ i # 1
        BY <3>4
      <4> QED
        BY <2>2, <3>4, <4>1, Zenon
    <3>5. i \in {1, 2, 3, 4}
      OBVIOUS
    <3> QED
      BY <3>1, <3>2, <3>3, <3>4, <3>5, Zenon
  <2>4. g = [i \in 1..4 |-> g[i]]
    BY DEF g
  <2> QED
    BY <2>3, <2>4, Zenon
<1>3. FlattenSeq(blocks) = (CHOOSE f : P(f))[4]
  BY DEF FlattenSeq
<1>4. P(CHOOSE f : P(f))
  <2> HIDE DEF P, g
  <2> QED
    BY <1>1
<1>5. ASSUME NEW f, P(f)
      PROVE  f[4] = abcd
  <2>0. \A i \in 1..4 : f[i] = IF i = 1 THEN blocks[i] ELSE f[i - 1] \o blocks[i]
    BY <1>5, Zenon
  <2>2. f[1] = a
    BY <2>0
  <2>3. f[2] = f[2 - 1] \o b
    BY <2>0, 2 \in 1..4, 2 # 1, Zenon
  <2>4. f[3] = f[3 - 1] \o c
    BY <2>0, 3 \in 1..4, 3 # 1, Zenon
  <2>5. f[4] = f[4 - 1] \o d
    BY <2>0, 4 \in 1..4, 4 # 1, Zenon
  <2>6. 2 - 1 = 1 /\ 3 - 1 = 2 /\ 4 - 1 = 3
    OBVIOUS
  <2> QED
    BY <2>2, <2>3, <2>4, <2>5, <2>6, Zenon
<1> QED
  <2> HIDE DEF P
  <2> QED
    BY <1>3, <1>4, <1>5

(* The same of one block.                                                  *)
LEMMA FlattenOne ==
  ASSUME NEW blocks, Len(blocks) = 1
  PROVE  FlattenSeq(blocks) = blocks[1]
<1> DEFINE a == blocks[1]
           P(f) == f = [i \in 1..1 |-> IF i = 1 THEN blocks[i] ELSE f[i - 1] \o blocks[i]]
<1>1. P(<<a>>)
  OBVIOUS
<1>3. FlattenSeq(blocks) = (CHOOSE f : P(f))[1]
  BY DEF FlattenSeq
<1>4. \A f : P(f) => f[1] = a
  OBVIOUS
<1> HIDE DEF P
<1> QED
  BY <1>1, <1>3, <1>4

(* A point that met the blinding scalar and two viewing keys.              *)
LEMMA SharedKey ==
  ASSUME NEW sender, NEW viewing_key, NEW mine, NEW random
  PROVE  /\ shared_key(mine, Blinded(viewing_public_key(sender), random))
              = Shared(sender, Blinded(viewing_public_key(viewing_key), random))
            <=> viewing_key = mine
         /\ shared_key(mine, viewing_public_key(sender)) = Shared(sender, viewing_public_key(viewing_key))
            <=> viewing_key = mine
<1> DEFINE scalar(k) == <<"scalar", k>>
           blind == <<"blind", random>>
<1>1. \A j, k : scalar(j) = scalar(k) <=> j = k
  OBVIOUS
<1>2. \A j : scalar(j) # blind
  OBVIOUS
<1>3. \A k : viewing_public_key(k) = <<"point", EmptyBag (+) SetToBag({scalar(k)})>>
  BY Zenon DEF viewing_public_key, Multiplied, BasePoint, to_curve25519_scalar
<1>4. \A j, k : Multiplied(Blinded(viewing_public_key(j), random), scalar(k))
                  = <<"point", Three(scalar(j), blind, scalar(k))>>
  BY <1>3, Zenon DEF Blinded, Multiplied, Two, Three
<1>5. \A j, k : Multiplied(viewing_public_key(j), scalar(k)) = <<"point", Two(scalar(j), scalar(k))>>
  BY <1>3, Zenon DEF Multiplied, Two
<1>6. \A j, k : shared_key(k, j) = <<"sha256", Multiplied(j, scalar(k))>>
                  /\ Shared(k, j) = <<"sha256", Multiplied(j, scalar(k))>>
  BY Zenon DEF shared_key, Shared, to_curve25519_scalar
<1> HIDE DEF scalar, blind
<1>7. \A p, q : <<"sha256", <<"point", p>> >> = <<"sha256", <<"point", q>> >> <=> p = q
  OBVIOUS
<1>8. /\ Three(scalar(sender), blind, scalar(mine)) = Three(scalar(viewing_key), blind, scalar(sender))
           <=> viewing_key = mine
      /\ Two(scalar(sender), scalar(mine)) = Two(scalar(viewing_key), scalar(sender))
           <=> viewing_key = mine
  BY <1>1, <1>2, SamePoint
<1>9. /\ shared_key(mine, Blinded(viewing_public_key(sender), random))
           = <<"sha256", <<"point", Three(scalar(sender), blind, scalar(mine))>> >>
      /\ Shared(sender, Blinded(viewing_public_key(viewing_key), random))
           = <<"sha256", <<"point", Three(scalar(viewing_key), blind, scalar(sender))>> >>
  BY <1>4, <1>6, Zenon
<1>10. /\ shared_key(mine, viewing_public_key(sender))
           = <<"sha256", <<"point", Two(scalar(sender), scalar(mine))>> >>
       /\ Shared(sender, viewing_public_key(viewing_key))
           = <<"sha256", <<"point", Two(scalar(viewing_key), scalar(sender))>> >>
  BY <1>5, <1>6, Zenon
<1> QED
  BY <1>7, <1>8, <1>9, <1>10

-----------------------------------------------------------------------------
(* Blocks, and how they are cut.                                           *)

(* Four blocks, the first three of two units: where decrypt_gcm cuts.      *)
LEMMA CutFour ==
  ASSUME NEW c, Len(c.data) = 4, DOMAIN c.data = 1..4, NEW n \in Nat,
         Len(c.data[1]) = 2, Len(c.data[2]) = 2, Len(c.data[3]) = 2, Len(c.data[4]) = n
  PROVE  LET plain == c.tag[4]
             bundle == decrypt_gcm(c)
         IN  /\ Len(bundle) = 4
             /\ bundle[1] = SubSeq(plain, 1, 2) /\ bundle[2] = SubSeq(plain, 3, 4)
             /\ bundle[3] = SubSeq(plain, 5, 6) /\ bundle[4] = SubSeq(plain, 7, 6 + n)
<1> DEFINE data == c.data
           plain == c.tag[4]
           P(f) == f = [i \in 0..Len(data) |-> IF i = 0 THEN 0 ELSE f[i - 1] + Len(data[i])]
           g == [i \in 0..4 |-> IF i = 4 THEN 6 + n ELSE 2 * i]
           cut == CHOOSE f : P(f)
           h == [i \in 1..4 |-> SubSeq(plain, cut[i - 1] + 1, cut[i])]
<1>0. Len(data) = 4 /\ DOMAIN data = 1..4
  OBVIOUS
<1>1. Len(data[1]) = 2 /\ Len(data[2]) = 2 /\ Len(data[3]) = 2 /\ Len(data[4]) = n
  OBVIOUS
<1>2. decrypt_gcm(c) = [i \in DOMAIN data |-> SubSeq(plain, cut[i - 1] + 1, cut[i])]
  BY DEF decrypt_gcm
<1> HIDE DEF data, plain
<1>3. P(g)
  <2>1. \A i \in 0..4 : i = 0 \/ i = 1 \/ i = 2 \/ i = 3 \/ i = 4
    OBVIOUS
  <2>2. g[0] = 0 /\ g[1] = g[0] + 2 /\ g[2] = g[1] + 2 /\ g[3] = g[2] + 2 /\ g[4] = g[3] + n
    OBVIOUS
  <2>3. 1 - 1 = 0 /\ 2 - 1 = 1 /\ 3 - 1 = 2 /\ 4 - 1 = 3
    OBVIOUS
  <2>4. g = [i \in 0..4 |-> g[i]]
    OBVIOUS
  <2> HIDE DEF g
  <2>5. \A i \in 0..4 : g[i] = IF i = 0 THEN 0 ELSE g[i - 1] + Len(data[i])
    BY <1>1, <2>1, <2>2, <2>3
  <2> QED
    BY <1>0, <2>4, <2>5, Zenon
<1>4. P(cut)
  <2> HIDE DEF P, g
  <2> QED
    BY <1>3
<1> HIDE DEF cut
<1>5. cut[0] = 0 /\ cut[1] = 2 /\ cut[2] = 4 /\ cut[3] = 6 /\ cut[4] = 6 + n
  <2>1. \A i \in 0..4 : cut[i] = IF i = 0 THEN 0 ELSE cut[i - 1] + Len(data[i])
    BY <1>0, <1>4, Zenon
  <2>2. cut[0] = 0
    BY <2>1
  <2>3. cut[1] = cut[0] + Len(data[1])
    BY <2>1, 1 \in 0..4, 1 # 0, 1 - 1 = 0
  <2>4. cut[2] = cut[1] + Len(data[2])
    BY <2>1, 2 \in 0..4, 2 # 0, 2 - 1 = 1
  <2>5. cut[3] = cut[2] + Len(data[3])
    BY <2>1, 3 \in 0..4, 3 # 0, 3 - 1 = 2
  <2>6. cut[4] = cut[3] + Len(data[4])
    BY <2>1, 4 \in 0..4, 4 # 0, 4 - 1 = 3
  <2> QED
    BY <1>1, <2>2, <2>3, <2>4, <2>5, <2>6
<1>6. /\ h[1] = SubSeq(plain, cut[1 - 1] + 1, cut[1]) /\ h[2] = SubSeq(plain, cut[2 - 1] + 1, cut[2])
      /\ h[3] = SubSeq(plain, cut[3 - 1] + 1, cut[3]) /\ h[4] = SubSeq(plain, cut[4 - 1] + 1, cut[4])
  BY 1 \in 1..4, 2 \in 1..4, 3 \in 1..4, 4 \in 1..4, Zenon
<1>8. decrypt_gcm(c) = h
  BY <1>0, <1>2, Zenon
<1> HIDE DEF h
<1>9. /\ cut[1 - 1] + 1 = 1 /\ cut[2 - 1] + 1 = 3 /\ cut[3 - 1] + 1 = 5 /\ cut[4 - 1] + 1 = 7
  BY <1>5
<1>10. Len(h) = 4
  BY DEF h
<1> QED
  BY <1>5, <1>6, <1>8, <1>9, <1>10, Zenon DEF plain

(* Two neighbours of a sequence.                                           *)
LEMMA PairOf ==
  ASSUME NEW s, NEW i \in Nat
  PROVE  SubSeq(s, i, i + 1) = <<s[i], s[i + 1]>>
<1> DEFINE S == {s[i], s[i + 1]}
<1>1. \A j \in i .. i + 1 : s[j] \in S
  OBVIOUS
<1> HIDE DEF S
<1>2. /\ SubSeq(s, i, i + 1) \in Seq(S) /\ Len(SubSeq(s, i, i + 1)) = IF i <= i + 1 THEN i + 1 - i + 1 ELSE 0
      /\ \A j \in 1 .. i + 1 - i + 1 : SubSeq(s, i, i + 1)[j] = s[i + j - 1]
  BY <1>1, SubSeqProperties
<1> DEFINE t == SubSeq(s, i, i + 1)
<1>3. Len(t) = 2 /\ t[1] = s[i] /\ t[2] = s[i + 1]
  BY <1>2
<1> HIDE DEF t
<1>4. t \in Seq(S)
  BY <1>2 DEF t
<1>5. t = <<t[1], t[2]>>
  BY <1>3, <1>4
<1> QED
  BY <1>3, <1>5 DEF t

(* The units of a private transfer.                                        *)
LEMMA TransferUnits ==
  ASSUME NEW a, NEW random, NEW asset, NEW value, NEW U, NEW memo \in Seq(U)
  PROVE  LET units == FlattenSeq(Plaintext(a, random, asset, value, memo))
         IN  /\ \E S : units \in Seq(S)
             /\ Len(units) = 6 + Len(memo)
             /\ SubSeq(units, 1, 2) = Halves(a.master_key)
             /\ SubSeq(units, 3, 4) = Halves(<<"token", asset>>)
             /\ SubSeq(units, 5, 6) = << <<"random", random>>, <<"u128", value>> >>
<1> DEFINE m == Halves(a.master_key)
           t == Halves(<<"token", asset>>)
           v == << <<"random", random>>, <<"u128", value>> >>
           S == U \cup {m[1], m[2], t[1], t[2], v[1], v[2]}
           units == ((m \o t) \o v) \o memo
<1>1. FlattenSeq(Plaintext(a, random, asset, value, memo)) = units
  <2> DEFINE blocks == <<m, t, v, memo>>
  <2>1. Plaintext(a, random, asset, value, memo) = blocks
    BY DEF Plaintext
  <2> HIDE DEF m, t, v
  <2>2. Len(blocks) = 4 /\ blocks[1] = m /\ blocks[2] = t /\ blocks[3] = v /\ blocks[4] = memo
    OBVIOUS
  <2> HIDE DEF blocks
  <2>3. FlattenSeq(blocks) = ((blocks[1] \o blocks[2]) \o blocks[3]) \o blocks[4]
    BY <2>2, FlattenFour
  <2> QED
    BY <2>1, <2>2, <2>3, Zenon
<1>2. /\ m \in Seq(S) /\ Len(m) = 2 /\ m = <<m[1], m[2]>>
      /\ t \in Seq(S) /\ Len(t) = 2 /\ t = <<t[1], t[2]>>
      /\ v \in Seq(S) /\ Len(v) = 2 /\ v = <<v[1], v[2]>>
  BY DEF Halves
<1>3. memo \in Seq(S) /\ Len(memo) \in Nat
  BY SeqMonotonic, LenProperties
<1> HIDE DEF m, t, v, S
<1>4. /\ m \o t \in Seq(S) /\ Len(m \o t) = 4
      /\ \A i \in 1..4 : (m \o t)[i] = IF i <= 2 THEN m[i] ELSE t[i - 2]
  <2>1. /\ m \o t \in Seq(S) /\ Len(m \o t) = Len(m) + Len(t)
        /\ \A i \in 1 .. Len(m) + Len(t) : (m \o t)[i] = IF i <= Len(m) THEN m[i] ELSE t[i - Len(m)]
    <3>1. m \in Seq(S) /\ t \in Seq(S)
      BY <1>2
    <3> QED
      BY <3>1, ConcatProperties
  <2> QED
    BY <1>2, <2>1
<1> DEFINE mt == m \o t
<1> HIDE DEF mt
<1>5. /\ mt \o v \in Seq(S) /\ Len(mt \o v) = 6
      /\ \A i \in 1..6 : (mt \o v)[i] = IF i <= 4 THEN mt[i] ELSE v[i - 4]
  BY <1>2, <1>4, ConcatProperties DEF mt
<1> DEFINE mtv == mt \o v
<1> HIDE DEF mtv
<1>6. /\ mtv \o memo \in Seq(S) /\ Len(mtv \o memo) = 6 + Len(memo)
      /\ \A i \in 1 .. 6 + Len(memo) : (mtv \o memo)[i] = IF i <= 6 THEN mtv[i] ELSE memo[i - 6]
  BY <1>3, <1>5, ConcatProperties DEF mtv
<1>7. units = mtv \o memo
  BY DEF mt, mtv
<1> HIDE DEF units
<1>8. /\ units[1] = m[1] /\ units[2] = m[2] /\ units[3] = t[1]
      /\ units[4] = t[2] /\ units[5] = v[1] /\ units[6] = v[2]
  <2>1. \A i \in 1..6 : units[i] = IF i <= 4 THEN mt[i] ELSE v[i - 4]
    <3>1. \A i \in 1 .. 6 + Len(memo) : units[i] = IF i <= 6 THEN mtv[i] ELSE memo[i - 6]
      BY <1>6, <1>7
    <3>2. \A i \in 1..6 : i \in 1 .. 6 + Len(memo) /\ units[i] = mtv[i]
      BY <1>3, <3>1
    <3> QED
      <4>1. \A i \in 1..6 : mtv[i] = IF i <= 4 THEN mt[i] ELSE v[i - 4]
        BY <1>5, Zenon DEF mtv
      <4> QED
        BY <3>2, <4>1
  <2>2. \A i \in 1..4 : mt[i] = IF i <= 2 THEN m[i] ELSE t[i - 2]
    BY <1>4 DEF mt
  <2> QED
    BY <2>1, <2>2
<1>9. /\ SubSeq(units, 1, 2) = <<units[1], units[2]>>
      /\ SubSeq(units, 3, 4) = <<units[3], units[4]>>
      /\ SubSeq(units, 5, 6) = <<units[5], units[6]>>
  BY PairOf, 1 + 1 = 2, 3 + 1 = 4, 5 + 1 = 6, 1 \in Nat, 3 \in Nat, 5 \in Nat, Zenon
<1> QED
  BY <1>1, <1>2, <1>6, <1>7, <1>8, <1>9 DEF m, t, v

(* Two neighbouring parts of a sequence.                                   *)
LEMMA Rejoined ==
  ASSUME NEW S, NEW s \in Seq(S), NEW k \in 0 .. Len(s), NEW m \in k .. Len(s)
  PROVE  SubSeq(s, 1, k) \o SubSeq(s, k + 1, m) = SubSeq(s, 1, m)
  BY ConcatAdjacentSubSeq

(* A transfer's ciphertext in blocks, the memo behind it.                  *)
CutInFour(blocks, s) ==
  /\ Len(blocks) = 4
  /\ blocks[1] = SubSeq(s, 1, 2) /\ blocks[2] = SubSeq(s, 3, 4)
  /\ blocks[3] = SubSeq(s, 5, 6) /\ blocks[4] = SubSeq(s, 7, Len(s))

(* What is sealed is a unit for each of the units, and can be cut and      *)
(* joined again.                                                           *)
LEMMA SealedBlocks ==
  ASSUME NEW key, NEW iv, NEW S, NEW units \in Seq(S), Len(units) >= 6,
         NEW blocks, CutInFour(blocks, Sealed(key, iv, units))
  PROVE  /\ FlattenSeq(blocks) = Sealed(key, iv, units)
         /\ Len(blocks[1]) = 2 /\ Len(blocks[2]) = 2 /\ Len(blocks[3]) = 2
         /\ Len(blocks[4]) = Len(units) - 6
<1> DEFINE n == Len(units) - 6
           s == Sealed(key, iv, units)
<1>0. n \in Nat /\ Len(units) = 6 + n
  BY LenProperties
<1> HIDE DEF n
<1> DEFINE unit(i) == <<"aes", key, iv, i, units[i]>>
           T == {unit(i) : i \in 1 .. 6 + n}
           b1 == SubSeq(s, 1, 2)
           b2 == SubSeq(s, 3, 4)
           b3 == SubSeq(s, 5, 6)
           b4 == SubSeq(s, 7, Len(s))
<1>1. s \in Seq(T) /\ Len(s) = 6 + n
  <2>1. DOMAIN units = 1 .. 6 + n
    BY <1>0, LenProperties
  <2>2. s = [i \in 1 .. 6 + n |-> unit(i)]
    BY <2>1, Zenon DEF Sealed
  <2>3. \A i \in 1 .. 6 + n : unit(i) \in T
    OBVIOUS
  <2> HIDE DEF T, s, unit
  <2> QED
    BY <1>0, <2>2, <2>3
<1> HIDE DEF T, s
<1>2. \A i \in 1 .. 6 + n : s[i] \in T
  BY <1>0, <1>1, ElementOfSeq
<1>3. /\ Len(b1) = 2 /\ Len(b2) = 2 /\ Len(b3) = 2 /\ Len(b4) = n
  <2>1. \A i, j \in 1 .. 6 + n : Len(SubSeq(s, i, j)) = IF i <= j THEN j - i + 1 ELSE 0
    BY <1>0, <1>2, SubSeqProperties
  <2>2. n = 0 => Len(b4) = 0
    BY <1>1, SubSeqEmpty, EmptySeq
  <2> QED
    BY <1>0, <1>1, <2>1, <2>2
<1>4. /\ b1 \o b2 = SubSeq(s, 1, 4)
      /\ SubSeq(s, 1, 4) \o b3 = SubSeq(s, 1, 6)
      /\ SubSeq(s, 1, 6) \o b4 = SubSeq(s, 1, Len(s))
  <2>1. \A k \in 0 .. Len(s) : \A m \in k .. Len(s) :
          SubSeq(s, 1, k) \o SubSeq(s, k + 1, m) = SubSeq(s, 1, m)
    BY <1>1, Rejoined
  <2> QED
    BY <1>0, <1>1, <2>1
<1>5. SubSeq(s, 1, Len(s)) = s
  BY <1>1, SubSeqFull
<1>6. Len(blocks) = 4 /\ blocks[1] = b1 /\ blocks[2] = b2 /\ blocks[3] = b3 /\ blocks[4] = b4
  BY DEF CutInFour, s
<1> HIDE DEF b1, b2, b3, b4
<1>7. FlattenSeq(blocks) = ((blocks[1] \o blocks[2]) \o blocks[3]) \o blocks[4]
  BY <1>6, FlattenFour
<1>8. FlattenSeq(blocks) = s
  BY <1>4, <1>5, <1>6, <1>7, Zenon
<1> QED
  BY <1>3, <1>6, <1>8 DEF n, s

-----------------------------------------------------------------------------
(* What the recipient reads.                                               *)

(* The memo becomes the fourth block.                                      *)
LEMMA AppendFourth ==
  ASSUME NEW x, NEW y, NEW z, NEW w
  PROVE  Append(<<x, y, z>>, w) = <<x, y, z, w>>
<1> DEFINE S == {x, y, z, w}
           t == <<x, y, z>>
           u == Append(t, w)
<1>1. t \in Seq(S) /\ w \in S /\ Len(t) = 3 /\ t[1] = x /\ t[2] = y /\ t[3] = z
  OBVIOUS
<1> HIDE DEF t, S
<1>2. /\ u \in Seq(S) /\ Len(u) = Len(t) + 1
      /\ \A i \in 1..Len(t) : u[i] = t[i]
  <2>1. t \in Seq(S) /\ w \in S
    BY <1>1
  <2> QED
    BY <2>1
<1>3. u[Len(t) + 1] = w
  <2>1. t \in Seq(S) /\ w \in S
    BY <1>1
  <2> QED
    BY <2>1
<1> HIDE DEF u
<1>4. Len(u) = 4 /\ u[1] = x /\ u[2] = y /\ u[3] = z
  BY <1>1, <1>2
<1>5. u[4] = w
  BY <1>1, <1>3, 3 + 1 = 4, Zenon
<1>6. u = <<x, y, z, w>>
  <2>1. u \in Seq(S)
    BY <1>2
  <2> QED
    BY <1>4, <1>5, <2>1
<1> QED
  BY <1>6 DEF u, t

(* A 32-byte value is joined again from its halves.                        *)
LEMMA JoinedHalves ==
  ASSUME NEW term, NEW block, block = Halves(term)
  PROVE  Joined(block) = term /\ Len(block) = 2
  BY DEF Joined, Halves

(* What the text of an address is read as.                                 *)
LEMMA AddressRead ==
  ASSUME NEW master, NEW viewing, NEW chain
  PROVE  LET a == from_str(to_string(from_public_keys(master, viewing, chain)))
         IN  a.master_key = master /\ a.viewing_pubkey = viewing
  BY DEF from_str, to_string, from_public_keys

(* What the recipient makes of a transfer's body.                          *)
ReadsAs(body, key, a, sender, random, asset, value) ==
  LET c == with_memo(body.ciphertext, body.memo)
      bundle == decrypt_gcm(c)
  IN  /\ body.kind = "Transact"
      /\ body.blinded_sender_key = Blinded(viewing_public_key(sender), random)
      /\ \A shared : authentic(c, shared) <=> shared = key
      /\ Len(bundle) = 4
      /\ bundle[1] = Halves(a.master_key)
      /\ bundle[2] = Halves(<<"token", asset>>)
      /\ bundle[3] = << <<"random", random>>, <<"u128", value>> >>

(* The ciphertext of a transfer with the memo as its last block.           *)
LEMMA TransferBody ==
  ASSUME NEW sender, NEW text, NEW random, NEW asset, NEW value, NEW U, NEW memo \in Seq(U)
  PROVE  ReadsAs(Transfer(sender, text, random, asset, value, memo),
                 Shared(sender, Blinded(from_str(text).viewing_pubkey, random)),
                 from_str(text), sender, random, asset, value)
<1> DEFINE a == from_str(text)
           key == Shared(sender, Blinded(a.viewing_pubkey, random))
           body == Transfer(sender, text, random, asset, value, memo)
           c == with_memo(body.ciphertext, body.memo)
           bundle == decrypt_gcm(c)
           units == FlattenSeq(Plaintext(a, random, asset, value, memo))
           s == Sealed(key, random, units)
           b1 == SubSeq(s, 1, 2)
           b2 == SubSeq(s, 3, 4)
           b3 == SubSeq(s, 5, 6)
           b4 == SubSeq(s, 7, Len(s))
<1>1. /\ body.kind = "Transact" /\ body.memo = b4
      /\ body.blinded_sender_key = Blinded(viewing_public_key(sender), random)
      /\ body.ciphertext = [iv |-> random, tag |-> Tag(key, random, units), data |-> <<b1, b2, b3>>]
  BY DEF Transfer
<1> HIDE DEF a, key, body, units, s, b1, b2, b3, b4
<1>2. c = [body.ciphertext EXCEPT !.data = Append(@, body.memo)]
  BY Zenon DEF with_memo
<1>3. c.iv = random /\ c.tag = Tag(key, random, units) /\ c.data = Append(<<b1, b2, b3>>, b4)
  <2> DEFINE r == body.ciphertext
  <2>1. /\ r.iv = random /\ r.tag = Tag(key, random, units) /\ r.data = <<b1, b2, b3>>
        /\ DOMAIN r = {"iv", "tag", "data"}
    BY <1>1
  <2>2. c = [r EXCEPT !.data = Append(r.data, b4)]
    BY <1>1, <1>2
  <2> HIDE DEF r
  <2> QED
    BY <2>1, <2>2
<1>4. Append(<<b1, b2, b3>>, b4) = <<b1, b2, b3, b4>>
  BY AppendFourth, Zenon
<1> DEFINE d == c.data
<1>5. Len(d) = 4 /\ DOMAIN d = 1..4 /\ d[1] = b1 /\ d[2] = b2 /\ d[3] = b3 /\ d[4] = b4
  <2>1. d = <<b1, b2, b3, b4>>
    BY <1>3, <1>4
  <2> HIDE DEF d
  <2> QED
    BY <2>1
<1>6. PICK S : units \in Seq(S)
  BY TransferUnits DEF units
<1>7. /\ Len(units) = 6 + Len(memo) /\ Len(memo) \in Nat
      /\ SubSeq(units, 1, 2) = Halves(a.master_key)
      /\ SubSeq(units, 3, 4) = Halves(<<"token", asset>>)
      /\ SubSeq(units, 5, 6) = << <<"random", random>>, <<"u128", value>> >>
  BY TransferUnits, LenProperties DEF units
<1>8. c.tag[1] = "tag" /\ c.tag[4] = units
  BY <1>3 DEF Tag
<1> DEFINE n == Len(memo)
<1>9. n \in Nat /\ Len(units) = 6 + n
  BY <1>7
<1> HIDE DEF c, d, n
<1>10. /\ FlattenSeq(d) = s
       /\ Len(d[1]) = 2 /\ Len(d[2]) = 2 /\ Len(d[3]) = 2 /\ Len(d[4]) = n
  <2>1. CutInFour(d, s)
    BY <1>5 DEF CutInFour, b1, b2, b3, b4
  <2>2. units \in Seq(S) /\ Len(units) >= 6 /\ n = Len(units) - 6
    BY <1>6, <1>9
  <2> QED
    BY <2>1, <2>2, SealedBlocks DEF s
<1>11. \A shared : authentic(c, shared) <=> shared = key
  <2> SUFFICES ASSUME NEW shared PROVE authentic(c, shared) <=> shared = key
    OBVIOUS
  <2>1. authentic(c, shared) <=> /\ c.tag = Tag(shared, random, units)
                                 /\ FlattenSeq(d) = Sealed(shared, random, units)
    BY <1>3, <1>8 DEF authentic, d
  <2>2. c.tag = Tag(shared, random, units) <=> shared = key
    BY <1>3 DEF Tag
  <2> QED
    BY <1>10, <2>1, <2>2 DEF s
<1>12. /\ Len(bundle) = 4 /\ bundle[1] = SubSeq(units, 1, 2)
       /\ bundle[2] = SubSeq(units, 3, 4) /\ bundle[3] = SubSeq(units, 5, 6)
  <2>1. /\ Len(c.data) = 4 /\ DOMAIN c.data = 1..4
        /\ Len(c.data[1]) = 2 /\ Len(c.data[2]) = 2 /\ Len(c.data[3]) = 2 /\ Len(c.data[4]) = n
    BY <1>5, <1>10 DEF d
  <2> QED
    BY <1>8, <1>9, <2>1, CutFour
<1> HIDE DEF bundle
<1> QED
  BY <1>1, <1>7, <1>11, <1>12 DEF ReadsAs, a, key, body, c, bundle

(* A transfer is opened by the account that both keys of the address       *)
(* belong to, under the hash of the note that was paid, and by no other.   *)
LEMMA TransferOpens ==
  ASSUME NEW keys,
         keys.master_public_key = master_public_key(keys.spending_public_key, keys.nullifying_key),
         NEW sender, NEW master, NEW viewing_key, NEW chain,
         NEW random, NEW asset, NEW value, NEW U, NEW memo \in Seq(U), NEW p, NEW hash
  PROVE  LET a == from_public_keys(master, viewing_public_key(viewing_key), chain)
             body == Transfer(sender, to_string(a), random, asset, value, memo)
             opened == decrypt_transact(keys, p, hash, body)
         IN  /\ opened # {} <=> /\ viewing_key = keys.viewing_key
                                /\ master = keys.master_public_key
                                /\ hash = PaidHash(a, random, asset, value)
             /\ \A n \in opened : n.asset = asset /\ n.value[2] = value
<1> DEFINE a == from_public_keys(master, viewing_public_key(viewing_key), chain)
           text == to_string(a)
           t == from_str(text)
           body == Transfer(sender, text, random, asset, value, memo)
           c == with_memo(body.ciphertext, body.memo)
           bundle == decrypt_gcm(c)
           key == Shared(sender, Blinded(t.viewing_pubkey, random))
           shared == shared_key(keys.viewing_key, body.blinded_sender_key)
           token == Joined(bundle[2])
           opened == decrypt_transact(keys, p, hash, body)
<1>1. t.master_key = master /\ t.viewing_pubkey = viewing_public_key(viewing_key)
  BY AddressRead
<1>2. a.master_key = master
  BY DEF from_public_keys
<1>3. /\ body.blinded_sender_key = Blinded(viewing_public_key(sender), random)
      /\ \A k : authentic(c, k) <=> k = key
      /\ Len(bundle) = 4
      /\ bundle[1] = Halves(t.master_key) /\ bundle[2] = Halves(<<"token", asset>>)
      /\ bundle[3] = << <<"random", random>>, <<"u128", value>> >>
  <2> HIDE DEF text
  <2>1. ReadsAs(body, key, t, sender, random, asset, value)
    BY TransferBody
  <2> HIDE DEF body, key, t
  <2> QED
    BY <2>1 DEF ReadsAs
<1> HIDE DEF a, text, t, body, c, bundle
<1>4. shared = key <=> viewing_key = keys.viewing_key
  BY <1>1, <1>3, SharedKey
<1>5. decompresses(body.blinded_sender_key)
  <2>1. body.blinded_sender_key[1] = "point"
    BY <1>3 DEF Blinded, Multiplied
  <2> QED
    BY <2>1 DEF decompresses
<1>6. /\ Joined(bundle[1]) = master /\ Len(bundle[1]) = 2
      /\ token = <<"token", asset>> /\ Len(bundle[2]) = 2
      /\ Len(bundle[3]) = 2 /\ bundle[3][1] = <<"random", random>> /\ bundle[3][2] = <<"u128", value>>
  BY <1>1, <1>3, JoinedHalves
<1> DEFINE note == assemble(keys, p, token[2], bundle[3][2], bundle[3][1],
                            from_utf8_lossy(bundle[4]), "Transact")
<1>7. opened = IF shared = key /\ master = keys.master_public_key /\ note.commitment_hash = hash
               THEN {note} ELSE {}
  <2> HIDE DEF note
  <2>1. token[1] = "token"
    BY <1>6
  <2> HIDE DEF token, shared, key
  <2> QED
    BY <1>3, <1>5, <1>6, <2>1 DEF decrypt_transact, c, bundle, note, token, shared
<1>8. note.asset = asset /\ note.value[2] = value
  BY <1>6 DEF assemble
<1>9. note.commitment_hash
        = note_hash(note_public_key(keys.master_public_key, <<"random", random>>), asset, <<"u128", value>>)
  BY <1>6 DEF assemble
<1>10. master = keys.master_public_key => note.commitment_hash = PaidHash(a, random, asset, value)
  BY <1>2, <1>9 DEF note_hash, note_public_key, poseidon_hash, token_hash, PaidHash, PaidNpk
<1> HIDE DEF note, shared, key, opened
<1>11. /\ opened # {} <=> /\ viewing_key = keys.viewing_key /\ master = keys.master_public_key
                          /\ hash = PaidHash(a, random, asset, value)
       /\ \A n \in opened : n.asset = asset /\ n.value[2] = value
  BY <1>4, <1>7, <1>8, <1>10
<1> QED
  BY <1>11 DEF opened, body, text, a

(* One block of one unit.                                                  *)
LEMMA CutOne ==
  ASSUME NEW c, Len(c.data) = 1, DOMAIN c.data = 1..1, Len(c.data[1]) = 1
  PROVE  decrypt_gcm(c)[1] = SubSeq(c.tag[4], 1, 1)
<1> DEFINE data == c.data
           plain == c.tag[4]
           P(f) == f = [i \in 0..Len(data) |-> IF i = 0 THEN 0 ELSE f[i - 1] + Len(data[i])]
           g == [i \in 0..1 |-> i]
           cut == CHOOSE f : P(f)
<1>1. decrypt_gcm(c) = [i \in DOMAIN data |-> SubSeq(plain, cut[i - 1] + 1, cut[i])]
  BY DEF decrypt_gcm
<1> HIDE DEF data, plain
<1>2. Len(data) = 1 /\ DOMAIN data = 1..1 /\ Len(data[1]) = 1
  BY DEF data
<1>3. P(g)
  <2>1. g[0] = 0 /\ g[1] = 1 /\ g = [i \in 0..1 |-> g[i]] /\ \A i \in 0..1 : i = 0 \/ i = 1
    OBVIOUS
  <2> HIDE DEF g
  <2>2. ASSUME NEW i \in 0..1
        PROVE  g[i] = IF i = 0 THEN 0 ELSE g[i - 1] + Len(data[i])
    <3>1. CASE i = 0
      BY <2>1, <3>1
    <3>2. CASE i = 1
      <4>1. g[i - 1] = 0 /\ Len(data[i]) = 1 /\ g[i] = 1 /\ i # 0
        BY <1>2, <2>1, <3>2
      <4>2. g[i] = g[i - 1] + Len(data[i])
        BY <4>1
      <4> QED
        BY <4>1, <4>2, Zenon
    <3> QED
      BY <2>1, <3>1, <3>2
  <2> QED
    BY <1>2, <2>1, <2>2, Zenon
<1>4. P(cut)
  <2> HIDE DEF P, g
  <2> QED
    BY <1>3
<1> HIDE DEF cut
<1>5. cut[0] = 0 /\ cut[1] = 1
  <2>1. \A i \in 0..1 : cut[i] = IF i = 0 THEN 0 ELSE cut[i - 1] + Len(data[i])
    BY <1>2, <1>4, Zenon
  <2>2. cut[0] = 0
    BY <2>1
  <2>3. cut[1] = cut[0] + Len(data[1])
    BY <2>1, 1 \in 0..1, 1 # 0, 1 - 1 = 0
  <2> QED
    BY <1>2, <2>2, <2>3
<1>6. decrypt_gcm(c)[1] = SubSeq(plain, cut[1 - 1] + 1, cut[1])
  BY <1>1, <1>2, 1 \in 1..1, Zenon
<1>7. cut[1 - 1] + 1 = 1
  BY <1>5
<1> QED
  BY <1>5, <1>6, <1>7, Zenon DEF plain

(* What the recipient makes of a deposit's body.                           *)
DepositReadsAs(body, key, a, fresh_key, random, asset, value) ==
  LET c == shield_ciphertext(body.encrypted_bundle)
  IN  /\ body.kind = "Shield" /\ Len(body.encrypted_bundle) = 2
      /\ body.shield_key = viewing_public_key(fresh_key)
      /\ body.npk = PaidNpk(a, random) /\ body.token = asset /\ body.value = value
      /\ \A shared : authentic(c, shared) <=> shared = key
      /\ decrypt_gcm(c)[1][1] = <<"random", random>>

(* The ciphertext of a deposit is the sealed random.                       *)
LEMMA DepositBody ==
  ASSUME NEW fresh_key, NEW text, NEW random, NEW asset, NEW value
  PROVE  DepositReadsAs(Deposit(fresh_key, text, random, asset, value),
                        Shared(fresh_key, from_str(text).viewing_pubkey),
                        from_str(text), fresh_key, random, asset, value)
<1> DEFINE a == from_str(text)
           key == Shared(fresh_key, a.viewing_pubkey)
           body == Deposit(fresh_key, text, random, asset, value)
           units == << <<"random", random>> >>
           s == Sealed(key, random, units)
           bundle == body.encrypted_bundle
           c == shield_ciphertext(bundle)
           d == c.data
<1>1. /\ body.kind = "Shield" /\ body.npk = PaidNpk(a, random) /\ body.token = asset
      /\ body.value = value /\ body.shield_key = viewing_public_key(fresh_key)
      /\ bundle = << <<random, Tag(key, random, units)>>, <<s[1], <<"text", "any">> >> >>
  BY DEF Deposit
<1> HIDE DEF a, key, body
<1>2. s = <<s[1]>>
  <2>0. DOMAIN units = 1..1
    OBVIOUS
  <2> HIDE DEF units
  <2>1. s = [i \in 1..1 |-> <<"aes", key, random, i, units[i]>>]
    BY <2>0, Zenon DEF Sealed
  <2> HIDE DEF s
  <2> QED
    BY <2>1
<1> HIDE DEF s, bundle
<1>3. Len(bundle) = 2 /\ bundle[1][1] = random /\ bundle[1][2] = Tag(key, random, units) /\ bundle[2][1] = s[1]
  BY <1>1
<1>4. c.iv = random /\ c.tag = Tag(key, random, units) /\ d = << <<s[1]>> >>
  BY <1>3 DEF shield_ciphertext
<1>5. c.tag[1] = "tag" /\ c.tag[4] = units
  BY <1>4 DEF Tag
<1> HIDE DEF c, d
<1>6. Len(d) = 1 /\ DOMAIN d = 1..1 /\ Len(d[1]) = 1 /\ d[1] = s
  BY <1>2, <1>4
<1>7. FlattenSeq(d) = s
  BY <1>6, FlattenOne
<1>8. \A shared : authentic(c, shared) <=> shared = key
  <2> SUFFICES ASSUME NEW shared PROVE authentic(c, shared) <=> shared = key
    OBVIOUS
  <2>1. authentic(c, shared) <=> /\ c.tag = Tag(shared, random, units)
                                 /\ FlattenSeq(d) = Sealed(shared, random, units)
    BY <1>4, <1>5 DEF authentic, d
  <2>2. c.tag = Tag(shared, random, units) <=> shared = key
    BY <1>4 DEF Tag
  <2> QED
    BY <1>7, <2>1, <2>2 DEF s
<1>9. decrypt_gcm(c)[1] = SubSeq(units, 1, 1)
  BY <1>5, <1>6, CutOne DEF d
<1>10. SubSeq(units, 1, 1)[1] = <<"random", random>>
  <2> DEFINE S == {units[1]}
  <2>1. \A i \in 1..1 : units[i] \in S
    OBVIOUS
  <2>2. units[1] = <<"random", random>>
    OBVIOUS
  <2> HIDE DEF S, units
  <2> QED
    BY <2>1, <2>2, SubSeqProperties
<1> QED
  BY <1>1, <1>3, <1>8, <1>9, <1>10 DEF DepositReadsAs, a, key, body, c, bundle

(* A deposit is opened by the account that both keys of the address belong *)
(* to, if a note can hold its value.                                       *)
LEMMA DepositOpens ==
  ASSUME NEW keys,
         keys.master_public_key = master_public_key(keys.spending_public_key, keys.nullifying_key),
         NEW fresh_key, NEW master, NEW viewing_key, NEW chain,
         NEW random, NEW asset, NEW value, NEW p
  PROVE  LET a == from_public_keys(master, viewing_public_key(viewing_key), chain)
             body == Deposit(fresh_key, to_string(a), random, asset, value)
             opened == decrypt_shield(keys, p, body)
         IN  /\ opened # {} <=> /\ viewing_key = keys.viewing_key
                                /\ master = keys.master_public_key
                                /\ value <= U128Max
             /\ \A n \in opened : n.asset = asset /\ n.value[2] = value
<1> DEFINE a == from_public_keys(master, viewing_public_key(viewing_key), chain)
           text == to_string(a)
           t == from_str(text)
           body == Deposit(fresh_key, text, random, asset, value)
           c == shield_ciphertext(body.encrypted_bundle)
           key == Shared(fresh_key, t.viewing_pubkey)
           shared == shared_key(keys.viewing_key, body.shield_key)
           opened == decrypt_shield(keys, p, body)
           note == assemble(keys, p, body.token, <<"u128", body.value>>, decrypt_gcm(c)[1][1], <<>>, "Shield")
<1>1. t.master_key = master /\ t.viewing_pubkey = viewing_public_key(viewing_key)
  BY AddressRead
<1>2. /\ Len(body.encrypted_bundle) = 2 /\ body.shield_key = viewing_public_key(fresh_key)
      /\ body.npk = PaidNpk(t, random) /\ body.token = asset /\ body.value = value
      /\ \A k : authentic(c, k) <=> k = key
      /\ decrypt_gcm(c)[1][1] = <<"random", random>>
  <2> HIDE DEF text
  <2>1. DepositReadsAs(body, key, t, fresh_key, random, asset, value)
    BY DepositBody
  <2> HIDE DEF body, key, t
  <2> QED
    BY <2>1 DEF DepositReadsAs
<1> HIDE DEF a, text, t, body, c
<1>3. shared = key <=> viewing_key = keys.viewing_key
  BY <1>1, <1>2, SharedKey
<1>4. decompresses(body.shield_key)
  <2>1. body.shield_key[1] = "point"
    BY <1>2 DEF viewing_public_key, Multiplied
  <2> QED
    BY <2>1 DEF decompresses
<1>5. /\ note.asset = asset /\ note.value[2] = value
      /\ note.note_public_key = note_public_key(keys.master_public_key, <<"random", random>>)
  BY <1>2 DEF assemble
<1>6. note.note_public_key = body.npk <=> master = keys.master_public_key
  BY <1>1, <1>2, <1>5 DEF note_public_key, poseidon_hash, PaidNpk
<1> HIDE DEF shared, key
<1>7. opened = IF shared = key /\ value <= U128Max /\ note.note_public_key = body.npk
               THEN {note} ELSE {}
  <2> HIDE DEF note
  <2> QED
    BY <1>2, <1>4 DEF decrypt_shield, c, note, shared
<1> HIDE DEF note, opened
<1>8. /\ opened # {} <=> /\ viewing_key = keys.viewing_key /\ master = keys.master_public_key
                         /\ value <= U128Max
      /\ \A n \in opened : n.asset = asset /\ n.value[2] = value
  BY <1>3, <1>5, <1>6, <1>7
<1> QED
  BY <1>8 DEF opened, body, text, a

-----------------------------------------------------------------------------
(* Who can read it.                                                        *)

(* A viewing public key tells the viewing key,                             *)
LEMMA ViewingKeyTold ==
  ASSUME NEW j, NEW k, viewing_public_key(j) = viewing_public_key(k)
  PROVE  j = k
<1> DEFINE point(i) == EmptyBag (+) SetToBag({<<"scalar", i>>})
<1>1. \A i : viewing_public_key(i) = <<"point", point(i)>>
  BY Zenon DEF viewing_public_key, Multiplied, BasePoint, to_curve25519_scalar
<1>2. \A i : DOMAIN point(i) = {<<"scalar", i>>}
  BY DEF EmptyBag, SetToBag, (+)
<1> HIDE DEF point
<1>3. point(j) = point(k)
  BY <1>1
<1>4. <<"scalar", j>> = <<"scalar", k>>
  BY <1>2, <1>3
<1> QED
  BY <1>4

(* and a master public key the viewing key it was derived with.           *)
LEMMA MasterKeyTold ==
  ASSUME NEW s, NEW t, NEW j, NEW k,
         master_public_key(s, nullifying_key(j)) = master_public_key(t, nullifying_key(k))
  PROVE  j = k
<1> DEFINE n(i) == nullifying_key(i)
           c(q, i) == Append(Coordinates(q), n(i))
<1>1. \A q, i : c(q, i)[3] = n(i)
  <2> SUFFICES ASSUME NEW q, NEW i PROVE c(q, i)[3] = n(i)
    OBVIOUS
  <2> DEFINE xy == Coordinates(q)
             m == n(i)
             S == {xy[1], xy[2], m}
  <2>1. xy \in Seq(S) /\ Len(xy) = 2 /\ m \in S
    BY DEF Coordinates
  <2> HIDE DEF xy, m, S
  <2>2. Append(xy, m)[Len(xy) + 1] = m
    <3>1. xy \in Seq(S) /\ m \in S
      BY <2>1
    <3> QED
      BY <3>1
  <2>3. Append(xy, m)[3] = m
    BY <2>1, <2>2, 2 + 1 = 3, Zenon
  <2> QED
    BY <2>3 DEF xy, m
<1>2. <<"poseidon", c(s, j)>> = <<"poseidon", c(t, k)>>
  BY Zenon DEF master_public_key, poseidon_hash
<1> HIDE DEF c
<1>3. c(s, j) = c(t, k)
  BY <1>2
<1>4. n(j) = n(k)
  BY <1>1, <1>3
<1>5. <<"poseidon", <<j>> >> = <<"poseidon", <<k>> >>
  BY <1>4, Zenon DEF nullifying_key, poseidon_hash
<1> QED
  BY <1>5

(* The keys of an account: both of its keys follow from its viewing and    *)
(* spending keys.                                                          *)
LEMMA DerivedKeys ==
  ASSUME NEW mnemonic, NEW index
  PROVE  LET keys == derive_railgun_keys(mnemonic, index)
         IN  /\ keys.nullifying_key = nullifying_key(keys.viewing_key)
             /\ keys.master_public_key = master_public_key(keys.spending_public_key, keys.nullifying_key)
             /\ keys.master_public_key # Nobody
<1> DEFINE keys == derive_railgun_keys(mnemonic, index)
<1>1. /\ keys.nullifying_key = nullifying_key(keys.viewing_key)
      /\ keys.master_public_key = master_public_key(keys.spending_public_key, keys.nullifying_key)
  BY DEF derive_railgun_keys
<1> HIDE DEF keys
<1>2. keys.master_public_key # Nobody
  BY <1>1 DEF master_public_key, poseidon_hash, Nobody
<1> QED
  BY <1>1, <1>2 DEF keys

(* A body that is meant for an address opens exactly for the account its   *)
(* payment names.                                                          *)
LEMMA MeantForAccount ==
  ASSUME AccountDerived, NEW master, NEW viewing_key, NEW chain,
         NEW random, NEW asset, NEW value, NEW hash,
         Meant(hash, from_public_keys(master, viewing_public_key(viewing_key), chain),
               random, asset, value)
  PROVE  LET a == from_public_keys(master, viewing_public_key(viewing_key), chain)
         IN  /\ Paid[hash].to = Account.master_public_key
                <=> /\ viewing_key = Account.viewing_key /\ master = Account.master_public_key
                    /\ value <= U128Max /\ hash = PaidHash(a, random, asset, value)
             /\ Paid[hash].to = Account.master_public_key
                => Paid[hash].asset = asset /\ Paid[hash].value = value
<1> DEFINE a == from_public_keys(master, viewing_public_key(viewing_key), chain)
           fits == value <= U128Max /\ hash = PaidHash(a, random, asset, value)
           owned == \E mnemonic, index : Belongs(derive_railgun_keys(mnemonic, index), a)
<1>1. a.master_key = master /\ a.viewing_pubkey = viewing_public_key(viewing_key)
  BY DEF from_public_keys
<1>2. /\ fits /\ owned => Paid[hash].to = master /\ Paid[hash].asset = asset /\ Paid[hash].value = value
      /\ ~(fits /\ owned) => Paid[hash].to = Nobody
  BY <1>1 DEF Meant
<1>3. PICK mnemonic, index : Account = derive_railgun_keys(mnemonic, index)
  BY DEF AccountDerived
<1>4. /\ Account.nullifying_key = nullifying_key(Account.viewing_key)
      /\ Account.master_public_key = master_public_key(Account.spending_public_key, Account.nullifying_key)
      /\ Account.master_public_key # Nobody
  BY <1>3, DerivedKeys
<1> HIDE DEF a, fits
<1>5. ASSUME viewing_key = Account.viewing_key, master = Account.master_public_key
      PROVE  owned
  BY <1>1, <1>3, <1>5 DEF Belongs
<1>6. ASSUME owned, master = Account.master_public_key
      PROVE  viewing_key = Account.viewing_key
  <2>1. PICK other, i : Belongs(derive_railgun_keys(other, i), a)
    BY <1>6
  <2> DEFINE keys == derive_railgun_keys(other, i)
  <2>2. /\ keys.nullifying_key = nullifying_key(keys.viewing_key)
        /\ keys.master_public_key = master_public_key(keys.spending_public_key, keys.nullifying_key)
    BY DerivedKeys
  <2>3. keys.master_public_key = master /\ viewing_public_key(keys.viewing_key) = viewing_public_key(viewing_key)
    BY <1>1, <2>1 DEF Belongs
  <2> HIDE DEF keys
  <2>4. keys.viewing_key = Account.viewing_key
    BY <1>4, <1>6, <2>2, <2>3, MasterKeyTold
  <2>5. keys.viewing_key = viewing_key
    BY <2>3, ViewingKeyTold
  <2> QED
    BY <2>4, <2>5
<1> HIDE DEF owned
<1>7. /\ Paid[hash].to = Account.master_public_key
           <=> viewing_key = Account.viewing_key /\ master = Account.master_public_key /\ fits
      /\ Paid[hash].to = Account.master_public_key
           => Paid[hash].asset = asset /\ Paid[hash].value = value
  BY <1>2, <1>4, <1>5, <1>6
<1> QED
  BY <1>7 DEF a, fits

(* Every transfer and every deposit, to whatever address and of whatever   *)
(* note, opens for the account if the account is who it pays, to a note of *)
(* that asset and value, and for no other account: not for one that shares *)
(* a key with the address, not under the hash of another note, and not if  *)
(* no note can have the value.                                             *)
THEOREM BodiesOpenAsPaid ==
  ASSUME AccountDerived, NodesSent
  PROVE  OpensAsPaid
<1> SUFFICES ASSUME NEW p \in PlacedNodes
             PROVE  LET hash == p.node.hash
                        opened == decrypt_node(Account, p, hash, Body[hash])
                    IN  /\ opened # {} <=> Paid[hash].to = Account.master_public_key
                        /\ \A n \in opened : n.asset = Paid[hash].asset /\ n.value[2] = Paid[hash].value
  BY DEF OpensAsPaid
<1> DEFINE hash == p.node.hash
           opened == decrypt_node(Account, p, hash, Body[hash])
<1>1. Account.master_public_key = master_public_key(Account.spending_public_key, Account.nullifying_key)
  BY DerivedKeys DEF AccountDerived
<1>2. SentTransfer(hash) \/ SentDeposit(hash)
  BY DEF NodesSent
<1> HIDE DEF hash
<1>3. CASE SentTransfer(hash)
  <2>1. PICK sender, master, viewing_key, chain, random, asset, value, U :
          LET a == from_public_keys(master, viewing_public_key(viewing_key), chain)
          IN  /\ \E memo \in Seq(U) : Body[hash] = Transfer(sender, to_string(a), random, asset, value, memo)
              /\ value <= U128Max
              /\ Meant(hash, a, random, asset, value)
    BY <1>3, Zenon DEF SentTransfer
  <2> DEFINE a == from_public_keys(master, viewing_public_key(viewing_key), chain)
             body(memo) == Transfer(sender, to_string(a), random, asset, value, memo)
  <2>2. PICK memo \in Seq(U) : Body[hash] = body(memo)
    BY <2>1, Zenon
  <2>3. opened = decrypt_transact(Account, p, hash, body(memo))
    <3>1. body(memo).kind = "Transact"
      BY DEF Transfer
    <3> HIDE DEF body
    <3> QED
      BY <2>2, <3>1, Zenon DEF decrypt_node
  <2>4. /\ opened # {} <=> /\ viewing_key = Account.viewing_key
                           /\ master = Account.master_public_key
                           /\ hash = PaidHash(a, random, asset, value)
        /\ \A n \in opened : n.asset = asset /\ n.value[2] = value
    <3> HIDE DEF opened
    <3> QED
      BY <1>1, <2>3, TransferOpens
  <2>5. Meant(hash, a, random, asset, value) /\ value <= U128Max
    BY <2>1, Zenon
  <2>6. /\ Paid[hash].to = Account.master_public_key
           <=> /\ viewing_key = Account.viewing_key /\ master = Account.master_public_key
               /\ value <= U128Max /\ hash = PaidHash(a, random, asset, value)
        /\ Paid[hash].to = Account.master_public_key
           => Paid[hash].asset = asset /\ Paid[hash].value = value
    BY <2>5, MeantForAccount
  <2> HIDE DEF opened, a
  <2>7. /\ opened # {} <=> Paid[hash].to = Account.master_public_key
        /\ \A n \in opened : n.asset = Paid[hash].asset /\ n.value[2] = Paid[hash].value
    BY <2>4, <2>5, <2>6
  <2> QED
    BY <2>7 DEF opened, hash
<1>4. CASE SentDeposit(hash)
  <2>1. PICK sender, master, viewing_key, chain, random, asset, value :
          LET a == from_public_keys(master, viewing_public_key(viewing_key), chain)
          IN  /\ Body[hash] = Deposit(sender, to_string(a), random, asset, value)
              /\ hash = PaidHash(a, random, asset, value)
              /\ Meant(hash, a, random, asset, value)
    BY <1>4, Zenon DEF SentDeposit
  <2> DEFINE a == from_public_keys(master, viewing_public_key(viewing_key), chain)
             body == Deposit(sender, to_string(a), random, asset, value)
  <2>2. opened = decrypt_shield(Account, p, body)
    <3>1. body.kind # "Transact"
      BY DEF Deposit
    <3>2. Body[hash] = body
      BY <2>1, Zenon
    <3> HIDE DEF body
    <3> QED
      BY <3>1, <3>2, Zenon DEF decrypt_node
  <2>4. /\ opened # {} <=> /\ viewing_key = Account.viewing_key
                           /\ master = Account.master_public_key
                           /\ value <= U128Max
        /\ \A n \in opened : n.asset = asset /\ n.value[2] = value
    <3> HIDE DEF opened
    <3> QED
      BY <1>1, <2>2, DepositOpens
  <2>5. /\ Meant(hash, a, random, asset, value)
        /\ hash = PaidHash(a, random, asset, value)
    BY <2>1, Zenon
  <2>6. /\ Paid[hash].to = Account.master_public_key
           <=> /\ viewing_key = Account.viewing_key /\ master = Account.master_public_key
               /\ value <= U128Max /\ hash = PaidHash(a, random, asset, value)
        /\ Paid[hash].to = Account.master_public_key
           => Paid[hash].asset = asset /\ Paid[hash].value = value
    BY <2>5, MeantForAccount
  <2> HIDE DEF opened, a
  <2>7. /\ opened # {} <=> Paid[hash].to = Account.master_public_key
        /\ \A n \in opened : n.asset = Paid[hash].asset /\ n.value[2] = Paid[hash].value
    BY <2>4, <2>5, <2>6
  <2> QED
    BY <2>7 DEF opened, hash
<1> QED
  BY <1>2, <1>3, <1>4

-----------------------------------------------------------------------------
(* Balances.                                                               *)

(* A balance names only notes that were paid to the account and are not    *)
(* spent on the chain as of the view it reads, for any number of           *)
(* processes, rows and trees.                                              *)
THEOREM BalancesAreSound ==
  ASSUME AccountDerived, OpensAsPaid
  PROVE  WalletSpec => []BalanceSound
<1>1. WalletInv => BalanceSound
  <2> SUFFICES ASSUME WalletInv, NEW w \in Wallets, NEW n \in notes[w], ~IsNullified(n)
               PROVE  /\ Claim(n, n.asset, n.value[2]) \in OwnedThrough(synced)
                      /\ Claim(n, n.asset, n.value[2]) \notin SpentThrough(synced)
    BY ReportedNotes DEF BalanceSound
  <2> DEFINE c == Claim(n, n.asset, n.value[2])
  <2>1. PICK p \in stored : n \in Opened(p)
    BY DEF WalletInv, View, Genuine
  <2>2. p \in PlacedNodes
    BY TreeCountReaches DEF WalletInv
  <2>3. synced # Never /\ stored = NodesThrough(synced)
    BY StoreAssumption DEF WalletInv, ReplicaExact
  <2>4. n.tree = p.tree /\ n.leaf = p.leaf
    BY <2>1, OpenedNote
  <2>5. /\ Paid[p.node.hash].to = Account.master_public_key
        /\ n.asset = Paid[p.node.hash].asset /\ n.value[2] = Paid[p.node.hash].value
    BY <2>1, <2>2 DEF OpensAsPaid, Opened
  <2>6. c = Claim(p, Paid[p.node.hash].asset, Paid[p.node.hash].value)
    BY <2>4, <2>5 DEF Claim
  <2>7. c \in OwnedThrough(synced)
    BY <2>1, <2>3, <2>5, <2>6 DEF OwnedThrough
  <2>8. c.tree = p.tree /\ c.leaf = p.leaf
    BY <2>4 DEF Claim
  <2> HIDE DEF c
  <2>9. c \notin SpentThrough(synced)
    BY <2>1, <2>7, <2>8, SpentNullified
  <2> QED
    BY <2>7, <2>9 DEF c
<1> QED
  BY <1>1, WalletInvHolds, PTL

(* It names all that were on the chain when their tree was decoded, in     *)
(* whichever views, processes and sessions that happened.                  *)
THEOREM BalancesAreComplete ==
  ASSUME AccountDerived, OpensAsPaid
  PROVE  WalletSpec => []BalanceComplete
<1>1. WalletInv => BalanceComplete
  <2> SUFFICES ASSUME WalletInv, NEW w \in Wallets, NEW t \in Trees,
                      NEW c \in OwnedThrough(seen[w][t]), c.tree = t,
                      c \notin SpentThrough(synced)
               PROVE  c \in Reported(w)
    BY DEF BalanceComplete
  <2> DEFINE block == seen[w][t]
  <2>1. /\ block \in Blocks \cup {Never}
        /\ block # Never => /\ synced # Never /\ block <= synced
                            /\ \A p \in NodesThrough(block) : p.tree = t => Opened(p) \subseteq notes[w]
    BY DEF WalletInv, View, Covers
  <2>2. block # Never
    BY DEF OwnedThrough
  <2>3. PICK p \in NodesThrough(block) :
          /\ Paid[p.node.hash].to = Account.master_public_key
          /\ c = Claim(p, Paid[p.node.hash].asset, Paid[p.node.hash].value)
    BY <2>2 DEF OwnedThrough
  <2>4. c.tree = p.tree /\ c.leaf = p.leaf
    BY <2>3 DEF Claim
  <2>5. p \in PlacedNodes /\ p \in NodesThrough(synced)
    <3>1. block \in Blocks /\ synced \in Blocks /\ block <= synced
      BY <2>1, <2>2, Watermark DEF WalletInv
    <3> HIDE DEF block
    <3> QED
      BY <2>3, <3>1, ChainGrows
  <2>6. p \in stored /\ synced # Never
    BY <2>1, <2>2, <2>5, Watermark DEF WalletInv
  <2>7. PICK n \in Opened(p) : TRUE
    BY <2>3, <2>5 DEF OpensAsPaid, Opened
  <2>8. n \in notes[w]
    BY <2>1, <2>2, <2>3, <2>4, <2>7
  <2>9. n.asset = Paid[p.node.hash].asset /\ n.value[2] = Paid[p.node.hash].value
    BY <2>5, <2>7 DEF OpensAsPaid, Opened
  <2>10. n.tree = p.tree /\ n.leaf = p.leaf
    BY <2>7, OpenedNote
  <2>11. c = Claim(n, n.asset, n.value[2])
    BY <2>3, <2>9, <2>10 DEF Claim
  <2>12. c \in OwnedThrough(synced)
    BY <2>3, <2>5, <2>6 DEF OwnedThrough
  <2>13. ~IsNullified(n)
    BY <2>4, <2>6, <2>7, <2>12, SpentNullified
  <2> QED
    BY <2>8, <2>11, <2>13, ReportedNotes
<1> QED
  BY <1>1, WalletInvHolds, PTL

(* Every note a process holds reproduces the commitment stored at its      *)
(* position, if positions are given to one row and the indexer reports a   *)
(* deposit under the hash of its preimage: the decoder compares the hash   *)
(* of a transfer, but of a deposit only the note public key.               *)
THEOREM NotesMatchCommitments ==
  ASSUME OneNodePerSlot, ShieldsHashed
  PROVE  WalletSpec => []NotesReproduceCommitments
<1>1. WalletInv => NotesReproduceCommitments
  <2> SUFFICES ASSUME WalletInv, NEW w \in Wallets, NEW n \in notes[w], NEW p \in stored,
                      p.tree = n.tree, p.leaf = n.leaf
               PROVE  p.node.hash = n.commitment_hash
    BY DEF NotesReproduceCommitments
  <2>1. PICK q \in stored : n \in Opened(q)
    BY DEF WalletInv, View, Genuine
  <2>2. q.tree = p.tree /\ q.leaf = p.leaf
    BY <2>1, OpenedNote
  <2>3. stored = NodesThrough(synced)
    BY <2>1 DEF WalletInv, ReplicaExact
  <2>4. p = q
    BY <2>2, <2>3 DEF NodesThrough, OneNodePerSlot
  <2>5. p.node.hash \in Hashes
    BY TreeCountReaches DEF WalletInv, PlacedNodes, Nodes
  <2> QED
    BY <2>1, <2>4, <2>5, OpenedNote DEF ShieldsHashed
<1> QED
  BY <1>1, WalletInvHolds, PTL

(* Both for a chain of transfers and deposits: what the senders paid to    *)
(* the account and is unspent is reported, and nothing else.               *)
THEOREM SentNotesAreCounted ==
  ASSUME AccountDerived, NodesSent
  PROVE  WalletSpec => [](BalanceSound /\ BalanceComplete)
<1>1. OpensAsPaid
  BY BodiesOpenAsPaid
<1> QED
  BY <1>1, BalancesAreSound, BalancesAreComplete, PTL

-----------------------------------------------------------------------------
(* Addresses: what an account gives out as a text is what a sender reads.  *)
(* The chain is a hint, which no sender of the model acts on; here it is   *)
(* followed through the bits of the network id.                            *)

(* What holds at the start of an interval and passes from each number to   *)
(* the next holds on all of it.                                            *)
LEMMA UpTo ==
  ASSUME NEW lo \in Int, NEW hi \in Int, NEW S,
         lo \in S,
         \A k \in lo .. hi - 1 : k \in S => k + 1 \in S
  PROVE  \A k \in lo .. hi : k \in S
<1> SUFFICES ASSUME NEW k0 \in lo .. hi, k0 \notin S
             PROVE  FALSE
  OBVIOUS
<1> DEFINE T == {k - lo : k \in {j \in lo .. hi : j \notin S}}
<1>1. T \subseteq Nat
  OBVIOUS
<1>2. k0 - lo \in T
  OBVIOUS
<1>3. PICK m \in T : \A y \in T : ~(<<y, m>> \in OpToRel(<, Nat))
  BY <1>1, <1>2, WFMin, NatLessThanWellFounded
<1>4. \A y \in T : ~(y < m)
  BY <1>1, <1>3 DEF OpToRel
<1>5. PICK k \in lo .. hi : k \notin S /\ m = k - lo
  OBVIOUS
<1>6. k - 1 \in lo .. hi - 1
  BY <1>5
<1>7. k - 1 \in S
  <2>1. k - 1 \notin S => (k - 1) - lo \in T
    BY <1>6
  <2> HIDE DEF T
  <2>2. (k - 1) - lo < m
    BY <1>5
  <2> QED
    BY <1>4, <2>1, <2>2
<1>8. (k - 1) + 1 \in S
  BY <1>6, <1>7
<1> QED
  BY <1>5, <1>8

(* The powers of two obey their equation.                                  *)
LEMMA PowerDef ==
  \A k \in 0 .. TypeBits + IdBits : Power[k] = IF k = 0 THEN 1 ELSE 2 * Power[k - 1]
<1> DEFINE N == TypeBits + IdBits
           Step(below) == 2 * below
           P(g, n) == g = [i \in 0 .. n |-> IF i = 0 THEN 1 ELSE Step(g[i - 1])]
           S == {n \in 0 .. N : \E g : P(g, n)}
<1>0. N \in Nat
  BY AddressAssumption
<1>1. 0 \in S
  <2>1. P([i \in 0 .. 0 |-> 1], 0)
    BY <1>0
  <2> HIDE DEF P, N
  <2> QED
    BY <1>0, <2>1
<1>a. Power = CHOOSE c : P(c, N)
  BY DEF Power
<1> HIDE DEF Step, N
<1>2. ASSUME NEW n \in 0 .. N - 1, n \in S
      PROVE  n + 1 \in S
  <2>1. PICK g : P(g, n)
    BY <1>2
  <2> DEFINE h == [i \in 0 .. n + 1 |-> IF i = n + 1 THEN Step(g[n]) ELSE g[i]]
  <2>2. ASSUME NEW i \in 0 .. n + 1
        PROVE  h[i] = IF i = 0 THEN 1 ELSE Step(h[i - 1])
    <3>1. CASE i = n + 1
      BY <1>0, <3>1
    <3>2. CASE i \in 0 .. n
      <4>1. g[i] = IF i = 0 THEN 1 ELSE Step(g[i - 1])
        BY <2>1, <3>2
      <4> QED
        BY <1>0, <3>2, <4>1
    <3> QED
      BY <1>0, <3>1, <3>2
  <2>3. P(h, n + 1)
    BY <2>2
  <2> HIDE DEF h, P
  <2> QED
    BY <1>0, <2>3
<1>3. N \in S
  <2>1. \A k \in 0 .. N - 1 : k \in S => k + 1 \in S
    BY <1>2
  <2> HIDE DEF S
  <2>2. \A k \in 0 .. N : k \in S
    BY <1>0, <1>1, <2>1, UpTo
  <2> QED
    BY <1>0, <2>2
<1> HIDE DEF P
<1>4. PICK g : P(g, N)
  BY <1>3
<1>5. P(Power, N)
  BY <1>4, <1>a
<1> QED
  BY <1>5 DEF P, Step, N

(* They are positive and grow.                                             *)
LEMMA PowerFacts ==
  /\ \A k \in 0 .. TypeBits + IdBits : Power[k] \in Nat /\ Power[k] > 0
  /\ Power[0] = 1
  /\ \A k \in 1 .. TypeBits + IdBits : Power[k] = 2 * Power[k - 1]
  /\ \A k \in IdBits .. TypeBits + IdBits : Power[IdBits] <= Power[k]
<1> DEFINE N == TypeBits + IdBits
           S == {k \in 0 .. N : Power[k] \in Nat /\ Power[k] > 0}
           G == {k \in IdBits .. N : Power[IdBits] <= Power[k]}
<1>0. N \in Nat /\ IdBits \in 0 .. N
  BY AddressAssumption
<1>1. Power[0] = 1
  BY <1>0, PowerDef
<1>2. ASSUME NEW k \in 0 .. N - 1
      PROVE  Power[k + 1] = 2 * Power[k]
  <2>1. k + 1 \in 0 .. TypeBits + IdBits /\ k + 1 # 0 /\ (k + 1) - 1 = k
    BY <1>0
  <2> QED
    BY <2>1, PowerDef, Zenon
<1> HIDE DEF N
<1>3. \A k \in 0 .. N : k \in S
  <2>1. 0 \in S
    BY <1>0, <1>1
  <2>2. \A k \in 0 .. N - 1 : k \in S => k + 1 \in S
    BY <1>0, <1>2
  <2> HIDE DEF S
  <2> QED
    BY <1>0, <2>1, <2>2, UpTo
<1>4. \A k \in 0 .. N : Power[k] \in Nat /\ Power[k] > 0
  BY <1>3
<1>5. \A k \in IdBits .. N : k \in G
  <2>1. IdBits \in G
    BY <1>0, <1>4
  <2>2. ASSUME NEW k \in IdBits .. N - 1, k \in G
        PROVE  k + 1 \in G
    <3>1. Power[k + 1] = 2 * Power[k] /\ Power[k] \in Nat /\ Power[IdBits] \in Nat
      BY <1>0, <1>2, <1>4
    <3> QED
      BY <1>0, <2>2, <3>1
  <2> HIDE DEF G
  <2> QED
    BY <1>0, <2>1, <2>2, UpTo
<1>6. \A k \in 1 .. N : Power[k] = 2 * Power[k - 1]
  <2> TAKE k \in 1 .. N
  <2>1. k - 1 \in 0 .. N - 1 /\ (k - 1) + 1 = k
    BY <1>0
  <2> QED
    BY <1>2, <2>1
<1> QED
  BY <1>1, <1>4, <1>5, <1>6 DEF N

(* What quotient and remainder are is given by the division with remainder.*)
LEMMA DivMod ==
  ASSUME NEW m, NEW b \in Nat, b > 0, NEW q \in Int, NEW r \in 0 .. b - 1, m = b * q + r
  PROVE  m \div b = q /\ m % b = r
<1> DEFINE d == m \div b
           e == m % b
<1>1. m \in Int /\ d \in Int /\ e \in 0 .. b - 1 /\ m = b * d + e
  OBVIOUS
<1> HIDE DEF d, e
<1>2. ASSUME q < d PROVE FALSE
  <2>1. b * (q + 1) <= b * d
    BY <1>1, <1>2
  <2>2. b * (q + 1) = b * q + b
    OBVIOUS
  <2> QED
    BY <1>1, <2>1, <2>2
<1>3. ASSUME d < q PROVE FALSE
  <2>1. b * (d + 1) <= b * q
    BY <1>1, <1>3
  <2>2. b * (d + 1) = b * d + b
    BY <1>1
  <2> QED
    BY <1>1, <2>1, <2>2
<1>4. q = d
  BY <1>1, <1>2, <1>3
<1>5. r = e
  BY <1>1, <1>4
<1> QED
  BY <1>4, <1>5 DEF d, e

(* Dividing by the next power is halving once more.                        *)
LEMMA Halved ==
  ASSUME NEW n \in Nat, NEW k \in 0 .. TypeBits + IdBits - 1
  PROVE  n \div Power[k + 1] = (n \div Power[k]) \div 2
<1> DEFINE b == Power[k]
           q == n \div b
           r == n % b
           h == q \div 2
           e == q % 2
<1>1. b \in Nat /\ b > 0 /\ Power[k + 1] = 2 * b
  <2>1. k \in 0 .. TypeBits + IdBits /\ k + 1 \in 1 .. TypeBits + IdBits /\ (k + 1) - 1 = k
    BY AddressAssumption
  <2> QED
    BY <2>1, PowerFacts
<1> HIDE DEF b
<1>2. q \in Int /\ r \in 0 .. b - 1 /\ n = b * q + r
  BY <1>1
<1> HIDE DEF q, r
<1>3. h \in Int /\ e \in 0 .. 1 /\ q = 2 * h + e
  BY <1>2
<1> HIDE DEF h, e
<1>4. n = (2 * b) * h + (b * e + r)
  <2>1. b * (2 * h + e) = (2 * b) * h + b * e
    BY <1>1, <1>3
  <2> QED
    BY <1>1, <1>2, <1>3, <2>1
<1>5. b * e + r \in 0 .. 2 * b - 1
  <2>1. b * e \in {0, b}
    BY <1>1, <1>3
  <2> QED
    BY <1>1, <1>2, <2>1
<1>6. 2 * b \in Nat /\ 2 * b > 0
  BY <1>1
<1>7. n \div (2 * b) = h
  BY <1>3, <1>4, <1>5, <1>6, DivMod
<1> QED
  BY <1>1, <1>7 DEF h, q, b

(* What FromBits computes.                                                 *)
LEMMA FromBitsDef ==
  ASSUME NEW b, Len(b) \in Nat
  PROVE  \E u : /\ FromBits(b) = u[Len(b)]
                /\ u[0] = 0
                /\ \A i \in 1 .. Len(b) : u[i] = 2 * u[i - 1] + b[i]
<1> DEFINE N == Len(b)
           Step(i, below) == 2 * below + b[i]
           P(g, n) == g = [i \in 0 .. n |-> IF i = 0 THEN 0 ELSE Step(i, g[i - 1])]
           S == {n \in 0 .. N : \E g : P(g, n)}
<1>1. 0 \in S
  <2>1. P([i \in 0 .. 0 |-> 0], 0)
    OBVIOUS
  <2> HIDE DEF P, N
  <2> QED
    BY <2>1 DEF N
<1>a. FromBits(b) = (CHOOSE c : P(c, N))[N]
  BY DEF FromBits
<1>0. N \in Nat
  OBVIOUS
<1> HIDE DEF Step, N
<1>2. ASSUME NEW n \in 0 .. N - 1, n \in S
      PROVE  n + 1 \in S
  <2>1. PICK g : P(g, n)
    BY <1>2
  <2> DEFINE h == [i \in 0 .. n + 1 |-> IF i = n + 1 THEN Step(n + 1, g[n]) ELSE g[i]]
  <2>2. ASSUME NEW i \in 0 .. n + 1
        PROVE  h[i] = IF i = 0 THEN 0 ELSE Step(i, h[i - 1])
    <3>1. CASE i = n + 1
      BY <1>0, <3>1
    <3>2. CASE i \in 0 .. n
      <4>1. g[i] = IF i = 0 THEN 0 ELSE Step(i, g[i - 1])
        BY <2>1, <3>2
      <4> QED
        BY <1>0, <3>2, <4>1
    <3> QED
      BY <1>0, <3>1, <3>2
  <2>3. P(h, n + 1)
    BY <2>2
  <2> HIDE DEF h, P
  <2> QED
    BY <1>0, <2>3
<1>3. N \in S
  <2>1. \A k \in 0 .. N - 1 : k \in S => k + 1 \in S
    BY <1>2
  <2> HIDE DEF S
  <2>2. \A k \in 0 .. N : k \in S
    BY <1>0, <1>1, <2>1, UpTo
  <2> QED
    BY <1>0, <2>2
<1> DEFINE u == CHOOSE c : P(c, N)
<1>4. P(u, N)
  <2> HIDE DEF P
  <2> QED
    BY <1>3
<1> HIDE DEF u
<1>5. u[0] = 0 /\ \A i \in 1 .. N : u[i] = Step(i, u[i - 1])
  BY <1>0, <1>4
<1> QED
  BY <1>a, <1>5 DEF N, Step, u

(* The number of some bits, and how many bits are enough for it.           *)
Bits(width) == [1 .. width -> {0, 1}]

(* ToBits gives bits.                                                      *)
LEMMA BitsType ==
  ASSUME NEW n \in Nat, NEW width \in 1 .. TypeBits + IdBits
  PROVE  ToBits(n, width) \in Bits(width)
<1> SUFFICES ASSUME NEW i \in 1 .. width PROVE (n \div Power[width - i]) % 2 \in {0, 1}
  BY DEF ToBits, Bits
<1>1. width - i \in 0 .. TypeBits + IdBits
  BY AddressAssumption
<1>2. Power[width - i] \in Nat /\ Power[width - i] > 0
  BY <1>1, PowerFacts
<1>3. n \div Power[width - i] \in Int
  BY <1>2
<1> HIDE DEF Power
<1> QED
  BY <1>3

(* u64::from_be_bytes is the inverse of to_be_bytes on what fits,          *)
LEMMA BitsRead ==
  ASSUME NEW width \in 1 .. TypeBits + IdBits, NEW n \in Nat, n < Power[width]
  PROVE  FromBits(ToBits(n, width)) = n
<1> DEFINE b == ToBits(n, width)
<1>0. width \in Nat /\ \A i \in 0 .. width : i \in 0 .. TypeBits + IdBits
  BY AddressAssumption
<1>1. Len(b) = width /\ \A i \in 1 .. width : b[i] = (n \div Power[width - i]) % 2
  BY <1>0 DEF ToBits
<1> HIDE DEF b
<1>2. PICK u : FromBits(b) = u[width] /\ u[0] = 0 /\ \A i \in 1 .. width : u[i] = 2 * u[i - 1] + b[i]
  BY <1>0, <1>1, FromBitsDef
<1> DEFINE S == {i \in 0 .. width : u[i] = n \div Power[width - i]}
<1>3. 0 \in S
  <2>1. Power[width] \in Nat /\ Power[width] > 0
    BY <1>0, PowerFacts
  <2>2. n \div Power[width] = 0
    <3>1. n = Power[width] * 0 + n /\ n \in 0 .. Power[width] - 1
      BY <2>1
    <3> HIDE DEF Power
    <3> QED
      BY <2>1, <3>1, DivMod
  <2> QED
    BY <1>0, <1>2, <2>2
<1>4. ASSUME NEW i \in 0 .. width - 1, i \in S
      PROVE  i + 1 \in S
  <2> DEFINE k == width - (i + 1)
             q == n \div Power[k]
  <2>1. k \in 0 .. TypeBits + IdBits - 1 /\ k \in 0 .. TypeBits + IdBits /\ k + 1 = width - i
    BY <1>0, AddressAssumption
  <2>2. u[i] = q \div 2
    BY <1>4, <2>1, Halved
  <2>3. q \in Int
    BY <2>1, PowerFacts
  <2>4. i + 1 \in 1 .. width /\ (i + 1) - 1 = i
    BY <1>0
  <2>5. b[i + 1] = q % 2
    BY <1>1, <2>4
  <2>6. u[i + 1] = 2 * u[i] + b[i + 1]
    BY <1>2, <2>4, Zenon
  <2> HIDE DEF q
  <2>7. u[i + 1] = q
    BY <2>2, <2>3, <2>5, <2>6
  <2> QED
    BY <1>0, <2>7 DEF q
<1>5. width \in S
  <2>1. \A k \in 0 .. width - 1 : k \in S => k + 1 \in S
    BY <1>4
  <2> HIDE DEF S
  <2>2. \A k \in 0 .. width : k \in S
    BY <1>0, <1>3, <2>1, UpTo
  <2> QED
    BY <1>0, <2>2
<1>6. u[width] = n \div 1
  BY <1>0, <1>5, PowerFacts
<1>7. n \div 1 = n
  OBVIOUS
<1> QED
  BY <1>2, <1>6, <1>7 DEF b

(* and the other way round.                                                *)
LEMMA BitsWritten ==
  ASSUME NEW width \in 1 .. TypeBits + IdBits, NEW b \in Bits(width)
  PROVE  /\ FromBits(b) \in Nat /\ FromBits(b) < Power[width]
         /\ ToBits(FromBits(b), width) = b
<1>0. width \in Nat /\ \A i \in 0 .. width : i \in 0 .. TypeBits + IdBits
  BY AddressAssumption
<1>1. Len(b) = width /\ \A i \in 1 .. width : b[i] \in {0, 1}
  BY <1>0 DEF Bits
<1>2. PICK u : FromBits(b) = u[width] /\ u[0] = 0 /\ \A i \in 1 .. width : u[i] = 2 * u[i - 1] + b[i]
  BY <1>0, <1>1, FromBitsDef
<1> DEFINE n == u[width]
           Typed == {i \in 0 .. width : u[i] \in Nat}
           S == {k \in 0 .. width : u[width - k] = n \div Power[k]}
<1>3. \A i \in 0 .. width : u[i] \in Nat
  <2>1. 0 \in Typed
    BY <1>0, <1>2
  <2>2. ASSUME NEW i \in 0 .. width - 1, i \in Typed
        PROVE  i + 1 \in Typed
    <3>1. i + 1 \in 1 .. width /\ (i + 1) - 1 = i
      BY <1>0
    <3>2. u[i + 1] = 2 * u[i] + b[i + 1] /\ b[i + 1] \in {0, 1}
      BY <1>1, <1>2, <3>1, Zenon
    <3> QED
      BY <2>2, <3>1, <3>2
  <2>3. \A i \in 0 .. width - 1 : i \in Typed => i + 1 \in Typed
    BY <2>2
  <2>4. \A i \in 0 .. width : i \in Typed
    <3> HIDE DEF Typed
    <3> QED
      BY <1>0, <2>1, <2>3, UpTo
  <2> QED
    BY <2>4
<1>4. n \in Nat
  BY <1>0, <1>3
<1> HIDE DEF n
<1>5. 0 \in S
  BY <1>0, <1>4, PowerFacts DEF n
<1>6. ASSUME NEW i \in 1 .. width, u[i] = n \div Power[width - i]
      PROVE  /\ u[i - 1] = n \div Power[width - i + 1]
             /\ b[i] = (n \div Power[width - i]) % 2
  <2>1. u[i] = 2 * u[i - 1] + b[i] /\ b[i] \in 0 .. 1 /\ u[i - 1] \in Nat
    BY <1>0, <1>1, <1>2, <1>3
  <2>2. u[i] \div 2 = u[i - 1] /\ u[i] % 2 = b[i]
    BY <2>1
  <2>3. width - i \in 0 .. TypeBits + IdBits - 1
    BY <1>0, AddressAssumption
  <2> QED
    BY <1>4, <1>6, <2>2, <2>3, Halved
<1>7. ASSUME NEW k \in 0 .. width - 1, k \in S
      PROVE  k + 1 \in S
  <2>1. width - k \in 1 .. width /\ width - (width - k) = k /\ (width - k) - 1 = width - (k + 1)
    BY <1>0
  <2>2. u[width - k] = n \div Power[width - (width - k)]
    BY <1>7, <2>1
  <2>3. u[(width - k) - 1] = n \div Power[width - (width - k) + 1]
    BY <1>6, <2>1, <2>2
  <2> QED
    BY <1>0, <2>1, <2>3
<1>8. \A k \in 0 .. width : u[width - k] = n \div Power[k]
  <2>1. \A k \in 0 .. width - 1 : k \in S => k + 1 \in S
    BY <1>7
  <2>2. \A k \in 0 .. width : k \in S
    <3> HIDE DEF S
    <3> QED
      BY <1>0, <1>5, <2>1, UpTo
  <2> QED
    BY <2>2
<1>9. n < Power[width]
  <2>1. n \div Power[width] = 0
    <3>1. width \in 0 .. width /\ width - width = 0
      BY <1>0
    <3>2. u[0] = n \div Power[width]
      BY <1>8, <3>1
    <3> QED
      BY <1>2, <3>2
  <2>2. Power[width] \in Nat /\ Power[width] > 0
    BY <1>0, PowerFacts
  <2> DEFINE d == Power[width]
  <2> HIDE DEF d
  <2>3. d \in Nat /\ d > 0 /\ n \div d = 0
    BY <2>1, <2>2 DEF d
  <2>4. n = d * (n \div d) + (n % d) /\ n % d < d
    BY <1>4, <2>3
  <2>5. d * (n \div d) = 0
    BY <2>3
  <2> QED
    BY <1>4, <2>3, <2>4, <2>5 DEF d
<1>10. ASSUME NEW i \in 1 .. width
       PROVE  b[i] = (n \div Power[width - i]) % 2
  <2>1. width - i \in 0 .. width /\ width - (width - i) = i
    BY <1>0
  <2>2. u[i] = n \div Power[width - i]
    BY <1>8, <2>1
  <2> QED
    BY <1>6, <2>2
<1>11. ToBits(n, width) = b
  <2>1. b = [i \in 1 .. width |-> b[i]]
    BY DEF Bits
  <2> QED
    BY <1>10, <2>1 DEF ToBits
<1> QED
  BY <1>2, <1>4, <1>9, <1>11 DEF n

-----------------------------------------------------------------------------
(* The network id.                                                         *)

NetworkBits == TypeBits + IdBits

(* The network id of an EVM chain: its type bits are 0, the rest is the id.*)
LEMMA EvmNetwork ==
  ASSUME NEW id \in Nat, id < Power[IdBits]
  PROVE  LET b == ToBits(id, NetworkBits)
         IN  /\ b \in Bits(NetworkBits) /\ b # ALL_CHAINS_NETWORK_ID
             /\ known_network_id(b) /\ from_network_id(b) = Evm(id)
<1> DEFINE b == ToBits(id, NetworkBits)
<1>0. /\ TypeBits \in 1 .. NetworkBits /\ IdBits \in 1 .. NetworkBits /\ NetworkBits \in 1 .. NetworkBits
      /\ NetworkBits \in Nat /\ NetworkBits = TypeBits + IdBits
  BY AddressAssumption DEF NetworkBits
<1>1. b \in Bits(NetworkBits) /\ Len(b) = NetworkBits
  <2>1. b \in Bits(NetworkBits)
    BY <1>0, BitsType
  <2> QED
    BY <1>0, <2>1 DEF Bits
<1>2. \A i \in 1 .. NetworkBits : b[i] = (id \div Power[NetworkBits - i]) % 2
  BY DEF ToBits
<1>3. ASSUME NEW i \in 1 .. TypeBits PROVE b[i] = 0
  <2> DEFINE d == Power[NetworkBits - i]
  <2>1. d \in Nat /\ id < d
    <3>1. NetworkBits - i \in IdBits .. TypeBits + IdBits
      BY <1>0
    <3>2. NetworkBits - i \in 0 .. TypeBits + IdBits /\ IdBits \in 0 .. TypeBits + IdBits
      BY <1>0
    <3>3. Power[IdBits] <= d /\ d \in Nat /\ Power[IdBits] \in Nat
      BY <3>1, <3>2, PowerFacts
    <3> HIDE DEF d
    <3> QED
      BY <3>3
  <2>2. b[i] = (id \div d) % 2
    BY <1>0, <1>2
  <2> HIDE DEF d
  <2>3. id \div d = 0
    <3>1. id = d * 0 + id /\ id \in 0 .. d - 1
      BY <2>1
    <3> QED
      BY <2>1, <3>1, DivMod
  <2> QED
    BY <2>2, <2>3
<1>4. SubSeq(b, 1, TypeBits) = ToBits(0, TypeBits)
  <2>1. SubSeq(b, 1, TypeBits) = [i \in 1 .. TypeBits |-> 0]
    <3>1. SubSeq(b, 1, TypeBits) = [i \in 1 .. TypeBits |-> b[i]]
      BY <1>0, <1>1 DEF Bits
    <3> QED
      BY <1>3, <3>1
  <2>2. ASSUME NEW i \in 1 .. TypeBits PROVE (0 \div Power[TypeBits - i]) % 2 = 0
    <3> DEFINE d == Power[TypeBits - i]
    <3>1. d \in Nat /\ d > 0
      BY <1>0, PowerFacts
    <3> HIDE DEF d
    <3>2. 0 = d * 0 + 0 /\ 0 \in 0 .. d - 1
      BY <3>1
    <3>3. 0 \div d = 0
      BY <3>1, <3>2, DivMod
    <3> QED
      BY <3>3 DEF d
  <2> QED
    BY <2>1, <2>2 DEF ToBits
<1>5. SubSeq(b, TypeBits + 1, NetworkBits) = ToBits(id, IdBits)
  <2>1. SubSeq(b, TypeBits + 1, NetworkBits) = [j \in 1 .. IdBits |-> b[TypeBits + j]]
    BY <1>0, <1>1 DEF Bits
  <2>2. ASSUME NEW j \in 1 .. IdBits PROVE b[TypeBits + j] = (id \div Power[IdBits - j]) % 2
    <3>1. TypeBits + j \in 1 .. NetworkBits /\ NetworkBits - (TypeBits + j) = IdBits - j
      BY <1>0
    <3> QED
      BY <1>2, <3>1
  <2> QED
    BY <2>1, <2>2 DEF ToBits
<1>6. FromBits(SubSeq(b, 1, TypeBits)) = 0
  <2>1. 0 < Power[TypeBits]
    BY <1>0, PowerFacts
  <2> QED
    BY <1>0, <1>4, <2>1, BitsRead
<1>7. FromBits(SubSeq(b, TypeBits + 1, NetworkBits)) = id
  BY <1>0, <1>5, BitsRead
<1>8. b # ALL_CHAINS_NETWORK_ID
  <2>1. 1 \in 1 .. TypeBits
    BY <1>0
  <2>2. ALL_CHAINS_NETWORK_ID[1] = 1
    BY <1>0 DEF ALL_CHAINS_NETWORK_ID, NetworkBits
  <2> QED
    BY <1>3, <2>1, <2>2
<1> HIDE DEF b
<1>9. known_network_id(b)
  BY <1>6 DEF known_network_id
<1>10. from_network_id(b) = Evm(id)
  BY <1>7, <1>8 DEF from_network_id, NetworkBits
<1> QED
  BY <1>1, <1>8, <1>9, <1>10 DEF b

(* The two parts of a network id.                                          *)
LEMMA NetworkParts ==
  ASSUME NEW b \in Bits(NetworkBits)
  PROVE  /\ SubSeq(b, 1, TypeBits) = [i \in 1 .. TypeBits |-> b[i]]
         /\ SubSeq(b, TypeBits + 1, NetworkBits) = [j \in 1 .. IdBits |-> b[TypeBits + j]]
         /\ SubSeq(b, 1, TypeBits) \in Bits(TypeBits)
         /\ SubSeq(b, TypeBits + 1, NetworkBits) \in Bits(IdBits)
<1>1. TypeBits \in Nat \ {0} /\ IdBits \in Nat \ {0} /\ NetworkBits = TypeBits + IdBits
  BY AddressAssumption DEF NetworkBits
<1>2. /\ SubSeq(b, 1, TypeBits) = [i \in 1 .. TypeBits |-> b[i]]
      /\ SubSeq(b, TypeBits + 1, NetworkBits) = [j \in 1 .. IdBits |-> b[TypeBits + j]]
      /\ \A i \in 1 .. NetworkBits : b[i] \in {0, 1}
  BY <1>1 DEF Bits
<1>3. \A i \in 1 .. TypeBits : b[i] \in {0, 1}
  BY <1>1, <1>2
<1>4. ASSUME NEW j \in 1 .. IdBits PROVE b[TypeBits + j] \in {0, 1}
  <2>1. TypeBits + j \in 1 .. NetworkBits
    BY <1>1
  <2> QED
    BY <1>2, <2>1
<1> QED
  BY <1>2, <1>3, <1>4 DEF Bits

(* Only that network id is read as the chain.                              *)
LEMMA EvmOnly ==
  ASSUME NEW b \in Bits(NetworkBits), known_network_id(b), b # ALL_CHAINS_NETWORK_ID
  PROVE  \E id \in Nat : id < Power[IdBits] /\ from_network_id(b) = Evm(id) /\ b = ToBits(id, NetworkBits)
<1> DEFINE t == SubSeq(b, 1, TypeBits)
           r == SubSeq(b, TypeBits + 1, NetworkBits)
           id == FromBits(r)
           c == ToBits(id, NetworkBits)
<1>0. /\ TypeBits \in 1 .. NetworkBits /\ IdBits \in 1 .. NetworkBits /\ NetworkBits \in 1 .. NetworkBits
      /\ NetworkBits \in Nat /\ NetworkBits = TypeBits + IdBits
  BY AddressAssumption DEF NetworkBits
<1>1. t = [i \in 1 .. TypeBits |-> b[i]] /\ r = [j \in 1 .. IdBits |-> b[TypeBits + j]]
  BY NetworkParts
<1>2. t \in Bits(TypeBits) /\ r \in Bits(IdBits)
  BY NetworkParts
<1>3. from_network_id(b) = Evm(id) /\ FromBits(t) = 0
  BY DEF from_network_id, known_network_id, NetworkBits
<1> HIDE DEF t, r
<1>4. id \in Nat /\ id < Power[IdBits] /\ ToBits(id, IdBits) = r
  BY <1>0, <1>2, BitsWritten
<1>5. ToBits(0, TypeBits) = t
  BY <1>0, <1>2, <1>3, BitsWritten
<1> HIDE DEF id
<1>6. c \in Bits(NetworkBits) /\ known_network_id(c) /\ c # ALL_CHAINS_NETWORK_ID /\ from_network_id(c) = Evm(id)
  BY <1>4, EvmNetwork
<1>7. FromBits(SubSeq(c, 1, TypeBits)) = 0 /\ FromBits(SubSeq(c, TypeBits + 1, NetworkBits)) = id
  <2>1. FromBits(SubSeq(c, 1, TypeBits)) = 0
    BY <1>6 DEF known_network_id
  <2>2. Evm(FromBits(SubSeq(c, TypeBits + 1, NetworkBits))) = Evm(id)
    BY <1>6 DEF from_network_id, NetworkBits
  <2> QED
    BY <2>1, <2>2 DEF Evm
<1> HIDE DEF c
<1>8. /\ SubSeq(c, 1, TypeBits) = [i \in 1 .. TypeBits |-> c[i]]
      /\ SubSeq(c, TypeBits + 1, NetworkBits) = [j \in 1 .. IdBits |-> c[TypeBits + j]]
  BY <1>6, NetworkParts
<1>9. SubSeq(c, 1, TypeBits) \in Bits(TypeBits) /\ SubSeq(c, TypeBits + 1, NetworkBits) \in Bits(IdBits)
  BY <1>6, NetworkParts
<1>10. SubSeq(c, 1, TypeBits) = t /\ SubSeq(c, TypeBits + 1, NetworkBits) = r
  BY <1>0, <1>4, <1>5, <1>7, <1>9, BitsWritten
<1>11. ASSUME NEW i \in 1 .. NetworkBits PROVE c[i] = b[i]
  <2>1. CASE i \in 1 .. TypeBits
    BY <1>1, <1>8, <1>10, <2>1
  <2>2. CASE i \notin 1 .. TypeBits
    <3>1. i - TypeBits \in 1 .. IdBits /\ TypeBits + (i - TypeBits) = i
      BY <1>0, <2>2
    <3>2. r[i - TypeBits] = b[TypeBits + (i - TypeBits)]
      BY <1>1, <3>1, Zenon
    <3>3. r[i - TypeBits] = c[TypeBits + (i - TypeBits)]
      BY <1>8, <1>10, <3>1, Zenon
    <3> QED
      BY <3>1, <3>2, <3>3, Zenon
  <2> QED
    BY <2>1, <2>2
<1>12. b = c
  <2>1. b = [i \in 1 .. NetworkBits |-> b[i]] /\ c = [i \in 1 .. NetworkBits |-> c[i]]
    BY <1>6 DEF Bits
  <2> QED
    BY <1>11, <2>1, Zenon
<1> QED
  BY <1>3, <1>4, <1>12 DEF c

(* The mask is its own inverse.                                            *)
LEMMA Unmasked ==
  ASSUME NEW b \in Bits(NetworkBits)
  PROVE  xor_network_id(b) \in Bits(NetworkBits) /\ xor_network_id(xor_network_id(b)) = b
<1> DEFINE m == xor_network_id(b)
           K == NETWORK_ID_XOR_KEY
<1>1. DOMAIN b = 1 .. NetworkBits /\ \A i \in 1 .. NetworkBits : b[i] \in {0, 1} /\ K[i] \in {0, 1}
  BY AddressAssumption DEF Bits, NetworkBits
<1>2. m = [i \in 1 .. NetworkBits |-> (b[i] + K[i]) % 2]
  BY <1>1 DEF xor_network_id
<1>3. \A x, y \in {0, 1} : (x + y) % 2 \in {0, 1} /\ (((x + y) % 2) + y) % 2 = x
  OBVIOUS
<1>4. m \in Bits(NetworkBits)
  BY <1>1, <1>2, <1>3 DEF Bits
<1>5. xor_network_id(m) = [i \in 1 .. NetworkBits |-> (m[i] + K[i]) % 2]
  BY <1>2 DEF xor_network_id
<1>6. \A i \in 1 .. NetworkBits : (m[i] + K[i]) % 2 = b[i]
  BY <1>1, <1>2, <1>3
<1>7. b = [i \in 1 .. NetworkBits |-> b[i]]
  BY DEF Bits
<1> HIDE DEF m, K
<1>8. xor_network_id(m) = b
  BY <1>5, <1>6, <1>7
<1> QED
  BY <1>4, <1>8 DEF m

(* A chain is all chains or an EVM chain, of any id.                       *)
IsChain(chain) == chain = All \/ \E id \in Nat : chain = Evm(id)

(* What is left of a chain in an address.                                  *)
Advised(chain) == [chain EXCEPT !.id = @ % Power[IdBits]]

(* Written and read, a chain is itself, but for the bits of its id that    *)
(* have no room: no id, however large, spills into the chain type or is    *)
(* taken for all chains.                                                   *)
LEMMA ChainSurvives ==
  ASSUME NEW chain, IsChain(chain)
  PROVE  LET b == to_network_id(chain)
         IN  b \in Bits(NetworkBits) /\ known_network_id(b) /\ from_network_id(b) = Advised(chain)
<1>0. NetworkBits \in Nat /\ IdBits \in 0 .. TypeBits + IdBits
  BY AddressAssumption DEF NetworkBits
<1>1. Power[IdBits] \in Nat /\ Power[IdBits] > 0
  BY <1>0, PowerFacts
<1>2. CASE chain = All
  <2>1. Advised(chain) = All
    <3> DEFINE d == Power[IdBits]
    <3>1. 0 = d * 0 + 0 /\ 0 \in 0 .. d - 1 /\ d \in Nat /\ d > 0
      <4> HIDE DEF d
      <4> QED
        BY <1>1 DEF d
    <3> HIDE DEF d
    <3>2. 0 % d = 0
      BY <3>1, DivMod
    <3> QED
      BY <1>2, <3>2 DEF Advised, All, d
  <2>2. to_network_id(chain) = ALL_CHAINS_NETWORK_ID
    BY <1>2 DEF to_network_id
  <2>3. ALL_CHAINS_NETWORK_ID \in Bits(NetworkBits)
    BY DEF ALL_CHAINS_NETWORK_ID, Bits, NetworkBits
  <2> QED
    BY <2>1, <2>2, <2>3 DEF known_network_id, from_network_id
<1>3. CASE chain # All
  <2>1. PICK id \in Nat : chain = Evm(id)
    BY <1>3 DEF IsChain
  <2> DEFINE low == id % Power[IdBits]
  <2>2. low \in Nat /\ low < Power[IdBits]
    <3> DEFINE d == Power[IdBits]
    <3>1. d \in Nat /\ d > 0
      BY <1>1
    <3> HIDE DEF d
    <3>2. id % d \in Nat /\ id % d < d
      BY <3>1
    <3> QED
      BY <3>2 DEF d
  <2>3. Advised(chain) = Evm(low) /\ chain.id = id
    BY <2>1 DEF Advised, Evm
  <2>4. to_network_id(chain) = ToBits(low, NetworkBits)
    BY <1>3, <2>3 DEF to_network_id, NetworkBits
  <2> HIDE DEF low
  <2> QED
    BY <2>2, <2>3, <2>4, EvmNetwork
<1> QED
  BY <1>2, <1>3

(* Every address, of whatever keys and chain, is read from its text as it  *)
(* was written, but for the bits of a chain id above the seventh byte.     *)
THEOREM AddressesSurvive ==
  ASSUME NEW master, NEW viewing, NEW chain, IsChain(chain)
  PROVE  LET a == from_public_keys(master, viewing, chain)
         IN  /\ parses(to_string(a))
             /\ from_str(to_string(a)) = from_public_keys(master, viewing, Advised(chain))
<1> DEFINE a == from_public_keys(master, viewing, chain)
           b == to_network_id(chain)
           s == to_string(a)
<1>1. b \in Bits(NetworkBits) /\ known_network_id(b) /\ from_network_id(b) = Advised(chain)
  BY ChainSurvives
<1>2. /\ s.checksum = "bech32m" /\ s.hrp = PREFIX /\ s.version = VERSION
      /\ s.body = <<master, viewing>> /\ s.network = xor_network_id(b)
  BY DEF to_string, from_public_keys
<1>3. xor_network_id(s.network) = b
  BY <1>1, <1>2, Unmasked
<1> HIDE DEF b, s
<1>4. parses(s)
  BY <1>1, <1>2, <1>3 DEF parses
<1>5. from_str(s) = from_public_keys(master, viewing, Advised(chain))
  BY <1>1, <1>2, <1>3 DEF from_str
<1> QED
  BY <1>4, <1>5 DEF s

(* A text with a network id of its width and the padding of 73 bytes; what *)
(* the rest of it holds is open.                                           *)
Texts(X) ==
  [checksum : X, hrp : X, version : X, body : Seq(X), network : Bits(NetworkBits),
   padding : Paddings]

(* A text that is read gives an address that is written with the same      *)
(* prefix and payload.                                                     *)
LEMMA ReadAsWritten ==
  ASSUME NEW X, NEW s \in Texts(X), parses(s)
  PROVE  to_string(from_str(s)) = AsWritten(s)
<1> DEFINE b == xor_network_id(s.network)
           chain == from_network_id(b)
           a == from_str(s)
<1>1. b \in Bits(NetworkBits) /\ xor_network_id(b) = s.network
  BY Unmasked DEF Texts
<1>2. s.hrp = PREFIX /\ Len(s.body) = 2 /\ s.version = VERSION /\ known_network_id(b)
  BY DEF parses
<1> HIDE DEF b
<1>3. to_network_id(chain) = b
  <2>1. CASE b = ALL_CHAINS_NETWORK_ID
    BY <2>1 DEF from_network_id, to_network_id
  <2>2. CASE b # ALL_CHAINS_NETWORK_ID
    <3>1. PICK id \in Nat : id < Power[IdBits] /\ chain = Evm(id) /\ b = ToBits(id, NetworkBits)
      BY <1>1, <1>2, <2>2, EvmOnly
    <3>2. chain # All /\ chain.id = id
      BY <3>1 DEF Evm, All
    <3>3. id % Power[IdBits] = id
      <4> DEFINE d == Power[IdBits]
      <4>1. d \in Nat /\ d > 0
        BY AddressAssumption, PowerFacts
      <4>2. id < d
        BY <3>1
      <4> HIDE DEF d
      <4>3. id = d * 0 + id /\ id \in 0 .. d - 1
        BY <4>1, <4>2
      <4>4. id % d = id
        BY <4>1, <4>3, DivMod
      <4> QED
        BY <4>4 DEF d
    <3> HIDE DEF chain
    <3> QED
      BY <3>1, <3>2, <3>3 DEF to_network_id, NetworkBits
  <2> QED
    BY <2>1, <2>2
<1>4. a.master_key = s.body[1] /\ a.viewing_pubkey = s.body[2] /\ a.chain = chain
  BY DEF from_str, from_public_keys, b
<1> HIDE DEF a, chain
<1>5. to_string(a) = [checksum |-> "bech32m", hrp |-> PREFIX, version |-> VERSION,
                      body |-> <<s.body[1], s.body[2]>>, network |-> s.network,
                      padding |-> <<0>>]
  BY <1>1, <1>3, <1>4 DEF to_string
<1>6. s.body = <<s.body[1], s.body[2]>>
  BY <1>2 DEF Texts
<1>7. AsWritten(s)
        = [checksum |-> "bech32m", hrp |-> s.hrp, version |-> s.version, body |-> s.body,
           network |-> s.network, padding |-> <<0>>]
  <2> DEFINE zero == <<0>>
  <2>1. AsWritten(s) = [s EXCEPT !.checksum = "bech32m", !.padding = zero]
    BY DEF AsWritten
  <2> HIDE DEF zero
  <2>2. [s EXCEPT !.checksum = "bech32m", !.padding = zero]
          = [checksum |-> "bech32m", hrp |-> s.hrp, version |-> s.version, body |-> s.body,
             network |-> s.network, padding |-> zero]
    <3> DEFINE old == [s EXCEPT !.checksum = "bech32m"]
    <3>1. old \in [checksum : X \cup {"bech32m"}, hrp : X, version : X, body : Seq(X),
                   network : Bits(NetworkBits), padding : Paddings]
          /\ old.checksum = "bech32m" /\ old.hrp = s.hrp /\ old.version = s.version
          /\ old.body = s.body /\ old.network = s.network
      BY DEF Texts
    <3>2. [s EXCEPT !.checksum = "bech32m", !.padding = zero] = [old EXCEPT !.padding = zero]
      OBVIOUS
    <3> HIDE DEF old
    <3>3. [old EXCEPT !.padding = zero]
            = [checksum |-> old.checksum, hrp |-> old.hrp, version |-> old.version,
               body |-> old.body, network |-> old.network, padding |-> zero]
      BY <3>1
    <3> QED
      BY <3>1, <3>2, <3>3
  <2> QED
    BY <2>1, <2>2 DEF zero
<1> QED
  BY <1>2, <1>5, <1>6, <1>7 DEF a

(* The texts of an address are known: from one that is read they are those *)
(* of the same prefix and payload, under a checksum of either kind, and    *)
(* whatever the bits past the last byte.  Nothing else is read as the same *)
(* address, and to_string gives the one of the newer kind with zero bits.  *)
THEOREM AddressTextsDetermined ==
  ASSUME NEW X, NEW s \in Texts(X), parses(s)
  PROVE  /\ to_string(from_str(s)) = AsWritten(s)
         /\ \A r \in Texts(X) :
              parses(r) /\ from_str(r) = from_str(s)
                <=> r.checksum \in {"bech32m", "bech32"} /\ AsWritten(r) = AsWritten(s)
<1>1. to_string(from_str(s)) = AsWritten(s)
  BY ReadAsWritten
<1>2. ASSUME NEW r \in Texts(X), parses(r), from_str(r) = from_str(s)
      PROVE  r.checksum \in {"bech32m", "bech32"} /\ AsWritten(r) = AsWritten(s)
  <2>1. to_string(from_str(r)) = AsWritten(r)
    BY <1>2, ReadAsWritten
  <2>2. r.checksum \in {"bech32m", "bech32"}
    BY <1>2 DEF parses
  <2> QED
    BY <1>1, <1>2, <2>1, <2>2
<1>3. ASSUME NEW r \in Texts(X), r.checksum \in {"bech32m", "bech32"},
             AsWritten(r) = AsWritten(s)
      PROVE  parses(r) /\ from_str(r) = from_str(s)
  <2>1. /\ AsWritten(r).hrp = r.hrp /\ AsWritten(r).version = r.version
        /\ AsWritten(r).body = r.body /\ AsWritten(r).network = r.network
    BY DEF Texts, AsWritten
  <2>2. /\ AsWritten(s).hrp = s.hrp /\ AsWritten(s).version = s.version
        /\ AsWritten(s).body = s.body /\ AsWritten(s).network = s.network
    BY DEF Texts, AsWritten
  <2>3. r.hrp = s.hrp /\ r.version = s.version /\ r.body = s.body /\ r.network = s.network
    BY <1>3, <2>1, <2>2
  <2>4. parses(r)
    BY <1>3, <2>3 DEF parses
  <2> QED
    BY <2>3, <2>4 DEF from_str
<1> QED
  BY <1>1, <1>2, <1>3
=============================================================================
