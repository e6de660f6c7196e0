------------------------------- MODULE Wallet --------------------------------
(***************************************************************************)
(* crates/decoder with crypto/note.rs and the decoded table: wallet        *)
(* processes that decode the commitments addressed to their keys, keep and *)
(* persist the notes, and ask for balances.  Every operation reads a view  *)
(* of its own; in between the replica advances, other processes of the     *)
(* same wallet save their notes, and the database may be wiped.            *)
(*                                                                         *)
(* A node is opened as module Notes says.  The bodies come from senders    *)
(* (module Senders) and are identified by the hash the node is stored      *)
(* under; Paid says what the sender of each meant, and correctness is      *)
(* measured against that.                                                  *)
(***************************************************************************)
EXTENDS Replica, Senders

CONSTANTS
  Wallets,       \* processes working for one account
  Account,       \* the account's keys
  Body,          \* the body of the node of a hash
  Paid,          \* who is paid what with the node of a hash
  Assets,
  U256Max        \* where a balance saturates

(* Paid[h].to is the master public key of the recipient; a node that pays  *)
(* nobody (a body that does not belong to its hash, a value no note can    *)
(* have) is paid to Nobody.                                                *)
Nobody == <<"nobody">>

ASSUME WalletAssumption ==
  /\ DOMAIN Body = Hashes
  /\ \A h \in Hashes : Paid[h].asset \in Assets /\ Paid[h].value \in Nat
  /\ U256Max \in Nat

VARIABLES
  notes,    \* notes[w]: the DecodedNotes process w holds
  seen,     \* seen[w][t]: the watermark of the view tree t was decoded in
  saved     \* the decoded table, with the `seen` of the notes in it

walletVars == <<notes, seen, saved>>
vars == <<stored, nullifiers, synced, notes, seen, saved>>

NothingSeen == [t \in Trees |-> Never]

-----------------------------------------------------------------------------
(* decode_tree over a view with these nodes.                               *)
DecodedFrom(nodes, t) ==
  UNION {decrypt_node(Account, p, p.node.hash, Body[p.node.hash]) : p \in {q \in nodes : q.tree = t}}

TreeCount == Max({0} \cup {p.tree + 1 : p \in stored})

(* Mutant: a spent note is looked up by its nullifier in any tree.         *)
NullifiedInAnyTree(note) == \E t \in Trees : <<t, note.nullifier>> \in nullifiers

(* is_nullified                                                            *)
IsNullified(note) == <<note.tree, note.nullifier>> \in nullifiers

(* balances: per asset the unspent notes and their saturating total; an    *)
(* asset without unspent notes is left out.                                *)
Balances(held) ==
  LET unspent == {n \in held : ~IsNullified(n)}
      Of(a) == {n \in unspent : n.asset = a}
  IN  [utxos |-> unspent,
       value |-> [a \in {n.asset : n \in unspent} |->
                    Min({U256Max, MapThenSumSet(LAMBDA n : n.value[2], Of(a))})]]

-----------------------------------------------------------------------------
WalletInit ==
  /\ Init
  /\ notes = [w \in Wallets |-> {}]
  /\ seen = [w \in Wallets |-> NothingSeen]
  /\ saved = [notes |-> {}, seen |-> NothingSeen]

(* The syncer moves the replica forward.                                   *)
Sync == /\ \E block \in Blocks : Advance(block)
        /\ UNCHANGED walletVars

(* clear_all empties the decoded table with the rest.  The processes are   *)
(* taken to be restarted around it: nothing in the code tells one that the *)
(* notes it holds are from before a wipe.                                  *)
ClearAll ==
  /\ \A w \in Wallets : notes[w] = {} /\ seen[w] = NothingSeen
  /\ Wipe
  /\ saved' = [notes |-> {}, seen |-> NothingSeen]
  /\ UNCHANGED <<notes, seen>>

(* decode_all over one view: the trees below tree_count.                   *)
DecodeAll(w) ==
  /\ notes' = [notes EXCEPT ![w] = UNION {DecodedFrom(stored, t) : t \in 0 .. TreeCount - 1}]
  /\ seen' = [seen EXCEPT ![w] = [t \in Trees |-> synced]]
  /\ UNCHANGED <<saved, replicaVars>>

(* decode_tree on a thread and a view of its own, merged by the caller.    *)
DecodeTree(w, t) ==
  /\ notes' = [notes EXCEPT ![w] = @ \cup DecodedFrom(stored, t)]
  /\ seen' = [seen EXCEPT ![w][t] = synced]
  /\ UNCHANGED <<saved, replicaVars>>

(* decoded().save(to_notes()) replaces the stored list.                    *)
Save(w) ==
  /\ saved' = [notes |-> notes[w], seen |-> seen[w]]
  /\ UNCHANGED <<notes, seen, replicaVars>>

(* from_notes(decoded().load())                                            *)
Load(w) ==
  /\ notes' = [notes EXCEPT ![w] = saved.notes]
  /\ seen' = [seen EXCEPT ![w] = saved.seen]
  /\ UNCHANGED <<saved, replicaVars>>

(* The process ends; what it did not save is gone.                         *)
Restart(w) ==
  /\ notes' = [notes EXCEPT ![w] = {}]
  /\ seen' = [seen EXCEPT ![w] = NothingSeen]
  /\ UNCHANGED <<saved, replicaVars>>

WalletNext ==
  \/ Sync
  \/ ClearAll
  \/ \E w \in Wallets :
       \/ DecodeAll(w) \/ Save(w) \/ Load(w) \/ Restart(w)
       \/ \E t \in Trees : DecodeTree(w, t)

WalletSpec == WalletInit /\ [][WalletNext]_vars

-----------------------------------------------------------------------------
(* What was paid to the account on the chain up to a block, and what of it *)
(* was spent.                                                              *)
Claim(p, asset, value) == [tree |-> p.tree, leaf |-> p.leaf, asset |-> asset, value |-> value]

OwnedThrough(block) ==
  IF block = Never THEN {}
  ELSE {Claim(p, Paid[p.node.hash].asset, Paid[p.node.hash].value) :
          p \in {q \in NodesThrough(block) : Paid[q.node.hash].to = Account.master_public_key}}

SpentThrough(block) ==
  IF block = Never THEN {}
  ELSE {c \in OwnedThrough(block) :
          <<c.tree, Revealed(Account.viewing_key, c.leaf)>> \in NullifiersThrough(block)}

(* What process w is told if it asks now.                                  *)
Reported(w) == {Claim(n, n.asset, n.value[2]) : n \in Balances(notes[w]).utxos}

(* A balance names only notes that were paid to the account and that it    *)
(* has not spent on the chain as of the view balances() reads, although    *)
(* the notes were decoded in earlier views, by another process, or before  *)
(* a restart, and whatever else senders put on the chain.  Any process may *)
(* ask at any moment.                                                      *)
BalanceSound ==
  \A w \in Wallets : Reported(w) \subseteq OwnedThrough(synced) \ SpentThrough(synced)

(* And it names all of them that were there when their tree was decoded:   *)
(* the sender, who knows the account by the text of its address, and the   *)
(* account derive the same keys and hashes; nothing is lost by decoding    *)
(* trees in different views, by the tree count, by equal nullifiers in two *)
(* trees, or by saving and loading.                                        *)
BalanceComplete ==
  \A w \in Wallets : \A t \in Trees :
    {c \in OwnedThrough(seen[w][t]) : c.tree = t} \ SpentThrough(synced) \subseteq Reported(w)

(* Every decoded note reproduces the commitment stored at its position     *)
(* (NodeDecrypt::decrypt_with, CommitmentMismatch).                        *)
NotesReproduceCommitments ==
  \A w \in Wallets : \A n \in notes[w] : \A p \in stored :
    p.tree = n.tree /\ p.leaf = n.leaf => p.node.hash = n.commitment_hash
=============================================================================
