------------------------------- MODULE Replica -------------------------------
(***************************************************************************)
(* What the syncer promises to everyone who reads the database: a replica  *)
(* of the chain that is exact up to a watermark.  It holds every event it  *)
(* can represent from the floor up to the watermark and nothing else, the  *)
(* watermark only moves forward, and a wipe takes all of it at once.  How  *)
(* pages, windows, retries, crashes and transactions bring that about is   *)
(* module Syncer's business; SyncerReplica shows that they do.             *)
(***************************************************************************)
EXTENDS Indexer

CONSTANT Floor  \* the first block of interest

VARIABLES
  stored,     \* the placed nodes in the commitments table
  nullifiers, \* the nullifiers in the commitments table
  synced      \* the watermark

replicaVars == <<stored, nullifiers, synced>>

NodesThrough(block) ==
  {PlacedNode(row) : row \in {r \in Representable(CommitmentRows) :
                                Floor <= r.block /\ r.block <= block}}

NullifiersThrough(block) ==
  {NullifiedOf(row) : row \in {r \in NullifierRows :
                                 Floor <= r.block /\ r.block <= block}}

Init ==
  /\ stored = {}
  /\ nullifiers = {}
  /\ synced = Never

(* The replica moves forward to a later block.                             *)
Advance(block) ==
  /\ synced # Never => block > synced
  /\ block >= Floor
  /\ stored' = NodesThrough(block)
  /\ nullifiers' = NullifiersThrough(block)
  /\ synced' = block

Wipe ==
  /\ stored' = {}
  /\ nullifiers' = {}
  /\ synced' = Never

Next == Wipe \/ \E block \in Blocks : Advance(block)

Spec == Init /\ [][Next]_replicaVars
=============================================================================
