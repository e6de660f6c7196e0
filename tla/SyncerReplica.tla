---------------------------- MODULE SyncerReplica ----------------------------
(***************************************************************************)
(* One syncer, fetching no further than the indexer has got, implements    *)
(* the replica of module Replica: the tables, read as sets, go through     *)
(* exactly its states.                                                     *)
(***************************************************************************)
EXTENDS Syncer

StoredNodes ==
  {[tree |-> x[1], leaf |-> x[2], node |-> db.nodes[x[1]][x[2]]] : x \in FilledSlots(db)}

Ledger == INSTANCE Replica
            WITH stored <- StoredNodes, nullifiers <- db.nullifiers, synced <- db.synced

(* Every commit takes the database from the events of one block prefix to  *)
(* the events of a longer one: no event is lost at a page or window        *)
(* boundary, by a retry, a failed commit or a crash, and none is there     *)
(* before the watermark says so.                                           *)
ImplementsReplica == Ledger!Spec
=============================================================================
