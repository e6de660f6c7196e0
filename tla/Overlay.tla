------------------------------- MODULE Overlay -------------------------------
(***************************************************************************)
(* crates/database batch.rs and Database::apply: the stage, validate,      *)
(* apply pattern.  A batch of puts and deletes is collected over a read    *)
(* view without holding a lock; reads through the overlay see view and     *)
(* batch as one world; apply replays the batch into whatever the database  *)
(* holds by then, without looking at it again.  Beside the batch's author  *)
(* the syncer commits windows and the database may be wiped.               *)
(*                                                                         *)
(* Two constants say what the author and the rest of the program agree on, *)
(* which the code leaves to them: whether commits stay out while a batch   *)
(* is open, and what the author does about the frontier of a tree whose    *)
(* leaves the batch changes.                                               *)
(***************************************************************************)
EXTENDS UtxoStore

CONSTANTS
  Chain,          \* placed nodes, from which windows and batches draw
  MaxWindow,      \* bound: nodes per window or batch
  NoBatch,        \* no batch is open
  Exclusive,      \* do other writers wait while a batch is open?
  FrontierPolicy  \* "rebuild", "clear" or "leave" the snapshot of a changed tree

ASSUME OverlayAssumption ==
  /\ Chain \subseteq PlacedNodes
  /\ IsFiniteSet(Chain)
  /\ MaxWindow \in Nat \ {0}
  /\ Exclusive \in BOOLEAN
  /\ FrontierPolicy \in {"rebuild", "clear", "leave"}

VARIABLES
  db,     \* the durable tables
  base,   \* the ReadView the open batch was started on
  batch   \* the open WriteBatch, or NoBatch

vars == <<db, base, batch>>

Slots == Trees \X Leaves

(* The staged entries by key.  A frontier entry may be a tombstone; tree   *)
(* count and watermark are single keys.  untended is not in the batch: it  *)
(* is what its author still has to do, the trees with a node staged since  *)
(* their frontier was last staged.                                         *)
EmptyBatch ==
  [nodes |-> <<>>, nullifiers |-> {}, length |-> <<>>, count |-> <<>>,
   frontier |-> <<>>, synced |-> <<>>, untended |-> {}]

(* Some keys of a table with a value each.                                 *)
Entries(keys, values) == UNION {[staged -> values] : staged \in SUBSET keys}

Batches ==
  [nodes      : Entries(Slots, Nodes),
   nullifiers : SUBSET Nullifiers,
   length     : Entries(Trees, 1 .. Capacity),
   count      : Entries({"count"}, 1 .. MaxTrees),
   frontier   : Entries(Trees, Accumulators \cup {NoSnapshot}),
   synced     : Entries({"synced"}, Blocks),
   untended   : SUBSET Trees]

TypeOK ==
  /\ db \in Stores
  /\ base \in Stores
  /\ batch \in Batches \cup {NoBatch}

-----------------------------------------------------------------------------
(* Writer::put on a batch: the last entry of a key wins.                   *)
Put(entries, key, value) ==
  [k \in DOMAIN entries \cup {key} |-> IF k = key THEN value ELSE entries[k]]

Get(entries, key, default) == IF key \in DOMAIN entries THEN entries[key] ELSE default

(* Mutant: the frontier of the table hides the staged one.                 *)
OverlaidBehindFrontier(store, b) ==
  [nodes      |-> [t \in Trees |-> [l \in Leaves |->
                     Get(b.nodes, <<t, l>>, store.nodes[t][l])]],
   nullifiers |-> store.nullifiers \cup b.nullifiers,
   length     |-> [t \in Trees |-> Get(b.length, t, store.length[t])],
   count      |-> Get(b.count, "count", store.count),
   frontier   |-> [t \in Trees |-> IF store.frontier[t] # NoSnapshot THEN store.frontier[t]
                                    ELSE Get(b.frontier, t, NoSnapshot)],
   synced     |-> Get(b.synced, "synced", store.synced)]

(* The tables with a batch laid over them: a staged key, tombstones        *)
(* included, hides the table's.  It is what Overlay's get and range show   *)
(* over the base view, and what apply leaves behind over the database.     *)
Overlaid(store, b) ==
  [nodes      |-> [t \in Trees |-> [l \in Leaves |->
                     Get(b.nodes, <<t, l>>, store.nodes[t][l])]],
   nullifiers |-> store.nullifiers \cup b.nullifiers,
   length     |-> [t \in Trees |-> Get(b.length, t, store.length[t])],
   count      |-> Get(b.count, "count", store.count),
   frontier   |-> [t \in Trees |-> Get(b.frontier, t, store.frontier[t])],
   synced     |-> Get(b.synced, "synced", store.synced)]

World == Overlaid(base, batch)

(* Mutant: the length is staged one too high.                              *)
WithNodeTooLong(b, w, p) ==
  [b EXCEPT !.nodes  = Put(@, <<p.tree, p.leaf>>, p.node),
            !.length = IF p.leaf + 1 > w.length[p.tree]
                         THEN Put(@, p.tree, p.leaf + 2) ELSE @,
            !.count  = IF p.tree + 1 > w.count THEN Put(@, "count", p.tree + 1) ELSE @,
            !.untended = @ \cup {p.tree}]

(* insert_node through the overlay, in a world w the counters are read     *)
(* from: the new length and count are staged as absolute values.           *)
WithNode(b, w, p) ==
  [b EXCEPT !.nodes  = Put(@, <<p.tree, p.leaf>>, p.node),
            !.length = IF p.leaf + 1 > w.length[p.tree]
                         THEN Put(@, p.tree, p.leaf + 1) ELSE @,
            !.count  = IF p.tree + 1 > w.count THEN Put(@, "count", p.tree + 1) ELSE @,
            !.untended = @ \cup {p.tree}]

Init ==
  /\ db = EmptyStore
  /\ base = EmptyStore
  /\ batch = NoBatch

OthersMayWrite == Exclusive => batch = NoBatch

(* The syncer commits a window (commit_window, module UtxoStore).          *)
WindowCommits(placed, spent, through) ==
  /\ OthersMayWrite
  /\ ~CommitmentConflict(db.nodes, placed)
  /\ db' = CommitWindow(db, placed, spent, through)
  /\ UNCHANGED <<base, batch>>

ClearAll ==
  /\ OthersMayWrite
  /\ db' = EmptyStore
  /\ UNCHANGED <<base, batch>>

(* Database::read, and a new batch over the view.                          *)
Open ==
  /\ batch = NoBatch
  /\ base' = db
  /\ batch' = EmptyBatch
  /\ UNCHANGED db

(* Mutants: the counters are read from the view alone; an occupied slot is *)
(* not looked up.                                                          *)
StageNodeOverBase(p) ==
  /\ batch # NoBatch
  /\ Cardinality(DOMAIN batch.nodes) < MaxWindow
  /\ World.nodes[p.tree][p.leaf] = NoNode
  /\ batch' = WithNode(batch, base, p)
  /\ UNCHANGED <<db, base>>

StageNodeUnchecked(p) ==
  /\ batch # NoBatch
  /\ Cardinality(DOMAIN batch.nodes) < MaxWindow
  /\ batch' = WithNode(batch, World, p)
  /\ UNCHANGED <<db, base>>

(* An identical node is a no-op and a different one is an error, neither   *)
(* of which stages anything.                                               *)
StageNode(p) ==
  /\ batch # NoBatch
  /\ Cardinality(DOMAIN batch.nodes) < MaxWindow
  /\ World.nodes[p.tree][p.leaf] = NoNode
  /\ batch' = WithNode(batch, World, p)
  /\ UNCHANGED <<db, base>>

StageNullifier(n) ==
  /\ batch # NoBatch
  /\ batch' = [batch EXCEPT !.nullifiers = @ \cup {n}]
  /\ UNCHANGED <<db, base>>

StageSyncedBlock(block) ==
  /\ batch # NoBatch
  /\ batch' = [batch EXCEPT !.synced = Put(@, "synced", block)]
  /\ UNCHANGED <<db, base>>

(* Mutant: the rebuild scans the view without the batch.                   *)
StageSnapshotOfBase(t) ==
  /\ batch # NoBatch
  /\ FrontierPolicy = "rebuild" /\ t \in batch.untended
  /\ batch' = [batch EXCEPT
                 !.frontier = Put(@, t, TreeFrontier(base.nodes, World.length, t)),
                 !.untended = @ \ {t}]
  /\ UNCHANGED <<db, base>>

(* tree_frontier over the overlay, its state staged with set_snapshot.     *)
StageSnapshot(t) ==
  /\ batch # NoBatch
  /\ FrontierPolicy = "rebuild" /\ t \in batch.untended
  /\ batch' = [batch EXCEPT
                 !.frontier = Put(@, t, TreeFrontier(World.nodes, World.length, t)),
                 !.untended = @ \ {t}]
  /\ UNCHANGED <<db, base>>

(* clear_snapshot: a tombstone.  Unless clearing is the policy, the author *)
(* has the snapshot still to rebuild.                                      *)
StageClear(t) ==
  /\ batch # NoBatch
  /\ FrontierPolicy # "leave"
  /\ batch' = [batch EXCEPT
                 !.frontier = Put(@, t, NoSnapshot),
                 !.untended = IF FrontierPolicy = "clear" THEN @ \ {t} ELSE @ \cup {t}]
  /\ UNCHANGED <<db, base>>

(* Mutant: apply inserts what is absent and leaves present keys alone.     *)
ApplyAbsentOnly ==
  /\ batch # NoBatch
  /\ FrontierPolicy # "leave" => batch.untended = {}
  /\ db' = [Overlaid(db, batch) EXCEPT
              !.length = [t \in Trees |-> IF db.length[t] = 0 THEN @[t] ELSE db.length[t]]]
  /\ batch' = NoBatch
  /\ base' = EmptyStore

(* Database::apply, after the validation accepted World.  The batch is     *)
(* spent, the view is dropped with it.                                     *)
Apply ==
  /\ batch # NoBatch
  /\ FrontierPolicy # "leave" => batch.untended = {}
  /\ db' = Overlaid(db, batch)
  /\ batch' = NoBatch
  /\ base' = EmptyStore

(* The validation fails or the process dies: dropping the batch is the     *)
(* discard.                                                                *)
Discard ==
  /\ batch # NoBatch
  /\ batch' = NoBatch
  /\ base' = EmptyStore
  /\ UNCHANGED db

Next ==
  \/ \E placed \in UNION {kSubset(k, Chain) : k \in 0 .. MaxWindow},
        spent \in {{}, Nullifiers}, through \in Blocks : WindowCommits(placed, spent, through)
  \/ ClearAll
  \/ Open
  \/ \E p \in Chain : StageNode(p)
  \/ \E n \in Nullifiers : StageNullifier(n)
  \/ \E block \in Blocks : StageSyncedBlock(block)
  \/ \E t \in Trees : StageSnapshot(t) \/ StageClear(t)
  \/ Apply
  \/ Discard

Spec == Init /\ [][Next]_vars

-----------------------------------------------------------------------------
(* The counters stay the highest position and tree plus one although a     *)
(* batch stages them as absolute values computed over an older view.       *)
CountersExact == CountersMatch(db)

(* A root query never disagrees with the stored leaves.                    *)
RootsCurrent ==
  \A t \in Trees : MerkleRoot(db, t) = StoredLeaves(db.nodes, t)

(* Nor does the one the validation asks for: it walks view and batch as    *)
(* one world, the snapshot of the view included.                           *)
ValidatedRootCurrent ==
  batch # NoBatch /\ batch.untended = {} =>
    \A t \in Trees : MerkleRoot(World, t) = StoredLeaves(World.nodes, t)

(* A stored node is never replaced by a different one, by whichever way it *)
(* comes; only clear_all takes it away.                                    *)
NodesPermanent ==
  [][\A t \in Trees, l \in Leaves :
       db.nodes[t][l] # NoNode => \/ db'.nodes[t][l] = db.nodes[t][l]
                                 \/ db' = EmptyStore]_vars

(* The rows of a batch: the nodes it stages, with their slots.             *)
StagedNodes ==
  {[tree |-> slot[1], leaf |-> slot[2], node |-> batch.nodes[slot]] : slot \in DOMAIN batch.nodes}

(* Tables that no read and no later write tells apart: a missing snapshot  *)
(* stands for the frontier of a tree without leaves.                       *)
Frontier(store, t) ==
  IF store.frontier[t] = NoSnapshot THEN EmptyAccumulator ELSE store.frontier[t]

SameTables(s, r) ==
  /\ s.nodes = r.nodes /\ s.nullifiers = r.nullifiers
  /\ s.length = r.length /\ s.count = r.count /\ s.synced = r.synced
  /\ \A t \in Trees : Frontier(s, t) = Frontier(r, t)

(* A batch was staged row by row over a view, with absolute counters and   *)
(* with snapshots rebuilt by a walk of view and batch; its apply leaves    *)
(* what one write transaction of the syncer with the same rows would have, *)
(* which raises the counters and advances the frontiers of the tables it   *)
(* writes to, and which no insert of the batch could have made fail.       *)
LandsAsOneWindow ==
  [][batch # NoBatch /\ batch' = NoBatch /\ db' # db =>
       LET through == Get(batch.synced, "synced", db.synced)
       IN  /\ ~CommitmentConflict(db.nodes, StagedNodes)
           /\ SameTables(db', CommitWindow(db, StagedNodes, batch.nullifiers, through))]_vars
=============================================================================
