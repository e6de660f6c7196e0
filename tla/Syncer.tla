------------------------------- MODULE Syncer --------------------------------
(***************************************************************************)
(* crates/sync/src/manager.rs: syncers that pump the indexer's events into *)
(* the database, one block window at a time.  A run reads the watermark    *)
(* once, then for every window fetches the pages of both event streams     *)
(* (each page an await, so anything may happen in between) and commits the *)
(* window in one write transaction.  Around the runs: the indexer advances,*)
(* requests fail and are retried, commits fail, the process crashes, and   *)
(* the database is wiped.                                                  *)
(*                                                                         *)
(* A write transaction is one step: redb gives it the writer lock and      *)
(* makes its effect durable at once or not at all.                         *)
(***************************************************************************)
EXTENDS Indexer

CONSTANTS
  Syncers,        \* the Syncer values sharing one Arc<Database>
  Floor,          \* Syncer::floor, the contract's deployment block
  BlockWindow,    \* Syncer::block_window
  MaxRetries,     \* SubsquidSource::max_retries
  U64Max,         \* the largest BlockNumber
  Targets,        \* targets callers pass to run()
  LastBlock,      \* bound: the indexer stops at this block
  MaxDisruptions, \* bound: failed requests, failed commits, crashes and wipes
  PastHead,       \* may a caller of run() name a block not indexed yet?
  ClearWhileRunning \* may clear_all run while a syncer is running?

ASSUME SyncerAssumption ==
  /\ U64Max \in Nat
  /\ Blocks = 0 .. U64Max
  /\ Floor \in Blocks
  /\ BlockWindow \in Nat \ {0}
  /\ MaxRetries \in Nat
  /\ Targets \subseteq Blocks
  /\ LastBlock \in Blocks
  /\ MaxDisruptions \in Nat
  /\ PastHead \in BOOLEAN
  /\ ClearWhileRunning \in BOOLEAN

VARIABLES
  head,        \* the highest block the indexer has indexed
  db,          \* the durable database
  run,         \* what each syncer's call in progress holds
  disruptions  \* how many disruptions happened so far

vars == <<head, db, run, disruptions>>

Streams == {"Commitments", "Nullifiers"}
Resting == {"idle", "ok", "err"}
Running == {"latest", "fetch", "commit"}

Summaries == [commitments : Nat, nullifiers : Nat, synced_to : Blocks]

Runs ==
  [pc          : Resting \cup Running,
   target      : Blocks,
   from        : Blocks,
   stream      : Streams,
   cursor      : 0 .. MaxId,
   commitments : SUBSET CommitmentRows,
   nullifiers  : SUBSET NullifierRows,
   attempt     : 0 .. MaxRetries,
   summary     : Summaries]

TypeOK ==
  /\ head \in 0 .. LastBlock
  /\ db \in Stores
  /\ run \in [Syncers -> Runs]
  /\ disruptions \in 0 .. MaxDisruptions

-----------------------------------------------------------------------------
(* BlockNumber::saturating_add                                             *)
SaturatingAdd(block, n) == Min({block + n, U64Max})

(* The last block of the window that starts at `from`.                     *)
WindowEnd(from, target) == Min({SaturatingAdd(from, BlockWindow - 1), target})

(* synced_block().unwrap_or_default()                                      *)
SyncedOrZero(watermark) == IF watermark = Never THEN 0 ELSE watermark

(* Mutant: a run resumes one block too late.                               *)
ResumePastNext(watermark) ==
  IF watermark = Never THEN Floor ELSE SaturatingAdd(watermark, 2)

(* The block a run starts from.                                            *)
ResumePoint(watermark) ==
  IF watermark = Never THEN Floor ELSE SaturatingAdd(watermark, 1)

ZeroSummary == [commitments |-> 0, nullifiers |-> 0, synced_to |-> 0]

(* A call outside the window loop: not called, awaiting latest_block, or   *)
(* returned.  Its buffers are gone.                                        *)
AtRest(pc, summary) ==
  [pc |-> pc, target |-> 0, from |-> 0, stream |-> "Commitments",
   cursor |-> NoCursor, commitments |-> {}, nullifiers |-> {},
   attempt |-> 0, summary |-> summary]

(* Mutant: `while from < target`.                                          *)
NextWindowBefore(from, target, summary) ==
  IF from < target
    THEN [AtRest("fetch", summary) EXCEPT !.target = target, !.from = from]
    ELSE AtRest("ok", summary)

(* `while from <= target`: fetch the next window with fresh buffers, or    *)
(* return the summary.                                                     *)
NextWindow(from, target, summary) ==
  IF from <= target
    THEN [AtRest("fetch", summary) EXCEPT !.target = target, !.from = from]
    ELSE AtRest("ok", summary)

(* The head of run(): the watermark is read once.                          *)
BeginRun(watermark, target) ==
  NextWindow(ResumePoint(watermark), target,
             [ZeroSummary EXCEPT !.synced_to = SyncedOrZero(watermark)])

Init ==
  /\ head = 0
  /\ db = EmptyStore
  /\ run = [s \in Syncers |-> AtRest("idle", ZeroSummary)]
  /\ disruptions = 0

-----------------------------------------------------------------------------
(* The indexer indexes one more block.                                     *)
IndexBlock ==
  /\ head < LastBlock
  /\ head' = head + 1
  /\ UNCHANGED <<db, run, disruptions>>

(* run_to_head: ask the source for its latest block.                       *)
RunToHead(s) ==
  /\ run[s].pc \in Resting
  /\ run' = [run EXCEPT ![s] = AtRest("latest", ZeroSummary)]
  /\ UNCHANGED <<head, db, disruptions>>

(* run_to_head_if_unsynced: a populated database answers from a read view. *)
RunToHeadIfUnsynced(s) ==
  /\ run[s].pc \in Resting
  /\ run' = [run EXCEPT ![s] =
       IF db.synced # Never
         THEN AtRest("ok", [ZeroSummary EXCEPT !.synced_to = SyncedOrZero(db.synced)])
         ELSE AtRest("latest", ZeroSummary)]
  /\ UNCHANGED <<head, db, disruptions>>

(* run(db, target) called directly.                                        *)
RunTo(s, target) ==
  /\ run[s].pc \in Resting
  /\ PastHead \/ target <= head
  /\ run' = [run EXCEPT ![s] = BeginRun(db.synced, target)]
  /\ UNCHANGED <<head, db, disruptions>>

(* latest_block answers and run_to_head enters run().                      *)
LatestBlockArrives(s) ==
  /\ run[s].pc = "latest"
  /\ run' = [run EXCEPT ![s] = BeginRun(db.synced, LatestBlock(head))]
  /\ UNCHANGED <<head, db, disruptions>>

(* The page the source answers with now: the query is evaluated when the   *)
(* indexer serves it, not when the run started.                            *)
PageOf(r) ==
  QueryPage(IF r.stream = "Commitments" THEN CommitmentRows ELSE NullifierRows,
            head, r.from, WindowEnd(r.from, r.target), r.cursor)

(* Mutants: a page without a mapped row ends the stream; the cursor is not *)
(* moved.                                                                  *)
EndAtUnmappedPage(r, page) ==
  CASE r.stream = "Commitments" /\ Representable(page) # {} ->
         [r EXCEPT !.attempt = 0, !.cursor = LastId(page),
                   !.commitments = @ \cup Representable(page)]
    [] r.stream = "Nullifiers" /\ page # {} ->
         [r EXCEPT !.attempt = 0, !.cursor = LastId(page),
                   !.nullifiers = @ \cup page]
    [] r.stream = "Commitments" /\ Representable(page) = {} ->
         [r EXCEPT !.attempt = 0, !.cursor = NoCursor, !.stream = "Nullifiers"]
    [] r.stream = "Nullifiers" /\ page = {} ->
         [r EXCEPT !.attempt = 0, !.pc = "commit"]

CursorStays(r, page) ==
  IF page # {} THEN [r EXCEPT !.attempt = 0]
  ELSE IF r.stream = "Commitments"
    THEN [r EXCEPT !.attempt = 0, !.stream = "Nullifiers"]
    ELSE [r EXCEPT !.attempt = 0, !.pc = "commit"]

(* What the page loop does with an answer: buffer the mapped rows and      *)
(* follow the cursor; an empty page ends the stream.                       *)
AfterPage(r, page) ==
  CASE page # {} /\ r.stream = "Commitments" ->
         [r EXCEPT !.attempt = 0, !.cursor = LastId(page),
                   !.commitments = @ \cup Representable(page)]
    [] page # {} /\ r.stream = "Nullifiers" ->
         [r EXCEPT !.attempt = 0, !.cursor = LastId(page),
                   !.nullifiers = @ \cup page]
    [] page = {} /\ r.stream = "Commitments" ->
         [r EXCEPT !.attempt = 0, !.cursor = NoCursor, !.stream = "Nullifiers"]
    [] page = {} /\ r.stream = "Nullifiers" ->
         [r EXCEPT !.attempt = 0, !.pc = "commit"]

PageArrives(s) ==
  /\ run[s].pc = "fetch"
  /\ run' = [run EXCEPT ![s] = AfterPage(run[s], PageOf(run[s]))]
  /\ UNCHANGED <<head, db, disruptions>>

(* Mutant: the retry budget is compared one attempt too late.              *)
RequestFailsOnceMore(s) ==
  /\ run[s].pc \in {"latest", "fetch"}
  /\ disruptions < MaxDisruptions
  /\ disruptions' = disruptions + 1
  /\ run' = [run EXCEPT ![s] =
       IF run[s].attempt > MaxRetries
         THEN AtRest("err", ZeroSummary)
         ELSE [run[s] EXCEPT !.attempt = @ + 1]]
  /\ UNCHANGED <<head, db>>

(* post_retry: a failed request is repeated max_retries times; then the    *)
(* error is the result of the run and the window's buffers are dropped.    *)
RequestFails(s) ==
  /\ run[s].pc \in {"latest", "fetch"}
  /\ disruptions < MaxDisruptions
  /\ disruptions' = disruptions + 1
  /\ run' = [run EXCEPT ![s] =
       IF run[s].attempt + 1 > MaxRetries
         THEN AtRest("err", ZeroSummary)
         ELSE [run[s] EXCEPT !.attempt = @ + 1]]
  /\ UNCHANGED <<head, db>>

PlacedIn(r) == {PlacedNode(row) : row \in r.commitments}

(* Mutant: the summary reports the target instead of the window's end.     *)
CountedToTarget(r) ==
  [commitments |-> r.summary.commitments + Cardinality(r.commitments),
   nullifiers  |-> r.summary.nullifiers + Cardinality(r.nullifiers),
   synced_to   |-> r.target]

(* The running totals of the SyncSummary after a window.                   *)
Counted(r) ==
  [commitments |-> r.summary.commitments + Cardinality(r.commitments),
   nullifiers  |-> r.summary.nullifiers + Cardinality(r.nullifiers),
   synced_to   |-> WindowEnd(r.from, r.target)]

(* Mutants: the watermark is stamped by the first window only; a different *)
(* node overwrites the stored one.                                         *)
WatermarkStampedOnce(s) ==
  LET r == run[s]
      through == WindowEnd(r.from, r.target)
  IN  /\ r.pc = "commit"
      /\ ~CommitmentConflict(db.nodes, PlacedIn(r))
      /\ db' = CommitWindow(db, PlacedIn(r),
                            {NullifiedOf(row) : row \in r.nullifiers},
                            IF db.synced = Never THEN through ELSE db.synced)
      /\ run' = [run EXCEPT ![s] =
                   NextWindow(SaturatingAdd(through, 1), r.target, Counted(r))]
      /\ UNCHANGED <<head, disruptions>>

NodesOverwritten(s) ==
  LET r == run[s]
      through == WindowEnd(r.from, r.target)
      Overwritten(t, l) == {p \in PlacedIn(r) : p.tree = t /\ p.leaf = l}
  IN  /\ r.pc = "commit"
      /\ db' = [CommitWindow(db, PlacedIn(r),
                             {NullifiedOf(row) : row \in r.nullifiers}, through)
                 EXCEPT !.nodes = [t \in Trees |-> [l \in Leaves |->
                   IF Overwritten(t, l) = {} THEN db.nodes[t][l]
                     ELSE (CHOOSE p \in Overwritten(t, l) : TRUE).node]]]
      /\ run' = [run EXCEPT ![s] =
                   NextWindow(SaturatingAdd(through, 1), r.target, Counted(r))]
      /\ UNCHANGED <<head, disruptions>>

(* commit_window succeeds and the loop moves past the window.              *)
WindowCommits(s) ==
  LET r == run[s]
      through == WindowEnd(r.from, r.target)
  IN  /\ r.pc = "commit"
      /\ ~CommitmentConflict(db.nodes, PlacedIn(r))
      /\ db' = CommitWindow(db, PlacedIn(r),
                            {NullifiedOf(row) : row \in r.nullifiers}, through)
      /\ run' = [run EXCEPT ![s] =
                   NextWindow(SaturatingAdd(through, 1), r.target, Counted(r))]
      /\ UNCHANGED <<head, disruptions>>

(* insert_node finds a different node: the transaction is discarded.       *)
WindowConflicts(s) ==
  /\ run[s].pc = "commit"
  /\ CommitmentConflict(db.nodes, PlacedIn(run[s]))
  /\ run' = [run EXCEPT ![s] = AtRest("err", ZeroSummary)]
  /\ UNCHANGED <<head, db, disruptions>>

(* The engine fails before or at commit: nothing becomes durable.          *)
CommitFails(s) ==
  /\ run[s].pc = "commit"
  /\ disruptions < MaxDisruptions
  /\ disruptions' = disruptions + 1
  /\ run' = [run EXCEPT ![s] = AtRest("err", ZeroSummary)]
  /\ UNCHANGED <<head, db>>

(* The process dies, at any await or inside a write transaction, and is    *)
(* started again: only the database survives.                              *)
Crash ==
  /\ disruptions < MaxDisruptions
  /\ disruptions' = disruptions + 1
  /\ run' = [s \in Syncers |-> AtRest("idle", ZeroSummary)]
  /\ UNCHANGED <<head, db>>

(* Database::clear_all                                                     *)
ClearAll ==
  /\ disruptions < MaxDisruptions
  /\ disruptions' = disruptions + 1
  /\ ClearWhileRunning \/ \A s \in Syncers : run[s].pc \in Resting
  /\ db' = EmptyStore
  /\ UNCHANGED <<head, run>>

(* The steps by which a call in progress goes on.                          *)
RunStep(s) ==
  \/ LatestBlockArrives(s)
  \/ PageArrives(s)
  \/ RequestFails(s)
  \/ WindowCommits(s)
  \/ WindowConflicts(s)
  \/ CommitFails(s)

Next ==
  \/ IndexBlock
  \/ \E s \in Syncers :
       \/ RunToHead(s)
       \/ RunToHeadIfUnsynced(s)
       \/ \E target \in Targets : RunTo(s, target)
       \/ RunStep(s)
  \/ Crash
  \/ ClearAll

Spec == Init /\ [][Next]_vars

(* A call in progress is polled to its end: the runtime polls a woken      *)
(* task, and a request is answered or fails (a request that hangs is not   *)
(* modelled; reqwest's client is built without a timeout).                 *)
FairSpec == Spec /\ \A s \in Syncers : WF_vars(RunStep(s))

(* In addition a scheduler keeps calling run_to_head.                      *)
ScheduledSpec == FairSpec /\ \A s \in Syncers : WF_vars(RunToHead(s))

-----------------------------------------------------------------------------
SyncedTo(block) == db.synced # Never /\ db.synced >= block

FilledSlots(d) == {x \in Trees \X Leaves : d.nodes[x[1]][x[2]] # NoNode}

NodeStored(d, row) ==
  LET p == PlacedNode(row) IN d.nodes[p.tree][p.leaf] = p.node

NullifierStored(d, row) == NullifiedOf(row) \in d.nullifiers

(* The watermark is never ahead of the data it certifies: every event the  *)
(* source serves and can map, from the floor up to synced_block(), is in   *)
(* the tables (manager.rs commit_window), whatever runs, failures, crashes *)
(* and other syncers came before.                                          *)
WatermarkCovered ==
  /\ \A row \in Representable(CommitmentRows) :
       Floor <= row.block /\ row.block <= head /\ SyncedTo(row.block) => NodeStored(db, row)
  /\ \A row \in NullifierRows :
       Floor <= row.block /\ row.block <= head /\ SyncedTo(row.block) =>
         NullifierStored(db, row)

(* tree_length and tree_count are what their documentation says: highest   *)
(* stored position plus one and highest tree plus one, although            *)
(* insert_node only ever compares against the previous counter.            *)
CountersExact == CountersMatch(db)

(* A root query never disagrees with a full walk over the stored leaves,   *)
(* even though it trusts a snapshot on its length alone and the snapshot   *)
(* was extended across windows, gaps, backfills, replays and crashes.      *)
RootsCurrent ==
  \A t \in Trees : MerkleRoot(db, t) = StoredLeaves(db.nodes, t)

(* A stored node is never replaced by a different one (insert_node raises  *)
(* CommitmentConflict instead); only clear_all takes it away.              *)
NodesPermanent ==
  [][\A t \in Trees, l \in Leaves :
       db.nodes[t][l] # NoNode => \/ db'.nodes[t][l] = db.nodes[t][l]
                                 \/ db' = EmptyStore]_vars

(* With one syncer at work, a window adds to the SyncSummary what it       *)
(* really added to the tables: skipped rows are not counted, no row is     *)
(* fetched again by a later window or run, and synced_to is the watermark  *)
(* just committed.                                                         *)
SummaryExact ==
  [][\A s \in Syncers :
       run[s].pc = "commit" /\ run'[s].pc \in {"fetch", "ok"} =>
         /\ Cardinality(FilledSlots(db')) - Cardinality(FilledSlots(db)) =
              run'[s].summary.commitments - run[s].summary.commitments
         /\ run'[s].summary.synced_to = db'.synced]_vars

(* Every call returns: pages end, windows end, retries are bounded.        *)
RunReturns ==
  \A s \in Syncers : run[s].pc \in Running ~> run[s].pc \in Resting

(* The database catches up with every transaction the indexer shows.       *)
CatchesUp ==
  \A b \in TxBlocks : head >= b ~> SyncedTo(b)
=============================================================================
