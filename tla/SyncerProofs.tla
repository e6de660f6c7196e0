----------------------------- MODULE SyncerProofs ----------------------------
(***************************************************************************)
(* Machine-checked proofs about module Syncer, for every chain, every page *)
(* and window size, every number of syncers and every bound; and, in the   *)
(* second part, that one syncer implements the replica of the chain.       *)
(***************************************************************************)
EXTENDS SyncerReplica, UtxoStoreProofs, FiniteSetTheorems

-----------------------------------------------------------------------------
(* Block arithmetic.                                                       *)

(* The smaller of two numbers.                                             *)
LEMMA MinOfTwo ==
  ASSUME NEW a \in Int, NEW b \in Int
  PROVE  /\ Min({a, b}) \in {a, b}
         /\ Min({a, b}) <= a
         /\ Min({a, b}) <= b
<1>1. \E x \in {a, b} : \A y \in {a, b} : x <= y
  <2>1. CASE a <= b
    BY <2>1
  <2>2. CASE ~(a <= b)
    BY <2>2
  <2> QED
    BY <2>1, <2>2
<1>2. Min({a, b}) \in {a, b} /\ \A y \in {a, b} : Min({a, b}) <= y
  BY <1>1, Zenon DEF Min
<1> QED
  BY <1>2

(* saturating_add stays in u64 and never goes down.                        *)
LEMMA SaturatingAddRange ==
  ASSUME NEW block \in Blocks, NEW n \in Nat
  PROVE  /\ SaturatingAdd(block, n) \in Blocks
         /\ block <= SaturatingAdd(block, n)
         /\ SaturatingAdd(block, n) <= block + n
<1>1. Blocks = 0 .. U64Max /\ U64Max \in Nat
  BY SyncerAssumption
<1>2. block + n \in Int /\ U64Max \in Int
  BY <1>1
<1>3. /\ SaturatingAdd(block, n) \in {block + n, U64Max}
      /\ SaturatingAdd(block, n) <= block + n
      /\ SaturatingAdd(block, n) <= U64Max
  BY <1>2, MinOfTwo DEF SaturatingAdd
<1> QED
  BY <1>1, <1>3

(* A window ends between its first block and the target.                   *)
LEMMA WindowEndRange ==
  ASSUME NEW from \in Blocks, NEW target \in Blocks, from <= target
  PROVE  /\ WindowEnd(from, target) \in Blocks
         /\ from <= WindowEnd(from, target)
         /\ WindowEnd(from, target) <= target
<1>1. BlockWindow - 1 \in Nat
  BY SyncerAssumption
<1>2. Blocks \subseteq Int
  BY SyncerAssumption
<1>3. /\ SaturatingAdd(from, BlockWindow - 1) \in Blocks
      /\ from <= SaturatingAdd(from, BlockWindow - 1)
  BY <1>1, SaturatingAddRange
<1>4. /\ WindowEnd(from, target) \in {SaturatingAdd(from, BlockWindow - 1), target}
      /\ WindowEnd(from, target) <= target
  BY <1>2, <1>3, MinOfTwo DEF WindowEnd
<1> QED
  BY <1>3, <1>4

(* The window's end is a block even when the window is empty.              *)
LEMMA WindowEndType ==
  ASSUME NEW from \in Blocks, NEW target \in Blocks
  PROVE  WindowEnd(from, target) \in Blocks
<1>1. BlockWindow - 1 \in Nat
  BY SyncerAssumption
<1>2. Blocks \subseteq Int
  BY SyncerAssumption
<1>3. SaturatingAdd(from, BlockWindow - 1) \in Blocks
  BY <1>1, SaturatingAddRange
<1> QED
  BY <1>2, <1>3, MinOfTwo DEF WindowEnd

(* The indexer never reports a block above its head.                       *)
LEMMA LatestBlockRange ==
  ASSUME NEW h \in Nat, h \in Blocks
  PROVE  LatestBlock(h) \in Blocks /\ LatestBlock(h) <= h
<1> DEFINE S == {0} \cup {b \in TxBlocks : b <= h}
<1>1. TxBlocks \subseteq Blocks /\ Blocks \subseteq Nat /\ 0 \in Blocks
  BY RowsAssumption, SyncerAssumption
<1>2. S \in SUBSET (0 .. h) /\ S # {} /\ S \subseteq Blocks
  <2>1. \A b \in TxBlocks : b \in Nat
    BY <1>1
  <2>2. S \subseteq 0 .. h
    BY <2>1
  <2>3. 0 \in S
    OBVIOUS
  <2>4. S \subseteq Blocks
    BY <1>1
  <2> QED
    BY <2>2, <2>3, <2>4
<1>3. Max(S) \in S
  BY <1>2, MaxIsGreatest, Zenon
<1>4. LatestBlock(h) = Max(S)
  BY DEF LatestBlock
<1> QED
  BY <1>2, <1>3, <1>4

-----------------------------------------------------------------------------
(* Pages.                                                                  *)

(* Rows of either stream, as far as pagination is concerned.               *)
IsRowSet(rows) ==
  /\ IsFiniteSet(rows)
  /\ \A row \in rows : row.id \in 1 .. MaxId

(* Both streams are sets of rows with distinct ids.                        *)
LEMMA RowSets ==
  IsRowSet(CommitmentRows) /\ IsRowSet(NullifierRows)
  BY RowsAssumption DEF IsRowSet

(* The ids of a non-empty set of rows have a least and a greatest element. *)
LEMMA LastIdGreatest ==
  ASSUME NEW rows, IsRowSet(rows), NEW page \in SUBSET rows, page # {}
  PROVE  /\ LastId(page) \in 1 .. MaxId
         /\ \E row \in page : row.id = LastId(page)
         /\ \A row \in page : row.id <= LastId(page)
<1> DEFINE S == {row.id : row \in page}
<1>0. MaxId \in Nat
  BY RowsAssumption
<1>1. S \in SUBSET (0 .. MaxId) /\ S # {} /\ S \subseteq 1 .. MaxId
  <2>1. \A row \in page : row.id \in 1 .. MaxId
    BY DEF IsRowSet
  <2> QED
    BY <1>0, <2>1
<1>2. Max(S) \in S /\ \A y \in S : y <= Max(S)
  BY <1>0, <1>1, MaxIsGreatest, Zenon
<1>3. LastId(page) = Max(S)
  BY DEF LastId
<1> QED
  BY <1>1, <1>2, <1>3

(* A page is part of the matching rows, contains every matching row up to  *)
(* its last one, and is empty only if nothing matches.                     *)
LEMMA FirstPageIsPrefix ==
  ASSUME NEW rows, IsRowSet(rows)
  PROVE  /\ FirstPage(rows) \subseteq rows
         /\ rows # {} => FirstPage(rows) # {}
         /\ \A row \in rows, last \in FirstPage(rows) :
              row.id <= last.id => row \in FirstPage(rows)
<1>0. PageLimit \in Nat \ {0} /\ MaxId \in Nat
  BY RowsAssumption
<1>1. FirstPage(rows) \subseteq rows
  BY DEF FirstPage
<1>2. ASSUME rows # {}
      PROVE  FirstPage(rows) # {}
  <2> DEFINE T == {row.id : row \in rows}
  <2>1. T \subseteq Nat /\ T # {}
    BY <1>0, <1>2 DEF IsRowSet
  <2>2. PICK m \in T : \A y \in T : ~(<<y, m>> \in OpToRel(<, Nat))
    BY <2>1, WFMin, NatLessThanWellFounded
  <2>3. \A y \in T : ~(y < m)
    BY <2>1, <2>2 DEF OpToRel
  <2>4. PICK row \in rows : row.id = m
    OBVIOUS
  <2>5. {q \in rows : q.id < row.id} = {}
    BY <2>3, <2>4
  <2>6. Cardinality({q \in rows : q.id < row.id}) < PageLimit
    BY <1>0, <2>5, FS_EmptySet
  <2> QED
    BY <2>6 DEF FirstPage
<1>3. ASSUME NEW row \in rows, NEW last \in FirstPage(rows), row.id <= last.id
      PROVE  row \in FirstPage(rows)
  <2> DEFINE A == {q \in rows : q.id < row.id}
             B == {q \in rows : q.id < last.id}
  <2>1. B \in SUBSET rows
    OBVIOUS
  <2>2. IsFiniteSet(B)
    BY <2>1, FS_Subset DEF IsRowSet
  <2>3. \A q \in rows : q.id \in Int
    BY <1>0 DEF IsRowSet
  <2>4. A \in SUBSET B
    BY <1>1, <1>3, <2>3
  <2>5. IsFiniteSet(A) /\ Cardinality(A) <= Cardinality(B)
    BY <2>2, <2>4, FS_Subset
  <2>6. Cardinality(A) \in Nat /\ Cardinality(B) \in Nat
    BY <2>2, <2>5, FS_CardinalityType
  <2>7. Cardinality(B) < PageLimit
    BY DEF FirstPage
  <2>8. Cardinality(A) < PageLimit
    BY <1>0, <2>5, <2>6, <2>7
  <2> QED
    BY <2>8 DEF FirstPage
<1> QED
  BY <1>1, <1>2, <1>3

(* What one answer holds: rows of the window behind the cursor, all of     *)
(* them up to the last one, and nothing only if nothing is left.           *)
LEMMA QueryPageIsPrefix ==
  ASSUME NEW rows, IsRowSet(rows), NEW h, NEW lo, NEW hi, NEW cursor
  PROVE  LET page == QueryPage(rows, h, lo, hi, cursor)
             match == Matching(rows, h, lo, hi, cursor)
         IN  /\ page \subseteq match /\ match \subseteq rows
             /\ match # {} => page # {}
             /\ \A row \in match : page # {} /\ row.id <= LastId(page) => row \in page
             /\ page # {} => LastId(page) \in 1 .. MaxId
<1> DEFINE page == QueryPage(rows, h, lo, hi, cursor)
           match == Matching(rows, h, lo, hi, cursor)
<1>1. match \in SUBSET rows
  BY DEF Matching
<1>2. IsRowSet(match)
  BY <1>1, FS_Subset DEF IsRowSet
<1>3. page = FirstPage(match)
  BY DEF QueryPage
<1> HIDE DEF page, match
<1>4. /\ page \subseteq match
      /\ match # {} => page # {}
      /\ \A row \in match, last \in page : row.id <= last.id => row \in page
  BY <1>2, <1>3, FirstPageIsPrefix
<1>5. ASSUME page # {}
      PROVE  /\ LastId(page) \in 1 .. MaxId
             /\ \E row \in page : row.id = LastId(page)
  BY <1>1, <1>4, <1>5, LastIdGreatest
<1> QED
  BY <1>1, <1>4, <1>5 DEF page, match

-----------------------------------------------------------------------------
(* Type correctness of the records a step gives to a run.                  *)

(* A run that has nothing in flight.                                       *)
LEMMA AtRestType ==
  ASSUME NEW pc \in Resting \cup Running, NEW summary \in Summaries
  PROVE  AtRest(pc, summary) \in Runs
<1>1. 0 \in Blocks /\ 0 \in 0 .. MaxId /\ 0 \in 0 .. MaxRetries
  BY SyncerAssumption, RowsAssumption
<1> QED
  BY <1>1 DEF AtRest, Runs, Streams, NoCursor

(* A run at the start of a window, or at its end.                          *)
LEMMA NextWindowType ==
  ASSUME NEW from \in Blocks, NEW target \in Blocks, NEW summary \in Summaries
  PROVE  NextWindow(from, target, summary) \in Runs
<1>1. /\ AtRest("fetch", summary) \in Runs
      /\ AtRest("ok", summary) \in Runs
  BY AtRestType DEF Resting, Running
<1>2. [AtRest("fetch", summary) EXCEPT !.target = target, !.from = from] \in Runs
  BY <1>1 DEF Runs
<1> QED
  BY <1>1, <1>2 DEF NextWindow

(* The summary a run starts from.                                          *)
LEMMA ZeroSummaryType ==
  ASSUME NEW watermark \in Blocks \cup {Never}
  PROVE  /\ ZeroSummary \in Summaries
         /\ SyncedOrZero(watermark) \in Blocks
         /\ [ZeroSummary EXCEPT !.synced_to = SyncedOrZero(watermark)] \in Summaries
<1>1. 0 \in Blocks
  BY SyncerAssumption
<1>2. SyncedOrZero(watermark) \in Blocks
  BY <1>1 DEF SyncedOrZero
<1> QED
  BY <1>1, <1>2 DEF ZeroSummary, Summaries

(* The first block of a run is a block.                                    *)
LEMMA ResumePointType ==
  ASSUME NEW watermark \in Blocks \cup {Never}
  PROVE  ResumePoint(watermark) \in Blocks
<1>1. Floor \in Blocks
  BY SyncerAssumption
<1>2. ASSUME watermark # Never
      PROVE  SaturatingAdd(watermark, 1) \in Blocks
  BY <1>2, SaturatingAddRange
<1> QED
  BY <1>1, <1>2 DEF ResumePoint

(* A run at its start.                                                     *)
LEMMA BeginRunType ==
  ASSUME NEW watermark \in Blocks \cup {Never}, NEW target \in Blocks
  PROVE  BeginRun(watermark, target) \in Runs
  BY ZeroSummaryType, ResumePointType, NextWindowType DEF BeginRun

(* A run that has taken a page.                                            *)
LEMMA AfterPageType ==
  ASSUME NEW r \in Runs, r.pc = "fetch"
  PROVE  AfterPage(r, PageOf(r)) \in Runs
<1> DEFINE page == PageOf(r)
<1> SUFFICES AfterPage(r, page) \in Runs
  OBVIOUS
<1>0. MaxId \in Nat /\ MaxRetries \in Nat
  BY RowsAssumption, SyncerAssumption
<1>1. r.stream = "Commitments" => page \subseteq CommitmentRows
  BY RowSets, QueryPageIsPrefix DEF PageOf
<1>2. r.stream = "Nullifiers" => page \subseteq NullifierRows
  BY RowSets, QueryPageIsPrefix DEF PageOf
<1>3. r.stream \in {"Commitments", "Nullifiers"}
  BY DEF Runs, Streams
<1>4. page # {} => LastId(page) \in 1 .. MaxId
  BY <1>3, RowSets, QueryPageIsPrefix DEF PageOf
<1>5. 0 \in 0 .. MaxRetries /\ NoCursor \in 0 .. MaxId
  BY <1>0 DEF NoCursor
<1> HIDE DEF page
<1>6. CASE page # {} /\ r.stream = "Commitments"
  <2>1. AfterPage(r, page) = [r EXCEPT !.attempt = 0, !.cursor = LastId(page),
                                       !.commitments = @ \cup Representable(page)]
    BY <1>6 DEF AfterPage
  <2>2. Representable(page) \subseteq CommitmentRows
    BY <1>1, <1>6 DEF Representable
  <2>3. LastId(page) \in 0 .. MaxId
    BY <1>0, <1>4, <1>6
  <2>4. r.commitments \cup Representable(page) \in SUBSET CommitmentRows
    BY <2>2 DEF Runs
  <2> QED
    BY <1>5, <2>1, <2>3, <2>4 DEF Runs
<1>7. CASE page # {} /\ r.stream = "Nullifiers"
  <2>1. AfterPage(r, page) = [r EXCEPT !.attempt = 0, !.cursor = LastId(page),
                                       !.nullifiers = @ \cup page]
    BY <1>7 DEF AfterPage
  <2>2. LastId(page) \in 0 .. MaxId
    BY <1>0, <1>4, <1>7
  <2>3. r.nullifiers \cup page \in SUBSET NullifierRows
    BY <1>2, <1>7 DEF Runs
  <2> QED
    BY <1>5, <2>1, <2>2, <2>3 DEF Runs
<1>8. CASE page = {} /\ r.stream = "Commitments"
  BY <1>5, <1>8 DEF AfterPage, Runs, Streams
<1>9. CASE page = {} /\ r.stream = "Nullifiers"
  BY <1>5, <1>9 DEF AfterPage, Runs, Running
<1> QED
  BY <1>3, <1>6, <1>7, <1>8, <1>9

(* The summary after a commit.                                             *)
LEMMA CountedType ==
  ASSUME NEW r \in Runs
  PROVE  Counted(r) \in Summaries
<1>1. /\ r.commitments \in SUBSET CommitmentRows
      /\ r.nullifiers \in SUBSET NullifierRows
      /\ r.summary \in Summaries
      /\ WindowEnd(r.from, r.target) \in Blocks
  BY WindowEndType DEF Runs
<1>2. IsFiniteSet(r.commitments) /\ IsFiniteSet(r.nullifiers)
  BY <1>1, RowSets, FS_Subset DEF IsRowSet
<1>3. Cardinality(r.commitments) \in Nat /\ Cardinality(r.nullifiers) \in Nat
  BY <1>2, FS_CardinalityType
<1> QED
  BY <1>1, <1>3 DEF Counted, Summaries

(* The node and nullifier a row maps to fit the tables.                    *)
LEMMA WindowTypes ==
  ASSUME NEW r \in Runs
  PROVE  /\ PlacedIn(r) \in SUBSET PlacedNodes
         /\ {NullifiedOf(row) : row \in r.nullifiers} \in SUBSET Nullifiers
         /\ WindowEnd(r.from, r.target) \in Blocks
         /\ SaturatingAdd(WindowEnd(r.from, r.target), 1) \in Blocks
<1>1. r.commitments \subseteq CommitmentRows /\ r.nullifiers \subseteq NullifierRows
  BY DEF Runs
<1>2. PlacedIn(r) \in SUBSET PlacedNodes
  BY <1>1, RowsAssumption DEF PlacedIn
<1>3. {NullifiedOf(row) : row \in r.nullifiers} \in SUBSET Nullifiers
  BY <1>1, RowsAssumption
<1>4. WindowEnd(r.from, r.target) \in Blocks
  BY WindowEndType DEF Runs
<1> QED
  BY <1>2, <1>3, <1>4, SaturatingAddRange

-----------------------------------------------------------------------------
(* The first inductive invariant: types, and the relations between the     *)
(* tables.  It needs no assumption about the callers.                      *)
TypeInv == TypeOK /\ StoreInv(db)

(* The empty database and runs at rest have their types.                   *)
LEMMA TypeInvInit == Init => TypeInv
<1> SUFFICES ASSUME Init
             PROVE  TypeInv
  OBVIOUS
<1>1. head \in 0 .. LastBlock /\ disruptions \in 0 .. MaxDisruptions
  BY SyncerAssumption DEF Init
<1>2. StoreInv(db)
  BY EmptyStoreInv DEF Init
<1>3. ZeroSummary \in Summaries
  BY ZeroSummaryType
<1>4. run \in [Syncers -> Runs]
  BY <1>3, AtRestType DEF Init, Resting
<1> QED
  BY <1>1, <1>2, <1>4 DEF TypeInv, TypeOK, StoreInv

(* Every step keeps the types and the consistency of the tables.           *)
LEMMA TypeInvNext == TypeInv /\ [Next]_vars => TypeInv'
<1> SUFFICES ASSUME TypeInv, [Next]_vars
             PROVE  TypeInv'
  OBVIOUS
<1> USE DEF TypeInv, TypeOK
<1>0. /\ LastBlock \in Nat /\ MaxDisruptions \in Nat /\ Targets \subseteq Blocks
      /\ 0 .. LastBlock \subseteq Blocks /\ MaxRetries \in Nat
  BY SyncerAssumption
<1>1. db.synced \in Blocks \cup {Never}
  BY DEF Stores
<1>2. ZeroSummary \in Summaries
  BY <1>1, ZeroSummaryType
<1>3. \A pc \in Resting \cup Running : AtRest(pc, ZeroSummary) \in Runs
  BY <1>2, AtRestType
<1>4. CASE IndexBlock
  BY <1>0, <1>4 DEF IndexBlock
<1>5. ASSUME NEW s \in Syncers, RunToHead(s)
      PROVE  TypeInv'
  BY <1>3, <1>5 DEF RunToHead, Resting, Running
<1>6. ASSUME NEW s \in Syncers, RunToHeadIfUnsynced(s)
      PROVE  TypeInv'
  <2>1. AtRest("ok", [ZeroSummary EXCEPT !.synced_to = SyncedOrZero(db.synced)]) \in Runs
    BY <1>1, ZeroSummaryType, AtRestType DEF Resting
  <2>2. AtRest("latest", ZeroSummary) \in Runs
    BY <1>3 DEF Running
  <2> QED
    BY <1>6, <2>1, <2>2 DEF RunToHeadIfUnsynced
<1>7. ASSUME NEW s \in Syncers, NEW target \in Targets, RunTo(s, target)
      PROVE  TypeInv'
  <2>1. BeginRun(db.synced, target) \in Runs
    BY <1>0, <1>1, BeginRunType
  <2> QED
    BY <1>7, <2>1 DEF RunTo
<1>8. ASSUME NEW s \in Syncers, LatestBlockArrives(s)
      PROVE  TypeInv'
  <2>1. LatestBlock(head) \in Blocks
    BY <1>0, LatestBlockRange
  <2>2. BeginRun(db.synced, LatestBlock(head)) \in Runs
    BY <1>1, <2>1, BeginRunType
  <2> QED
    BY <1>8, <2>2 DEF LatestBlockArrives
<1>9. ASSUME NEW s \in Syncers, PageArrives(s)
      PROVE  TypeInv'
  <2>1. AfterPage(run[s], PageOf(run[s])) \in Runs
    BY <1>9, AfterPageType DEF PageArrives
  <2> QED
    BY <1>9, <2>1 DEF PageArrives
<1>10. ASSUME NEW s \in Syncers, RequestFails(s)
       PROVE  TypeInv'
  <2>1. AtRest("err", ZeroSummary) \in Runs
    BY <1>3 DEF Resting
  <2>2. ASSUME ~(run[s].attempt + 1 > MaxRetries)
        PROVE  [run[s] EXCEPT !.attempt = @ + 1] \in Runs
    <3>1. run[s] \in Runs
      OBVIOUS
    <3>2. run[s].attempt \in 0 .. MaxRetries
      BY <3>1 DEF Runs
    <3>3. run[s].attempt + 1 \in 0 .. MaxRetries
      BY <1>0, <2>2, <3>2
    <3> QED
      BY <3>1, <3>3 DEF Runs
  <2>3. disruptions' \in 0 .. MaxDisruptions
    BY <1>0, <1>10 DEF RequestFails
  <2> QED
    BY <1>10, <2>1, <2>2, <2>3 DEF RequestFails
<1>11. ASSUME NEW s \in Syncers, WindowCommits(s)
       PROVE  TypeInv'
  <2> DEFINE r == run[s]
             through == WindowEnd(r.from, r.target)
             spent == {NullifiedOf(row) : row \in r.nullifiers}
  <2>1. r \in Runs
    OBVIOUS
  <2>2. /\ PlacedIn(r) \in SUBSET PlacedNodes
        /\ spent \in SUBSET Nullifiers
        /\ through \in Blocks
        /\ SaturatingAdd(through, 1) \in Blocks
    BY <2>1, WindowTypes
  <2>3. StoreInv(CommitWindow(db, PlacedIn(r), spent, through))
    BY <1>11, <2>2, WindowKeepsStoreInv DEF WindowCommits
  <2>4. NextWindow(SaturatingAdd(through, 1), r.target, Counted(r)) \in Runs
    BY <2>1, <2>2, CountedType, NextWindowType DEF Runs
  <2> QED
    BY <1>11, <2>3, <2>4 DEF WindowCommits, StoreInv
<1>12. ASSUME NEW s \in Syncers, WindowConflicts(s)
       PROVE  TypeInv'
  BY <1>3, <1>12 DEF WindowConflicts, Resting
<1>13. ASSUME NEW s \in Syncers, CommitFails(s)
       PROVE  TypeInv'
  <2>1. disruptions' \in 0 .. MaxDisruptions
    BY <1>0, <1>13 DEF CommitFails
  <2> QED
    BY <1>3, <1>13, <2>1 DEF CommitFails, Resting
<1>14. CASE Crash
  <2>1. disruptions' \in 0 .. MaxDisruptions
    BY <1>0, <1>14 DEF Crash
  <2>2. AtRest("idle", ZeroSummary) \in Runs
    BY <1>3 DEF Resting
  <2> QED
    BY <1>14, <2>1, <2>2 DEF Crash
<1>15. CASE ClearAll
  <2>1. disruptions' \in 0 .. MaxDisruptions
    BY <1>0, <1>15 DEF ClearAll
  <2> QED
    BY <1>15, <2>1, EmptyStoreInv DEF ClearAll, StoreInv
<1>16. CASE UNCHANGED vars
  BY <1>16 DEF vars
<1> QED
  BY <1>4, <1>5, <1>6, <1>7, <1>8, <1>9, <1>10, <1>11, <1>12, <1>13, <1>14,
     <1>15, <1>16 DEF Next, RunStep

(* The invariant holds in every reachable state.                           *)
LEMMA TypeInvHolds == Spec => []TypeInv
  BY TypeInvInit, TypeInvNext, PTL DEF Spec

(* Every variable keeps its type, and in particular the stored counters    *)
(* never leave their range and a failed attempt never exceeds the retry    *)
(* budget of post_retry.                                                   *)
THEOREM TypeCorrect == Spec => []TypeOK
<1>1. TypeInv => TypeOK
  BY DEF TypeInv
<1> QED
  BY <1>1, TypeInvHolds, PTL

(* tree_length and tree_count stay exact for every chain and any number of *)
(* concurrent syncers, wipes included.                                     *)
THEOREM CountersCorrect == Spec => []CountersExact
<1>1. TypeInv => CountersExact
  BY DEF TypeInv, StoreInv, CountersExact
<1> QED
  BY <1>1, TypeInvHolds, PTL

(* A root query over what syncers wrote never disagrees with a full walk,  *)
(* for every chain and any number of concurrent syncers, wipes included.   *)
THEOREM RootsCorrect == Spec => []RootsCurrent
<1>1. TypeInv => RootsCurrent
  BY StoreInvRoots DEF TypeInv, RootsCurrent
<1> QED
  BY <1>1, TypeInvHolds, PTL

(* No step of any syncer replaces a stored node by a different one.        *)
THEOREM NodesKept == Spec => NodesPermanent
<1> DEFINE Kept == \A t \in Trees, l \in Leaves :
                     db.nodes[t][l] # NoNode => \/ db'.nodes[t][l] = db.nodes[t][l]
                                               \/ db' = EmptyStore
<1>1. [Next]_vars => [Kept]_vars
  <2> SUFFICES ASSUME Next
               PROVE  Kept
    OBVIOUS
  <2>1. ASSUME NEW s \in Syncers, WindowCommits(s)
        PROVE  Kept
    BY <2>1, InsertNodesKeeps DEF WindowCommits, CommitWindow
  <2>2. CASE ClearAll
    BY <2>2 DEF ClearAll
  <2>3. CASE db' = db
    BY <2>3
  <2> HIDE DEF Kept
  <2> QED
    BY <2>1, <2>2, <2>3 DEF Next, RunStep, IndexBlock, RunToHead,
       RunToHeadIfUnsynced, RunTo, LatestBlockArrives, PageArrives, RequestFails,
       WindowConflicts, CommitFails, Crash
<1> QED
  BY <1>1, PTL DEF Spec, NodesPermanent

-----------------------------------------------------------------------------
(* The second inductive invariant, for callers that name no block ahead of *)
(* the indexer and do not wipe the database under a running syncer.        *)

(* Every event of the blocks before b is stored.                           *)
StoredBefore(d, b) ==
  /\ \A row \in Representable(CommitmentRows) :
       Floor <= row.block /\ row.block < b => NodeStored(d, row)
  /\ \A row \in NullifierRows :
       Floor <= row.block /\ row.block < b => NullifierStored(d, row)

StoredThrough(d, b) ==
  /\ \A row \in Representable(CommitmentRows) :
       Floor <= row.block /\ row.block <= b => NodeStored(d, row)
  /\ \A row \in NullifierRows :
       Floor <= row.block /\ row.block <= b => NullifierStored(d, row)

InWindow(row, r) == r.from <= row.block /\ row.block <= WindowEnd(r.from, r.target)

(* The buffers of a run hold every mapped row of its window the cursor has *)
(* passed; the commitments once the nullifier stream is reached, and both  *)
(* streams at the commit.                                                  *)
Buffered(r) ==
  /\ \A row \in Representable(CommitmentRows) :
       InWindow(row, r) /\ (r.stream = "Nullifiers" \/ row.id <= r.cursor)
         => row \in r.commitments
  /\ \A row \in NullifierRows :
       InWindow(row, r) /\ r.stream = "Nullifiers" /\ (r.pc = "commit" \/ row.id <= r.cursor)
         => row \in r.nullifiers

RunInv(r, h, d) ==
  r.pc \in {"fetch", "commit"} =>
    /\ r.from <= r.target /\ r.target <= h
    /\ r.pc = "commit" => r.stream = "Nullifiers"
    /\ StoredBefore(d, r.from)
    /\ Buffered(r)

CoverInv ==
  /\ db.synced # Never => StoredThrough(db, db.synced)
  /\ \A s \in Syncers : RunInv(run[s], head, db)

(* The events of a window's rows, once committed, are stored; events       *)
(* stored before stay.                                                     *)
LEMMA CommitStores ==
  ASSUME NEW s \in Syncers, TypeInv, WindowCommits(s)
  PROVE  /\ \A row \in run[s].commitments : NodeStored(db', row)
         /\ \A row \in run[s].nullifiers : NullifierStored(db', row)
         /\ \A row \in Representable(CommitmentRows) : NodeStored(db, row) => NodeStored(db', row)
         /\ \A row \in NullifierRows : NullifierStored(db, row) => NullifierStored(db', row)
<1> DEFINE r == run[s]
<1>0. r \in Runs
  BY DEF TypeInv, TypeOK
<1>1. PlacedIn(r) \in SUBSET PlacedNodes
  BY <1>0, WindowTypes
<1>2. /\ db'.nodes = InsertNodes(db.nodes, PlacedIn(r))
      /\ db'.nullifiers = db.nullifiers \cup {NullifiedOf(row) : row \in r.nullifiers}
      /\ ~CommitmentConflict(db.nodes, PlacedIn(r))
  BY DEF WindowCommits, CommitWindow
<1>3. ASSUME NEW row \in r.commitments
      PROVE  NodeStored(db', row)
  <2>1. PlacedNode(row) \in PlacedIn(r)
    BY DEF PlacedIn
  <2>2. db'.nodes[PlacedNode(row).tree][PlacedNode(row).leaf] = PlacedNode(row).node
    BY <1>1, <1>2, <2>1, InsertNodesStores
  <2> QED
    BY <2>2 DEF NodeStored
<1>4. ASSUME NEW row \in r.nullifiers
      PROVE  NullifierStored(db', row)
  BY <1>2 DEF NullifierStored
<1>5. ASSUME NEW row \in Representable(CommitmentRows), NodeStored(db, row)
      PROVE  NodeStored(db', row)
  <2>1. PlacedNode(row) \in PlacedNodes
    BY RowsAssumption DEF Representable
  <2>2. /\ PlacedNode(row).tree \in Trees /\ PlacedNode(row).leaf \in Leaves
        /\ PlacedNode(row).node # NoNode
    BY <2>1, StoreAssumption DEF PlacedNodes
  <2>3. db.nodes[PlacedNode(row).tree][PlacedNode(row).leaf] = PlacedNode(row).node
    BY <1>5 DEF NodeStored
  <2>4. db'.nodes[PlacedNode(row).tree][PlacedNode(row).leaf] = PlacedNode(row).node
    BY <1>2, <2>2, <2>3, InsertNodesKeeps
  <2> QED
    BY <2>4 DEF NodeStored
<1>6. ASSUME NEW row \in NullifierRows, NullifierStored(db, row)
      PROVE  NullifierStored(db', row)
  BY <1>2, <1>6 DEF NullifierStored
<1> QED
  BY <1>3, <1>4, <1>5, <1>6

(* A run that begins at the watermark has everything before it stored.     *)
LEMMA BeginRunInv ==
  ASSUME NEW target \in Blocks, TypeInv, CoverInv, target <= head
  PROVE  RunInv(BeginRun(db.synced, target), head, db)
<1> DEFINE from == ResumePoint(db.synced)
           summary == [ZeroSummary EXCEPT !.synced_to = SyncedOrZero(db.synced)]
           r == NextWindow(from, target, summary)
<1>0. /\ db.synced \in Blocks \cup {Never}
      /\ Floor \in Blocks /\ Blocks \subseteq Int
      /\ \A row \in CommitmentRows \cup NullifierRows : row.block \in Int /\ row.id \in 1 .. MaxId
      /\ MaxId \in Nat
  BY SyncerAssumption, RowsAssumption DEF TypeInv, TypeOK, Stores
<1>1. from \in Blocks
  BY <1>0, ResumePointType
<1>2. SUFFICES ASSUME r.pc \in {"fetch", "commit"}
               PROVE  RunInv(r, head, db)
  BY DEF BeginRun, RunInv
<1>3. from <= target
  BY <1>2 DEF NextWindow, AtRest
<1>4. /\ r.pc = "fetch" /\ r.from = from /\ r.target = target
      /\ r.stream = "Commitments" /\ r.cursor = 0
  BY <1>3 DEF NextWindow, AtRest, NoCursor
<1>5. StoredBefore(db, from)
  <2>1. CASE db.synced = Never
    BY <1>0, <2>1 DEF StoredBefore, ResumePoint, Representable
  <2>2. CASE db.synced # Never
    <3>1. from = SaturatingAdd(db.synced, 1) /\ from <= db.synced + 1
      BY <1>0, <2>2, SaturatingAddRange DEF ResumePoint
    <3>2. StoredThrough(db, db.synced)
      BY <2>2 DEF CoverInv
    <3>3. \A row \in CommitmentRows \cup NullifierRows :
             row.block < from => row.block <= db.synced
      <4>1. db.synced \in Int /\ from \in Int
        BY <1>0, <1>1, <2>2
      <4> HIDE DEF from
      <4> QED
        BY <1>0, <3>1, <4>1
    <3> QED
      BY <3>2, <3>3 DEF StoredBefore, StoredThrough, Representable
  <2> QED
    BY <2>1, <2>2
<1>6. Buffered(r)
  <2>1. \A row \in CommitmentRows \cup NullifierRows : ~(row.id <= r.cursor)
    BY <1>0, <1>4
  <2> HIDE DEF r
  <2> QED
    BY <1>4, <2>1 DEF Buffered, Representable
<1> HIDE DEF r
<1> QED
  BY <1>3, <1>4, <1>5, <1>6 DEF RunInv

(* Fetching a page keeps the buffers complete up to the cursor: the window *)
(* lies below the indexer's head, so no row of it can appear later.        *)
LEMMA PageInv ==
  ASSUME NEW r \in Runs, head \in Nat, r.pc = "fetch", RunInv(r, head, db)
  PROVE  RunInv(AfterPage(r, PageOf(r)), head, db)
<1> DEFINE page == PageOf(r)
           rows == IF r.stream = "Commitments" THEN CommitmentRows ELSE NullifierRows
           end == WindowEnd(r.from, r.target)
           match == Matching(rows, head, r.from, end, r.cursor)
           q == AfterPage(r, page)
<1>0. /\ Blocks \subseteq Int /\ MaxId \in Nat
      /\ \A row \in CommitmentRows \cup NullifierRows : row.block \in Int /\ row.id \in Int
      /\ r.from \in Blocks /\ r.target \in Blocks /\ r.cursor \in Int
      /\ r.stream \in {"Commitments", "Nullifiers"}
  BY SyncerAssumption, RowsAssumption DEF Runs, Streams
<1>1. /\ r.from <= r.target /\ r.target <= head
      /\ StoredBefore(db, r.from)
      /\ Buffered(r)
  BY DEF RunInv
<1>2. end \in Blocks /\ end <= r.target
  BY <1>0, <1>1, WindowEndRange
<1>3. page = QueryPage(rows, head, r.from, end, r.cursor)
  BY DEF PageOf
<1>4. IsRowSet(rows)
  BY RowSets
<1>5. /\ page \subseteq match
      /\ match # {} => page # {}
      /\ \A row \in match : page # {} /\ row.id <= LastId(page) => row \in page
      /\ page # {} => LastId(page) \in 1 .. MaxId
  <2> HIDE DEF rows, end
  <2>1. QueryPage(rows, head, r.from, end, r.cursor) = page
    BY <1>3
  <2> HIDE DEF page
  <2> QED
    BY <1>4, <2>1, QueryPageIsPrefix
<1>6. \A row \in rows : InWindow(row, r) /\ ~(row.id <= r.cursor) => row \in match
  <2>1. \A row \in rows : row.block \in Int /\ row.id \in Int
    BY <1>0
  <2> HIDE DEF rows
  <2>2. ASSUME NEW row \in rows, InWindow(row, r)
        PROVE  row.block <= head
    <3>1. row.block <= end
      BY <2>2 DEF InWindow
    <3>2. end \in Int /\ r.target \in Int /\ row.block \in Int
      BY <1>0, <1>2, <2>1
    <3> HIDE DEF end
    <3> QED
      BY <1>1, <1>2, <3>1, <3>2
  <2> QED
    BY <1>0, <2>1, <2>2 DEF Matching, InWindow
<1> SUFFICES RunInv(q, head, db)
  OBVIOUS
<1> HIDE DEF page, match, end
<1>7. CASE page # {} /\ r.stream = "Commitments"
  <2>1. q = [r EXCEPT !.attempt = 0, !.cursor = LastId(page),
                      !.commitments = @ \cup Representable(page)]
    BY <1>7 DEF AfterPage
  <2>2. /\ q.pc = "fetch" /\ q.from = r.from /\ q.target = r.target
        /\ q.stream = "Commitments" /\ q.cursor = LastId(page)
        /\ q.commitments = r.commitments \cup Representable(page)
        /\ q.nullifiers = r.nullifiers
    BY <1>7, <2>1 DEF Runs
  <2>3. ASSUME NEW row \in Representable(CommitmentRows), InWindow(row, r),
               row.id <= LastId(page)
        PROVE  row \in r.commitments \cup Representable(page)
    <3>1. CASE row.id <= r.cursor
      BY <1>1, <2>3, <3>1 DEF Buffered
    <3>2. CASE ~(row.id <= r.cursor)
      <4>1. row \in page
        BY <1>5, <1>6, <1>7, <2>3, <3>2 DEF Representable
      <4> QED
        BY <2>3, <4>1 DEF Representable
    <3> QED
      BY <3>1, <3>2
  <2> HIDE DEF q
  <2>4. \A row : InWindow(row, q) <=> InWindow(row, r)
    BY <2>2 DEF InWindow
  <2>5. Buffered(q)
    BY <2>2, <2>3, <2>4 DEF Buffered
  <2> QED
    BY <1>1, <2>2, <2>5 DEF RunInv
<1>8. CASE page # {} /\ r.stream = "Nullifiers"
  <2>1. q = [r EXCEPT !.attempt = 0, !.cursor = LastId(page),
                      !.nullifiers = @ \cup page]
    BY <1>8 DEF AfterPage
  <2>2. /\ q.pc = "fetch" /\ q.from = r.from /\ q.target = r.target
        /\ q.stream = "Nullifiers" /\ q.cursor = LastId(page)
        /\ q.commitments = r.commitments
        /\ q.nullifiers = r.nullifiers \cup page
    BY <1>8, <2>1 DEF Runs
  <2>3. ASSUME NEW row \in NullifierRows, InWindow(row, r), row.id <= LastId(page)
        PROVE  row \in r.nullifiers \cup page
    <3>1. CASE row.id <= r.cursor
      BY <1>1, <1>8, <2>3, <3>1 DEF Buffered
    <3>2. CASE ~(row.id <= r.cursor)
      BY <1>5, <1>6, <1>8, <2>3, <3>2
    <3> QED
      BY <3>1, <3>2
  <2> HIDE DEF q
  <2>4. \A row : InWindow(row, q) <=> InWindow(row, r)
    BY <2>2 DEF InWindow
  <2>5. Buffered(q)
    BY <1>1, <1>8, <2>2, <2>3, <2>4 DEF Buffered
  <2> QED
    BY <1>1, <2>2, <2>5 DEF RunInv
<1>9. CASE page = {} /\ r.stream = "Commitments"
  <2>1. q = [r EXCEPT !.attempt = 0, !.cursor = NoCursor, !.stream = "Nullifiers"]
    BY <1>9 DEF AfterPage
  <2>2. /\ q.pc = "fetch" /\ q.from = r.from /\ q.target = r.target
        /\ q.stream = "Nullifiers" /\ q.cursor = 0
        /\ q.commitments = r.commitments
        /\ q.nullifiers = r.nullifiers
    BY <1>9, <2>1 DEF Runs, NoCursor
  <2>3. ASSUME NEW row \in Representable(CommitmentRows), InWindow(row, r)
        PROVE  row \in r.commitments
    <3>1. row.id <= r.cursor
      BY <1>5, <1>6, <1>9, <2>3 DEF Representable
    <3> QED
      BY <1>1, <2>3, <3>1 DEF Buffered
  <2>4. \A row \in NullifierRows : ~(row.id <= 0)
    BY RowsAssumption
  <2> HIDE DEF q
  <2>5. \A row : InWindow(row, q) <=> InWindow(row, r)
    BY <2>2 DEF InWindow
  <2>6. Buffered(q)
    BY <2>2, <2>3, <2>4, <2>5 DEF Buffered
  <2> QED
    BY <1>1, <2>2, <2>6 DEF RunInv
<1>10. CASE page = {} /\ r.stream = "Nullifiers"
  <2>1. q = [r EXCEPT !.attempt = 0, !.pc = "commit"]
    BY <1>10 DEF AfterPage
  <2>2. /\ q.pc = "commit" /\ q.from = r.from /\ q.target = r.target
        /\ q.stream = "Nullifiers" /\ q.cursor = r.cursor
        /\ q.commitments = r.commitments
        /\ q.nullifiers = r.nullifiers
    BY <1>10, <2>1 DEF Runs
  <2>3. ASSUME NEW row \in NullifierRows, InWindow(row, r)
        PROVE  row \in r.nullifiers
    <3>1. row.id <= r.cursor
      BY <1>5, <1>6, <1>10, <2>3
    <3> QED
      BY <1>1, <1>10, <2>3, <3>1 DEF Buffered
  <2> HIDE DEF q
  <2>4. \A row : InWindow(row, q) <=> InWindow(row, r)
    BY <2>2 DEF InWindow
  <2>5. Buffered(q)
    BY <1>1, <1>10, <2>2, <2>3, <2>4 DEF Buffered
  <2> QED
    BY <1>1, <2>2, <2>5 DEF RunInv
<1> QED
  BY <1>0, <1>7, <1>8, <1>9, <1>10

(* What a run relies on survives growth of the database and of the head.   *)
LEMMA RunInvGrows ==
  ASSUME NEW r \in Runs, NEW h \in Nat, NEW k \in Nat, h <= k, NEW d, NEW e,
         \A row \in Representable(CommitmentRows) : NodeStored(d, row) => NodeStored(e, row),
         \A row \in NullifierRows : NullifierStored(d, row) => NullifierStored(e, row),
         RunInv(r, h, d)
  PROVE  RunInv(r, k, e)
<1>1. r.target \in Int
  BY SyncerAssumption DEF Runs
<1> QED
  BY <1>1 DEF RunInv, StoredBefore

(* Of a run with nothing in flight nothing is required.                    *)
LEMMA RestInv ==
  ASSUME NEW pc \in Resting \cup {"latest"}, NEW summary, NEW h, NEW d
  PROVE  RunInv(AtRest(pc, summary), h, d)
  BY DEF RunInv, AtRest, Resting

(* A step that only changes the run of s.                                  *)
LEMMA OneRunChanges ==
  ASSUME TypeInv, CoverInv, NEW s \in Syncers, NEW x,
         run' = [run EXCEPT ![s] = x], db' = db, head' = head, RunInv(x, head, db)
  PROVE  CoverInv'
<1>1. \A u \in Syncers : run'[u] = IF u = s THEN x ELSE run[u]
  BY DEF TypeInv, TypeOK
<1>2. \A u \in Syncers : RunInv(run'[u], head', db')
  BY <1>1 DEF CoverInv
<1>3. db'.synced # Never => StoredThrough(db', db'.synced)
  BY DEF CoverInv
<1> QED
  BY <1>2, <1>3 DEF CoverInv

(* Every step keeps what runs and the watermark promise.                   *)
LEMMA CoverInvNext ==
  ASSUME ~PastHead, ~ClearWhileRunning, TypeInv, CoverInv, [Next]_vars
  PROVE  CoverInv'
<1>0. /\ run \in [Syncers -> Runs] /\ head \in Nat /\ head \in Blocks
      /\ Blocks \subseteq Int /\ Targets \subseteq Blocks /\ LastBlock \in Nat
  BY SyncerAssumption DEF TypeInv, TypeOK
<1>1. CASE IndexBlock
  <2>1. /\ head' = head + 1 /\ db' = db /\ run' = run
    BY <1>1 DEF IndexBlock
  <2>2. head' \in Nat /\ head <= head'
    BY <1>0, <2>1
  <2>3. \A u \in Syncers : RunInv(run'[u], head', db')
    <3> SUFFICES ASSUME NEW u \in Syncers
                 PROVE  RunInv(run[u], head', db)
      BY <2>1
    <3>1. run[u] \in Runs /\ RunInv(run[u], head, db)
      BY <1>0 DEF CoverInv
    <3> QED
      BY <1>0, <2>2, <3>1, RunInvGrows
  <2> QED
    BY <2>1, <2>3 DEF CoverInv
<1>2. ASSUME NEW s \in Syncers, RunToHead(s)
      PROVE  CoverInv'
  <2>1. RunInv(AtRest("latest", ZeroSummary), head, db)
    BY RestInv
  <2> QED
    BY <1>2, <2>1, OneRunChanges DEF RunToHead
<1>3. ASSUME NEW s \in Syncers, RunToHeadIfUnsynced(s)
      PROVE  CoverInv'
  <2> DEFINE x == IF db.synced # Never
                    THEN AtRest("ok", [ZeroSummary EXCEPT !.synced_to = SyncedOrZero(db.synced)])
                    ELSE AtRest("latest", ZeroSummary)
  <2>1. RunInv(x, head, db)
    BY RestInv DEF Resting
  <2>2. run' = [run EXCEPT ![s] = x] /\ db' = db /\ head' = head
    BY <1>3 DEF RunToHeadIfUnsynced
  <2> HIDE DEF x
  <2> QED
    BY <2>1, <2>2, OneRunChanges
<1>4. ASSUME NEW s \in Syncers, NEW target \in Targets, RunTo(s, target)
      PROVE  CoverInv'
  <2>1. target \in Blocks /\ target <= head
    BY <1>0, <1>4 DEF RunTo
  <2>2. RunInv(BeginRun(db.synced, target), head, db)
    BY <2>1, BeginRunInv
  <2> QED
    BY <1>4, <2>2, OneRunChanges DEF RunTo
<1>5. ASSUME NEW s \in Syncers, LatestBlockArrives(s)
      PROVE  CoverInv'
  <2>1. LatestBlock(head) \in Blocks /\ LatestBlock(head) <= head
    BY <1>0, LatestBlockRange
  <2>2. RunInv(BeginRun(db.synced, LatestBlock(head)), head, db)
    BY <2>1, BeginRunInv
  <2> QED
    BY <1>5, <2>2, OneRunChanges DEF LatestBlockArrives
<1>6. ASSUME NEW s \in Syncers, PageArrives(s)
      PROVE  CoverInv'
  <2>1. run[s] \in Runs /\ run[s].pc = "fetch" /\ RunInv(run[s], head, db)
    BY <1>0, <1>6 DEF PageArrives, CoverInv
  <2>2. RunInv(AfterPage(run[s], PageOf(run[s])), head, db)
    BY <1>0, <2>1, PageInv
  <2> QED
    BY <1>6, <2>2, OneRunChanges DEF PageArrives
<1>7. ASSUME NEW s \in Syncers, RequestFails(s)
      PROVE  CoverInv'
  <2> DEFINE x == IF run[s].attempt + 1 > MaxRetries
                    THEN AtRest("err", ZeroSummary)
                    ELSE [run[s] EXCEPT !.attempt = @ + 1]
  <2>1. run[s] \in Runs /\ RunInv(run[s], head, db)
    BY <1>0 DEF CoverInv
  <2>2. RunInv([run[s] EXCEPT !.attempt = @ + 1], head, db)
    <3> DEFINE q == [run[s] EXCEPT !.attempt = @ + 1]
    <3>1. /\ q.pc = run[s].pc /\ q.from = run[s].from /\ q.target = run[s].target
          /\ q.stream = run[s].stream /\ q.cursor = run[s].cursor
          /\ q.commitments = run[s].commitments /\ q.nullifiers = run[s].nullifiers
      BY <2>1 DEF Runs
    <3> HIDE DEF q
    <3>2. RunInv(q, head, db)
      BY <2>1, <3>1 DEF RunInv, Buffered, InWindow
    <3> QED
      BY <3>2 DEF q
  <2>3. RunInv(AtRest("err", ZeroSummary), head, db)
    BY RestInv DEF Resting
  <2>4. RunInv(x, head, db)
    BY <2>2, <2>3
  <2>5. run' = [run EXCEPT ![s] = x] /\ db' = db /\ head' = head
    BY <1>7 DEF RequestFails
  <2> HIDE DEF x
  <2> QED
    BY <2>4, <2>5, OneRunChanges
<1>8. ASSUME NEW s \in Syncers, WindowCommits(s)
      PROVE  CoverInv'
  <2> DEFINE r == run[s]
             end == WindowEnd(r.from, r.target)
             next == SaturatingAdd(end, 1)
             q == NextWindow(next, r.target, Counted(r))
  <2>1. /\ r \in Runs /\ r.pc = "commit" /\ RunInv(r, head, db)
        /\ r.from \in Blocks /\ r.target \in Blocks
    BY <1>0, <1>8 DEF WindowCommits, CoverInv, Runs
  <2>2. /\ r.from <= r.target /\ r.target <= head /\ r.stream = "Nullifiers"
        /\ StoredBefore(db, r.from) /\ Buffered(r)
    BY <2>1 DEF RunInv
  <2>3. end \in Blocks
    BY <2>1, WindowEndType
  <2>4. next \in Blocks /\ next <= end + 1
    BY <2>3, SaturatingAddRange
  <2>5. /\ db'.synced = end /\ run' = [run EXCEPT ![s] = q] /\ head' = head
    BY <1>8 DEF WindowCommits, CommitWindow
  <2>6. /\ \A row \in r.commitments : NodeStored(db', row)
        /\ \A row \in r.nullifiers : NullifierStored(db', row)
        /\ \A row \in Representable(CommitmentRows) :
             NodeStored(db, row) => NodeStored(db', row)
        /\ \A row \in NullifierRows : NullifierStored(db, row) => NullifierStored(db', row)
    BY <1>8, CommitStores
  <2>7. \A row \in CommitmentRows \cup NullifierRows : row.block \in Int /\ row.id \in Int
    BY RowsAssumption, SyncerAssumption
  <2>8. \A row \in CommitmentRows \cup NullifierRows :
           row.block <= end => row.block < r.from \/ InWindow(row, r)
    <3> SUFFICES ASSUME NEW row \in CommitmentRows \cup NullifierRows,
                        row.block <= end, ~(row.block < r.from)
                 PROVE  InWindow(row, r)
      OBVIOUS
    <3>1. r.from \in Int /\ row.block \in Int
      BY <1>0, <2>1, <2>7
    <3>2. r.from <= row.block
      BY <3>1
    <3> QED
      BY <3>2 DEF InWindow
  <2> HIDE DEF end
  <2>9. StoredThrough(db', end)
    <3>1. ASSUME NEW row \in Representable(CommitmentRows),
                 Floor <= row.block, row.block <= end
          PROVE  NodeStored(db', row)
      <4>1. row \in CommitmentRows
        BY DEF Representable
      <4>2. CASE row.block < r.from
        BY <2>2, <2>6, <3>1, <4>2 DEF StoredBefore
      <4>3. CASE InWindow(row, r)
        BY <2>2, <2>6, <4>3 DEF Buffered
      <4> QED
        BY <2>8, <3>1, <4>1, <4>2, <4>3
    <3>2. ASSUME NEW row \in NullifierRows, Floor <= row.block, row.block <= end
          PROVE  NullifierStored(db', row)
      <4>1. CASE row.block < r.from
        BY <2>2, <2>6, <3>2, <4>1 DEF StoredBefore
      <4>2. CASE InWindow(row, r)
        BY <2>1, <2>2, <2>6, <4>2 DEF Buffered
      <4> QED
        BY <2>8, <3>2, <4>1, <4>2
    <3> QED
      BY <3>1, <3>2 DEF StoredThrough
  <2>10. RunInv(q, head, db')
    <3>1. CASE ~(next <= r.target)
      <4>1. q = AtRest("ok", Counted(r))
        BY <3>1 DEF NextWindow
      <4> QED
        BY <4>1, RestInv DEF Resting
    <3>2. CASE next <= r.target
      <4> HIDE DEF next
      <4>1. /\ q.pc = "fetch" /\ q.from = next /\ q.target = r.target
            /\ q.stream = "Commitments" /\ q.cursor = 0
        BY <3>2 DEF NextWindow, AtRest, NoCursor
      <4>2. \A row \in CommitmentRows \cup NullifierRows :
               row.block < next => row.block <= end
        BY <1>0, <2>3, <2>4, <2>7
      <4>3. StoredBefore(db', next)
        BY <2>9, <4>2 DEF StoredBefore, StoredThrough, Representable
      <4>4. \A row \in CommitmentRows : ~(row.id <= 0)
        BY RowsAssumption
      <4> HIDE DEF q
      <4>5. Buffered(q)
        BY <4>1, <4>4 DEF Buffered, Representable
      <4> QED
        BY <2>2, <3>2, <4>1, <4>3, <4>5 DEF RunInv
    <3> QED
      BY <3>1, <3>2
  <2>11. ASSUME NEW u \in Syncers
         PROVE  RunInv(run'[u], head', db')
    <3>1. CASE u = s
      BY <1>0, <2>5, <2>10, <3>1
    <3>2. CASE u # s
      <4>1. run[u] \in Runs /\ RunInv(run[u], head, db)
        BY <1>0 DEF CoverInv
      <4>2. RunInv(run[u], head, db')
        BY <1>0, <2>6, <4>1, RunInvGrows
      <4>3. run'[u] = run[u]
        BY <1>0, <2>5, <3>2
      <4> QED
        BY <2>5, <4>2, <4>3
    <3> QED
      BY <3>1, <3>2
  <2> QED
    BY <2>5, <2>9, <2>11 DEF CoverInv
<1>9. ASSUME NEW s \in Syncers, WindowConflicts(s)
      PROVE  CoverInv'
  <2>1. RunInv(AtRest("err", ZeroSummary), head, db)
    BY RestInv DEF Resting
  <2> QED
    BY <1>9, <2>1, OneRunChanges DEF WindowConflicts
<1>10. ASSUME NEW s \in Syncers, CommitFails(s)
       PROVE  CoverInv'
  <2>1. RunInv(AtRest("err", ZeroSummary), head, db)
    BY RestInv DEF Resting
  <2> QED
    BY <1>10, <2>1, OneRunChanges DEF CommitFails
<1>11. CASE Crash
  <2>1. run' = [u \in Syncers |-> AtRest("idle", ZeroSummary)] /\ db' = db /\ head' = head
    BY <1>11 DEF Crash
  <2>2. \A u \in Syncers : RunInv(run'[u], head', db')
    BY <2>1, RestInv DEF Resting
  <2> QED
    BY <2>1, <2>2 DEF CoverInv
<1>12. CASE ClearAll
  <2>1. /\ db' = EmptyStore /\ run' = run /\ head' = head
        /\ \A s \in Syncers : run[s].pc \in Resting
    BY <1>12 DEF ClearAll
  <2>2. db'.synced = Never
    BY <2>1 DEF EmptyStore
  <2>3. \A u \in Syncers : RunInv(run'[u], head', db')
    BY <2>1 DEF RunInv, Resting
  <2> QED
    BY <2>2, <2>3 DEF CoverInv
<1>13. CASE UNCHANGED vars
  BY <1>13 DEF vars, CoverInv
<1> QED
  BY <1>1, <1>2, <1>3, <1>4, <1>5, <1>6, <1>7, <1>8, <1>9, <1>10, <1>11, <1>12,
     <1>13 DEF Next, RunStep

(* The watermark certifies what it claims, for every chain, page and       *)
(* window size and any number of overlapping syncers, through failed       *)
(* requests, failed commits and crashes, provided callers of run() name no *)
(* block the indexer has not reached and clear_all waits for the syncers.  *)
(* Both provisos are needed: the violation runs drop one each.             *)
THEOREM WatermarkCorrect ==
  ASSUME ~PastHead, ~ClearWhileRunning
  PROVE  Spec => []WatermarkCovered
<1>1. Init => CoverInv
  BY RestInv DEF Init, CoverInv, EmptyStore, Resting
<1>2. TypeInv /\ CoverInv /\ [Next]_vars => CoverInv'
  BY CoverInvNext
<1>3. CoverInv => WatermarkCovered
  BY DEF CoverInv, WatermarkCovered, SyncedTo, StoredThrough
<1> QED
  BY <1>1, <1>2, <1>3, TypeInvHolds, PTL DEF Spec

-----------------------------------------------------------------------------
(* One syncer implements the replica of the chain.                         *)

(* The converse of StoredThrough: the tables hold nothing but events from  *)
(* the floor up to block b.                                                *)
NothingElse(d, b) ==
  /\ \A t \in Trees, l \in Leaves :
       d.nodes[t][l] # NoNode =>
         \E row \in Representable(CommitmentRows) :
           /\ Floor <= row.block /\ row.block <= b
           /\ PlacedNode(row) = [tree |-> t, leaf |-> l, node |-> d.nodes[t][l]]
  /\ \A n \in d.nullifiers :
       \E row \in NullifierRows :
         Floor <= row.block /\ row.block <= b /\ NullifiedOf(row) = n

NothingStored(d) ==
  /\ \A t \in Trees, l \in Leaves : d.nodes[t][l] = NoNode
  /\ d.nullifiers = {}

(* A run works on the window right behind the watermark and buffers rows   *)
(* of that window only.                                                    *)
RunNext(r, d) ==
  r.pc \in {"fetch", "commit"} =>
    /\ r.from = ResumePoint(d.synced)
    /\ \A row \in r.commitments : row \in Representable(CommitmentRows) /\ InWindow(row, r)
    /\ \A row \in r.nullifiers : InWindow(row, r)

ReplicaInv ==
  /\ db.synced = Never => NothingStored(db)
  /\ db.synced # Never => Floor <= db.synced /\ NothingElse(db, db.synced)
  /\ \A s \in Syncers : RunNext(run[s], db)

(* Of a run with nothing in flight nothing is required.                    *)
LEMMA RestNext ==
  ASSUME NEW pc \in Resting \cup {"latest"}, NEW summary, NEW d
  PROVE  RunNext(AtRest(pc, summary), d)
  BY DEF RunNext, AtRest, Resting

(* The loop enters a window with empty buffers at the block it is given.   *)
LEMMA NextWindowNext ==
  ASSUME NEW d, NEW target, NEW summary
  PROVE  RunNext(NextWindow(ResumePoint(d.synced), target, summary), d)
<1> DEFINE from == ResumePoint(d.synced)
           r == NextWindow(from, target, summary)
<1> HIDE DEF from
<1>1. CASE from <= target
  <2>1. r.from = from /\ r.commitments = {} /\ r.nullifiers = {}
    BY <1>1 DEF NextWindow, AtRest
  <2> HIDE DEF r
  <2>2. RunNext(r, d)
    BY <2>1 DEF RunNext, from
  <2> QED
    BY <2>2 DEF r, from
<1>2. CASE ~(from <= target)
  <2>1. r = AtRest("ok", summary)
    BY <1>2 DEF NextWindow
  <2>2. RunNext(r, d)
    BY <2>1, RestNext DEF Resting
  <2> QED
    BY <2>2 DEF from
<1> QED
  BY <1>1, <1>2

(* A page holds rows of the window only, and only mapped ones are kept.    *)
LEMMA PageNext ==
  ASSUME NEW r \in Runs, r.pc = "fetch", NEW d, RunNext(r, d)
  PROVE  RunNext(AfterPage(r, PageOf(r)), d)
<1> DEFINE page == PageOf(r)
           rows == IF r.stream = "Commitments" THEN CommitmentRows ELSE NullifierRows
           end == WindowEnd(r.from, r.target)
           q == AfterPage(r, page)
<1>1. IsRowSet(rows)
  BY RowSets
<1>2. \A row \in page : row \in rows /\ InWindow(row, r)
  <2>1. page = QueryPage(rows, head, r.from, end, r.cursor)
    BY DEF PageOf
  <2> HIDE DEF rows, end
  <2>2. /\ page \subseteq Matching(rows, head, r.from, end, r.cursor)
        /\ Matching(rows, head, r.from, end, r.cursor) \subseteq rows
    BY <1>1, <2>1, QueryPageIsPrefix
  <2> HIDE DEF page
  <2> QED
    BY <2>2 DEF Matching, InWindow, end
<1>3. r.stream \in {"Commitments", "Nullifiers"}
  BY DEF Runs, Streams
<1>4. /\ r.from = ResumePoint(d.synced)
      /\ \A row \in r.commitments : row \in Representable(CommitmentRows) /\ InWindow(row, r)
      /\ \A row \in r.nullifiers : InWindow(row, r)
  BY DEF RunNext
<1> HIDE DEF page
<1>5. /\ q.from = r.from /\ q.target = r.target
      /\ q.commitments \in {r.commitments,
                            IF r.stream = "Commitments"
                              THEN r.commitments \cup Representable(page) ELSE r.commitments}
      /\ q.nullifiers \in {r.nullifiers,
                           IF r.stream = "Nullifiers"
                             THEN r.nullifiers \cup page ELSE r.nullifiers}
  <2>1. CASE page # {} /\ r.stream = "Commitments"
    BY <2>1 DEF AfterPage, Runs
  <2>2. CASE page # {} /\ r.stream = "Nullifiers"
    BY <2>2 DEF AfterPage, Runs
  <2>3. CASE page = {} /\ r.stream = "Commitments"
    BY <2>3 DEF AfterPage, Runs
  <2>4. CASE page = {} /\ r.stream = "Nullifiers"
    BY <2>4 DEF AfterPage, Runs
  <2> QED
    BY <1>3, <2>1, <2>2, <2>3, <2>4
<1> HIDE DEF q
<1>6. \A row : InWindow(row, q) <=> InWindow(row, r)
  BY <1>5 DEF InWindow
<1>7. \A row \in q.commitments : row \in Representable(CommitmentRows) /\ InWindow(row, r)
  BY <1>2, <1>4, <1>5 DEF Representable
<1>8. \A row \in q.nullifiers : InWindow(row, r)
  BY <1>2, <1>4, <1>5
<1>9. RunNext(q, d)
  BY <1>4, <1>5, <1>6, <1>7, <1>8 DEF RunNext
<1> QED
  BY <1>9 DEF q, page

(* A step that only changes the run of s.                                  *)
LEMMA OneRunNext ==
  ASSUME TypeInv, ReplicaInv, NEW s \in Syncers, NEW x,
         run' = [run EXCEPT ![s] = x], db' = db, RunNext(x, db)
  PROVE  ReplicaInv'
<1>1. \A u \in Syncers : run'[u] = IF u = s THEN x ELSE run[u]
  BY DEF TypeInv, TypeOK
<1>2. \A u \in Syncers : RunNext(run'[u], db')
  BY <1>1 DEF ReplicaInv
<1>3. /\ db'.synced = Never => NothingStored(db')
      /\ db'.synced # Never => Floor <= db'.synced /\ NothingElse(db', db'.synced)
  BY DEF ReplicaInv
<1> QED
  BY <1>2, <1>3 DEF ReplicaInv

(* Where a window of the run begins and ends.                              *)
LEMMA WindowAfterWatermark ==
  ASSUME NEW s \in Syncers, TypeInv, CoverInv, ReplicaInv, run[s].pc \in {"fetch", "commit"}
  PROVE  LET from == run[s].from
             end  == WindowEnd(from, run[s].target)
         IN  /\ from \in Int /\ end \in Blocks /\ end \in Int
             /\ Floor <= from /\ from <= end /\ end <= head
             /\ db.synced # Never =>
                  /\ db.synced \in Int /\ db.synced <= from
                  /\ db.synced = from => from = U64Max
<1> DEFINE r == run[s]
           end == WindowEnd(r.from, r.target)
<1>0. /\ Blocks = 0 .. U64Max /\ U64Max \in Nat /\ Floor \in Int /\ head \in Int
  BY SyncerAssumption DEF TypeInv, TypeOK
<1>1. /\ r \in Runs /\ r.from \in Blocks /\ r.target \in Blocks
      /\ r.from <= r.target /\ r.target <= head /\ r.from = ResumePoint(db.synced)
  BY DEF TypeInv, TypeOK, CoverInv, RunInv, ReplicaInv, RunNext, Runs
<1>2. end \in Blocks /\ r.from <= end /\ end <= r.target
  BY <1>1, WindowEndRange
<1>3. db.synced \in Blocks \cup {Never}
  BY DEF TypeInv, TypeOK, Stores
<1> HIDE DEF end
<1>4. CASE db.synced = Never
  <2>1. r.from = Floor
    BY <1>1, <1>4 DEF ResumePoint
  <2> QED
    BY <1>0, <1>1, <1>2, <1>4, <2>1 DEF end
<1>5. CASE db.synced # Never
  <2>1. Floor <= db.synced
    BY <1>5 DEF ReplicaInv
  <2>2. r.from = Min({db.synced + 1, U64Max})
    BY <1>1, <1>5 DEF ResumePoint, SaturatingAdd
  <2>3. db.synced + 1 \in Int /\ U64Max \in Int
    BY <1>0, <1>3, <1>5
  <2>4. r.from \in {db.synced + 1, U64Max}
    BY <2>2, <2>3, MinOfTwo
  <2> HIDE DEF r
  <2>5. /\ db.synced \in Int /\ db.synced <= r.from
        /\ db.synced = r.from => r.from = U64Max
        /\ Floor <= r.from
    BY <1>0, <1>1, <1>3, <1>5, <2>1, <2>4
  <2> QED
    BY <1>0, <1>1, <1>2, <1>5, <2>5 DEF end, r
<1> QED
  BY <1>4, <1>5

(* A committed window adds its own events and no others.                   *)
LEMMA CommitNothingElse ==
  ASSUME NEW s \in Syncers, TypeInv, CoverInv, ReplicaInv, WindowCommits(s)
  PROVE  NothingElse(db', WindowEnd(run[s].from, run[s].target))
<1> DEFINE r == run[s]
           end == WindowEnd(r.from, r.target)
<1>0. /\ r \in Runs /\ r.pc = "commit" /\ RunNext(r, db)
  BY DEF TypeInv, TypeOK, ReplicaInv, WindowCommits
<1>1. /\ PlacedIn(r) \in SUBSET PlacedNodes
  BY <1>0, WindowTypes
<1>2. /\ db'.nodes = InsertNodes(db.nodes, PlacedIn(r))
      /\ db'.nullifiers = db.nullifiers \cup {NullifiedOf(row) : row \in r.nullifiers}
      /\ ~CommitmentConflict(db.nodes, PlacedIn(r))
  BY DEF WindowCommits, CommitWindow
<1>3. /\ r.from \in Int /\ end \in Int
      /\ Floor <= r.from /\ r.from <= end /\ end <= head
      /\ db.synced # Never => db.synced \in Int /\ db.synced <= r.from
  BY <1>0, WindowAfterWatermark
<1>4. /\ Floor \in Int
      /\ \A row \in CommitmentRows \cup NullifierRows : row.block \in Int
  BY SyncerAssumption, RowsAssumption
<1>5. \A row \in CommitmentRows \cup NullifierRows :
        InWindow(row, r) => Floor <= row.block /\ row.block <= end
  <2> SUFFICES ASSUME NEW row \in CommitmentRows \cup NullifierRows,
                      r.from <= row.block, row.block <= end
               PROVE  Floor <= row.block
    BY DEF InWindow
  <2> HIDE DEF r
  <2> QED
    BY <1>3, <1>4
<1>6. \A row \in CommitmentRows \cup NullifierRows :
        db.synced # Never /\ row.block <= db.synced => row.block <= end
  <2> HIDE DEF r, end
  <2> QED
    BY <1>3, <1>4
<1> HIDE DEF end
<1>7. ASSUME NEW t \in Trees, NEW l \in Leaves, db'.nodes[t][l] # NoNode
      PROVE  \E row \in Representable(CommitmentRows) :
               /\ Floor <= row.block /\ row.block <= end
               /\ PlacedNode(row) = [tree |-> t, leaf |-> l, node |-> db'.nodes[t][l]]
  <2>1. CASE db.nodes[t][l] # NoNode
    <3>1. db'.nodes[t][l] = db.nodes[t][l]
      BY <1>2, <2>1, InsertNodesKeeps
    <3>2. db.synced # Never /\ NothingElse(db, db.synced)
      BY <2>1 DEF ReplicaInv, NothingStored
    <3>3. PICK row \in Representable(CommitmentRows) :
            /\ Floor <= row.block /\ row.block <= db.synced
            /\ PlacedNode(row) = [tree |-> t, leaf |-> l, node |-> db.nodes[t][l]]
      BY <2>1, <3>2 DEF NothingElse
    <3> QED
      BY <1>6, <3>1, <3>2, <3>3 DEF Representable
  <2>2. CASE db.nodes[t][l] = NoNode
    <3>1. PICK p \in PlacedIn(r) : p.tree = t /\ p.leaf = l
      BY <1>1, <1>2, <1>7, <2>2, InsertNodesFilled
    <3>2. db'.nodes[t][l] = p.node
      BY <1>1, <1>2, <3>1, InsertNodesStores
    <3>3. PICK row \in r.commitments : p = PlacedNode(row)
      BY <3>1 DEF PlacedIn
    <3>4. row \in Representable(CommitmentRows) /\ InWindow(row, r) /\ row \in CommitmentRows
      BY <1>0, <3>3 DEF RunNext, Representable
    <3>5. p = [tree |-> t, leaf |-> l, node |-> db'.nodes[t][l]]
      BY <1>1, <3>1, <3>2 DEF PlacedNodes
    <3> QED
      BY <1>5, <3>3, <3>4, <3>5
  <2> QED
    BY <2>1, <2>2
<1>8. ASSUME NEW n \in db'.nullifiers
      PROVE  \E row \in NullifierRows :
               Floor <= row.block /\ row.block <= end /\ NullifiedOf(row) = n
  <2>1. CASE n \in db.nullifiers
    <3>1. db.synced # Never /\ NothingElse(db, db.synced)
      BY <2>1 DEF ReplicaInv, NothingStored
    <3>2. PICK row \in NullifierRows :
            Floor <= row.block /\ row.block <= db.synced /\ NullifiedOf(row) = n
      BY <2>1, <3>1 DEF NothingElse
    <3> QED
      BY <1>6, <3>1, <3>2
  <2>2. ASSUME NEW row \in r.nullifiers, n = NullifiedOf(row)
        PROVE  \E q \in NullifierRows :
                 Floor <= q.block /\ q.block <= end /\ NullifiedOf(q) = n
    <3>1. row \in NullifierRows /\ InWindow(row, r)
      BY <1>0 DEF RunNext, Runs
    <3> QED
      BY <1>5, <2>2, <3>1
  <2> QED
    BY <1>2, <1>8, <2>1, <2>2
<1>9. NothingElse(db', end)
  BY <1>7, <1>8 DEF NothingElse
<1> QED
  BY <1>9 DEF end

(* Every step of the one syncer keeps the invariant.                       *)
LEMMA ReplicaInvNext ==
  ASSUME \A s, u \in Syncers : s = u, ~ClearWhileRunning,
         TypeInv, CoverInv, ReplicaInv, [Next]_vars
  PROVE  ReplicaInv'
<1>0. run \in [Syncers -> Runs]
  BY DEF TypeInv, TypeOK
<1>1. CASE IndexBlock
  <2>1. db' = db /\ run' = run
    BY <1>1 DEF IndexBlock
  <2> QED
    BY <2>1 DEF ReplicaInv
<1>2. ASSUME NEW s \in Syncers, RunToHead(s)
      PROVE  ReplicaInv'
  <2>1. RunNext(AtRest("latest", ZeroSummary), db)
    BY RestNext
  <2> QED
    BY <1>2, <2>1, OneRunNext DEF RunToHead
<1>3. ASSUME NEW s \in Syncers, RunToHeadIfUnsynced(s)
      PROVE  ReplicaInv'
  <2> DEFINE x == IF db.synced # Never
                    THEN AtRest("ok", [ZeroSummary EXCEPT !.synced_to = SyncedOrZero(db.synced)])
                    ELSE AtRest("latest", ZeroSummary)
  <2>1. RunNext(x, db)
    BY RestNext DEF Resting
  <2>2. run' = [run EXCEPT ![s] = x] /\ db' = db
    BY <1>3 DEF RunToHeadIfUnsynced
  <2> HIDE DEF x
  <2> QED
    BY <2>1, <2>2, OneRunNext
<1>4. ASSUME NEW s \in Syncers, NEW target, RunTo(s, target)
      PROVE  ReplicaInv'
  <2>1. RunNext(BeginRun(db.synced, target), db)
    BY NextWindowNext DEF BeginRun
  <2> QED
    BY <1>4, <2>1, OneRunNext DEF RunTo
<1>5. ASSUME NEW s \in Syncers, LatestBlockArrives(s)
      PROVE  ReplicaInv'
  <2>1. RunNext(BeginRun(db.synced, LatestBlock(head)), db)
    BY NextWindowNext DEF BeginRun
  <2> QED
    BY <1>5, <2>1, OneRunNext DEF LatestBlockArrives
<1>6. ASSUME NEW s \in Syncers, PageArrives(s)
      PROVE  ReplicaInv'
  <2>1. run[s] \in Runs /\ run[s].pc = "fetch" /\ RunNext(run[s], db)
    BY <1>0, <1>6 DEF PageArrives, ReplicaInv
  <2>2. RunNext(AfterPage(run[s], PageOf(run[s])), db)
    BY <2>1, PageNext
  <2> QED
    BY <1>6, <2>2, OneRunNext DEF PageArrives
<1>7. ASSUME NEW s \in Syncers, RequestFails(s)
      PROVE  ReplicaInv'
  <2> DEFINE q == [run[s] EXCEPT !.attempt = @ + 1]
             x == IF run[s].attempt + 1 > MaxRetries THEN AtRest("err", ZeroSummary) ELSE q
  <2>1. run[s] \in Runs /\ RunNext(run[s], db)
    BY <1>0 DEF ReplicaInv
  <2>2. RunNext(q, db)
    <3>1. /\ q.pc = run[s].pc /\ q.from = run[s].from /\ q.target = run[s].target
          /\ q.commitments = run[s].commitments /\ q.nullifiers = run[s].nullifiers
      BY <2>1 DEF Runs
    <3> HIDE DEF q
    <3> QED
      BY <2>1, <3>1 DEF RunNext, InWindow
  <2>3. RunNext(AtRest("err", ZeroSummary), db)
    BY RestNext DEF Resting
  <2>4. RunNext(x, db)
    BY <2>2, <2>3
  <2>5. run' = [run EXCEPT ![s] = x] /\ db' = db
    BY <1>7 DEF RequestFails
  <2> HIDE DEF x
  <2> QED
    BY <2>4, <2>5, OneRunNext
<1>8. ASSUME NEW s \in Syncers, WindowCommits(s)
      PROVE  ReplicaInv'
  <2> DEFINE r == run[s]
             end == WindowEnd(r.from, r.target)
             q == NextWindow(SaturatingAdd(end, 1), r.target, Counted(r))
  <2>1. r.pc = "commit" /\ db'.synced = end /\ run' = [run EXCEPT ![s] = q]
    BY <1>8 DEF WindowCommits, CommitWindow
  <2>2. NothingElse(db', end)
    BY <1>8, CommitNothingElse
  <2>3. /\ end \in Blocks /\ end \in Int /\ r.from \in Int /\ Floor <= r.from /\ r.from <= end
    BY <2>1, WindowAfterWatermark
  <2>4. Floor \in Int /\ end # Never
    BY <2>3, SyncerAssumption, StoreAssumption
  <2> HIDE DEF r, end
  <2>5. Floor <= end
    BY <2>3, <2>4
  <2>6. RunNext(q, db')
    <3>1. SaturatingAdd(end, 1) = ResumePoint(db'.synced)
      BY <2>1, <2>4 DEF ResumePoint
    <3> QED
      BY <3>1, NextWindowNext
  <2>7. \A u \in Syncers : run'[u] = q
    BY <1>0, <2>1
  <2> HIDE DEF q
  <2> QED
    BY <2>1, <2>2, <2>4, <2>5, <2>6, <2>7 DEF ReplicaInv
<1>9. ASSUME NEW s \in Syncers, WindowConflicts(s) \/ CommitFails(s)
      PROVE  ReplicaInv'
  <2>1. RunNext(AtRest("err", ZeroSummary), db)
    BY RestNext DEF Resting
  <2> QED
    BY <1>9, <2>1, OneRunNext DEF WindowConflicts, CommitFails
<1>10. CASE Crash
  <2>1. run' = [u \in Syncers |-> AtRest("idle", ZeroSummary)] /\ db' = db
    BY <1>10 DEF Crash
  <2>2. \A u \in Syncers : RunNext(run'[u], db')
    BY <2>1, RestNext DEF Resting
  <2> QED
    BY <2>1, <2>2 DEF ReplicaInv
<1>11. CASE ClearAll
  <2>1. /\ db' = EmptyStore /\ run' = run
        /\ \A s \in Syncers : run[s].pc \in Resting
    BY <1>11 DEF ClearAll
  <2>2. db'.synced = Never /\ NothingStored(db')
    BY <2>1 DEF EmptyStore, NothingStored
  <2>3. \A u \in Syncers : RunNext(run'[u], db')
    BY <2>1 DEF RunNext, Resting
  <2> QED
    BY <2>2, <2>3 DEF ReplicaInv
<1>12. CASE UNCHANGED vars
  BY <1>12 DEF vars, ReplicaInv
<1> QED
  BY <1>1, <1>2, <1>3, <1>4, <1>5, <1>6, <1>7, <1>8, <1>9, <1>10, <1>11, <1>12
  DEF Next, RunStep

(* The invariant holds in every reachable state.                           *)
LEMMA ReplicaInvHolds ==
  ASSUME \A s, u \in Syncers : s = u, ~PastHead, ~ClearWhileRunning
  PROVE  Spec => [](TypeInv /\ CoverInv /\ ReplicaInv)
<1>1. Init => CoverInv /\ ReplicaInv
  BY RestInv, RestNext
  DEF Init, CoverInv, ReplicaInv, EmptyStore, Resting, NothingStored
<1>2. TypeInv /\ CoverInv /\ [Next]_vars => CoverInv'
  BY CoverInvNext
<1>3. TypeInv /\ CoverInv /\ ReplicaInv /\ [Next]_vars => ReplicaInv'
  BY ReplicaInvNext
<1> QED
  BY <1>1, <1>2, <1>3, TypeInvHolds, PTL DEF Spec

-----------------------------------------------------------------------------
(* The commitments table of a database as a set.                           *)
NodesOf(d) ==
  {[tree |-> x[1], leaf |-> x[2], node |-> d.nodes[x[1]][x[2]]] : x \in FilledSlots(d)}

(* Tables that hold every event up to a block and nothing else are the     *)
(* replica's state at that block.                                          *)
LEMMA TablesAreReplica ==
  ASSUME NEW d \in Stores, NEW b, StoredThrough(d, b), NothingElse(d, b)
  PROVE  /\ NodesOf(d) = Ledger!NodesThrough(b)
         /\ d.nullifiers = Ledger!NullifiersThrough(b)
<1>1. ASSUME NEW row \in Representable(CommitmentRows), Floor <= row.block, row.block <= b
      PROVE  PlacedNode(row) \in NodesOf(d)
  <2> DEFINE p == PlacedNode(row)
  <2>1. p \in PlacedNodes
    BY RowsAssumption DEF Representable
  <2>2. d.nodes[p.tree][p.leaf] = p.node
    BY <1>1 DEF StoredThrough, NodeStored
  <2> HIDE DEF p
  <2>3. p.tree \in Trees /\ p.leaf \in Leaves /\ p.node # NoNode
    BY <2>1, StoreAssumption DEF PlacedNodes
  <2>4. <<p.tree, p.leaf>> \in FilledSlots(d)
    BY <2>2, <2>3 DEF FilledSlots
  <2>5. p = [tree |-> p.tree, leaf |-> p.leaf, node |-> d.nodes[p.tree][p.leaf]]
    BY <2>1, <2>2 DEF PlacedNodes
  <2>6. p \in NodesOf(d)
    BY <2>4, <2>5 DEF NodesOf
  <2> QED
    BY <2>6 DEF p
<1>2. ASSUME NEW p \in NodesOf(d)
      PROVE  \E row \in Representable(CommitmentRows) :
               Floor <= row.block /\ row.block <= b /\ p = PlacedNode(row)
  <2>1. PICK x \in FilledSlots(d) :
          p = [tree |-> x[1], leaf |-> x[2], node |-> d.nodes[x[1]][x[2]]]
    BY DEF NodesOf
  <2>2. x[1] \in Trees /\ x[2] \in Leaves /\ d.nodes[x[1]][x[2]] # NoNode
    BY DEF FilledSlots
  <2> QED
    BY <2>1, <2>2 DEF NothingElse
<1>3. NodesOf(d) = {PlacedNode(row) : row \in {r \in Representable(CommitmentRows) :
                                                  Floor <= r.block /\ r.block <= b}}
  BY <1>1, <1>2
<1>4. d.nullifiers = {NullifiedOf(row) : row \in {r \in NullifierRows :
                                                     Floor <= r.block /\ r.block <= b}}
  BY DEF StoredThrough, NothingElse, NullifierStored
<1>5. /\ \A row : Ledger!PlacedNode(row) = PlacedNode(row)
      /\ \A row : Ledger!NullifiedOf(row) = NullifiedOf(row)
      /\ Ledger!Representable(CommitmentRows) = Representable(CommitmentRows)
  BY DEF Ledger!PlacedNode, PlacedNode, Ledger!Normalized, Normalized, Ledger!NullifiedOf,
     NullifiedOf, Ledger!Representable, Representable
<1> QED
  BY <1>3, <1>4, <1>5 DEF Ledger!NodesThrough, Ledger!NullifiersThrough

(* One syncer implements module Replica: every step of it, of the indexer, *)
(* of its callers and of the failures around it is an advance of the       *)
(* watermark together with exactly the events it newly covers, a wipe, or  *)
(* invisible to readers of the tables.  A window repeated at the last      *)
(* block number, where the resume point saturates, is invisible too.       *)
THEOREM SyncerImplementsReplica ==
  ASSUME \A s, u \in Syncers : s = u, ~PastHead, ~ClearWhileRunning
  PROVE  Spec => ImplementsReplica
<1> DEFINE Inv == TypeInv /\ CoverInv /\ ReplicaInv
<1>1. Init => Ledger!Init
  <2> SUFFICES ASSUME Init
               PROVE  Ledger!Init
    OBVIOUS
  <2>1. FilledSlots(db) = {}
    BY DEF Init, EmptyStore, FilledSlots
  <2>2. StoredNodes = {}
    BY <2>1 DEF StoredNodes
  <2> QED
    BY <2>2 DEF Init, EmptyStore, Ledger!Init
<1>2. Inv /\ Inv' /\ [Next]_vars => [Ledger!Next]_(Ledger!replicaVars)
  <2> SUFFICES ASSUME Inv, Inv', [Next]_vars
               PROVE  Ledger!Next \/ UNCHANGED Ledger!replicaVars
    OBVIOUS
  <2>1. ASSUME NEW s \in Syncers, WindowCommits(s)
        PROVE  Ledger!Next \/ UNCHANGED Ledger!replicaVars
    <3> DEFINE r == run[s]
               end == WindowEnd(r.from, r.target)
    <3>1. r.pc = "commit" /\ db'.synced = end
      BY <2>1 DEF WindowCommits, CommitWindow
    <3>2. /\ r.from \in Int /\ end \in Blocks /\ end \in Int
          /\ Floor <= r.from /\ r.from <= end /\ end <= head
          /\ db.synced # Never =>
               /\ db.synced \in Int /\ db.synced <= r.from
               /\ db.synced = r.from => r.from = U64Max
      BY <3>1, WindowAfterWatermark
    <3>3. end # Never /\ Floor \in Int /\ end <= U64Max
      BY <3>2, SyncerAssumption, StoreAssumption
    <3>4. /\ StoredNodes' = Ledger!NodesThrough(end)
          /\ db'.nullifiers = Ledger!NullifiersThrough(end)
      <4>1. /\ db' \in Stores /\ StoredThrough(db', db'.synced)
            /\ NothingElse(db', db'.synced)
        BY <3>1, <3>3 DEF TypeInv, TypeOK, CoverInv, ReplicaInv
      <4>2. StoredNodes' = NodesOf(db')
        BY DEF StoredNodes, NodesOf, FilledSlots
      <4> QED
        BY <3>1, <4>1, <4>2, TablesAreReplica
    <3> HIDE DEF r, end
    <3>5. CASE db.synced # Never => end > db.synced
      <4>1. end >= Floor
        BY <3>2, <3>3
      <4>2. Ledger!Advance(end)
        BY <3>1, <3>4, <3>5, <4>1 DEF Ledger!Advance
      <4> QED
        BY <3>2, <4>2 DEF Ledger!Next
    <3>6. CASE db.synced # Never /\ ~(end > db.synced)
      <4>1. end = db.synced
        BY <3>2, <3>6
      <4>2. /\ StoredNodes = Ledger!NodesThrough(end)
            /\ db.nullifiers = Ledger!NullifiersThrough(end)
        <5>1. /\ db \in Stores /\ StoredThrough(db, db.synced)
              /\ NothingElse(db, db.synced)
          BY <3>6 DEF TypeInv, TypeOK, CoverInv, ReplicaInv
        <5>2. StoredNodes = NodesOf(db)
          BY DEF StoredNodes, NodesOf
        <5> QED
          BY <4>1, <5>1, <5>2, TablesAreReplica
      <4> QED
        BY <3>1, <3>4, <4>1, <4>2 DEF Ledger!replicaVars
    <3> QED
      BY <3>5, <3>6
  <2>2. CASE ClearAll
    <3>1. db' = EmptyStore
      BY <2>2 DEF ClearAll
    <3>2. FilledSlots(db') = {}
      BY <3>1 DEF EmptyStore, FilledSlots
    <3>3. StoredNodes' = {}
      BY <3>2 DEF StoredNodes
    <3>4. Ledger!Wipe
      BY <3>1, <3>3 DEF EmptyStore, Ledger!Wipe
    <3> QED
      BY <3>4 DEF Ledger!Next
  <2>3. CASE db' = db
    BY <2>3 DEF Ledger!replicaVars, StoredNodes
  <2> QED
    BY <2>1, <2>2, <2>3 DEF Next, RunStep, IndexBlock, RunToHead, RunToHeadIfUnsynced,
       RunTo, LatestBlockArrives, PageArrives, RequestFails, WindowConflicts, CommitFails,
       Crash, vars
<1>3. Spec => []Inv
  BY ReplicaInvHolds
<1> QED
  BY <1>1, <1>2, <1>3, PTL DEF Spec, ImplementsReplica, Ledger!Spec
-----------------------------------------------------------------------------
(* The contract gives every commitment a slot of its own, so no two rows   *)
(* that map to a node map to the same slot.                                *)
OneRowPerSlot ==
  \A row, other \in Representable(CommitmentRows) :
    /\ PlacedNode(row).tree = PlacedNode(other).tree
    /\ PlacedNode(row).leaf = PlacedNode(other).leaf
    => row = other

SlotOf(row) == <<PlacedNode(row).tree, PlacedNode(row).leaf>>

(* Filled slots can be counted.                                            *)
LEMMA FilledSlotsFinite ==
  ASSUME NEW d
  PROVE  IsFiniteSet(FilledSlots(d)) /\ Cardinality(FilledSlots(d)) \in Nat
<1>1. IsFiniteSet(Trees) /\ IsFiniteSet(Leaves)
  <2>1. MaxTrees - 1 \in Int /\ Capacity - 1 \in Int /\ 0 \in Int
    BY StoreAssumption
  <2> QED
    BY <2>1, FS_Interval DEF Trees, Leaves
<1>2. IsFiniteSet(Trees \X Leaves)
  BY <1>1, FS_Product
<1>3. FilledSlots(d) \in SUBSET (Trees \X Leaves)
  BY DEF FilledSlots
<1>4. IsFiniteSet(FilledSlots(d))
  BY <1>2, <1>3, FS_Subset
<1> QED
  BY <1>4, FS_CardinalityType

(* As many slots as rows.                                                  *)
LEMMA SlotsOfRows ==
  ASSUME OneRowPerSlot, NEW rows \in SUBSET Representable(CommitmentRows)
  PROVE  /\ IsFiniteSet({SlotOf(row) : row \in rows})
         /\ Cardinality({SlotOf(row) : row \in rows}) = Cardinality(rows)
<1> DEFINE T == {SlotOf(row) : row \in rows}
           f == [row \in rows |-> SlotOf(row)]
<1>1. IsFiniteSet(rows)
  <2>1. rows \in SUBSET CommitmentRows
    BY DEF Representable
  <2> QED
    BY <2>1, RowsAssumption, FS_Subset
<1>2. f \in [rows -> T]
  OBVIOUS
<1>3. \A x, y \in rows : f[x] = f[y] => x = y
  <2> SUFFICES ASSUME NEW x \in rows, NEW y \in rows, SlotOf(x) = SlotOf(y)
               PROVE  x = y
    OBVIOUS
  <2>1. PlacedNode(x).tree = PlacedNode(y).tree /\ PlacedNode(x).leaf = PlacedNode(y).leaf
    BY DEF SlotOf
  <2> QED
    BY <2>1 DEF OneRowPerSlot
<1>4. \A t \in T : \E x \in rows : f[x] = t
  OBVIOUS
<1>5. DOMAIN f = rows
  OBVIOUS
<1> HIDE DEF f, T
<1>6. f \in Bijection(rows, T)
  BY <1>2, <1>3, <1>4, <1>5 DEF Bijection, Injection, Surjection, IsInjective
<1>7. ExistsBijection(rows, T)
  BY <1>6 DEF ExistsBijection
<1>8. IsFiniteSet(T) /\ Cardinality(T) = Cardinality(rows)
  BY <1>1, <1>7, FS_Bijection
<1> QED
  BY <1>8 DEF T

(* A window fills as many slots as it fetched mapped rows.                 *)
LEMMA CommitFills ==
  ASSUME NEW s \in Syncers, TypeInv, CoverInv, ReplicaInv, WindowCommits(s),
         OneRowPerSlot, LastBlock < U64Max
  PROVE  Cardinality(FilledSlots(db')) - Cardinality(FilledSlots(db))
           = Cardinality(run[s].commitments)
<1> DEFINE r == run[s]
           A == FilledSlots(db)
           B == {SlotOf(row) : row \in r.commitments}
<1>0. /\ r \in Runs /\ r.pc = "commit" /\ RunNext(r, db)
  BY DEF TypeInv, TypeOK, ReplicaInv, WindowCommits
<1>1. PlacedIn(r) \in SUBSET PlacedNodes
  BY <1>0, WindowTypes
<1>2. db'.nodes = InsertNodes(db.nodes, PlacedIn(r))
  BY DEF WindowCommits, CommitWindow
<1>3. r.commitments \in SUBSET Representable(CommitmentRows)
  BY <1>0 DEF RunNext
<1>4. FilledSlots(db') = A \cup B
  <2>1. ASSUME NEW t \in Trees, NEW l \in Leaves
        PROVE  <<t, l>> \in FilledSlots(db') <=> <<t, l>> \in A \/ <<t, l>> \in B
    <3>1. <<t, l>> \in FilledSlots(db') <=>
            db.nodes[t][l] # NoNode \/ \E p \in PlacedIn(r) : p.tree = t /\ p.leaf = l
      BY <1>1, <1>2, InsertNodesFilled DEF FilledSlots
    <3>2. (\E p \in PlacedIn(r) : p.tree = t /\ p.leaf = l) <=> <<t, l>> \in B
      BY DEF PlacedIn, SlotOf
    <3> QED
      BY <3>1, <3>2 DEF FilledSlots
  <2>2. /\ FilledSlots(db') \subseteq Trees \X Leaves
        /\ A \subseteq Trees \X Leaves
        /\ B \subseteq Trees \X Leaves
    <3>1. \A row \in r.commitments : PlacedNode(row) \in PlacedNodes
      BY <1>1 DEF PlacedIn
    <3>2. B \subseteq Trees \X Leaves
      BY <3>1 DEF SlotOf, PlacedNodes
    <3> QED
      BY <3>2 DEF FilledSlots
  <2> HIDE DEF A, B
  <2> QED
    BY <2>1, <2>2
<1>5. A \cap B = {}
  <2> SUFFICES ASSUME NEW row \in r.commitments, SlotOf(row) \in A
               PROVE  FALSE
    OBVIOUS
  <2>1. /\ row \in Representable(CommitmentRows) /\ row \in CommitmentRows
        /\ r.from <= row.block
    BY <1>0 DEF RunNext, InWindow, Representable
  <2>2. PlacedNode(row) \in PlacedNodes
    BY <2>1, RowsAssumption
  <2> DEFINE t == PlacedNode(row).tree
             l == PlacedNode(row).leaf
  <2>3. t \in Trees /\ l \in Leaves /\ db.nodes[t][l] # NoNode
    BY <2>2 DEF PlacedNodes, SlotOf, FilledSlots
  <2>4. db.synced # Never /\ NothingElse(db, db.synced)
    BY <2>3 DEF ReplicaInv, NothingStored
  <2> HIDE DEF t, l
  <2>5. PICK other \in Representable(CommitmentRows) :
          /\ other.block <= db.synced
          /\ PlacedNode(other) = [tree |-> t, leaf |-> l, node |-> db.nodes[t][l]]
    BY <2>3, <2>4 DEF NothingElse
  <2>6. other = row
    <3>1. PlacedNode(other).tree = PlacedNode(row).tree
          /\ PlacedNode(other).leaf = PlacedNode(row).leaf
      BY <2>5 DEF t, l
    <3> QED
      BY <2>1, <3>1 DEF OneRowPerSlot
  <2>7. /\ r.from \in Int /\ db.synced \in Int /\ db.synced <= r.from
        /\ db.synced = r.from => r.from = U64Max
        /\ r.from <= WindowEnd(r.from, r.target) /\ WindowEnd(r.from, r.target) <= head
        /\ WindowEnd(r.from, r.target) \in Int
    BY <1>0, <2>4, WindowAfterWatermark
  <2>8. head <= LastBlock /\ head \in Int /\ LastBlock \in Int /\ U64Max \in Int
        /\ row.block \in Int
    BY <2>1, SyncerAssumption, RowsAssumption DEF TypeInv, TypeOK
  <2> HIDE DEF r
  <2>9. r.from <= db.synced
    BY <2>1, <2>5, <2>6, <2>7, <2>8
  <2>10. r.from = U64Max
    BY <2>7, <2>9
  <2> QED
    BY <2>7, <2>8, <2>10
<1>6. /\ IsFiniteSet(A) /\ Cardinality(A) \in Nat
  BY FilledSlotsFinite
<1>7. IsFiniteSet(B) /\ Cardinality(B) = Cardinality(r.commitments)
  BY <1>3, SlotsOfRows
<1>8. Cardinality(B) \in Nat
  BY <1>7, FS_CardinalityType
<1> HIDE DEF A, B
<1>9. Cardinality(A \cup B) = Cardinality(A) + Cardinality(B)
  <2>1. Cardinality(A \cup B) = Cardinality(A) + Cardinality(B) - Cardinality(A \cap B)
    BY <1>6, <1>7, FS_Union
  <2>2. Cardinality(A \cap B) = 0
    BY <1>5, FS_EmptySet
  <2> QED
    BY <1>6, <1>8, <2>1, <2>2
<1>10. Cardinality(FilledSlots(db')) - Cardinality(A) = Cardinality(B)
  BY <1>4, <1>6, <1>8, <1>9
<1> QED
  BY <1>7, <1>10 DEF A

(* The totals a run reports are what it added: with one syncer at work and *)
(* a slot for every commitment, each window adds to the SyncSummary       *)
(* exactly the slots it filled and reports the watermark it committed.     *)
(* The last block number must be out of the indexer's reach: there the     *)
(* resume point saturates and a later run counts that block a second time. *)
THEOREM SummaryCorrect ==
  ASSUME \A s, u \in Syncers : s = u, ~PastHead, ~ClearWhileRunning,
         OneRowPerSlot, LastBlock < U64Max
  PROVE  Spec => SummaryExact
<1> DEFINE Inv == TypeInv /\ CoverInv /\ ReplicaInv
           Exact == \A s \in Syncers :
             run[s].pc = "commit" /\ run'[s].pc \in {"fetch", "ok"} =>
               /\ Cardinality(FilledSlots(db')) - Cardinality(FilledSlots(db)) =
                    run'[s].summary.commitments - run[s].summary.commitments
               /\ run'[s].summary.synced_to = db'.synced
<1>1. Inv /\ [Next]_vars => [Exact]_vars
  <2> SUFFICES ASSUME Inv, Next, NEW s \in Syncers,
                      run[s].pc = "commit", run'[s].pc \in {"fetch", "ok"}
               PROVE  /\ Cardinality(FilledSlots(db')) - Cardinality(FilledSlots(db)) =
                           run'[s].summary.commitments - run[s].summary.commitments
                      /\ run'[s].summary.synced_to = db'.synced
    OBVIOUS
  <2>0. run \in [Syncers -> Runs]
    BY DEF TypeInv, TypeOK
  <2>1. WindowCommits(s)
    <3>1. \A x : run' = [run EXCEPT ![s] = x] => run'[s] = x
      BY <2>0
    <3>2. \A summary : AtRest("err", summary).pc = "err" /\ AtRest("idle", summary).pc = "idle"
      BY DEF AtRest
    <3>3. ASSUME ~WindowCommits(s)
          PROVE  FALSE
      <4>1. CASE RunStep(s)
        BY <3>1, <3>2, <3>3, <4>1 DEF RunStep, LatestBlockArrives, PageArrives, RequestFails,
           WindowConflicts, CommitFails
      <4>2. CASE Crash
        BY <3>2, <4>2 DEF Crash
      <4>3. CASE run' = run
        BY <4>3
      <4>4. ~RunToHead(s) /\ ~RunToHeadIfUnsynced(s) /\ \A target : ~RunTo(s, target)
        BY DEF RunToHead, RunToHeadIfUnsynced, RunTo, Resting
      <4> QED
        BY <4>1, <4>2, <4>3, <4>4 DEF Next, IndexBlock, ClearAll
    <3> QED
      BY <3>3
  <2> DEFINE r == run[s]
             end == WindowEnd(r.from, r.target)
  <2>2. run'[s].summary = Counted(r) /\ db'.synced = end
    <3>1. run'[s] = NextWindow(SaturatingAdd(end, 1), r.target, Counted(r)) /\ db'.synced = end
      BY <2>0, <2>1 DEF WindowCommits, CommitWindow
    <3>2. \A from, target, summary : NextWindow(from, target, summary).summary = summary
      BY DEF NextWindow, AtRest
    <3> QED
      BY <3>1, <3>2
  <2>3. r.summary.commitments \in Nat /\ Cardinality(r.commitments) \in Nat
    <3>1. r \in Runs
      BY <2>0
    <3>2. IsFiniteSet(r.commitments)
      BY <3>1, RowsAssumption, FS_Subset DEF Runs
    <3> QED
      BY <3>1, <3>2, FS_CardinalityType DEF Runs, Summaries
  <2>4. Cardinality(FilledSlots(db')) - Cardinality(FilledSlots(db)) = Cardinality(r.commitments)
    BY <2>1, CommitFills
  <2>5. /\ Counted(r).commitments - r.summary.commitments = Cardinality(r.commitments)
        /\ Counted(r).synced_to = end
    BY <2>3 DEF Counted
  <2> QED
    BY <2>2, <2>4, <2>5
<1>2. Spec => []Inv
  BY ReplicaInvHolds
<1> QED
  BY <1>1, <1>2, PTL DEF Spec, SummaryExact
=============================================================================
