------------------------------- MODULE Database -------------------------------
(***************************************************************************)
(* crates/database lib.rs, write.rs, version.rs and engine.rs: the one     *)
(* owner of the open file.  open, write, apply and clear_all all run a     *)
(* closure inside a write transaction; here each engine call of such a     *)
(* closure is a step, so that errors and crashes fall between any two of   *)
(* them, and readers open and hold their snapshots meanwhile.              *)
(*                                                                         *)
(* Of the engine (redb) only this is used: a transaction works on a        *)
(* private image, commit installs the image as a whole or fails and        *)
(* installs nothing, dropping the transaction discards it, there is one    *)
(* write transaction at a time, a read transaction keeps the state it      *)
(* started from, and a file has one owner.                                 *)
(***************************************************************************)
EXTENDS FileValues

CONSTANTS
  Readers,   \* names for read views that may be held at the same time
  NoTxn, NoView,
  MaxOps     \* bound: mutations in one write closure

VARIABLES
  file,    \* the committed contents of the file
  handle,  \* "closed", "opening" (inside Database::open) or "open"
  txn,     \* the write transaction in progress, or NoTxn
  views    \* the ReadView each reader holds, or NoView

vars == <<file, handle, txn, views>>

(* image is what the transaction sees and would commit.  The other fields  *)
(* are where its closure stands: the tables a loop over ALL_TABLES still   *)
(* has to visit, the stamps check_and_stamp still has to look at, the      *)
(* entries apply still has to replay, and the mutations counted so far.    *)
(* asked is for the specification only: the rows the caller wants changed. *)
(* The code's loops go through registry and key order; as the steps of one *)
(* loop touch different rows, they are taken in any order here.            *)
Txns ==
  [call   : Calls,
   image  : Files,
   tables : SUBSET Tables,
   stamps : SUBSET Tables,
   batch  : Batches,
   asked  : Batches,
   ops    : 0 .. MaxOps]

ASSUME DatabaseAssumption ==
  /\ MaxOps \in Nat
  /\ NoView \notin Files
  /\ NoTxn \notin Txns

TypeOK ==
  /\ file \in Files
  /\ handle \in {"closed", "opening", "open"}
  /\ txn \in Txns \cup {NoTxn}
  /\ views \in [Readers -> Files \cup {NoView}]

Init ==
  /\ file \in {f \in Files : WellFormed(f)}
  /\ handle = "closed"
  /\ txn = NoTxn
  /\ views = [r \in Readers |-> NoView]

EmptyBatch == [e \in {} |-> Absent]

(* Database::write up to the call of the closure.                          *)
Begin(call, tables, stamps, batch) ==
  /\ txn = NoTxn
  /\ txn' = [call |-> call, image |-> file, tables |-> tables, stamps |-> stamps,
             batch |-> batch, asked |-> batch, ops |-> 0]
  /\ UNCHANGED <<file, views>>

Open ==
  /\ handle = "closed"
  /\ handle' = "opening"
  /\ Begin("initialize", Tables, Tables, EmptyBatch)

ClearAll ==
  /\ handle = "open"
  /\ UNCHANGED handle
  /\ Begin("clear_all", Tables, Tables, EmptyBatch)

Apply(batch) ==
  /\ handle = "open"
  /\ UNCHANGED handle
  /\ Begin("apply", {}, {}, batch)

Write ==
  /\ handle = "open"
  /\ UNCHANGED handle
  /\ Begin("write", {}, {}, EmptyBatch)

-----------------------------------------------------------------------------
(* One engine call of the closure: what becomes of the image, and how far  *)
(* the closure has got.                                                    *)
Running(call) == txn # NoTxn /\ txn.call = call

Step(t) ==
  /\ txn' = t
  /\ UNCHANGED <<file, handle, views>>

(* WriteTxnInner::put and delete open their table, creating it if needed;  *)
(* a removed row is Absent.                                                *)
Put(f, t, k, v) == [f EXCEPT !.tables = @ \cup {t}, !.rows[t][k] = v]

(* Mutant: the table is deleted and not opened again.                      *)
ClearTableDropped(f, t) ==
  IF t = Meta THEN [f EXCEPT !.tables = @ \ {t}, !.stamps = [u \in Tables |-> Absent]]
              ELSE [f EXCEPT !.tables = @ \ {t}, !.rows[t] = NoRows]

(* WriteTxnInner::clear_table deletes the table and opens it again.        *)
ClearTable(f, t) ==
  IF t = Meta THEN [f EXCEPT !.tables = @ \cup {t}, !.stamps = [u \in Tables |-> Absent]]
              ELSE [f EXCEPT !.tables = @ \cup {t}, !.rows[t] = NoRows]

Materialize(t) ==
  /\ Running("initialize") /\ t \in txn.tables
  /\ Step([txn EXCEPT !.image.tables = @ \cup {t}, !.tables = @ \ {t}])

Clear(t) ==
  /\ Running("clear_all") /\ t \in txn.tables
  /\ Step([txn EXCEPT !.image = ClearTable(@, t), !.tables = @ \ {t}])

(* One round of check_and_stamp's loop that does not fail.                 *)
CheckAndStamp(t) ==
  /\ txn # NoTxn
  /\ txn.tables = {} /\ t \in txn.stamps
  /\ txn.image.stamps[t] \in {Absent, SchemaVersions[t]}
  /\ Step([txn EXCEPT !.image.tables = @ \cup {Meta},
                      !.image.stamps[t] = SchemaVersions[t],
                      !.stamps = @ \ {t}])

(* Mutant: tombstones are skipped.                                         *)
ApplyEntryPutsOnly(e) ==
  /\ Running("apply") /\ e \in DOMAIN txn.batch
  /\ Step([txn EXCEPT !.image = IF txn.batch[e] = Absent THEN @
                                ELSE Put(@, e[1], e[2], txn.batch[e]),
                      !.batch = [d \in DOMAIN @ \ {e} |-> @[d]]])

(* One entry of the batch: a put, or the delete of a tombstone.            *)
ApplyEntry(e) ==
  /\ Running("apply") /\ e \in DOMAIN txn.batch
  /\ Step([txn EXCEPT !.image = Put(@, e[1], e[2], txn.batch[e]),
                      !.batch = [d \in DOMAIN @ \ {e} |-> @[d]]])

(* A mutation by the caller's closure, through a typed namespace.          *)
Mutate(t, k, v) ==
  /\ Running("write") /\ txn.ops < MaxOps
  /\ Step([txn EXCEPT !.image = Put(@, t, k, v), !.ops = @ + 1,
                      !.asked = With(@, <<t, k>>, v)])

ClosureDone == txn.tables = {} /\ txn.stamps = {} /\ DOMAIN txn.batch = {}

Commit ==
  /\ txn # NoTxn /\ ClosureDone
  /\ file' = txn.image
  /\ handle' = "open"
  /\ txn' = NoTxn
  /\ UNCHANGED views

(* The transaction is dropped: a mismatched or malformed stamp, an error   *)
(* of the closure or of the engine, or a commit that fails.  An open whose *)
(* initialize fails returns the error and drops the engine.                *)
Discard ==
  /\ txn # NoTxn
  /\ handle' = IF handle = "opening" THEN "closed" ELSE "open"
  /\ txn' = NoTxn
  /\ UNCHANGED <<file, views>>

-----------------------------------------------------------------------------
Read(r) ==
  /\ handle = "open"
  /\ views' = [views EXCEPT ![r] = file]
  /\ UNCHANGED <<file, handle, txn>>

DropView(r) ==
  /\ views[r] # NoView
  /\ views' = [views EXCEPT ![r] = NoView]
  /\ UNCHANGED <<file, handle, txn>>

(* The process ends or crashes: only the committed file is left.           *)
Crash ==
  /\ handle # "closed"
  /\ handle' = "closed"
  /\ txn' = NoTxn
  /\ views' = [r \in Readers |-> NoView]
  /\ UNCHANGED file

Next ==
  \/ Open \/ ClearAll \/ Write \/ Commit \/ Discard \/ Crash
  \/ \E batch \in Batches : Apply(batch)
  \/ \E t \in Tables : Materialize(t) \/ Clear(t) \/ CheckAndStamp(t)
  \/ \E e \in Entries : ApplyEntry(e)
  \/ \E t \in DataTables, k \in Keys, v \in Values \cup {Absent} : Mutate(t, k, v)
  \/ \E r \in Readers : Read(r) \/ DropView(r)

Spec == Init /\ [][Next]_vars

-----------------------------------------------------------------------------
(* "A mismatched stamp fails the open before any consumer can misread      *)
(* records", and views "never hit table does not exist": whatever fails    *)
(* half-way through an open or a wipe, a file that is open has every table *)
(* and the program's own stamps, and so has every view of it, however long *)
(* it is held.                                                             *)
Whole(f) == f.tables = Tables /\ f.stamps = SchemaVersions

OnlyWholeFilesAreRead ==
  /\ handle = "open" => Whole(file)
  /\ \A r \in Readers : views[r] # NoView => Whole(views[r])

Requested ==
  IF txn = NoTxn THEN NoRequest ELSE [call |-> txn.call, batch |-> txn.asked]

Atomic == INSTANCE AtomicFile WITH open <- (handle = "open"), request <- Requested

(* "Commit on Ok, discard on Err; everything staged lands atomically or    *)
(* not at all", across tables: the file goes through the states of module  *)
(* AtomicFile only, in which every operation is a single step.             *)
ImplementsAtomicFile == Atomic!Spec
=============================================================================
