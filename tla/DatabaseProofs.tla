---------------------------- MODULE DatabaseProofs ----------------------------
(***************************************************************************)
(* The two results of module Database for any tables, keys, values,        *)
(* versions, readers and length of closures.  The invariant says where     *)
(* every kind of transaction stands: what its image has of the file it     *)
(* started from and what of the file it is to install.                     *)
(***************************************************************************)
EXTENDS Database, TLAPS

(* The loops have two parts: every table first, every stamp after that.    *)
LoopOrder == txn.tables # {} => txn.stamps = Tables

InitializeInv ==
  /\ LoopOrder
  /\ txn.image.rows = file.rows
  /\ txn.image.tables = file.tables \cup (Tables \ txn.tables)
  /\ \A t \in txn.stamps : txn.image.stamps[t] = file.stamps[t]
  /\ \A t \in Tables \ txn.stamps :
       /\ txn.image.stamps[t] = SchemaVersions[t]
       /\ file.stamps[t] \in {Absent, SchemaVersions[t]}

ClearAllInv ==
  /\ LoopOrder
  /\ txn.image.tables = Tables
  /\ \A t \in DataTables \ txn.tables : txn.image.rows[t] = NoRows
  /\ \A t \in Tables \ txn.stamps : txn.image.stamps[t] = SchemaVersions[t]

(* What is asked for and not waiting to be replayed is in the image.       *)
StagedInv ==
  /\ txn.tables = {} /\ txn.stamps = {}
  /\ txn.image.tables = Tables
  /\ txn.image.stamps = file.stamps
  /\ DOMAIN txn.batch \subseteq DOMAIN txn.asked
  /\ \A e \in DOMAIN txn.batch : txn.batch[e] = txn.asked[e]
  /\ \A t \in DataTables, k \in Keys :
       txn.image.rows[t][k] =
         IF <<t, k>> \in DOMAIN txn.asked \ DOMAIN txn.batch
         THEN txn.asked[<<t, k>>] ELSE file.rows[t][k]

TxnInv ==
  txn # NoTxn =>
    /\ txn.call = "initialize" => InitializeInv
    /\ txn.call = "clear_all" => ClearAllInv
    /\ txn.call = "apply" => StagedInv
    /\ txn.call = "write" => StagedInv /\ DOMAIN txn.batch = {}

HandleInv ==
  /\ handle = "opening" <=> (txn # NoTxn /\ txn.call = "initialize")
  /\ handle = "closed" => txn = NoTxn

Inv == TypeOK /\ OnlyWholeFilesAreRead /\ HandleInv /\ TxnInv

-----------------------------------------------------------------------------
(* Facts about batches.                                                    *)
LEMMA BatchFacts ==
  ASSUME NEW b \in Batches
  PROVE  /\ DOMAIN b \subseteq Entries
         /\ b \in [DOMAIN b -> Values \cup {Absent}]
         /\ \A e \in Entries : [d \in DOMAIN b \ {e} |-> b[d]] \in Batches
         /\ \A e \in Entries, v \in Values \cup {Absent} : With(b, e, v) \in Batches
<1>1. PICK S \in SUBSET Entries : b \in [S -> Values \cup {Absent}]
  BY DEF Batches
<1>2. ASSUME NEW e \in Entries
      PROVE  [d \in DOMAIN b \ {e} |-> b[d]] \in Batches
  <2>1. S \ {e} \in SUBSET Entries
    BY <1>1
  <2>2. [d \in DOMAIN b \ {e} |-> b[d]] \in [S \ {e} -> Values \cup {Absent}]
    BY <1>1
  <2> QED BY <2>1, <2>2 DEF Batches
<1>3. ASSUME NEW e \in Entries, NEW v \in Values \cup {Absent}
      PROVE  With(b, e, v) \in Batches
  <2>1. S \cup {e} \in SUBSET Entries
    BY <1>1, <1>3
  <2>2. With(b, e, v) \in [S \cup {e} -> Values \cup {Absent}]
    BY <1>1, <1>3 DEF With
  <2> QED BY <2>1, <2>2 DEF Batches
<1> QED BY <1>1, <1>2, <1>3

(* The batch that stages nothing is a batch.                               *)
LEMMA EmptyBatchFacts ==
  EmptyBatch \in Batches /\ DOMAIN EmptyBatch = {}
<1>1. EmptyBatch \in [{} -> Values \cup {Absent}]
  BY DEF EmptyBatch
<1>2. {} \in SUBSET Entries
  OBVIOUS
<1> QED BY <1>1, <1>2 DEF Batches, EmptyBatch

(* The operations keep files files.                                        *)
LEMMA FileOperations ==
  ASSUME NEW f \in Files
  PROVE  /\ \A t \in DataTables, k \in Keys, v \in Values \cup {Absent} :
              Put(f, t, k, v) \in Files
         /\ \A t \in Tables : ClearTable(f, t) \in Files
         /\ \A t \in Tables : [f EXCEPT !.tables = @ \cup {t}] \in Files
         /\ \A t \in Tables :
              [f EXCEPT !.tables = @ \cup {Meta}, !.stamps[t] = SchemaVersions[t]] \in Files
<1>1. \A t \in DataTables, k \in Keys, v \in Values \cup {Absent} : Put(f, t, k, v) \in Files
  BY DEF Put, Files, Tables
<1>2. ASSUME NEW t \in Tables
      PROVE  ClearTable(f, t) \in Files
  <2>1. NoRows \in [Keys -> Values \cup {Absent}]
    BY DEF NoRows
  <2>2. [u \in Tables |-> Absent] \in [Tables -> Stamps]
    BY DEF Stamps
  <2>3. CASE t = Meta
    BY <2>2, <2>3 DEF ClearTable, Files, Tables
  <2>4. CASE t # Meta
    BY <2>1, <2>4 DEF ClearTable, Files, Tables
  <2> QED BY <2>3, <2>4
<1>3. \A t \in Tables : [f EXCEPT !.tables = @ \cup {t}] \in Files
  BY DEF Files
<1>4. \A t \in Tables :
        [f EXCEPT !.tables = @ \cup {Meta}, !.stamps[t] = SchemaVersions[t]] \in Files
  BY FileAssumption DEF Files, Tables, Stamps
<1> QED BY <1>1, <1>2, <1>3, <1>4

-----------------------------------------------------------------------------
(* Where a call begins.                                                    *)
LEMMA BeginIsTyped ==
  ASSUME Inv, NEW call \in Calls, NEW tables \in SUBSET Tables, NEW stamps \in SUBSET Tables,
         NEW batch \in Batches, Begin(call, tables, stamps, batch)
  PROVE  /\ txn' \in Txns
         /\ txn'.call = call /\ txn'.image = file /\ txn'.tables = tables
         /\ txn'.stamps = stamps /\ txn'.batch = batch /\ txn'.asked = batch
         /\ file' = file /\ views' = views
  BY DatabaseAssumption DEF Begin, Txns, Inv, TypeOK

(* A call that opens its transaction keeps the invariant.                  *)
LEMMA BeginKeepsInv ==
  ASSUME Inv, Open \/ ClearAll \/ Write \/ (\E b \in Batches : Apply(b))
  PROVE  Inv'
<1>1. PICK call \in Calls, tables \in SUBSET Tables, stamps \in SUBSET Tables, batch \in Batches :
        /\ Begin(call, tables, stamps, batch)
        /\ call \in {"initialize", "clear_all"} => tables = Tables /\ stamps = Tables
        /\ call \in {"write", "apply"} => tables = {} /\ stamps = {}
        /\ call = "write" => DOMAIN batch = {}
        /\ IF call = "initialize" THEN handle = "closed" /\ handle' = "opening"
                                  ELSE handle = "open" /\ handle' = "open"
  <2>1. CASE Open
    BY <2>1, EmptyBatchFacts DEF Open, Calls
  <2>2. CASE ClearAll
    BY <2>2, EmptyBatchFacts DEF ClearAll, Calls
  <2>3. CASE Write
    BY <2>3, EmptyBatchFacts DEF Write, Calls
  <2>4. CASE \E b \in Batches : Apply(b)
    BY <2>4 DEF Apply, Calls
  <2> QED BY <2>1, <2>2, <2>3, <2>4
<1>2. /\ txn' \in Txns
      /\ txn'.call = call /\ txn'.image = file /\ txn'.tables = tables
      /\ txn'.stamps = stamps /\ txn'.batch = batch /\ txn'.asked = batch
      /\ file' = file /\ views' = views
  BY <1>1, BeginIsTyped
<1>3. TypeOK' /\ txn' # NoTxn
  BY <1>1, <1>2, DatabaseAssumption DEF Inv, TypeOK
<1>4. HandleInv'
  BY <1>1, <1>2, <1>3 DEF HandleInv, Calls
<1>5. OnlyWholeFilesAreRead'
  BY <1>1, <1>2 DEF Inv, OnlyWholeFilesAreRead, Whole
<1>6. TxnInv'
  <2>1. CASE call = "initialize"
    BY <1>1, <1>2, <2>1 DEF TxnInv, InitializeInv, LoopOrder
  <2>2. CASE call = "clear_all"
    <3>1. file.tables = Tables
      BY <1>1, <2>2 DEF Inv, OnlyWholeFilesAreRead, Whole
    <3>2. DataTables \ tables = {}
      BY <1>1, <2>2 DEF Tables
    <3> QED BY <1>1, <1>2, <2>2, <3>1, <3>2 DEF TxnInv, ClearAllInv, LoopOrder
  <2>3. CASE call \in {"write", "apply"}
    <3>1. file.tables = Tables
      BY <1>1, <2>3 DEF Inv, OnlyWholeFilesAreRead, Whole
    <3> QED BY <1>1, <1>2, <2>3, <3>1 DEF TxnInv, StagedInv
  <2> QED BY <2>1, <2>2, <2>3 DEF Calls
<1> QED BY <1>3, <1>4, <1>5, <1>6 DEF Inv

(* A step of a closure leaves everything but the transaction alone.        *)
LEMMA StepKeepsRest ==
  ASSUME Inv, txn # NoTxn, NEW t \in Txns, Step(t), t.call = txn.call
  PROVE  /\ TypeOK' /\ OnlyWholeFilesAreRead' /\ HandleInv' /\ txn' = t /\ txn' # NoTxn
         /\ file' = file
<1>1. txn' = t /\ file' = file /\ handle' = handle /\ views' = views
  BY DEF Step
<1>2. txn' # NoTxn
  BY <1>1, DatabaseAssumption
<1> QED BY <1>1, <1>2 DEF Inv, TypeOK, OnlyWholeFilesAreRead, Whole, HandleInv

(* Creating one table of a file that is being initialized keeps it.        *)
LEMMA MaterializeKeepsInv ==
  ASSUME Inv, NEW t \in Tables, Materialize(t)
  PROVE  Inv' /\ txn' # NoTxn
<1> DEFINE x == [txn EXCEPT !.image.tables = @ \cup {t}, !.tables = @ \ {t}]
<1>1. txn \in Txns /\ txn.call = "initialize" /\ t \in txn.tables /\ InitializeInv
      /\ txn # NoTxn /\ Step(x)
  BY DEF Materialize, Running, Inv, TypeOK, TxnInv
<1>2. txn.image \in Files /\ [txn.image EXCEPT !.tables = @ \cup {t}] \in Files
  BY <1>1, FileOperations DEF Txns
<1>3. /\ x \in Txns /\ x.call = txn.call
      /\ x.image = [txn.image EXCEPT !.tables = @ \cup {t}]
      /\ x.tables = txn.tables \ {t} /\ x.stamps = txn.stamps
  BY <1>1, <1>2 DEF Txns
<1>4. /\ x.image.tables = txn.image.tables \cup {t}
      /\ x.image.rows = txn.image.rows /\ x.image.stamps = txn.image.stamps
  BY <1>2, <1>3 DEF Files
<1>5. TypeOK' /\ OnlyWholeFilesAreRead' /\ HandleInv' /\ txn' = x /\ txn' # NoTxn /\ file' = file
  BY <1>1, <1>3, StepKeepsRest
<1>6. InitializeInv'
  <2> HIDE DEF x
  <2>1. LoopOrder'
    BY <1>1, <1>3, <1>5 DEF InitializeInv, LoopOrder
  <2>2. txn'.image.tables = file'.tables \cup (Tables \ txn'.tables)
    <3>1. txn.image.tables = file.tables \cup (Tables \ txn.tables)
      BY <1>1 DEF InitializeInv
    <3>2. Tables \ x.tables = (Tables \ txn.tables) \cup {t}
      BY <1>1, <1>3
    <3> QED BY <1>4, <1>5, <3>1, <3>2
  <2>3. /\ txn'.image.rows = file'.rows
        /\ txn'.image.stamps = txn.image.stamps /\ txn'.stamps = txn.stamps /\ file' = file
    BY <1>1, <1>3, <1>4, <1>5 DEF InitializeInv
  <2> QED BY <1>1, <2>1, <2>2, <2>3 DEF InitializeInv
<1> QED BY <1>1, <1>3, <1>5, <1>6 DEF Inv, TxnInv

(* Clearing a table empties its rows and leaves the others alone.          *)
LEMMA ClearFacts ==
  ASSUME NEW f \in Files, f.tables = Tables, NEW t \in Tables
  PROVE  /\ ClearTable(f, t).tables = Tables
         /\ t \in DataTables => ClearTable(f, t).rows[t] = NoRows
         /\ \A u \in DataTables : u # t => ClearTable(f, t).rows[u] = f.rows[u]
<1>1. f.rows \in [DataTables -> [Keys -> Values \cup {Absent}]]
  BY DEF Files
<1>2. CASE t = Meta
  <2>1. ClearTable(f, t) = [tables |-> f.tables \cup {t}, rows |-> f.rows,
                            stamps |-> [u \in Tables |-> Absent]]
    BY <1>2 DEF ClearTable, Files
  <2> QED BY <1>2, <2>1, FileAssumption
<1>3. CASE t # Meta
  <2>1. ClearTable(f, t) = [tables |-> f.tables \cup {t}, rows |-> [f.rows EXCEPT ![t] = NoRows],
                            stamps |-> f.stamps]
    BY <1>3 DEF ClearTable, Files
  <2> QED BY <1>1, <2>1
<1> QED BY <1>2, <1>3

(* Clearing one table inside clear_all keeps the invariant.                *)
LEMMA ClearKeepsInv ==
  ASSUME Inv, NEW t \in Tables, Clear(t)
  PROVE  Inv' /\ txn' # NoTxn
<1> DEFINE x == [txn EXCEPT !.image = ClearTable(@, t), !.tables = @ \ {t}]
<1>1. txn \in Txns /\ txn.call = "clear_all" /\ t \in txn.tables /\ ClearAllInv
      /\ txn # NoTxn /\ Step(x)
  BY DEF Clear, Running, Inv, TypeOK, TxnInv
<1>2. txn.image \in Files /\ ClearTable(txn.image, t) \in Files
  BY <1>1, FileOperations DEF Txns
<1>3. /\ x \in Txns /\ x.call = txn.call
      /\ x.image = ClearTable(txn.image, t)
      /\ x.tables = txn.tables \ {t} /\ x.stamps = txn.stamps
  BY <1>1, <1>2 DEF Txns
<1>4. /\ x.image.tables = Tables
      /\ t \in DataTables => x.image.rows[t] = NoRows
      /\ \A u \in DataTables : u # t => x.image.rows[u] = txn.image.rows[u]
  <2> HIDE DEF x
  <2>1. txn.image.tables = Tables
    BY <1>1 DEF ClearAllInv
  <2> QED BY <1>2, <1>3, <2>1, ClearFacts
<1>5. TypeOK' /\ OnlyWholeFilesAreRead' /\ HandleInv' /\ txn' = x /\ txn' # NoTxn /\ file' = file
  BY <1>1, <1>3, StepKeepsRest
<1>6. ClearAllInv'
  <2> HIDE DEF x
  <2>1. txn.stamps = Tables
    BY <1>1 DEF ClearAllInv, LoopOrder
  <2> QED BY <1>1, <1>3, <1>4, <1>5, <2>1 DEF ClearAllInv, LoopOrder
<1> QED BY <1>1, <1>3, <1>5, <1>6 DEF Inv, TxnInv

(* check_and_stamp of one table keeps the invariant.                       *)
LEMMA CheckAndStampKeepsInv ==
  ASSUME Inv, NEW t \in Tables, CheckAndStamp(t)
  PROVE  Inv' /\ txn' # NoTxn
<1> DEFINE i == [txn.image EXCEPT !.tables = @ \cup {Meta}, !.stamps[t] = SchemaVersions[t]]
           x == [txn EXCEPT !.image.tables = @ \cup {Meta},
                            !.image.stamps[t] = SchemaVersions[t],
                            !.stamps = @ \ {t}]
<1>1. txn \in Txns /\ txn.tables = {} /\ t \in txn.stamps
      /\ txn.image.stamps[t] \in {Absent, SchemaVersions[t]}
      /\ txn # NoTxn /\ Step(x)
  BY DEF CheckAndStamp, Inv, TypeOK
<1>2. txn.image \in Files /\ i \in Files
  BY <1>1, FileOperations DEF Txns
<1>3. /\ x \in Txns /\ x.call = txn.call /\ x.image = i
      /\ x.tables = txn.tables /\ x.stamps = txn.stamps \ {t}
  BY <1>1, <1>2 DEF Txns
<1>4. /\ i.tables = txn.image.tables \cup {Meta}
      /\ i.rows = txn.image.rows
      /\ i.stamps[t] = SchemaVersions[t]
      /\ \A u \in Tables : u # t => i.stamps[u] = txn.image.stamps[u]
  BY <1>2 DEF Files
<1>5. TypeOK' /\ OnlyWholeFilesAreRead' /\ HandleInv' /\ txn' = x /\ txn' # NoTxn /\ file' = file
  BY <1>1, <1>3, StepKeepsRest
<1>6. txn.stamps \subseteq Tables /\ Meta \in Tables
  BY <1>1 DEF Txns, Tables
<1>7. CASE txn.call = "initialize"
  <2> HIDE DEF x, i
  <2>1. InitializeInv
    BY <1>1, <1>7 DEF Inv, TxnInv
  <2>2. InitializeInv'
    BY <1>1, <1>3, <1>4, <1>5, <1>6, <2>1 DEF InitializeInv, LoopOrder
  <2> QED BY <1>3, <1>5, <1>7, <2>2 DEF Inv, TxnInv
<1>8. CASE txn.call = "clear_all"
  <2> HIDE DEF x, i
  <2>1. ClearAllInv
    BY <1>1, <1>8 DEF Inv, TxnInv
  <2>2. ClearAllInv'
    BY <1>1, <1>3, <1>4, <1>5, <1>6, <2>1 DEF ClearAllInv, LoopOrder
  <2> QED BY <1>3, <1>5, <1>8, <2>2 DEF Inv, TxnInv
<1>9. txn.call \in {"initialize", "clear_all"}
  BY <1>1 DEF Inv, TxnInv, StagedInv, Txns, Calls
<1> QED BY <1>5, <1>7, <1>8, <1>9

(* One entry of a batch, and one mutation of a write closure, put a value  *)
(* that is asked for into the image.                                       *)
LEMMA PutFacts ==
  ASSUME NEW f \in Files, f.tables = Tables, NEW t \in DataTables, NEW k \in Keys,
         NEW v \in Values \cup {Absent}
  PROVE  /\ Put(f, t, k, v) \in Files
         /\ Put(f, t, k, v).tables = Tables
         /\ Put(f, t, k, v).stamps = f.stamps
         /\ \A u \in DataTables, j \in Keys :
              Put(f, t, k, v).rows[u][j] = IF u = t /\ j = k THEN v ELSE f.rows[u][j]
<1>1. Put(f, t, k, v) \in Files
  BY FileOperations
<1>2. Put(f, t, k, v).tables = Tables /\ Put(f, t, k, v).stamps = f.stamps
  BY DEF Put, Files, Tables
<1>3. /\ Put(f, t, k, v).rows = [f.rows EXCEPT ![t][k] = v]
      /\ f.rows \in [DataTables -> [Keys -> Values \cup {Absent}]]
  BY DEF Put, Files
<1> QED BY <1>1, <1>2, <1>3

(* Replaying one entry of a batch keeps the invariant.                     *)
LEMMA ApplyEntryKeepsInv ==
  ASSUME Inv, NEW e \in Entries, ApplyEntry(e)
  PROVE  Inv' /\ txn' # NoTxn
<1> DEFINE b == [d \in DOMAIN txn.batch \ {e} |-> txn.batch[d]]
           i == Put(txn.image, e[1], e[2], txn.batch[e])
           x == [txn EXCEPT !.image = Put(@, e[1], e[2], txn.batch[e]),
                            !.batch = [d \in DOMAIN @ \ {e} |-> @[d]]]
<1>1. txn \in Txns /\ txn.call = "apply" /\ e \in DOMAIN txn.batch /\ StagedInv
      /\ txn # NoTxn /\ Step(x)
  BY DEF ApplyEntry, Running, Inv, TypeOK, TxnInv
<1>2. /\ txn.image \in Files /\ txn.image.tables = Tables
      /\ e[1] \in DataTables /\ e[2] \in Keys /\ e = <<e[1], e[2]>>
      /\ txn.batch[e] \in Values \cup {Absent} /\ b \in Batches
  <2>1. txn.batch \in Batches /\ txn.image \in Files /\ txn.image.tables = Tables
    BY <1>1 DEF Txns, StagedInv
  <2>2. b \in Batches
    BY <2>1, BatchFacts
  <2>3. txn.batch[e] \in Values \cup {Absent}
    <3>1. txn.batch \in [DOMAIN txn.batch -> Values \cup {Absent}]
      BY <2>1, BatchFacts
    <3> QED BY <1>1, <3>1
  <2> QED BY <2>1, <2>2, <2>3 DEF Entries
<1>3. /\ i \in Files /\ i.tables = Tables /\ i.stamps = txn.image.stamps
      /\ \A u \in DataTables, j \in Keys :
           i.rows[u][j] = IF u = e[1] /\ j = e[2] THEN txn.batch[e] ELSE txn.image.rows[u][j]
  BY <1>2, PutFacts
<1>4. /\ x \in Txns /\ x.call = txn.call /\ x.image = i /\ x.batch = b
      /\ x.tables = txn.tables /\ x.stamps = txn.stamps /\ x.asked = txn.asked
  BY <1>1, <1>2, <1>3 DEF Txns
<1>5. TypeOK' /\ OnlyWholeFilesAreRead' /\ HandleInv' /\ txn' = x /\ txn' # NoTxn /\ file' = file
  BY <1>1, <1>4, StepKeepsRest
<1>6. DOMAIN b = DOMAIN txn.batch \ {e} /\ \A d \in DOMAIN b : b[d] = txn.batch[d]
  OBVIOUS
<1>7. StagedInv'
  <2> HIDE DEF b, i, x
  <2>1. ASSUME NEW t \in DataTables, NEW k \in Keys
        PROVE  i.rows[t][k] = IF <<t, k>> \in DOMAIN txn.asked \ DOMAIN b
                              THEN txn.asked[<<t, k>>] ELSE file.rows[t][k]
    <3>1. txn.image.rows[t][k] = IF <<t, k>> \in DOMAIN txn.asked \ DOMAIN txn.batch
                                 THEN txn.asked[<<t, k>>] ELSE file.rows[t][k]
      BY <1>1 DEF StagedInv
    <3>2. e \in DOMAIN txn.asked /\ txn.batch[e] = txn.asked[e]
      BY <1>1 DEF StagedInv
    <3>3. CASE <<t, k>> = e
      BY <1>2, <1>3, <1>6, <3>2, <3>3
    <3>4. CASE <<t, k>> # e
      <4>1. ~(t = e[1] /\ k = e[2])
        BY <1>2, <3>4
      <4> QED BY <1>3, <1>6, <3>1, <3>4, <4>1
    <3> QED BY <3>3, <3>4
  <2>2. DOMAIN b \subseteq DOMAIN txn.asked /\ \A d \in DOMAIN b : b[d] = txn.asked[d]
    BY <1>1, <1>6 DEF StagedInv
  <2> QED BY <1>1, <1>3, <1>4, <1>5, <2>1, <2>2 DEF StagedInv
<1> QED BY <1>1, <1>4, <1>5, <1>7 DEF Inv, TxnInv

(* One write of a closure keeps the invariant.                             *)
LEMMA MutateKeepsInv ==
  ASSUME Inv, NEW t \in DataTables, NEW k \in Keys, NEW v \in Values \cup {Absent},
         Mutate(t, k, v)
  PROVE  Inv' /\ txn' # NoTxn
<1> DEFINE a == With(txn.asked, <<t, k>>, v)
           i == Put(txn.image, t, k, v)
           x == [txn EXCEPT !.image = Put(@, t, k, v), !.ops = @ + 1,
                            !.asked = With(@, <<t, k>>, v)]
<1>1. txn \in Txns /\ txn.call = "write" /\ StagedInv /\ DOMAIN txn.batch = {}
      /\ txn.ops < MaxOps /\ txn # NoTxn /\ Step(x)
  BY DEF Mutate, Running, Inv, TypeOK, TxnInv
<1>2. /\ txn.image \in Files /\ txn.image.tables = Tables
      /\ <<t, k>> \in Entries /\ a \in Batches
  BY <1>1, BatchFacts DEF Txns, StagedInv, Entries
<1>3. /\ i \in Files /\ i.tables = Tables /\ i.stamps = txn.image.stamps
      /\ \A u \in DataTables, j \in Keys :
           i.rows[u][j] = IF u = t /\ j = k THEN v ELSE txn.image.rows[u][j]
  BY <1>2, PutFacts
<1>4. txn.ops + 1 \in 0 .. MaxOps
  BY <1>1, DatabaseAssumption DEF Txns
<1>5. /\ x \in Txns /\ x.call = txn.call /\ x.image = i /\ x.batch = txn.batch
      /\ x.tables = txn.tables /\ x.stamps = txn.stamps /\ x.asked = a
  BY <1>1, <1>2, <1>3, <1>4 DEF Txns
<1>6. TypeOK' /\ OnlyWholeFilesAreRead' /\ HandleInv' /\ txn' = x /\ txn' # NoTxn /\ file' = file
  BY <1>1, <1>5, StepKeepsRest
<1>7. /\ DOMAIN a = DOMAIN txn.asked \cup {<<t, k>>}
      /\ a[<<t, k>>] = v
      /\ \A d \in DOMAIN txn.asked : d # <<t, k>> => a[d] = txn.asked[d]
  BY DEF With
<1>8. StagedInv'
  <2> HIDE DEF a, i, x
  <2>1. ASSUME NEW u \in DataTables, NEW j \in Keys
        PROVE  i.rows[u][j] = IF <<u, j>> \in DOMAIN a \ DOMAIN txn.batch
                              THEN a[<<u, j>>] ELSE file.rows[u][j]
    <3>1. txn.image.rows[u][j] = IF <<u, j>> \in DOMAIN txn.asked \ DOMAIN txn.batch
                                 THEN txn.asked[<<u, j>>] ELSE file.rows[u][j]
      BY <1>1 DEF StagedInv
    <3>2. CASE <<u, j>> = <<t, k>>
      BY <1>1, <1>3, <1>7, <3>2
    <3>3. CASE <<u, j>> # <<t, k>>
      BY <1>3, <1>7, <3>1, <3>3
    <3> QED BY <3>2, <3>3
  <2> QED BY <1>1, <1>3, <1>5, <1>6, <2>1 DEF StagedInv
<1> QED BY <1>1, <1>5, <1>6, <1>8 DEF Inv, TxnInv

-----------------------------------------------------------------------------
(* What a closure that ran to its end would install.                       *)
LEMMA DoneImage ==
  ASSUME Inv, txn # NoTxn, ClosureDone
  PROVE  /\ txn.image \in Files /\ Whole(txn.image)
         /\ txn.call = "initialize" => Compatible(file) /\ txn.image = Initialized(file)
         /\ txn.call = "clear_all" => txn.image = Wiped
         /\ txn.call \in {"write", "apply"} =>
              handle = "open" /\ txn.image = Landed(file, txn.asked)
<1>1. txn \in Txns /\ txn.image \in Files /\ file \in Files /\ txn.asked \in Batches
  BY DEF Inv, TypeOK, Txns
<1>2. txn.tables = {} /\ txn.stamps = {} /\ DOMAIN txn.batch = {}
  BY DEF ClosureDone
<1>3. SchemaVersions \in [Tables -> Versions]
  BY FileAssumption
<1>4. /\ txn.image = [tables |-> txn.image.tables, rows |-> txn.image.rows,
                      stamps |-> txn.image.stamps]
      /\ file = [tables |-> file.tables, rows |-> file.rows, stamps |-> file.stamps]
      /\ file.tables \subseteq Tables
      /\ txn.image.stamps \in [Tables -> Stamps]
      /\ txn.image.rows \in [DataTables -> [Keys -> Values \cup {Absent}]]
      /\ file.rows \in [DataTables -> [Keys -> Values \cup {Absent}]]
  BY <1>1 DEF Files
<1>5. CASE txn.call = "initialize"
  <2>1. InitializeInv
    BY <1>5 DEF Inv, TxnInv
  <2>2. Compatible(file) /\ \A t \in Tables : txn.image.stamps[t] = SchemaVersions[t]
    BY <1>2, <2>1 DEF InitializeInv, Compatible
  <2>3. txn.image.stamps = SchemaVersions
    BY <1>3, <1>4, <2>2
  <2>4. txn.image.tables = Tables /\ txn.image.rows = file.rows
    BY <1>2, <1>4, <2>1 DEF InitializeInv
  <2>5. txn.image = Initialized(file)
    BY <1>1, <1>4, <2>3, <2>4 DEF Initialized, Files
  <2> QED BY <1>1, <1>5, <2>2, <2>3, <2>4, <2>5 DEF Whole
<1>6. CASE txn.call = "clear_all"
  <2>1. ClearAllInv
    BY <1>6 DEF Inv, TxnInv
  <2>2. txn.image.stamps = SchemaVersions
    BY <1>2, <1>3, <1>4, <2>1 DEF ClearAllInv
  <2>3. txn.image.tables = Tables
    BY <2>1 DEF ClearAllInv
  <2>4. txn.image.rows = [t \in DataTables |-> NoRows]
    BY <1>2, <1>4, <2>1 DEF ClearAllInv
  <2> QED BY <1>1, <1>4, <1>6, <2>2, <2>3, <2>4 DEF Wiped, Whole
<1>7. CASE txn.call \in {"write", "apply"}
  <2>1. StagedInv
    BY <1>7 DEF Inv, TxnInv
  <2>2. handle = "open" /\ Whole(file)
    BY <1>7 DEF Inv, HandleInv, OnlyWholeFilesAreRead, TypeOK
  <2>3. txn.image.tables = file.tables /\ txn.image.stamps = file.stamps
    BY <2>1, <2>2 DEF StagedInv, Whole
  <2>4. ASSUME NEW t \in DataTables, NEW k \in Keys
        PROVE  txn.image.rows[t][k] = IF <<t, k>> \in DOMAIN txn.asked
                                      THEN txn.asked[<<t, k>>] ELSE file.rows[t][k]
    BY <1>2, <2>1 DEF StagedInv
  <2>5. txn.image.rows =
          [t \in DataTables |-> [k \in Keys |->
             IF <<t, k>> \in DOMAIN txn.asked THEN txn.asked[<<t, k>>] ELSE file.rows[t][k]]]
    BY <1>4, <2>4
  <2>6. txn.image = Landed(file, txn.asked)
    BY <1>1, <1>4, <2>3, <2>5 DEF Landed, Files
  <2> QED BY <1>1, <1>7, <2>2, <2>3, <2>6 DEF Whole
<1> QED BY <1>1, <1>5, <1>6, <1>7 DEF Txns, Calls

(* A commit installs an image that is whole.                               *)
LEMMA CommitKeepsInv ==
  ASSUME Inv, Commit
  PROVE  Inv'
<1>1. /\ txn # NoTxn /\ ClosureDone /\ file' = txn.image /\ handle' = "open"
      /\ txn' = NoTxn /\ views' = views
  BY DEF Commit
<1>2. txn.image \in Files /\ Whole(txn.image)
  BY <1>1, DoneImage
<1> QED BY <1>1, <1>2 DEF Inv, TypeOK, OnlyWholeFilesAreRead, Whole, HandleInv, TxnInv

(* The invariant holds in every reachable state.                           *)
LEMMA InvInductive == Spec => []Inv
<1>1. Init => Inv
  BY DEF Init, Inv, TypeOK, OnlyWholeFilesAreRead, HandleInv, TxnInv
<1>2. ASSUME Inv, [Next]_vars
      PROVE  Inv'
  <2>1. CASE Open \/ ClearAll \/ Write \/ (\E b \in Batches : Apply(b))
    BY <1>2, <2>1, BeginKeepsInv
  <2>2. CASE Commit
    BY <1>2, <2>2, CommitKeepsInv
  <2>3. CASE Discard
    BY <1>2, <2>3 DEF Discard, Inv, TypeOK, OnlyWholeFilesAreRead, Whole, HandleInv, TxnInv
  <2>4. CASE Crash
    BY <1>2, <2>4 DEF Crash, Inv, TypeOK, OnlyWholeFilesAreRead, Whole, HandleInv, TxnInv
  <2>5. CASE \E t \in Tables : Materialize(t) \/ Clear(t) \/ CheckAndStamp(t)
    BY <1>2, <2>5, MaterializeKeepsInv, ClearKeepsInv, CheckAndStampKeepsInv
  <2>6. CASE \E e \in Entries : ApplyEntry(e)
    BY <1>2, <2>6, ApplyEntryKeepsInv
  <2>7. CASE \E t \in DataTables, k \in Keys, v \in Values \cup {Absent} : Mutate(t, k, v)
    BY <1>2, <2>7, MutateKeepsInv
  <2>8. CASE \E r \in Readers : Read(r) \/ DropView(r)
    <3>1. PICK r \in Readers, f \in Files \cup {NoView} :
            /\ views' = [views EXCEPT ![r] = f]
            /\ f # NoView => Whole(f)
            /\ UNCHANGED <<file, handle, txn>>
      BY <1>2, <2>8 DEF Read, DropView, Inv, TypeOK, OnlyWholeFilesAreRead
    <3>2. TypeOK' /\ HandleInv'
      BY <1>2, <3>1 DEF Inv, TypeOK, HandleInv
    <3>3. OnlyWholeFilesAreRead'
      BY <1>2, <3>1 DEF Inv, TypeOK, OnlyWholeFilesAreRead, Whole
    <3>4. TxnInv'
      BY <1>2, <3>1 DEF Inv, TxnInv, InitializeInv, ClearAllInv, StagedInv, LoopOrder
    <3> QED BY <3>2, <3>3, <3>4 DEF Inv
  <2>9. CASE UNCHANGED vars
    <3>1. TypeOK' /\ HandleInv' /\ OnlyWholeFilesAreRead'
      BY <1>2, <2>9 DEF vars, Inv, TypeOK, HandleInv, OnlyWholeFilesAreRead, Whole
    <3>2. TxnInv'
      BY <1>2, <2>9 DEF vars, Inv, TxnInv, InitializeInv, ClearAllInv, StagedInv, LoopOrder
    <3> QED BY <3>1, <3>2 DEF Inv
  <2> QED
    BY <1>2, <2>1, <2>2, <2>3, <2>4, <2>5, <2>6, <2>7, <2>8, <2>9 DEF Next
<1> QED BY <1>1, <1>2, PTL DEF Spec

(* A file that is open, and every view of it, has all tables and the       *)
(* stamps of the program, whatever failed before (Database::open,          *)
(* clear_all and version::check_and_stamp).                                *)
THEOREM OnlyWholeFilesAreReadAlways == Spec => []OnlyWholeFilesAreRead
<1>1. Inv => OnlyWholeFilesAreRead
  BY DEF Inv
<1> QED BY <1>1, InvInductive, PTL

-----------------------------------------------------------------------------
(* How the steps of a closure look from outside.                           *)
LEMMA LoopStepFacts ==
  ASSUME txn \in Txns,
         \/ \E t \in Tables : Materialize(t) \/ Clear(t) \/ CheckAndStamp(t)
         \/ \E e \in Entries : ApplyEntry(e)
  PROVE  /\ file' = file /\ handle' = handle
         /\ txn'.call = txn.call /\ txn'.asked = txn.asked
  BY DEF Materialize, Clear, CheckAndStamp, ApplyEntry, Step, Txns

(* A write of a closure changes only what the transaction holds.           *)
LEMMA MutateFacts ==
  ASSUME txn \in Txns, NEW t \in DataTables, NEW k \in Keys, NEW v \in Values \cup {Absent},
         Mutate(t, k, v)
  PROVE  /\ file' = file /\ handle' = handle
         /\ txn'.call = txn.call /\ txn'.asked = With(txn.asked, <<t, k>>, v)
  BY DEF Mutate, Step, Txns

(* The instance of AtomicFile names the same values.                       *)
LEMMA SameValues ==
  /\ Atomic!Files = Files
  /\ Atomic!Batches = Batches /\ Atomic!Entries = Entries /\ Atomic!Calls = Calls
  /\ Atomic!Wiped = Wiped
  /\ \A f : /\ Atomic!WellFormed(f) <=> WellFormed(f)
            /\ Atomic!Compatible(f) <=> Compatible(f)
            /\ Atomic!Initialized(f) = Initialized(f)
            /\ \A b : Atomic!Landed(f, b) = Landed(f, b)
  /\ \A b, e, v : Atomic!With(b, e, v) = With(b, e, v)
<1>1. Atomic!Tables = Tables /\ Atomic!Stamps = Stamps /\ Atomic!NoRows = NoRows
      /\ Atomic!Entries = Entries /\ Atomic!Calls = Calls
  BY DEF Atomic!Tables, Tables, Atomic!Stamps, Stamps, Atomic!NoRows, NoRows,
         Atomic!Entries, Entries, Atomic!Calls, Calls
<1>2. Atomic!Files = Files
  BY <1>1 DEF Atomic!Files, Files
<1>3. Atomic!Batches = Batches
  BY <1>1 DEF Atomic!Batches, Batches
<1>4. Atomic!Wiped = Wiped
  BY <1>1 DEF Atomic!Wiped, Wiped
<1>5. ASSUME NEW f
      PROVE  /\ Atomic!WellFormed(f) <=> WellFormed(f)
             /\ Atomic!Compatible(f) <=> Compatible(f)
             /\ Atomic!Initialized(f) = Initialized(f)
             /\ \A b : Atomic!Landed(f, b) = Landed(f, b)
  BY <1>1 DEF Atomic!WellFormed, WellFormed, Atomic!Compatible, Compatible,
              Atomic!Initialized, Initialized, Atomic!Landed, Landed
<1>6. \A b, e, v : Atomic!With(b, e, v) = With(b, e, v)
  BY DEF Atomic!With, With
<1> QED BY <1>1, <1>2, <1>3, <1>4, <1>5, <1>6

(* The engine calls of Database::write, apply, clear_all and open          *)
(* implement operations that happen as a whole or not at all.              *)
THEOREM AtomicFileImplemented == Spec => ImplementsAtomicFile
<1>1. Init => Atomic!Init
  BY SameValues DEF Init, Atomic!Init, Requested
<1>2. ASSUME Inv, [Next]_vars
      PROVE  [Atomic!Next]_(Atomic!fileVars)
  <2> USE DEF Requested
  <2>1. ASSUME txn # NoTxn
        PROVE  /\ txn \in Txns
               /\ Requested = [call |-> txn.call, batch |-> txn.asked]
               /\ Requested \in Requests /\ Requested # NoRequest
    BY <1>2, <2>1, FileAssumption DEF Inv, TypeOK, Txns, Requests
  <2>2. CASE Open \/ ClearAll \/ Write \/ (\E b \in Batches : Apply(b))
    <3>1. PICK call \in Calls, batch \in Batches :
            /\ txn = NoTxn /\ txn' \in Txns
            /\ txn'.call = call /\ txn'.asked = batch
            /\ file' = file
            /\ IF call = "initialize" THEN handle = "closed" /\ handle' = "opening"
                                      ELSE handle = "open" /\ handle' = "open"
      <4>1. CASE Open
        BY <1>2, <2>2, <4>1, EmptyBatchFacts, BeginIsTyped DEF Open, Begin, Calls
      <4>2. CASE ClearAll
        BY <1>2, <2>2, <4>2, EmptyBatchFacts, BeginIsTyped DEF ClearAll, Begin, Calls
      <4>3. CASE Write
        BY <1>2, <2>2, <4>3, EmptyBatchFacts, BeginIsTyped DEF Write, Begin, Calls
      <4>4. CASE \E b \in Batches : Apply(b)
        BY <1>2, <2>2, <4>4, BeginIsTyped DEF Apply, Begin, Calls
      <4> QED BY <2>2, <4>1, <4>2, <4>3, <4>4
    <3>2. txn' # NoTxn
      BY <3>1, DatabaseAssumption
    <3>3. Requested = NoRequest /\ Requested' = [call |-> call, batch |-> batch]
      BY <3>1, <3>2
    <3>4. Atomic!Call(call, batch)
      BY <3>1, <3>3, SameValues DEF Atomic!Call
    <3> QED BY <3>4, SameValues DEF Atomic!Next
  <2>3. CASE Commit
    <3>1. /\ txn # NoTxn /\ ClosureDone /\ file' = txn.image /\ handle' = "open" /\ txn' = NoTxn
      BY <2>3 DEF Commit
    <3>2. Requested' = NoRequest
      BY <3>1
    <3>3. /\ Requested.call = "initialize" => Compatible(file) /\ file' = Initialized(file)
          /\ Requested.call = "clear_all" => file' = Wiped
          /\ Requested.call \in {"write", "apply"} => file' = Landed(file, Requested.batch)
          /\ Requested.call \in Calls
      BY <1>2, <2>1, <3>1, DoneImage DEF Txns
    <3>4. Atomic!Land
      BY <2>1, <3>1, <3>2, <3>3, SameValues DEF Atomic!Land, Calls
    <3> QED BY <3>4, SameValues DEF Atomic!Next
  <2>4. CASE Discard
    <3>1. Atomic!Fail
      BY <1>2, <2>1, <2>4 DEF Discard, Atomic!Fail, Inv, HandleInv, TypeOK
    <3> QED BY <3>1 DEF Atomic!Next
  <2>5. CASE Crash
    <3>1. Atomic!Close
      BY <2>5 DEF Crash, Atomic!Close
    <3> QED BY <3>1 DEF Atomic!Next
  <2>6. CASE \E t \in Tables : Materialize(t) \/ Clear(t) \/ CheckAndStamp(t)
    <3>1. /\ txn # NoTxn /\ txn' # NoTxn /\ file' = file /\ handle' = handle
          /\ txn'.call = txn.call /\ txn'.asked = txn.asked
      BY <1>2, <2>1, <2>6, LoopStepFacts, MaterializeKeepsInv, ClearKeepsInv,
         CheckAndStampKeepsInv DEF Materialize, Clear, CheckAndStamp, Running
    <3> QED BY <3>1 DEF Atomic!fileVars
  <2>7. CASE \E e \in Entries : ApplyEntry(e)
    <3>1. /\ txn # NoTxn /\ txn' # NoTxn /\ file' = file /\ handle' = handle
          /\ txn'.call = txn.call /\ txn'.asked = txn.asked
      BY <1>2, <2>1, <2>7, LoopStepFacts, ApplyEntryKeepsInv DEF ApplyEntry, Running
    <3> QED BY <3>1 DEF Atomic!fileVars
  <2>8. CASE \E t \in DataTables, k \in Keys, v \in Values \cup {Absent} : Mutate(t, k, v)
    <3>1. PICK t \in DataTables, k \in Keys, v \in Values \cup {Absent} : Mutate(t, k, v)
      BY <2>8
    <3>2. /\ txn # NoTxn /\ txn.call = "write" /\ file' = file /\ handle' = handle
          /\ txn'.call = "write" /\ txn'.asked = With(txn.asked, <<t, k>>, v) /\ txn' # NoTxn
      BY <1>2, <2>1, <3>1, MutateFacts, MutateKeepsInv DEF Mutate, Running
    <3>3. Requested' = [Requested EXCEPT !.batch = With(@, <<t, k>>, v)]
      BY <2>1, <3>2
    <3>4. Atomic!Stage(<<t, k>>, v)
      BY <2>1, <3>2, <3>3, SameValues DEF Atomic!Stage
    <3>5. <<t, k>> \in Entries
      BY DEF Entries
    <3> QED BY <3>4, <3>5, SameValues DEF Atomic!Next
  <2>9. CASE (\E r \in Readers : Read(r) \/ DropView(r)) \/ UNCHANGED vars
    BY <2>9 DEF Read, DropView, vars, Atomic!fileVars
  <2> QED
    BY <1>2, <2>2, <2>3, <2>4, <2>5, <2>6, <2>7, <2>8, <2>9 DEF Next
<1> QED BY <1>1, <1>2, InvInductive, PTL DEF Spec, ImplementsAtomicFile, Atomic!Spec
=============================================================================
