------------------------------ MODULE FileValues ------------------------------
(***************************************************************************)
(* The contents of the database file, as crates/database sees them: the    *)
(* registered tables, their rows and the schema version stamps, and what   *)
(* each operation as a whole makes of them.                                *)
(***************************************************************************)
EXTENDS Integers

CONSTANTS
  DataTables,     \* the registered tables but meta
  Meta,           \* the table of version stamps
  Keys, Values,   \* keys and values of the data tables
  SchemaVersions, \* the version of every table in this program
  Versions,       \* the versions a stamp can name
  Malformed,      \* a stamp that is not four bytes long
  Absent,         \* no row with this key
  NoRequest       \* no operation is under way

Tables == DataTables \cup {Meta}

Stamps == Versions \cup {Malformed, Absent}

(* The file: which tables exist, the rows of the data tables, and the rows *)
(* of meta, one stamp per registered table.                                *)
Files ==
  [tables : SUBSET Tables,
   rows   : [DataTables -> [Keys -> Values \cup {Absent}]],
   stamps : [Tables -> Stamps]]

NoRows == [k \in Keys |-> Absent]

(* A table that does not exist has no rows.                                *)
WellFormed(f) ==
  /\ \A t \in DataTables : t \notin f.tables => f.rows[t] = NoRows
  /\ Meta \notin f.tables => \A t \in Tables : f.stamps[t] = Absent

(* Data that pre-dates stamping counts as the current version.             *)
Compatible(f) == \A t \in Tables : f.stamps[t] \in {Absent, SchemaVersions[t]}

Initialized(f) == [f EXCEPT !.tables = Tables, !.stamps = SchemaVersions]

(* A batch names some rows and gives each a new value or a tombstone.      *)
Entries == DataTables \X Keys
Batches == UNION {[S -> Values \cup {Absent}] : S \in SUBSET Entries}

With(batch, e, v) ==
  [d \in DOMAIN batch \cup {e} |-> IF d = e THEN v ELSE batch[d]]

Landed(f, batch) ==
  [f EXCEPT !.rows =
     [t \in DataTables |-> [k \in Keys |->
        IF <<t, k>> \in DOMAIN batch THEN batch[<<t, k>>] ELSE f.rows[t][k]]]]

Wiped ==
  [tables |-> Tables, rows |-> [t \in DataTables |-> NoRows], stamps |-> SchemaVersions]

Calls == {"initialize", "write", "apply", "clear_all"}

Requests == [call : Calls, batch : Batches]

ASSUME FileAssumption ==
  /\ Meta \notin DataTables
  /\ SchemaVersions \in [Tables -> Versions]
  /\ Absent \notin Values \cup Versions
  /\ Malformed \notin Versions \cup {Absent}
  /\ NoRequest \notin Requests
=============================================================================
