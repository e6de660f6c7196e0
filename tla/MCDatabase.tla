------------------------------ MODULE MCDatabase ------------------------------
(***************************************************************************)
(* The program's version of every table is 1, as in SCHEMA_VERSIONS.       *)
(***************************************************************************)
EXTENDS Database

VersionOne == [t \in Tables |-> 1]
=============================================================================
