------------------------------ MODULE AtomicFile ------------------------------
(***************************************************************************)
(* What crates/database promises about the file it keeps: a value that     *)
(* whole operations replace, one at a time.  An open file is complete and  *)
(* stamped with the schema versions of the program; a file of another      *)
(* schema is refused and left as it is; a write or apply lands exactly     *)
(* what its caller asked for, a wipe leaves nothing but the stamps, and an *)
(* operation that fails leaves no trace.  Module Database does all of this *)
(* in many steps, and implements this one.                                 *)
(***************************************************************************)
EXTENDS FileValues

VARIABLES
  file,     \* the contents
  open,     \* does a program own the file?
  request   \* the operation that was called and has not returned, or NoRequest

fileVars == <<file, open, request>>

Init ==
  /\ file \in {f \in Files : WellFormed(f)}
  /\ open = FALSE
  /\ request = NoRequest

Call(call, batch) ==
  /\ request = NoRequest
  /\ open <=> call # "initialize"
  /\ request' = [call |-> call, batch |-> batch]
  /\ UNCHANGED <<file, open>>

(* A write closure adds to what it asks for while it runs.                 *)
Stage(e, v) ==
  /\ request # NoRequest
  /\ request.call = "write"
  /\ request' = [request EXCEPT !.batch = With(@, e, v)]
  /\ UNCHANGED <<file, open>>

Land ==
  /\ request # NoRequest
  /\ CASE request.call = "initialize" -> Compatible(file) /\ file' = Initialized(file)
       [] request.call = "clear_all"  -> file' = Wiped
       [] OTHER                       -> file' = Landed(file, request.batch)
  /\ open' = TRUE
  /\ request' = NoRequest

Fail ==
  /\ request # NoRequest
  /\ request' = NoRequest
  /\ UNCHANGED <<file, open>>

Close ==
  /\ open' = FALSE
  /\ request' = NoRequest
  /\ UNCHANGED file

Next ==
  \/ \E call \in Calls, batch \in Batches : Call(call, batch)
  \/ \E e \in Entries, v \in Values \cup {Absent} : Stage(e, v)
  \/ Land \/ Fail \/ Close

Spec == Init /\ [][Next]_fileVars
=============================================================================
