------------------------------- MODULE LoadOnce -------------------------------
(***************************************************************************)
(* What the loader promises about the database, and nothing about how: all *)
(* that a CDR file contributes (its row in processed_files, its rows in    *)
(* CDRs, its counts in OPER_STAT) appears in one step and is never taken   *)
(* back; and as long as nothing has happened that the loader cannot see,   *)
(* a file is stored once.                                                  *)
(***************************************************************************)
EXTENDS Naturals

CONSTANTS
  Files,          \* the CDR files that may ever arrive
  Tables          \* what a file contributes to

VARIABLES
  rows,           \* per file and table: how often the contribution is stored
  quiet           \* nothing of this kind has happened yet

vars == <<rows, quiet>>

Init ==
  /\ rows = [f \in Files |-> [t \in Tables |-> 0]]
  /\ quiet = TRUE

\* A file is stored; after the disturbance maybe not for the first time.
Load(f) ==
  /\ quiet' => \A t \in Tables : rows[f][t] = 0
  /\ rows' = [rows EXCEPT ![f] = [t \in Tables |-> @[t] + 1]]

Next ==
  /\ quiet' => quiet
  /\ UNCHANGED rows \/ \E f \in Files : Load(f)

Spec == Init /\ [][Next]_vars
===============================================================================
