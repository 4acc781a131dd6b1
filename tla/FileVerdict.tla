------------------------------ MODULE FileVerdict ------------------------------
(***************************************************************************)
(* What a reader of the spool promises about one file: it takes nothing    *)
(* from the file before the file is whole, and then comes, whenever and    *)
(* however often it looks, to a verdict that the content alone decides.    *)
(***************************************************************************)
VARIABLES
  whole,        \* the file's last line is there
  fates,        \* the verdicts its content allows
  verdict       \* the reader's, if it has come to one

vars == <<whole, fates, verdict>>

\* The file may be there when the reader first looks.
Init == whole \in BOOLEAN /\ verdict = "none"

Finish ==
  /\ ~whole /\ whole' = TRUE
  /\ UNCHANGED <<fates, verdict>>

\* "closed": the file could not even be opened.
Decide ==
  /\ verdict = "none"
  /\ verdict' \in {"closed"} \union (IF whole THEN fates ELSE {"refused"})
  /\ UNCHANGED <<whole, fates>>

Retry ==
  /\ verdict \notin {"none", "good", "crash"}
  /\ verdict' = "none"
  /\ UNCHANGED <<whole, fates>>

Next == Finish \/ Decide \/ Retry

Spec == Init /\ [][Next]_vars
===============================================================================
