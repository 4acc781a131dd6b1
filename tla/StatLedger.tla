------------------------------ MODULE StatLedger ------------------------------
(***************************************************************************)
(* What OPER_STAT is for: per key (operators, hubs, date, status, errors)  *)
(* the number of records that the loaded files hold.  A file is posted     *)
(* once, and all its records count at that moment.                         *)
(***************************************************************************)
EXTENDS Naturals

CONSTANTS Files, Keys,
          Holds         \* [Files -> [Keys -> Nat]], records of a file per key

VARIABLES posted, total

Init == posted = {} /\ total = [k \in Keys |-> 0]

Post(f) ==
  /\ f \notin posted
  /\ posted' = posted \union {f}
  /\ total' = [k \in Keys |-> total[k] + Holds[f][k]]

Next == \E f \in Files : Post(f)

Spec == Init /\ [][Next]_<<posted, total>>
===============================================================================
