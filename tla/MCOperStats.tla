----------------------------- MODULE MCOperStats -----------------------------
(* Values for OperStats' constants. *)
EXTENDS OperStats

CONSTANTS p1, p2, f1, f2, f3, k1, k2, k3

OneParser == {p1}
TwoParsers == {p1, p2}
TwoFiles == {f1, f2}
ThreeFiles == {f1, f2, f3}
ThreeKeys == {k1, k2, k3}

\* Two statistics of one day, one of the next.
TwoDays == [k \in Keys |-> IF k = k3 THEN 2 ELSE 1]

Counted(k) == [key |-> k, counted |-> TRUE]
Ignored(k) == [key |-> k, counted |-> FALSE]

\* f1 has a key twice; f3 meets the keys in the other order and holds the
\* second day.  The sizes differ, so that a deadlock has one possible victim.
ThreeContents ==
  [f \in Files |->
     IF f = f1 THEN <<Counted(k1), Counted(k2), Counted(k1)>>
     ELSE IF f = f2 THEN <<Counted(k1), Counted(k2)>>
     ELSE <<Counted(k2), Ignored(k3), Counted(k1), Counted(k3)>>]

OneContent == [f \in Files |-> <<Counted(k1)>>]
===============================================================================
