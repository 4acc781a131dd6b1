---------------------------- MODULE MCNameTables ----------------------------
(* Values for NameTables' constants. *)
EXTENDS NameTables, TLC

CONSTANTS p1, p2, f1, f2, f3, o1, o2, h1

OneParser == {p1}
TwoParsers == {p1, p2}
OneFile == {f1}
ThreeFiles == {f1, f2, f3}
Symmetry == Permutations(Parsers)
ThreeNames == {o1, o2, h1}

TwoTables == [n \in Names |-> IF n = h1 THEN "hubs" ELSE "operators"]

\* One record each: an operator on both sides; another operator and a hub as
\* senders; the first operator and the same hub as senders.
Contents ==
  [f \in Files |->
     IF f = f1 THEN <<o1, o1, h1, NoName>>
     ELSE IF f = f2 THEN <<NoName, o2, NoName, h1>>
     ELSE <<NoName, o1, NoName, h1>>]
===============================================================================
