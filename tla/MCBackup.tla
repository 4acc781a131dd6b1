------------------------------- MODULE MCBackup -------------------------------
(* Values for Backup's constants. *)
EXTENDS Backup, TLC

CONSTANTS r1, r2, f1, f2, f3

TwoRuns == {r1, r2}
ThreeFiles == {f1, f2, f3}

\* Two files of a day, another one of the next.
Dates == f1 :> 1 @@ f2 :> 1 @@ f3 :> 2

Symmetry == Permutations(TwoRuns) \union Permutations({f1, f2})
===============================================================================
