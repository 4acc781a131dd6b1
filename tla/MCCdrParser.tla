----------------------------- MODULE MCCdrParser -----------------------------
(* Values for CdrParser's constants. *)
EXTENDS CdrParser, TLC

CONSTANTS w1, w2, w3, f1, f2, f3

OneWorker == {w1}
TwoWorkers == {w1, w2}
ThreeWorkers == {w1, w2, w3}
OneFile == {f1}
ThreeFiles == {f1, f2, f3}

Symmetry == Permutations(Workers)

Strikes(kinds) == [k \in FaultKinds |-> IF k \in kinds THEN 1 ELSE 0]

AllFaults == Strikes(FaultKinds)
NoFault == Strikes({})
OnlyLate == Strikes({"late"})
Unsignalled == Strikes(FaultKinds \ {"term", "stray"})

AllGood == [f \in Files |-> "good"]
AllEmpty == [f \in Files |-> "empty"]
OneOfEach == f1 :> "good" @@ f2 :> "bad" @@ f3 :> "empty"

\* No SGW file name matches another one when its underscores are wildcards.
ItselfOnly == [f \in Files |-> {f}]
===============================================================================
