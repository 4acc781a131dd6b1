----------------------------- MODULE MCSupervised -----------------------------
(* Values for Supervised's constants. *)
EXTENDS Supervised, TLC

CONSTANTS w1, w2, w3, f1

TwoWorkers == {w1, w2}
ThreeWorkers == {w1, w2, w3}
OneFile == {f1}

Symmetry == Permutations(Workers)

OnceEach == [k \in FaultKinds |-> IF k \in {"error", "term", "kill", "reboot"} THEN 1 ELSE 0]

AllGood == [f \in Files |-> "good"]
ItselfOnly == [f \in Files |-> {f}]
===============================================================================
