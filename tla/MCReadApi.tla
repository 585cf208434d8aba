------------------------------ MODULE MCReadApi ------------------------------
(* Instances of ReadApi for TLC: three tasks that call the API.            *)
EXTENDS ReadApi, TLC

CONSTANTS c1, c2, c3

ThreeCallers == {c1, c2, c3}

CallerSymmetry == Permutations(ThreeCallers)
=============================================================================
