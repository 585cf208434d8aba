------------------------------ MODULE MCClient ------------------------------
(* Instances of Client for TLC: two application tasks and the callbacks.   *)
EXTENDS Client

CONSTANTS c1, c2, w

AppAndCallbacks == {c1, c2, w}
=============================================================================
