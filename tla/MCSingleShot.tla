---------------------------- MODULE MCSingleShot ----------------------------
(* Instances of SingleShot for TLC: one task that calls Stop().            *)
EXTENDS SingleShot

CONSTANT s1

OneStopper == {s1}
=============================================================================
