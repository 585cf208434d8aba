----------------------------- MODULE MCEventLoop -----------------------------
(* An instance of EventLoop for TLC: one task that may call Stop() at any  *)
(* moment, any number of times.                                            *)
EXTENDS EventLoop

CONSTANT s1

OneStopper == {s1}
=============================================================================
