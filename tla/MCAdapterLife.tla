---------------------------- MODULE MCAdapterLife ----------------------------
(* An instance of AdapterLife for TLC: of every field of the configuration *)
(* a value that is refused and one, at its limit, that is accepted.        *)
EXTENDS AdapterLife

SmallMasks == {0, 1}
SmallTimeouts == {0, 1}
SmallLimits == {0, 1, NdefMax, NdefMax + 1}
=============================================================================
