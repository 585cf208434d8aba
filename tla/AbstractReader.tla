--------------------------- MODULE AbstractReader ---------------------------
(***************************************************************************)
(* What rs_nfc_reader.h promises of a non-blocking read, seen from outside *)
(* (rs_nfc_reader.h:283-299): a read is accepted, runs, may be asked once  *)
(* to stop, ends, and then calls back exactly once.  There is one at a     *)
(* time.  ReadApi is shown to implement it.                                *)
(***************************************************************************)
VARIABLE phase

Phase == {"idle", "running", "stopping", "ended"}

Init == phase = "idle"

\* Read() returns RS_OK.
Accept == phase = "idle" /\ phase' = "running"

\* Stop() is granted.
Stop == phase = "running" /\ phase' = "stopping"

\* The operation completes, stopped or not. It need not: "Set to
\* UINT32_MAX to loop forever (never return)" (rs_nfc_reader.h:222).
Complete == phase \in {"running", "stopping"} /\ phase' = "ended"

\* The operation-end callback.
CallBack == phase = "ended" /\ phase' = "idle"

Next == Accept \/ Stop \/ Complete \/ CallBack

Safety == Init /\ [][Next]_phase

\* A read that has completed calls back.
Spec == Safety /\ WF_phase(CallBack)
=============================================================================
