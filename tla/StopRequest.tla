----------------------------- MODULE StopRequest -----------------------------
(***************************************************************************)
(* rs_nfc_reader_Stop() as called by other tasks while one task reads:     *)
(* every access to the shared flags and to the waiting task's handle is a  *)
(* step of its own.  EventLoop and SingleShot run it beside a Read().      *)
(***************************************************************************)
EXTENDS PtxWait

CONSTANT Stoppers    \* the tasks that may call rs_nfc_reader_Stop

VARIABLES
  g_stop_requested,
  g_reader_active,
  spc                \* spc[s]: where task s is inside rs_nfc_reader_Stop

flagVars == <<g_stop_requested, g_reader_active>>

Spc == {"idle", "flag", "set", "wake", "notify"}

StopTypeOK ==
  /\ g_stop_requested \in BOOLEAN
  /\ g_reader_active \in BOOLEAN
  /\ spc \in [Stoppers -> Spc]

StopInit ==
  /\ g_stop_requested = FALSE /\ g_reader_active = FALSE
  /\ spc = [s \in Stoppers |-> "idle"]

StopAt(s, from, to) ==
  /\ spc[s] = from
  /\ spc' = [spc EXCEPT ![s] = to]

\* Entry. A call with nothing to stop returns at once and changes nothing.
Stop(s) ==
  /\ StopAt(s, "idle", "flag")
  /\ g_reader_active
  /\ UNCHANGED <<waitVars, chipVars, flagVars>>

\* A stop already requested is rejected.
StopFlag(s) ==
  /\ \/ StopAt(s, "flag", "set") /\ ~g_stop_requested
     \/ StopAt(s, "flag", "idle") /\ g_stop_requested
  /\ UNCHANGED <<waitVars, chipVars, flagVars>>

StopSet(s) ==
  /\ StopAt(s, "set", "wake")
  /\ g_stop_requested' = TRUE
  /\ UNCHANGED <<waitVars, chipVars, g_reader_active>>

\* rs_nfc_ptx_wake_waiting_task: the handle is read once ...
StopWake(s) ==
  /\ \/ StopAt(s, "wake", "notify") /\ g_waiting_task # "NULL"
     \/ StopAt(s, "wake", "idle") /\ g_waiting_task = "NULL"
  /\ UNCHANGED <<waitVars, chipVars, flagVars>>

\* ... and notified, whether or not that task still waits.
StopNotify(s) ==
  /\ StopAt(s, "notify", "idle")
  /\ notified' = TRUE
  /\ UNCHANGED <<g_waiting_task, irqCallback, timeVars, wpc, st, out_status,
                 chipVars, flagVars>>

StopStep(s) == StopFlag(s) \/ StopSet(s) \/ StopWake(s) \/ StopNotify(s)
=============================================================================
