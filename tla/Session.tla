------------------------------- MODULE Session -------------------------------
(***************************************************************************)
(* rs_nfc_reader_Read() on its blocking path and rs_nfc_read_blocking():   *)
(* what happens before and after the body that waits for cards.  EventLoop *)
(* (with an on_card_event callback) and SingleShot (without) are the two   *)
(* bodies.                                                                 *)
(***************************************************************************)
EXTENDS StopRequest

VARIABLES
  pc,            \* where the reading task is
  ret,           \* what rs_nfc_read_blocking will return
  g_ptx_opened

sessionVars == <<pc, ret, g_ptx_opened>>

ReadStatus == {"RS_OK", "RS_ERR_INTERNAL", "RS_ERR_TIMEOUT", "RS_ERR_NOT_FOUND"}
SessionPc  == {"idle", "open", "discover", "deactivate", "close", "finish"}

SessionTypeOK(bodyPc) ==
  /\ pc \in SessionPc \cup bodyPc
  /\ ret \in ReadStatus
  /\ g_ptx_opened \in BOOLEAN

SessionInit == pc = "idle" /\ ret = "RS_OK" /\ g_ptx_opened = FALSE

\* rs_nfc_reader_Read, before rs_nfc_read_blocking.
Read ==
  /\ pc = "idle"
  /\ pc' = "open"
  /\ g_stop_requested' = FALSE
  /\ g_reader_active' = TRUE
  /\ ret' = "RS_OK"
  /\ UNCHANGED <<waitVars, chipVars, spc, g_ptx_opened>>

\* rs_nfc_ptx_open: a failure returns at once, without rs_nfc_ptx_close.
Open ==
  /\ pc = "open"
  /\ \/ /\ linkOk
        /\ g_ptx_opened' = TRUE /\ pc' = "discover"
        /\ UNCHANGED ret
     \/ /\ ret' = "RS_ERR_INTERNAL" /\ pc' = "finish"
        /\ UNCHANGED g_ptx_opened
  /\ UNCHANGED <<waitVars, chipVars, flagVars, spc>>

\* rs_nfc_ptx_start_discovery succeeds and the body begins at pc = body.
StartDiscovery(body) ==
  /\ pc = "discover"
  /\ linkOk
  /\ pc' = body
  /\ chip' = "NO_CARD"
  /\ UNCHANGED <<waitVars, sysOk, linkOk, flagVars, spc, ret, g_ptx_opened>>

\* It fails: rs_nfc_ptx_close, then return. RS_ERR_INVALID_CFG cannot be: the
\* board's configuration enables every poll type.
DiscoveryFails ==
  /\ pc = "discover"
  /\ pc' = "finish" /\ ret' = "RS_ERR_INTERNAL"
  /\ g_ptx_opened' = FALSE
  /\ UNCHANGED <<waitVars, chipVars, flagVars, spc>>

\* rs_nfc_ptx_deactivate restarts discovery, unless the transfer fails.
Deactivated == chip' = IF linkOk THEN "NO_CARD" ELSE chip

Deactivate ==
  /\ pc = "deactivate"
  /\ pc' = "close"
  /\ Deactivated
  /\ UNCHANGED <<waitVars, sysOk, linkOk, flagVars, spc, ret, g_ptx_opened>>

Close ==
  /\ pc = "close"
  /\ pc' = "finish"
  /\ g_ptx_opened' = FALSE
  /\ UNCHANGED <<waitVars, chipVars, flagVars, spc, ret>>

\* rs_nfc_reader_Read after rs_nfc_read_blocking.
Finish ==
  /\ pc = "finish"
  /\ pc' = "idle"
  /\ g_reader_active' = FALSE
  /\ UNCHANGED <<waitVars, chipVars, g_stop_requested, spc, ret, g_ptx_opened>>
=============================================================================
