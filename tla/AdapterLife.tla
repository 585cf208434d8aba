------------------------------ MODULE AdapterLife ------------------------------
(***************************************************************************)
(* rs_nfc_reader_Read() in its blocking form, seen from the adapter: the   *)
(* validation of the configuration, the calls by which rs_nfc_ptx_open()   *)
(* brings up the reader and that may each fail, the start of discovery     *)
(* and rs_nfc_ptx_close().  Session has the whole of rs_nfc_ptx_open as    *)
(* one step; this module is shown to implement it.                         *)
(*                                                                         *)
(* The peripherals and the SDK are external: a call succeeds or fails.     *)
(* One task reads. Where blocking reads overlap (see ReadApi), one would    *)
(* find the adapter opened by the other: the check of the dependencies,    *)
(* which refuses every read here, would pass.                              *)
(***************************************************************************)
EXTENDS Naturals, Sequences

CONSTANTS
  Masks, Timeouts, NdefLimits,  \* values of cfg->tech_mask, timeout_ms and
                                \* max_ndef_bytes
  NdefMax                       \* RS_NFC_NDEF_MAX_BYTES

ASSUME LifeAssumption ==
  /\ Masks \subseteq Nat /\ Timeouts \subseteq Nat /\ NdefLimits \subseteq Nat
  /\ NdefMax \in Nat

VARIABLES
  pc,                        \* where the reading task is
  cfg,                       \* the configuration of the Read() in progress
  g_ptx_opened,
  g_active_reg,              \* the card registry kept: "null" or "reg"
  g_start_temp_calibration,
  calibrate,                 \* init_params asks for a calibration
  up,                        \* the calls of this rs_nfc_ptx_open that succeeded
  sdkUp,                     \* the SDK is initialised
  calibrations,              \* opens since power-up that asked the SDK for a
                             \* calibration (to 2)
  openFailed,                \* some rs_nfc_ptx_open has failed
  ret,                       \* what rs_nfc_read_blocking will return
  answer                     \* what the last Read() returned

openVars == <<g_ptx_opened, g_active_reg, g_start_temp_calibration, calibrate>>
chipVars == <<up, sdkUp, calibrations>>
vars == <<pc, cfg, openVars, chipVars, openFailed, ret, answer>>

Config == [cfg_valid_check_en : BOOLEAN, validate_dependencies : BOOLEAN,
           tech_mask : Masks, timeout_ms : Timeouts,
           read_ndef : BOOLEAN, max_ndef_bytes : NdefLimits]

\* The calls that open the peripherals, in their order.
Peripheral == <<"gpio", "timer", "app_timer", "spi">>
PeripheralPc == {Peripheral[i] : i \in 1..4}
OpenPc == {"open", "init", "reinit"} \cup PeripheralPc

ReadStatus == {"RS_OK", "RS_ERR_INTERNAL", "RS_ERR_TIMEOUT", "RS_ERR_NOT_FOUND"}

TypeOK ==
  /\ pc \in {"idle", "discover", "body", "deactivate", "close", "finish"} \cup OpenPc
  /\ cfg \in Config \cup {<<>>}
  /\ g_ptx_opened \in BOOLEAN
  /\ g_active_reg \in {"null", "reg"}
  /\ g_start_temp_calibration \in BOOLEAN
  /\ calibrate \in BOOLEAN
  /\ up \subseteq PeripheralPc
  /\ sdkUp \in BOOLEAN
  /\ calibrations \in 0..2
  /\ openFailed \in BOOLEAN
  /\ ret \in ReadStatus
  /\ answer \in ReadStatus \cup {"RS_ERR_INVALID_CFG", "RS_ERR_DEPENDENCY"}

\* Power-up.
Init ==
  /\ pc = "idle" /\ cfg = <<>>
  /\ g_ptx_opened = FALSE /\ g_active_reg = "null"
  /\ g_start_temp_calibration = TRUE /\ calibrate = FALSE
  /\ up = {} /\ sdkUp = FALSE /\ calibrations = 0 /\ openFailed = FALSE
  /\ ret = "RS_OK" /\ answer = "RS_OK"

-----------------------------------------------------------------------------
(* rs_nfc_reader_Read() before rs_nfc_read_blocking().                     *)

\* rs_nfc_reader_validate_deps: with one reader the adapter is closed here.
Dependencies == IF g_ptx_opened THEN "RS_OK" ELSE "RS_ERR_DEPENDENCY"

FieldsValid(c) ==
  /\ c.tech_mask # 0 /\ c.timeout_ms # 0
  /\ c.read_ndef => c.max_ndef_bytes \in 1..NdefMax

\* rs_nfc_reader_validate, where the configuration asks for it.
Validate(c) ==
  IF ~c.cfg_valid_check_en THEN "RS_OK"
  ELSE IF ~FieldsValid(c) THEN "RS_ERR_INVALID_CFG"
  ELSE IF c.validate_dependencies THEN Dependencies
  ELSE "RS_OK"

Refuse(c) ==
  /\ pc = "idle" /\ Validate(c) # "RS_OK"
  /\ answer' = Validate(c)
  /\ UNCHANGED <<pc, cfg, openVars, chipVars, openFailed, ret>>

Read(c) ==
  /\ pc = "idle" /\ Validate(c) = "RS_OK"
  /\ pc' = "open" /\ cfg' = c
  /\ ret' = "RS_OK"
  /\ UNCHANGED <<openVars, chipVars, openFailed, answer>>

-----------------------------------------------------------------------------
(* rs_nfc_ptx_open().                                                      *)

\* Mutant: every open calibrates.
CalibrateAlways ==
  /\ pc = "open" /\ pc' = Peripheral[1]
  /\ calibrate' = TRUE
  /\ up' = {}
  /\ UNCHANGED <<cfg, g_ptx_opened, g_active_reg, g_start_temp_calibration,
                 sdkUp, calibrations, openFailed, ret, answer>>

\* Mutant: the adapter counts as open before its peripherals are.
OpenedTooSoon ==
  /\ pc = "open" /\ pc' = Peripheral[1]
  /\ calibrate' = g_start_temp_calibration
  /\ g_start_temp_calibration' = FALSE
  /\ up' = {} /\ g_ptx_opened' = TRUE
  /\ UNCHANGED <<cfg, g_active_reg, sdkUp, calibrations, openFailed, ret, answer>>

\* The initialisation parameters: the flag is consumed here. The board's
\* configuration enables the calibration.
OpenParams ==
  /\ pc = "open" /\ pc' = Peripheral[1]
  /\ calibrate' = g_start_temp_calibration
  /\ g_start_temp_calibration' = FALSE
  /\ up' = {}
  /\ UNCHANGED <<cfg, g_ptx_opened, g_active_reg, sdkUp, calibrations,
                 openFailed, ret, answer>>

\* A failing call returns at once; what was opened before it stays open.
OpenFails ==
  /\ pc' = "finish" /\ ret' = "RS_ERR_INTERNAL"
  /\ openFailed' = TRUE

\* ptxPLAT_GPIO_Open, ptxPLAT_TIMER_Open, ptxPERIPH_APPTIMER_Open,
\* ptxPLAT_SPI_Open.
OpenPeripheral ==
  /\ \E i \in 1..4 :
       /\ pc = Peripheral[i]
       /\ \/ /\ up' = up \cup {Peripheral[i]}
             /\ pc' = IF i = 4 THEN "init" ELSE Peripheral[i + 1]
             /\ UNCHANGED <<ret, openFailed>>
          \/ OpenFails /\ UNCHANGED up
  /\ UNCHANGED <<cfg, openVars, sdkUp, calibrations, answer>>

\* ptxIoTRd_Init succeeds, and so does rs_nfc_ptx_open.
SdkInit ==
  /\ sdkUp' = TRUE
  /\ g_ptx_opened' = TRUE /\ pc' = "discover"
  /\ UNCHANGED <<ret, openFailed>>

\* The first attempt. It may have calibrated before it failed.
InitSdk ==
  /\ pc = "init"
  /\ calibrations' = IF calibrate /\ calibrations < 2 THEN calibrations + 1
                     ELSE calibrations
  /\ \/ SdkInit
     \/ /\ pc' = "reinit"
        /\ UNCHANGED <<sdkUp, g_ptx_opened, ret, openFailed>>
  /\ UNCHANGED <<cfg, g_active_reg, g_start_temp_calibration, calibrate, up, answer>>

\* Mutant: the status of the second attempt is not looked at.
RetryUnchecked ==
  /\ pc = "reinit"
  /\ \/ SdkInit
     \/ /\ sdkUp' = FALSE
        /\ g_ptx_opened' = TRUE /\ pc' = "discover"
        /\ UNCHANGED <<ret, openFailed>>
  /\ UNCHANGED <<cfg, g_active_reg, g_start_temp_calibration, calibrate, up,
                 calibrations, answer>>

\* ptxIoTRd_Deinit, and the second attempt with the same parameters: an open
\* that asks for a calibration may so calibrate twice.
RetryInit ==
  /\ pc = "reinit"
  /\ \/ SdkInit
     \/ /\ OpenFails
        /\ sdkUp' = FALSE
        /\ UNCHANGED g_ptx_opened
  /\ UNCHANGED <<cfg, g_active_reg, g_start_temp_calibration, calibrate, up,
                 calibrations, answer>>

-----------------------------------------------------------------------------
(* The rest of rs_nfc_read_blocking().                                     *)

\* Mutant: the registry is kept.
CloseKeepsRegistry ==
  /\ g_ptx_opened' = FALSE
  /\ sdkUp' \in {FALSE, sdkUp}
  /\ UNCHANGED g_active_reg

\* rs_nfc_ptx_close, its status ignored. ptxIoTRd_Deinit may fail.
PtxClose ==
  /\ g_active_reg' = "null"
  /\ g_ptx_opened' = FALSE
  /\ sdkUp' \in {FALSE, sdkUp}

\* rs_nfc_ptx_start_discovery.
StartDiscovery ==
  /\ pc = "discover"
  /\ \/ /\ pc' = "body"
        /\ UNCHANGED <<g_ptx_opened, g_active_reg, sdkUp, ret>>
     \/ /\ pc' = "finish" /\ ret' = "RS_ERR_INTERNAL"
        /\ PtxClose
  /\ UNCHANGED <<cfg, g_start_temp_calibration, calibrate, up, calibrations,
                 openFailed, answer>>

\* rs_nfc_ptx_activate_card, in the body, keeps the registry.
ActivateCard ==
  /\ pc = "body"
  /\ g_active_reg' = "reg"
  /\ UNCHANGED <<pc, cfg, g_ptx_opened, g_start_temp_calibration, calibrate,
                 chipVars, openFailed, ret, answer>>

\* The body returns (see EventLoop and SingleShot).
BodyEnds ==
  /\ pc = "body" /\ pc' = "deactivate"
  /\ ret' \in ReadStatus
  /\ UNCHANGED <<cfg, openVars, chipVars, openFailed, answer>>

Deactivate ==
  /\ pc = "deactivate" /\ pc' = "close"
  /\ UNCHANGED <<cfg, openVars, chipVars, openFailed, ret, answer>>

Close ==
  /\ pc = "close" /\ pc' = "finish"
  /\ PtxClose
  /\ UNCHANGED <<cfg, g_start_temp_calibration, calibrate, up, calibrations,
                 openFailed, ret, answer>>

Finish ==
  /\ pc = "finish" /\ pc' = "idle"
  /\ answer' = ret
  /\ UNCHANGED <<cfg, openVars, chipVars, openFailed, ret>>

Next ==
  \/ \E c \in Config : Refuse(c) \/ Read(c)
  \/ OpenParams \/ OpenPeripheral \/ InitSdk \/ RetryInit
  \/ StartDiscovery \/ ActivateCard \/ BodyEnds \/ Deactivate \/ Close \/ Finish

Spec == Init /\ [][Next]_vars

-----------------------------------------------------------------------------
(* Properties.                                                             *)

\* The adapter counts as open only with every peripheral opened by this open
\* and the SDK initialised, also after the recovery of a failed initialisation
\* (rs_nfc_ptx105r.c:286-317).
OpenMeansReady == g_ptx_opened => up = PeripheralPc /\ sdkUp

\* No reference to the registry of a closed SDK survives, whichever way the
\* read went: what uses it tests it for NULL only (rs_nfc_ptx105r.c:465, 629).
RegistryOnlyWhileOpen == g_active_reg = "reg" => g_ptx_opened

\* "Temperature-sensor calibration is only performed once per power cycle"
\* (rs_nfc_ptx105r.c:265): no two opens ask for one; and an adapter works without
\* one only after an open that failed, which consumed the flag. Within one open
\* the recovery of a failed initialisation may repeat it (309).
CalibratedUnlessFailed ==
  /\ calibrations <= 1
  /\ g_ptx_opened => calibrations = 1 \/ openFailed

\* Session, with a link that works, a chip left alone, nobody in a wait and
\* nobody who calls Stop().
OneStep == INSTANCE Session WITH
  pc <- IF pc \in OpenPc THEN "open" ELSE pc,
  g_reader_active <- (pc # "idle"), g_stop_requested <- FALSE,
  Stoppers <- {}, spc <- <<>>, MaxTick <- 1, ChipEvents <- {},
  chip <- "NO_CARD", linkOk <- TRUE, sysOk <- TRUE,
  g_waiting_task <- "NULL", irqCallback <- "sdk", notified <- FALSE,
  wpc <- "idle", timeout_ms <- 0, elapsed <- 0, remaining_ticks <- 0,
  blockTicks <- 0, st <- "RS_OK", out_status <- "NO_CARD"

SessionStep ==
  \/ OneStep!Read \/ OneStep!Open
  \/ OneStep!StartDiscovery("body") \/ OneStep!DiscoveryFails
  \/ pc = "body" /\ pc' = "deactivate" /\ ret' \in ReadStatus /\ UNCHANGED g_ptx_opened
  \/ OneStep!Deactivate \/ OneStep!Close \/ OneStep!Finish

\* To the rest of the reader the six calls of rs_nfc_ptx_open, with their
\* recovery, are Session's one step that succeeds or fails as a whole, and a
\* read refused by validation never was (rs_nfc_ptx105r.c:286-317).
RefinesSession ==
  OneStep!SessionInit /\ [][SessionStep]_(OneStep!sessionVars)
=============================================================================
