----------------------------- MODULE WaitProofs -----------------------------
(***************************************************************************)
(* The part of the invariants of EventLoop and SingleShot that is about    *)
(* rs_nfc_ptx_wait_for_card and the callers of Stop(): WaitInv ties the    *)
(* interrupt callback and the published handle to the place inside the     *)
(* wait.  Each step of the wait keeps it whoever called it, and so does    *)
(* whatever happens around the reader.                                     *)
(***************************************************************************)
EXTENDS StopRequest, TLAPS

Armed     == {"flush", "take", "disarm"}
Published == {"arm", "flush", "take", "disarm", "status", "decide", "rearm",
              "leave"}

WaitInv ==
  /\ WaitTypeOK
  /\ irqCallback = "wake" <=> wpc \in Armed
  /\ g_waiting_task = "reader" <=> wpc \in Published
  /\ remaining_ticks <= timeout_ms
  /\ wpc = "idle" => remaining_ticks = 0

LEMMA WaitConstants == MaxTick \in Nat /\ MaxTick > 0 /\ ChipEvents \subseteq Disc
  BY MaxTickAssumption, ChipEventsAssumption

\* A call with a legal timeout starts a wait that satisfies WaitInv.
LEMMA CallKeepsWaitInv ==
  ASSUME NEW ms \in 0..MaxTick, WaitInv, CallWait(ms)
  PROVE  WaitInv'
  BY WaitConstants DEF WaitInv, WaitTypeOK, CallWait, wakeVars, chipVars, Wpc, Armed,
     Published, Status, Disc

\* Every step of rs_nfc_ptx_wait_for_card preserves WaitInv.
LEMMA StepKeepsWaitInv ==
  ASSUME WaitInv, WaitStep
  PROVE  WaitInv'
<1>. USE WaitConstants DEF WaitInv, WaitTypeOK, Wpc, Armed, Published, wakeVars,
         timeVars, chipVars, Status, Disc
<1>1. CASE WaitSysCheck  BY <1>1 DEF WaitSysCheck
<1>2. CASE WaitPublish   BY <1>2 DEF WaitPublish
<1>3. CASE WaitArm       BY <1>3 DEF WaitArm
<1>4. CASE WaitFlush     BY <1>4 DEF WaitFlush
<1>5. CASE WaitTake      BY <1>5 DEF WaitTake
<1>6. CASE WaitDisarm    BY <1>6 DEF WaitDisarm
<1>7. CASE WaitStatus    BY <1>7 DEF WaitStatus
<1>8. CASE WaitDecide    BY <1>8 DEF WaitDecide
<1>9. CASE WaitRearm     BY <1>9 DEF WaitRearm
<1>10. CASE WaitLeave    BY <1>10 DEF WaitLeave
<1>. QED
  BY <1>1, <1>2, <1>3, <1>4, <1>5, <1>6, <1>7, <1>8, <1>9, <1>10 DEF WaitStep

\* So does the return to the caller.
LEMMA ReturnKeepsWaitInv ==
  ASSUME WaitInv, WaitReturn
  PROVE  WaitInv'
  BY WaitConstants DEF WaitInv, WaitTypeOK, WaitReturn, wakeVars, chipVars, Wpc,
     Armed, Published, Status, Disc

\* A step that touches the wait at most by changing the chip's state or by
\* giving the notification preserves WaitInv.
LEMMA OutsideKeepsWaitInv ==
  ASSUME WaitInv,
         UNCHANGED <<g_waiting_task, irqCallback, timeVars, wpc, st, out_status>>,
         notified' \in BOOLEAN, chip' \in Disc,
         sysOk' \in BOOLEAN, linkOk' \in BOOLEAN
  PROVE  WaitInv'
  BY DEF WaitInv, WaitTypeOK, timeVars, Armed, Published

\* So do the tick and the chip.
LEMMA AroundKeepsWaitInv ==
  ASSUME WaitInv, Tick \/ Environment
  PROVE  WaitInv'
<1>1. CASE Tick
  <2>. USE WaitConstants, <1>1 DEF Tick, WaitInv, WaitTypeOK
  <2>1. elapsed' \in 0..MaxTick
    OBVIOUS
  <2>2. blockTicks' \in 0..MaxTick
    OBVIOUS
  <2>. QED
    BY <2>1, <2>2 DEF wakeVars, chipVars, Armed, Published
<1>2. CASE \E d \in ChipEvents : ChipEdge(d)
  <2>1. PICK d \in ChipEvents : ChipEdge(d)
    BY <1>2
  <2>2. notified' \in BOOLEAN
    BY <2>1 DEF ChipEdge
  <2>. QED
    BY <2>1, <2>2, WaitConstants, OutsideKeepsWaitInv
    DEF ChipEdge, WaitInv, WaitTypeOK
<1>3. CASE CardGone \/ LinkChange \/ SystemChange
  <2>1. sysOk' \in BOOLEAN /\ linkOk' \in BOOLEAN /\ chip' \in Disc
    BY <1>3 DEF CardGone, LinkChange, SystemChange, WaitInv, WaitTypeOK, Disc
  <2>. QED
    BY <1>3, <2>1, OutsideKeepsWaitInv
    DEF CardGone, LinkChange, SystemChange, WaitInv, WaitTypeOK, waitVars,
        wakeVars
<1>. QED
  BY <1>1, <1>2, <1>3 DEF Environment

LEMMA InitWaitInv ==
  ASSUME WaitInit
  PROVE  WaitInv
<1>1. WaitTypeOK
  <2>1. 0 \in 0..MaxTick
    BY MaxTickAssumption
  <2>2. "idle" \in Wpc /\ "RS_OK" \in Status /\ "NO_CARD" \in Disc
    BY DEF Wpc, Status, Disc
  <2>. QED
    BY <2>1, <2>2, Zenon DEF WaitInit, WaitTypeOK
<1>2. (irqCallback = "wake" <=> wpc \in Armed)
      /\ (g_waiting_task = "reader" <=> wpc \in Published)
  BY DEF WaitInit, Armed, Published
<1>3. remaining_ticks <= timeout_ms /\ (wpc = "idle" => remaining_ticks = 0)
  BY DEF WaitInit
<1>. QED
  BY <1>1, <1>2, <1>3 DEF WaitInv

\* A step of the wait begins and ends inside it.
LEMMA StepStaysInside == WaitStep => wpc # "idle" /\ wpc' # "idle"
  BY DEF WaitStep, WaitSysCheck, WaitPublish, WaitArm, WaitFlush, WaitTake,
     WaitDisarm, WaitStatus, WaitDecide, WaitRearm, WaitLeave

\* The tick and the chip move nobody.
LEMMA AroundMovesNobody == Tick \/ Environment => wpc' = wpc
  BY DEF Tick, Environment, ChipEdge, CardGone, LinkChange, SystemChange, waitVars

\* A caller of Stop() only ever sets the stop flag, and wakes the reader.
LEMMA StopKeeps ==
  ASSUME WaitInv, StopTypeOK, NEW s \in Stoppers, Stop(s) \/ StopStep(s)
  PROVE  /\ WaitInv' /\ wpc' = wpc
         /\ StopTypeOK'
         /\ g_reader_active' = g_reader_active
         /\ g_stop_requested => g_stop_requested'
<1>1. WaitInv' /\ wpc' = wpc
  BY OutsideKeepsWaitInv
  DEF Stop, StopStep, StopFlag, StopSet, StopWake, StopNotify, waitVars,
      wakeVars, chipVars, WaitInv, WaitTypeOK
<1>2. StopTypeOK'
  BY DEF Stop, StopStep, StopFlag, StopSet, StopWake, StopNotify, StopAt, flagVars,
     StopTypeOK, Spc
<1>3. g_reader_active' = g_reader_active /\ (g_stop_requested => g_stop_requested')
  BY DEF Stop, StopStep, StopFlag, StopSet, StopWake, StopNotify, flagVars
<1>. QED
  BY <1>1, <1>2, <1>3
=============================================================================
