------------------------------- MODULE PtxWait -------------------------------
(***************************************************************************)
(* The PTX105R adapter's blocking wait, rs_nfc_ptx_wait_for_card(), and    *)
(* the two ways it is woken: the reader chip's interrupt line and the      *)
(* task notification that rs_nfc_reader_Stop() sends.                      *)
(*                                                                         *)
(* Every access to something an interrupt handler or another task can see  *)
(* (g_waiting_task, the interrupt callback, the notification count, the    *)
(* chip's status over SPI) is a step of its own, in the order of the code. *)
(* The module has no specification: EventLoop runs it inside the event     *)
(* loop and adds the callers of Stop().                                    *)
(***************************************************************************)
EXTENDS Integers

CONSTANTS
  MaxTick,     \* UINT32_MAX milliseconds, which is also portMAX_DELAY
  ChipEvents   \* the statuses the chip may raise its interrupt with

ASSUME MaxTickAssumption == MaxTick \in Nat /\ MaxTick > 0

Disc == {"NO_CARD", "CARD_ACTIVE", "RUNNING", "DONE"}

ASSUME ChipEventsAssumption == ChipEvents \subseteq Disc

VARIABLES
  g_waiting_task,   \* the task to notify, "reader" or "NULL"
  irqCallback,      \* the handler installed on g_ext_irq: "wake" or "sdk"
  notified,         \* the reader task's notification count is not zero
  wpc,              \* where the reader is inside rs_nfc_ptx_wait_for_card
  timeout_ms,       \* its argument
  elapsed,          \* ticks since start_tick
  remaining_ticks,  \* the delay the next ulTaskNotifyTake is given
  blockTicks,       \* what is left of that delay while the task sleeps
  st,               \* its return value
  out_status,       \* *out_status
  chip,             \* the chip's discovery status
  sysOk,            \* the chip's system status is PTX_SYSTEM_STATUS_OK
  linkOk            \* SPI transfers succeed

chipVars == <<chip, sysOk, linkOk>>
wakeVars == <<g_waiting_task, irqCallback, notified>>
timeVars == <<timeout_ms, elapsed, remaining_ticks, blockTicks>>
waitVars == <<wakeVars, timeVars, wpc, st, out_status>>

Status == {"RS_OK", "RS_ERR_INTERNAL"}
Wpc    == {"idle", "sys_check", "publish", "arm", "flush", "take", "disarm",
           "status", "decide", "rearm", "leave", "returned"}

\* From the read of start_tick until the last comparison with it.
Timing == wpc \notin {"idle", "sys_check", "publish", "leave", "returned"}

WaitTypeOK ==
  /\ g_waiting_task \in {"NULL", "reader"}
  /\ irqCallback \in {"wake", "sdk"}
  /\ notified \in BOOLEAN
  /\ wpc \in Wpc
  /\ timeout_ms \in 0..MaxTick
  /\ elapsed \in 0..MaxTick
  /\ remaining_ticks \in 0..MaxTick
  /\ blockTicks \in 0..MaxTick
  /\ st \in Status
  /\ out_status \in Disc
  /\ chip \in Disc
  /\ sysOk \in BOOLEAN
  /\ linkOk \in BOOLEAN

WaitInit ==
  /\ g_waiting_task = "NULL" /\ irqCallback = "sdk" /\ notified = FALSE
  /\ wpc = "idle" /\ timeout_ms = 0
  /\ elapsed = 0 /\ remaining_ticks = 0 /\ blockTicks = 0
  /\ st = "RS_OK" /\ out_status = "NO_CARD"
  /\ chip = "NO_CARD" /\ sysOk = TRUE /\ linkOk = TRUE

-----------------------------------------------------------------------------
(* The steps of rs_nfc_ptx_wait_for_card, in the order of the code.        *)

\* The caller enters with *out_status not yet written.
CallWait(ms) ==
  /\ wpc = "idle"
  /\ wpc' = "sys_check"
  /\ timeout_ms' = ms
  /\ out_status' = "NO_CARD"
  /\ UNCHANGED <<wakeVars, elapsed, remaining_ticks, blockTicks, st, chipVars>>

\* ptx105r_system_check: an unhealthy chip and a failed transfer look alike.
WaitSysCheck ==
  /\ wpc = "sys_check"
  /\ \/ /\ linkOk /\ sysOk
        /\ wpc' = "publish" /\ st' = "RS_OK"
     \/ /\ ~(linkOk /\ sysOk)
        /\ wpc' = "returned" /\ st' = "RS_ERR_INTERNAL"
  /\ UNCHANGED <<wakeVars, timeVars, out_status, chipVars>>

WaitPublish ==
  /\ wpc = "publish"
  /\ wpc' = "arm"
  /\ remaining_ticks' = timeout_ms
  /\ elapsed' = 0
  /\ g_waiting_task' = "reader"
  /\ UNCHANGED <<irqCallback, notified, timeout_ms, blockTicks, st, out_status,
                 chipVars>>

WaitArm ==
  /\ wpc = "arm"
  /\ wpc' = "flush"
  /\ irqCallback' = "wake"
  /\ UNCHANGED <<g_waiting_task, notified, timeVars, st, out_status, chipVars>>

\* ulTaskNotifyTake(pdTRUE, 0) throws away whatever was given before it.
WaitFlush ==
  /\ wpc = "flush"
  /\ wpc' = "take"
  /\ notified' = FALSE
  /\ blockTicks' = remaining_ticks
  /\ UNCHANGED <<g_waiting_task, irqCallback, timeout_ms, elapsed,
                 remaining_ticks, st, out_status, chipVars>>

DelayExpired == remaining_ticks # MaxTick /\ blockTicks = 0

\* ulTaskNotifyTake returns: notified, or after a delay that can expire.
WaitTake ==
  /\ wpc = "take"
  /\ notified \/ DelayExpired
  /\ wpc' = "disarm"
  /\ notified' = FALSE
  /\ UNCHANGED <<g_waiting_task, irqCallback, timeVars, st, out_status,
                 chipVars>>

\* Mutant: the wake handler stays installed.
NoHandBack ==
  /\ wpc = "disarm"
  /\ wpc' = "status"
  /\ UNCHANGED <<wakeVars, timeVars, st, out_status, chipVars>>

WaitDisarm ==
  /\ wpc = "disarm"
  /\ wpc' = "status"
  /\ irqCallback' = "sdk"
  /\ UNCHANGED <<g_waiting_task, notified, timeVars, st, out_status, chipVars>>

\* ptx105r_discover_status and the two breaks that follow it.
WaitStatus ==
  /\ wpc = "status"
  /\ \/ /\ ~linkOk
        /\ st' = "RS_ERR_INTERNAL" /\ wpc' = "leave"
        /\ UNCHANGED out_status
     \/ /\ linkOk
        /\ st' = "RS_OK" /\ out_status' = chip
        /\ wpc' = IF chip = "NO_CARD" THEN "decide" ELSE "leave"
  /\ UNCHANGED <<wakeVars, timeVars, chipVars>>

\* The time since start_tick is compared with the delay computed last.
WaitDecide ==
  /\ wpc = "decide"
  /\ \/ /\ elapsed >= remaining_ticks
        /\ wpc' = "leave"
        /\ UNCHANGED <<g_waiting_task, remaining_ticks>>
     \/ /\ elapsed < remaining_ticks
        /\ wpc' = "rearm"
        /\ remaining_ticks' = timeout_ms - elapsed
        /\ g_waiting_task' = "reader"
  /\ UNCHANGED <<irqCallback, notified, timeout_ms, elapsed, blockTicks, st,
                 out_status, chipVars>>

\* Mutant: the second sleep forgets the wake handler.
NoRearm ==
  /\ wpc = "rearm"
  /\ wpc' = "take"
  /\ blockTicks' = remaining_ticks
  /\ UNCHANGED <<wakeVars, timeout_ms, elapsed, remaining_ticks, st,
                 out_status, chipVars>>

WaitRearm ==
  /\ wpc = "rearm"
  /\ wpc' = "take"
  /\ irqCallback' = "wake"
  /\ blockTicks' = remaining_ticks
  /\ UNCHANGED <<g_waiting_task, notified, timeout_ms, elapsed,
                 remaining_ticks, st, out_status, chipVars>>

\* Mutant: the handle stays published.
HandleKept ==
  /\ wpc = "leave"
  /\ wpc' = "returned"
  /\ UNCHANGED <<wakeVars, timeVars, st, out_status, chipVars>>

WaitLeave ==
  /\ wpc = "leave"
  /\ wpc' = "returned"
  /\ g_waiting_task' = "NULL"
  /\ UNCHANGED <<irqCallback, notified, timeVars, st, out_status, chipVars>>

\* Back in the caller: the locals of the wait are gone.
WaitReturn ==
  /\ wpc = "returned"
  /\ wpc' = "idle"
  /\ timeout_ms' = 0 /\ elapsed' = 0 /\ remaining_ticks' = 0 /\ blockTicks' = 0
  /\ st' = "RS_OK" /\ out_status' = "NO_CARD"
  /\ UNCHANGED <<wakeVars, chipVars>>

WaitStep ==
  \/ WaitSysCheck \/ WaitPublish \/ WaitArm \/ WaitFlush \/ WaitTake
  \/ WaitDisarm \/ WaitStatus \/ WaitDecide \/ WaitRearm \/ WaitLeave

-----------------------------------------------------------------------------
(* What happens around the reader task.                                    *)

\* One tick interrupt. TickType_t wraps, which only an endless delay lives to
\* see; otherwise elapsed stops where no comparison can tell it from more.
Tick ==
  /\ Timing
  /\ elapsed' = IF remaining_ticks = MaxTick THEN (elapsed + 1) % (MaxTick + 1)
                ELSE IF elapsed < timeout_ms THEN elapsed + 1
                ELSE elapsed
  /\ blockTicks' = IF wpc = "take" /\ remaining_ticks # MaxTick /\ blockTicks > 0
                   THEN blockTicks - 1 ELSE blockTicks
  /\ UNCHANGED <<wakeVars, timeout_ms, remaining_ticks, wpc, st, out_status,
                 chipVars>>

\* ptx105r_irq_wake_cb: what the handler in force does with an edge.
IrqGives == irqCallback = "wake" /\ g_waiting_task # "NULL"

\* The chip raises its interrupt line, with or without news (external).
ChipEdge(d) ==
  /\ chip' = d
  /\ notified' = (notified \/ IrqGives)
  /\ UNCHANGED <<g_waiting_task, irqCallback, timeVars, wpc, st, out_status,
                 sysOk, linkOk>>

\* The card leaves the field: the status changes without an edge (external).
CardGone ==
  /\ chip # "NO_CARD" /\ chip' = "NO_CARD"
  /\ UNCHANGED <<waitVars, sysOk, linkOk>>

\* SPI transfers start or stop failing (external).
LinkChange ==
  /\ linkOk' = ~linkOk
  /\ UNCHANGED <<waitVars, chip, sysOk>>

\* Over-current or over-temperature comes or goes (external).
SystemChange ==
  /\ sysOk' = ~sysOk
  /\ UNCHANGED <<waitVars, chip, linkOk>>

Environment ==
  \/ \E d \in ChipEvents : ChipEdge(d)
  \/ CardGone \/ LinkChange \/ SystemChange
=============================================================================
