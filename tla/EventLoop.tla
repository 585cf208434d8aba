------------------------------ MODULE EventLoop ------------------------------
(***************************************************************************)
(* rs_nfc_reader_Read() in its blocking form with an on_card_event         *)
(* callback: rs_nfc_read_blocking() around run_event_loop(), which calls   *)
(* the wait of PtxWait, together with the tasks that call Stop() at any    *)
(* moment (StopRequest), the chip and the tick.                            *)
(*                                                                         *)
(* One task reads, again and again; two overlapping Read() calls are the   *)
(* subject of ReadApi.                                                     *)
(***************************************************************************)
EXTENDS Session

CONSTANT Timeout    \* cfg->timeout_ms; MaxTick is UINT32_MAX, "loop forever"

ASSUME TimeoutAssumption == Timeout \in 1..MaxTick

VARIABLES
  state,              \* run_event_loop's rs_nfc_reader_loop_state_t
  elapsed_ms,         \* run_event_loop's account of the time used
  lastEvent,          \* the last on_card_event of this Read()
  cardsAfterStop      \* card events of this Read() since Stop set its flag

loopVars  == <<state, elapsed_ms>>
eventVars == <<lastEvent, cardsAfterStop>>
readVars == <<sessionVars, loopVars, eventVars>>
vars == <<waitVars, chipVars, flagVars, spc, sessionVars, loopVars, eventVars>>

LoopForever == Timeout = MaxTick

LoopState == {"LOOP_WAIT_FOR_ACTIVATION", "LOOP_DATA_EVENT",
              "LOOP_DEACTIVATE", "LOOP_SYSTEM_ERROR"}
LoopPc == {"top", "health", "rf_warn", "dispatch", "waiting"}
Event == {"none", "warning", "card", "activate_failed", "system_error"}

TypeOK ==
  /\ WaitTypeOK
  /\ StopTypeOK
  /\ SessionTypeOK(LoopPc)
  /\ state \in LoopState
  /\ elapsed_ms \in {0, Timeout}
  /\ lastEvent \in Event
  /\ cardsAfterStop \in 0..2

Init ==
  /\ WaitInit
  /\ StopInit
  /\ SessionInit
  /\ state = "LOOP_WAIT_FOR_ACTIVATION" /\ elapsed_ms = 0
  /\ lastEvent = "none" /\ cardsAfterStop = 0

-----------------------------------------------------------------------------
(* rs_nfc_read_blocking around the loop (see Session).                     *)

StartRead ==
  /\ Read
  /\ lastEvent' = "none" /\ cardsAfterStop' = 0
  /\ UNCHANGED loopVars

Opening == (Open \/ DiscoveryFails) /\ UNCHANGED <<loopVars, eventVars>>

\* The entry of run_event_loop.
EnterLoop ==
  /\ StartDiscovery("top")
  /\ state' = "LOOP_WAIT_FOR_ACTIVATION" /\ elapsed_ms' = 0
  /\ UNCHANGED eventVars

Closing == (Deactivate \/ Close \/ Finish) /\ UNCHANGED <<loopVars, eventVars>>

-----------------------------------------------------------------------------
(* One pass of run_event_loop's while statement.                           *)

\* The application's on_card_event. It may itself call rs_nfc_reader_Stop,
\* which finds no waiting task to wake: the reader is running the callback.
OnCardEvent(event) ==
  /\ lastEvent' = event
  /\ g_stop_requested' \in {g_stop_requested, TRUE}
  /\ cardsAfterStop' = IF event = "card" /\ g_stop_requested /\ cardsAfterStop < 2
                       THEN cardsAfterStop + 1 ELSE cardsAfterStop
  /\ UNCHANGED g_reader_active

TimeLeft == LoopForever \/ elapsed_ms < Timeout

\* Mutant: the loop does not test for a stop.
NoStopTest ==
  /\ pc = "top"
  /\ \/ ~TimeLeft /\ pc' = "deactivate" /\ ret' = "RS_OK"
     \/ TimeLeft /\ pc' = "health" /\ UNCHANGED ret
  /\ UNCHANGED <<waitVars, chipVars, flagVars, spc, g_ptx_opened, loopVars,
                 eventVars>>

\* The while condition and the stop test: leave with RS_OK or go on.
LoopTop ==
  /\ pc = "top"
  /\ \/ /\ ~TimeLeft \/ g_stop_requested
        /\ pc' = "deactivate" /\ ret' = "RS_OK"
     \/ /\ TimeLeft /\ ~g_stop_requested
        /\ pc' = "health"
        /\ UNCHANGED ret
  /\ UNCHANGED <<waitVars, chipVars, flagVars, spc, g_ptx_opened, loopVars,
                 eventVars>>

\* rs_nfc_ptx_get_system_state: a failed transfer counts as healthy here.
LoopHealth ==
  /\ pc = "health"
  /\ pc' = "rf_warn"
  /\ state' = IF linkOk /\ ~sysOk THEN "LOOP_SYSTEM_ERROR" ELSE state
  /\ UNCHANGED <<waitVars, chipVars, elapsed_ms, ret, g_ptx_opened, flagVars,
                 spc, eventVars>>

\* rs_nfc_ptx_get_last_rf_error, and the event for a PA over-current warning.
LoopRfWarning ==
  /\ pc = "rf_warn"
  /\ pc' = "dispatch"
  /\ \/ linkOk /\ OnCardEvent("warning")
     \/ UNCHANGED <<eventVars, flagVars>>
  /\ UNCHANGED <<waitVars, chipVars, loopVars, ret, g_ptx_opened, spc>>

\* case LOOP_WAIT_FOR_ACTIVATION: the call of rs_nfc_ptx_wait_for_card ...
LoopWait ==
  /\ pc = "dispatch" /\ state = "LOOP_WAIT_FOR_ACTIVATION"
  /\ pc' = "waiting"
  /\ CallWait(IF LoopForever THEN MaxTick ELSE Timeout - elapsed_ms)
  /\ UNCHANGED <<loopVars, ret, g_ptx_opened, flagVars, spc, eventVars>>

\* Mutant: only DISCOVER_DONE counts as a card.
OnlyDone == IF out_status = "DONE" THEN "LOOP_DATA_EVENT" ELSE state

\* What a wait that ended without an error does to state.
AfterWait ==
  IF out_status \in {"CARD_ACTIVE", "DONE"} THEN "LOOP_DATA_EVENT" ELSE state

\* Mutant: a wait that timed out is not charged.
WaitNotCharged ==
  /\ pc = "waiting"
  /\ WaitReturn
  /\ pc' = "top"
  /\ state' = IF st = "RS_OK" THEN AfterWait ELSE "LOOP_DEACTIVATE"
  /\ UNCHANGED <<elapsed_ms, ret, g_ptx_opened, flagVars, spc, eventVars>>

\* ... and what follows it. An error leaves elapsed_ms as it is; any other
\* outcome uses up a finite timeout, however long the wait was.
LoopWaitDone ==
  /\ pc = "waiting"
  /\ WaitReturn
  /\ pc' = "top"
  /\ \/ /\ st # "RS_OK"
        /\ state' = "LOOP_DEACTIVATE"
        /\ UNCHANGED elapsed_ms
     \/ /\ st = "RS_OK"
        /\ state' = AfterWait
        /\ elapsed_ms' = IF LoopForever THEN elapsed_ms ELSE Timeout
  /\ UNCHANGED <<ret, g_ptx_opened, flagVars, spc, eventVars>>

\* case LOOP_DATA_EVENT: activate the card, read it and report it, or report
\* that it could not be activated.
LoopDataEvent ==
  /\ pc = "dispatch" /\ state = "LOOP_DATA_EVENT"
  /\ pc' = "top"
  /\ state' = "LOOP_DEACTIVATE"
  /\ \/ linkOk /\ OnCardEvent("card")
     \/ OnCardEvent("activate_failed")
  /\ UNCHANGED <<waitVars, chipVars, elapsed_ms, ret, g_ptx_opened, spc>>

\* case LOOP_DEACTIVATE.
LoopDeactivate ==
  /\ pc = "dispatch" /\ state = "LOOP_DEACTIVATE"
  /\ pc' = "top"
  /\ state' = "LOOP_WAIT_FOR_ACTIVATION"
  /\ Deactivated
  /\ UNCHANGED <<waitVars, sysOk, linkOk, elapsed_ms, ret, g_ptx_opened,
                 flagVars, spc, eventVars>>

\* Mutant: the error is returned without telling the application.
SilentError ==
  /\ pc = "dispatch" /\ state = "LOOP_SYSTEM_ERROR"
  /\ pc' = "deactivate"
  /\ ret' = "RS_ERR_INTERNAL"
  /\ UNCHANGED <<waitVars, chipVars, loopVars, g_ptx_opened, flagVars, spc,
                 eventVars>>

\* case LOOP_SYSTEM_ERROR: the only way out of the loop with an error.
LoopSystemError ==
  /\ pc = "dispatch" /\ state = "LOOP_SYSTEM_ERROR"
  /\ pc' = "deactivate"
  /\ ret' = "RS_ERR_INTERNAL"
  /\ OnCardEvent("system_error")
  /\ UNCHANGED <<waitVars, chipVars, loopVars, g_ptx_opened, spc>>

InWait ==
  /\ WaitStep
  /\ UNCHANGED <<readVars, flagVars, spc>>

ReaderStep ==
  \/ Opening \/ EnterLoop
  \/ LoopTop \/ LoopHealth \/ LoopRfWarning
  \/ LoopWait \/ InWait \/ LoopWaitDone
  \/ LoopDataEvent \/ LoopDeactivate \/ LoopSystemError
  \/ Closing

-----------------------------------------------------------------------------
(* The other tasks, the chip and the tick.                                 *)

Around ==
  /\ Tick \/ Environment
  /\ UNCHANGED <<readVars, flagVars, spc>>

Stopping(s) == StopStep(s) /\ UNCHANGED readVars

Next ==
  \/ StartRead
  \/ ReaderStep
  \/ \E s \in Stoppers : Stop(s) /\ UNCHANGED readVars
  \/ \E s \in Stoppers : Stopping(s)
  \/ Around

Spec == Init /\ [][Next]_vars

\* The scheduler runs every task that is ready, and the tick timer is free
\* running; nobody has to call Read() or Stop(), and the chip, the cards and
\* the SPI link owe nothing.
Ticking == Tick /\ UNCHANGED <<readVars, flagVars, spc>>

Fairness ==
  /\ WF_vars(ReaderStep)
  /\ WF_vars(Ticking)
  /\ \A s \in Stoppers : WF_vars(Stopping(s))

FairSpec == Spec /\ Fairness

-----------------------------------------------------------------------------
(* Safety.                                                                 *)

\* The wake handler is installed only around the sleep. At every step that
\* talks to the chip the interrupt belongs to the SDK, whose SPI transport
\* waits for it: on each way out of rs_nfc_ptx_wait_for_card, and so in the
\* loop, the callback has been handed back (rs_nfc_ptx105r.c:396-421).
SdkOwnsIrqOutsideSleep ==
  irqCallback = "wake" => wpc \in {"flush", "take", "disarm"}

\* A reader asleep in ulTaskNotifyTake can be woken both ways: the interrupt
\* handler is the waking one and the handle Stop() reads is published.
SleeperIsReachable ==
  wpc = "take" => irqCallback = "wake" /\ g_waiting_task = "reader"

\* The handle Stop() reads is published for the wait alone: it never points
\* at a reader that is elsewhere (in a callback, or past its Read()).
HandleOnlyInWait ==
  g_waiting_task = "reader" =>
    pc = "waiting" /\ wpc \notin {"idle", "sys_check", "publish", "returned"}

\* Whatever fails on the way, a finished Read() leaves the adapter closed
\* and Stop() rejected, and a running one is open from discovery to close.
OpenWhileReading ==
  /\ g_ptx_opened <=> pc \notin {"idle", "open", "finish"}
  /\ g_reader_active <=> pc # "idle"

\* The loop gives up with an error only after it told the application so.
ErrorIsReported ==
  pc \in {"deactivate", "close"} /\ ret # "RS_OK" => lastEvent = "system_error"

\* Once Stop() has set its flag the application hears of at most one more
\* card, the one the loop was already handling.
AtMostOneCardAfterStop == cardsAfterStop <= 1

\* The loop's stop test comes before its next wait: Read() has not yet passed it
\* for the wait it is about to enter, or is on its way out of one.
HeedsStop ==
  \/ pc \notin {"idle", "waiting", "health", "rf_warn", "dispatch"}
  \/ pc \in {"health", "rf_warn", "dispatch"} /\ state # "LOOP_WAIT_FOR_ACTIVATION"
  \/ pc = "waiting" /\ wpc \in {"leave", "returned"}

\* A stop that can be heard in time stays heard: no step of the reader, of
\* another task or of a callback clears it or takes the loop past its test into
\* another wait, until the Read() has ended (rs_nfc_reader.c:314-320).
HeardStopIsKept ==
  [][g_stop_requested /\ HeedsStop =>
       (g_stop_requested /\ HeedsStop)' \/ pc' = "idle"]_vars

\* Where a card is between the wake-up it caused and the event for it: in the
\* wait until its status was read, in the status, in the loop's state.
OnItsWay ==
  \/ /\ pc = "waiting" /\ chip = "CARD_ACTIVE"
     /\ (wpc = "take" /\ notified) \/ wpc \in {"disarm", "status"}
  \/ /\ pc = "waiting" /\ wpc \in {"leave", "returned"}
     /\ st = "RS_OK" /\ out_status = "CARD_ACTIVE"
  \/ pc \in {"top", "health", "rf_warn"} /\ state = "LOOP_DATA_EVENT"

Reporting == pc = "dispatch" /\ state = "LOOP_DATA_EVENT"

\* What excuses the reader from reporting the card that woke it.
Excused == chip # "CARD_ACTIVE" \/ ~linkOk \/ ~sysOk \/ g_stop_requested

\* An endless loop loses no card between the wake-up and the event: the
\* notification, the status read from the chip, the status handed back and the
\* loop's state pass it on, whatever other tasks, the interrupt and the tick do
\* in between (rs_nfc_ptx105r.c:402-425, rs_nfc_reader.c:358-378).
CardStaysOnItsWay ==
  [][OnItsWay /\ ~Excused => (OnItsWay \/ Reporting \/ Excused)']_vars

\* A card the wait has reported is handed to the application unless a stop or
\* a system error intervenes: run_event_loop is not left with the data event
\* still pending. It is, after any finite timeout (rs_nfc_reader.c:370). "fires one event per detected card" (rs_nfc_reader.h:290).
DetectedCardIsReported ==
  [][pc = "top" /\ pc' = "deactivate" /\ state = "LOOP_DATA_EVENT"
       => g_stop_requested]_vars

-----------------------------------------------------------------------------
(* Liveness.                                                               *)

\* A stop requested before the loop's next test for it, or standing when a wait
\* leaves for that test (however long it slept through it), ends the Read().
StopBeforeWaitEnds == g_stop_requested /\ HeedsStop ~> pc = "idle"

\* A Read() with a finite timeout ends once the chip and its link stay well.
FiniteReadEnds == <>[](linkOk /\ sysOk) => []<>(pc = "idle")

\* A sleeping reader notified of an active card gets to report it, unless the
\* card goes, the link or the chip fails, or the Read() is stopped.
WakeReportsCard ==
  wpc = "take" /\ notified /\ chip = "CARD_ACTIVE" ~>
    \/ pc = "dispatch" /\ state = "LOOP_DATA_EVENT"
    \/ chip # "CARD_ACTIVE" \/ ~linkOk \/ ~sysOk \/ g_stop_requested

\* "Request graceful stop of a running Read ... The loop exits cleanly"
\* (rs_nfc_reader.h:296-297): an accepted stop ends the Read(). It does not: the
\* wait never looks at the flag, so that an endless one sleeps again after the
\* wake-up of a Stop() (rs_nfc_ptx105r.c:402-421), or never gets it.
StopEndsRead == g_stop_requested /\ pc # "idle" ~> pc = "idle"

=============================================================================
