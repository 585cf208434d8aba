----------------------------- MODULE SingleShot -----------------------------
(***************************************************************************)
(* The body of a Read() without an on_card_event callback: one attempt,    *)
(* rs_nfc_reader_try_once(), or up to retry_count more of them in          *)
(* rs_nfc_reader_retry(). Each attempt waits for a card in PtxWait and     *)
(* activates it.                                                           *)
(***************************************************************************)
EXTENDS Session

CONSTANTS
  Timeout,      \* cfg->timeout_ms
  RetryCounts,  \* the values of cfg->retry_count the callers use
  MaxU8         \* UINT8_MAX, the type of the attempt counter

ASSUME SingleShotAssumption ==
  /\ Timeout \in 1..MaxTick
  /\ MaxU8 \in Nat
  /\ RetryCounts \subseteq 0..MaxU8

VARIABLES
  retry_count, \* cfg->retry_count of this Read()
  attempt,    \* the uint8_t loop counter of rs_nfc_reader_retry
  attempts,   \* how many attempts this Read() has made (counted to MaxU8 + 2)
  cardRead    \* the result holds a card of this Read()

shotVars == <<retry_count, attempt, attempts, cardRead>>
readVars == <<sessionVars, shotVars>>
vars == <<waitVars, chipVars, flagVars, spc, readVars>>

ShotPc == {"attempt", "waiting", "activate", "failed"}

TypeOK ==
  /\ WaitTypeOK
  /\ StopTypeOK
  /\ SessionTypeOK(ShotPc)
  /\ retry_count \in 0..MaxU8
  /\ attempt \in 0..MaxU8
  /\ attempts \in 0..MaxU8 + 2
  /\ cardRead \in BOOLEAN

Init ==
  /\ WaitInit
  /\ StopInit
  /\ SessionInit
  /\ retry_count = 0 /\ attempt = 0 /\ attempts = 0 /\ cardRead = FALSE

-----------------------------------------------------------------------------
(* rs_nfc_read_blocking around the attempts (see Session).                 *)

\* The memset of the result.
StartRead ==
  /\ Read
  /\ retry_count' \in RetryCounts
  /\ attempt' = 0 /\ attempts' = 0 /\ cardRead' = FALSE

Opening == (Open \/ DiscoveryFails) /\ UNCHANGED shotVars

EnterShot == StartDiscovery("attempt") /\ UNCHANGED shotVars

Closing == (Deactivate \/ Close \/ Finish) /\ UNCHANGED shotVars

-----------------------------------------------------------------------------
(* rs_nfc_reader_try_once and the rs_nfc_reader_detect_wait it calls.      *)

Counted == attempts' = IF attempts < MaxU8 + 2 THEN attempts + 1 ELSE attempts

\* Mutant: an attempt starts without looking at the stop flag.
NoStopTest ==
  /\ pc = "attempt"
  /\ Counted
  /\ pc' = "waiting" /\ CallWait(Timeout)
  /\ UNCHANGED <<flagVars, spc, ret, g_ptx_opened, retry_count,
                 attempt, cardRead>>

\* A stop requested before the wait ends the attempt with RS_OK.
Attempt ==
  /\ pc = "attempt"
  /\ Counted
  /\ \/ /\ g_stop_requested
        /\ pc' = "deactivate" /\ ret' = "RS_OK"
        /\ UNCHANGED <<waitVars, chipVars>>
     \/ /\ ~g_stop_requested
        /\ pc' = "waiting" /\ CallWait(Timeout)
        /\ UNCHANGED ret
  /\ UNCHANGED <<flagVars, spc, g_ptx_opened, retry_count,
                 attempt, cardRead>>

\* Mutant: no card is no error.
TimeoutIsOk ==
  /\ pc = "waiting"
  /\ WaitReturn
  /\ \/ st # "RS_OK" /\ pc' = "failed" /\ ret' = st
     \/ /\ st = "RS_OK" /\ (g_stop_requested \/ out_status = "NO_CARD")
        /\ pc' = "deactivate" /\ ret' = "RS_OK"
     \/ /\ st = "RS_OK" /\ ~g_stop_requested /\ out_status # "NO_CARD"
        /\ pc' = "activate" /\ UNCHANGED ret
  /\ UNCHANGED <<flagVars, spc, g_ptx_opened, shotVars>>

\* After the wait: its error, a stop (RS_OK), a timeout, or any status but
\* NO_CARD, which counts as a card.
WaitDone ==
  /\ pc = "waiting"
  /\ WaitReturn
  /\ \/ /\ st # "RS_OK"
        /\ pc' = "failed" /\ ret' = st
     \/ /\ st = "RS_OK" /\ g_stop_requested
        /\ pc' = "deactivate" /\ ret' = "RS_OK"
     \/ /\ st = "RS_OK" /\ ~g_stop_requested /\ out_status = "NO_CARD"
        /\ pc' = "failed" /\ ret' = "RS_ERR_TIMEOUT"
     \/ /\ st = "RS_OK" /\ ~g_stop_requested /\ out_status # "NO_CARD"
        /\ pc' = "activate"
        /\ UNCHANGED ret
  /\ UNCHANGED <<flagVars, spc, g_ptx_opened, shotVars>>

\* Mutant: a card whose NDEF cannot be read fails the attempt.
NdefErrorFails ==
  /\ pc = "activate"
  /\ \/ /\ linkOk /\ cardRead' = TRUE
        /\ \/ pc' = "deactivate" /\ ret' = "RS_OK"
           \/ pc' = "failed" /\ ret' = "RS_ERR_INTERNAL"
     \/ /\ pc' = "failed" /\ ret' \in {"RS_ERR_INTERNAL", "RS_ERR_NOT_FOUND"}
        /\ UNCHANGED cardRead
  /\ UNCHANGED <<waitVars, chipVars, flagVars, spc, g_ptx_opened, retry_count,
                 attempt, attempts>>

\* rs_nfc_ptx_activate_card, and the result filled in if it succeeds. It fails
\* with RS_ERR_NOT_FOUND when the chip's status announced no card at all.
Activate ==
  /\ pc = "activate"
  /\ \/ /\ linkOk
        /\ pc' = "deactivate" /\ ret' = "RS_OK" /\ cardRead' = TRUE
     \/ /\ pc' = "failed" /\ ret' \in {"RS_ERR_INTERNAL", "RS_ERR_NOT_FOUND"}
        /\ UNCHANGED cardRead
  /\ UNCHANGED <<waitVars, chipVars, flagVars, spc, g_ptx_opened, retry_count,
                 attempt, attempts>>

\* Mutant: the counter is not advanced.
NoCount ==
  /\ pc = "failed"
  /\ pc' = IF retry_count = 0 THEN "deactivate" ELSE "attempt"
  /\ Deactivated
  /\ UNCHANGED <<waitVars, sysOk, linkOk, flagVars, spc, ret, g_ptx_opened,
                 shotVars>>

\* A failed attempt: without retries the Read() fails. rs_nfc_reader_retry
\* deactivates and goes on while the 8-bit counter, advanced, allows it.
AttemptFailed ==
  /\ pc = "failed"
  /\ \/ /\ retry_count = 0
        /\ pc' = "deactivate"
        /\ UNCHANGED <<chip, attempt>>
     \/ /\ retry_count > 0
        /\ Deactivated
        /\ attempt' = (attempt + 1) % (MaxU8 + 1)
        /\ pc' = IF attempt' <= retry_count THEN "attempt" ELSE "deactivate"
  /\ UNCHANGED <<waitVars, sysOk, linkOk, flagVars, spc, ret, g_ptx_opened,
                 retry_count, attempts, cardRead>>

InWait == WaitStep /\ UNCHANGED <<readVars, flagVars, spc>>

ReaderStep ==
  \/ Opening \/ EnterShot
  \/ Attempt \/ InWait \/ WaitDone \/ Activate \/ AttemptFailed
  \/ Closing

-----------------------------------------------------------------------------
(* The other tasks, the chip and the tick, as in EventLoop.                *)

Ticking  == Tick /\ UNCHANGED <<readVars, flagVars, spc>>
Outside  == Environment /\ UNCHANGED <<readVars, flagVars, spc>>
Stopping(s) == StopStep(s) /\ UNCHANGED readVars

Next ==
  \/ StartRead
  \/ ReaderStep
  \/ \E s \in Stoppers : Stop(s) /\ UNCHANGED readVars
  \/ \E s \in Stoppers : Stopping(s)
  \/ Ticking
  \/ Outside

Spec == Init /\ [][Next]_vars

\* Ready tasks run and time passes; the chip, the cards, the link and the
\* callers owe nothing.
Fairness ==
  /\ WF_vars(ReaderStep)
  /\ WF_vars(Ticking)
  /\ \A s \in Stoppers : WF_vars(Stopping(s))

FairSpec == Spec /\ Fairness

-----------------------------------------------------------------------------
(* Properties.                                                             *)

Returned == pc \in {"deactivate", "close", "finish"}

\* A Read() that reports success has read a card, or somebody stopped it: it
\* never succeeds empty-handed (rs_nfc_reader.c:170-189, 216-219).
SuccessMeansCard ==
  Returned /\ ret = "RS_OK" => cardRead \/ g_stop_requested

\* A result, once filled in, is returned with RS_OK: no later attempt or
\* error replaces it.
CardMeansSuccess == Returned /\ cardRead => ret = "RS_OK"

\* Every failed attempt is counted: below the counter's limit there are never
\* more than retry_count + 1 of them (rs_nfc_reader.c:266).
AttemptsBounded == retry_count < MaxU8 => attempts <= retry_count + 1

\* A stop ends the Read(), at the latest when the wait it came too late for
\* has timed out, whatever fails meanwhile.
StopEndsRead == g_stop_requested /\ pc # "idle" ~> pc = "idle"

\* Unless the retries are unlimited the Read() itself ends, whatever fails.
ReadEnds == []<>(pc = "idle" \/ retry_count = MaxU8)
=============================================================================
