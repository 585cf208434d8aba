------------------------------- MODULE ReadApi -------------------------------
(***************************************************************************)
(* The public API, rs_nfc_reader_Read() and rs_nfc_reader_Stop(), called   *)
(* by several tasks, and the worker task a non-blocking Read() creates:    *)
(* the flags they share, in the order the code reads and writes them.      *)
(*                                                                         *)
(* What a read does between opening and closing the reader is EventLoop's  *)
(* subject; here it is one step that may come at any time.                 *)
(*                                                                         *)
(* The worker lives in one static TCB and stack.  Creating it while the    *)
(* TCB is still in use has no defined outcome: the model then records      *)
(* tcbReused and stops.                                                    *)
(***************************************************************************)
EXTENDS Integers

CONSTANTS
  Callers,       \* the tasks that call Read() and Stop()
  Preemptive,    \* a task can be suspended between any two of its steps;
                 \* otherwise (equal priorities, no time slicing) only where
                 \* it blocks
  BlockingReads, \* callers also use Read() without a completion callback
  IdleRuns       \* between two reads the callers block long enough for the
                 \* idle task to release the TCB of the deleted worker

ASSUME ModeAssumption ==
  /\ Preemptive \in BOOLEAN
  /\ BlockingReads \in BOOLEAN
  /\ IdleRuns \in BOOLEAN

VARIABLES
  active,            \* g_async_ctx.active
  g_stop_requested,
  g_reader_active,
  cpc,               \* cpc[c]: where caller c is in Read() or Stop()
  worker,            \* where the worker task is
  tcbReused          \* the worker was created on a TCB still in use

flagVars == <<active, g_stop_requested, g_reader_active>>
vars == <<flagVars, cpc, worker, tcbReused>>

Cpc == {"idle", "guard", "claim", "clear_stop", "publish", "create",
        "undo_active", "undo_reader",
        "b_clear_stop", "b_publish", "b_body", "b_done",
        "s_active", "s_flag", "s_set", "s_wake"}
WorkerPc == {"none", "start", "reading", "callback", "clear_active",
             "clear_reader", "delete", "terminating"}
\* Where a caller is past the guard and has not yet handed over to the worker.
Creating == {"claim", "clear_stop", "publish", "create", "undo_active", "undo_reader"}

TypeOK ==
  /\ active \in BOOLEAN
  /\ g_stop_requested \in BOOLEAN
  /\ g_reader_active \in BOOLEAN
  /\ cpc \in [Callers -> Cpc]
  /\ worker \in WorkerPc
  /\ tcbReused \in BOOLEAN

Init ==
  /\ active = FALSE /\ g_stop_requested = FALSE /\ g_reader_active = FALSE
  /\ cpc = [c \in Callers |-> "idle"]
  /\ worker = "none" /\ tcbReused = FALSE

-----------------------------------------------------------------------------
(* Scheduling.  Without preemption a task runs until it blocks: a caller   *)
(* between two calls or inside a blocking read, the worker before it first *)
(* runs, while it waits for a card and in the application's callback.      *)

CallerYields(c) == cpc[c] \in {"idle", "b_body"}
WorkerYields    == worker \in {"none", "start", "reading", "callback",
                               "terminating"}

CallerRuns(c) ==
  /\ ~tcbReused
  /\ \/ Preemptive
     \/ WorkerYields /\ \A d \in Callers \ {c} : CallerYields(d)

WorkerRuns ==
  /\ ~tcbReused
  /\ Preemptive \/ \A c \in Callers : CallerYields(c)

CallerAt(c, from, to) ==
  /\ CallerRuns(c)
  /\ cpc[c] = from
  /\ cpc' = [cpc EXCEPT ![c] = to]

WorkerAt(from, to) ==
  /\ WorkerRuns
  /\ worker = from /\ worker' = to

-----------------------------------------------------------------------------
(* rs_nfc_reader_Read() with a completion callback.                        *)

CallRead(c) ==
  /\ CallerAt(c, "idle", "guard")
  /\ IdleRuns => worker # "terminating"
  /\ UNCHANGED <<flagVars, worker, tcbReused>>

\* Mutant: a refused Read() takes back the flag of the accepted one.
RefusalUndoes(c) ==
  /\ \/ CallerAt(c, "guard", "claim") /\ ~active /\ UNCHANGED g_reader_active
     \/ CallerAt(c, "guard", "idle") /\ active /\ g_reader_active' = FALSE
  /\ UNCHANGED <<active, g_stop_requested, worker, tcbReused>>

\* The re-entrancy guard.
ReadGuard(c) ==
  /\ \/ CallerAt(c, "guard", "claim") /\ ~active
     \/ CallerAt(c, "guard", "idle") /\ active
  /\ UNCHANGED <<flagVars, worker, tcbReused>>

\* The copy of the configuration and active = true.
ReadClaim(c) ==
  /\ CallerAt(c, "claim", "clear_stop")
  /\ active' = TRUE
  /\ UNCHANGED <<g_stop_requested, g_reader_active, worker, tcbReused>>

ReadClearStop(c) ==
  /\ CallerAt(c, "clear_stop", "publish")
  /\ g_stop_requested' = FALSE
  /\ UNCHANGED <<active, g_reader_active, worker, tcbReused>>

\* Mutant: Read() does not announce itself.
NoPublish(c) ==
  /\ CallerAt(c, "publish", "create")
  /\ UNCHANGED <<flagVars, worker, tcbReused>>

ReadPublish(c) ==
  /\ CallerAt(c, "publish", "create")
  /\ g_reader_active' = TRUE
  /\ UNCHANGED <<active, g_stop_requested, worker, tcbReused>>

\* xTaskCreateStatic, which may refuse.
ReadCreate(c) ==
  /\ \/ /\ CallerAt(c, "create", "idle")
        /\ worker = "none" /\ worker' = "start"
        /\ UNCHANGED tcbReused
     \/ /\ CallerAt(c, "create", "create")
        /\ worker # "none" /\ tcbReused' = TRUE
        /\ UNCHANGED worker
     \/ /\ CallerAt(c, "create", "undo_active")
        /\ UNCHANGED <<worker, tcbReused>>
  /\ UNCHANGED flagVars

\* Mutant: a refused creation leaves the guard closed.
NoUndo(c) ==
  /\ CallerAt(c, "undo_active", "undo_reader")
  /\ UNCHANGED <<flagVars, worker, tcbReused>>

ReadUndoActive(c) ==
  /\ CallerAt(c, "undo_active", "undo_reader")
  /\ active' = FALSE
  /\ UNCHANGED <<g_stop_requested, g_reader_active, worker, tcbReused>>

ReadUndoReader(c) ==
  /\ CallerAt(c, "undo_reader", "idle")
  /\ g_reader_active' = FALSE
  /\ UNCHANGED <<active, g_stop_requested, worker, tcbReused>>

-----------------------------------------------------------------------------
(* rs_nfc_reader_Read() without one: no guard, the caller reads itself.    *)

CallBlockingRead(c) ==
  /\ BlockingReads
  /\ CallerAt(c, "idle", "b_clear_stop")
  /\ UNCHANGED <<flagVars, worker, tcbReused>>

BlockingClearStop(c) ==
  /\ CallerAt(c, "b_clear_stop", "b_publish")
  /\ g_stop_requested' = FALSE
  /\ UNCHANGED <<active, g_reader_active, worker, tcbReused>>

BlockingPublish(c) ==
  /\ CallerAt(c, "b_publish", "b_body")
  /\ g_reader_active' = TRUE
  /\ UNCHANGED <<active, g_stop_requested, worker, tcbReused>>

\* rs_nfc_read_blocking returns.
BlockingBody(c) ==
  /\ CallerAt(c, "b_body", "b_done")
  /\ UNCHANGED <<flagVars, worker, tcbReused>>

BlockingDone(c) ==
  /\ CallerAt(c, "b_done", "idle")
  /\ g_reader_active' = FALSE
  /\ UNCHANGED <<active, g_stop_requested, worker, tcbReused>>

-----------------------------------------------------------------------------
(* rs_nfc_reader_Stop().                                                   *)

CallStop(c) ==
  /\ CallerAt(c, "idle", "s_active")
  /\ UNCHANGED <<flagVars, worker, tcbReused>>

\* RS_ERR_DEPENDENCY when no read is active.
StopActive(c) ==
  /\ \/ CallerAt(c, "s_active", "s_flag") /\ g_reader_active
     \/ CallerAt(c, "s_active", "idle") /\ ~g_reader_active
  /\ UNCHANGED <<flagVars, worker, tcbReused>>

\* RS_ERR_INTERNAL when a stop has been requested already.
StopFlag(c) ==
  /\ \/ CallerAt(c, "s_flag", "s_set") /\ ~g_stop_requested
     \/ CallerAt(c, "s_flag", "idle") /\ g_stop_requested
  /\ UNCHANGED <<flagVars, worker, tcbReused>>

StopSet(c) ==
  /\ CallerAt(c, "s_set", "s_wake")
  /\ g_stop_requested' = TRUE
  /\ UNCHANGED <<active, g_reader_active, worker, tcbReused>>

\* rs_nfc_ptx_wake_waiting_task (see EventLoop), and RS_OK.
StopWake(c) ==
  /\ CallerAt(c, "s_wake", "idle")
  /\ UNCHANGED <<flagVars, worker, tcbReused>>

-----------------------------------------------------------------------------
(* rs_nfc_async_worker.                                                    *)

WorkerStart ==
  /\ WorkerAt("start", "reading")
  /\ UNCHANGED <<flagVars, cpc, tcbReused>>

\* Mutant: the worker reopens the guard before it calls back.
ReopensEarly ==
  /\ WorkerAt("reading", "callback")
  /\ active' = FALSE
  /\ UNCHANGED <<g_stop_requested, g_reader_active, cpc, tcbReused>>

\* rs_nfc_read_blocking returns.
WorkerBody ==
  /\ WorkerAt("reading", "callback")
  /\ UNCHANGED <<flagVars, cpc, tcbReused>>

\* Mutant: the worker deletes itself without calling back.
NoCallback ==
  /\ WorkerAt("reading", "clear_active")
  /\ UNCHANGED <<flagVars, cpc, tcbReused>>

\* The application's completion callback returns.
WorkerCallback ==
  /\ WorkerAt("callback", "clear_active")
  /\ UNCHANGED <<flagVars, cpc, tcbReused>>

WorkerClearActive ==
  /\ WorkerAt("clear_active", "clear_reader")
  /\ active' = FALSE
  /\ UNCHANGED <<g_stop_requested, g_reader_active, cpc, tcbReused>>

WorkerClearReader ==
  /\ WorkerAt("clear_reader", "delete")
  /\ g_reader_active' = FALSE
  /\ UNCHANGED <<active, g_stop_requested, cpc, tcbReused>>

\* g_async_task_handle = NULL, which nothing reads, and vTaskDelete(NULL):
\* the TCB goes on the kernel's list of tasks waiting for termination ...
WorkerDelete ==
  /\ WorkerAt("delete", "terminating")
  /\ UNCHANGED <<flagVars, cpc, tcbReused>>

\* ... and stays there until the idle task runs (external).
IdleTask ==
  /\ WorkerAt("terminating", "none")
  /\ UNCHANGED <<flagVars, cpc, tcbReused>>

-----------------------------------------------------------------------------
ReadStep(c) ==
  \/ ReadGuard(c) \/ ReadClaim(c) \/ ReadClearStop(c) \/ ReadPublish(c)
  \/ ReadCreate(c) \/ ReadUndoActive(c) \/ ReadUndoReader(c)

BlockingStep(c) ==
  BlockingClearStop(c) \/ BlockingPublish(c) \/ BlockingBody(c) \/ BlockingDone(c)

StopStep(c) == StopActive(c) \/ StopFlag(c) \/ StopSet(c) \/ StopWake(c)

CallerStep(c) == ReadStep(c) \/ BlockingStep(c) \/ StopStep(c)

Call(c) == CallRead(c) \/ CallBlockingRead(c) \/ CallStop(c)

WorkerStep ==
  \/ WorkerStart \/ WorkerBody \/ WorkerCallback \/ WorkerClearActive
  \/ WorkerClearReader \/ WorkerDelete \/ IdleTask

Next ==
  \/ \E c \in Callers : Call(c) \/ CallerStep(c)
  \/ WorkerStep

Spec == Init /\ [][Next]_vars

-----------------------------------------------------------------------------
(* Properties.                                                             *)

\* A worker is created only when the last one's TCB and stack are free: "a
\* second call while a task is running returns RS_ERR_INTERNAL"
\* (rs_nfc_reader.h:286-287).
NoTcbReuse == ~tcbReused

WorkerReading == worker \in {"start", "reading"}
CallerReading(c) == cpc[c] = "b_body"
ReadInProgress == WorkerReading \/ \E c \in Callers : CallerReading(c)

\* Neither active nor g_reader_active stays set without someone who is going
\* to clear it: whatever the interleaving of reads, refused creations and stops,
\* no Read() is refused and no Stop() accepted for ever
\* (rs_nfc_reader.c:546-547, 648-649, 664). g_stop_requested has no owner: it
\* stands until the next Read() clears it.
FlagsAreOwned ==
  /\ active =>
       \/ worker \in {"start", "reading", "callback", "clear_active"}
       \/ \E c \in Callers : cpc[c] \in {"clear_stop", "publish", "create",
                                         "undo_active"}
  /\ g_reader_active =>
       \/ worker \in {"start", "reading", "callback", "clear_active",
                     "clear_reader"}
       \/ \E c \in Callers : cpc[c] \in {"create", "undo_active", "undo_reader",
                                         "b_body", "b_done"}

\* "g_reader_active is true between the entry of rs_nfc_reader_Read() and the
\* completion of the corresponding operation" (rs_nfc_reader.c:72-73): a read
\* in progress can be stopped.
ReaderActiveWhileReading == ReadInProgress => g_reader_active

\* A granted stop is not forgotten while a read it may be meant for is still
\* in progress: only the next Read() clears the flag, and not before.
StopNotForgotten ==
  [][g_stop_requested /\ ~g_stop_requested' => ~ReadInProgress]_vars

\* The promise of AbstractReader, read off the worker and the stop flag.
Phase ==
  IF worker = "callback" THEN "ended"
  ELSE IF worker \notin {"start", "reading"} THEN "idle"
  ELSE IF g_stop_requested THEN "stopping" ELSE "running"

Promise == INSTANCE AbstractReader WITH phase <- Phase

\* A non-blocking read runs the life cycle of AbstractReader: accepted one at
\* a time with no stop left over from the last one, stopped at most once, and
\* once it has ended called back exactly once. Whether it ends is the subject of
\* EventLoop and SingleShot.
KeepsPromise == Promise!Spec
=============================================================================
