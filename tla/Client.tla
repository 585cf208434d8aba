------------------------------- MODULE Client -------------------------------
(***************************************************************************)
(* The application around the API: app_nfc_reader_init() in tasks of its   *)
(* own, which stops what is in flight when its launch fails, and the       *)
(* application's callbacks, which run on the worker task and may call the  *)
(* API too.  Reads are non-blocking, as the application's are.             *)
(***************************************************************************)
EXTENDS ReadApi

CONSTANT CallbackTask    \* the worker task, as the caller its callbacks are

ASSUME ClientAssumption == CallbackTask \in Callers

App == Callers \ {CallbackTask}

VARIABLES
  bailing     \* the tasks whose launch failed and that have yet to stop

clientVars == <<vars, bailing>>

ClientTypeOK == TypeOK /\ bailing \subseteq App

ClientInit == Init /\ bailing = {}

-----------------------------------------------------------------------------
\* app_nfc_reader_init.
Launch(c) ==
  /\ c \notin bailing
  /\ CallRead(c)
  /\ UNCHANGED bailing

\* app_nfc_reader_stop, after a failed launch or on its own account.
AppStop(c) == CallStop(c) /\ UNCHANGED bailing

\* What on_card_event and the completion callback may call.
CallbackCalls ==
  /\ worker \in {"reading", "callback"}
  /\ CallRead(CallbackTask) \/ CallStop(CallbackTask)
  /\ UNCHANGED bailing

\* A step of Read(); the application's launch fails when it returns an error.
ReadGoesOn(c) ==
  /\ ReadStep(c)
  /\ bailing' = IF c \in App /\ cpc'[c] = "idle" /\ cpc[c] # "create"
                THEN bailing \cup {c} ELSE bailing

\* A step of Stop(), whatever it returns.
StopGoesOn(c) ==
  /\ StopStep(c)
  /\ bailing' = IF cpc'[c] = "idle" THEN bailing \ {c} ELSE bailing

\* The worker waits for its callbacks' calls.
WorkerGoesOn ==
  /\ cpc[CallbackTask] = "idle"
  /\ WorkerStep
  /\ UNCHANGED bailing

ClientNext ==
  \/ \E c \in App : Launch(c) \/ AppStop(c)
  \/ CallbackCalls
  \/ \E c \in Callers : ReadGoesOn(c) \/ StopGoesOn(c)
  \/ WorkerGoesOn

ClientSpec == ClientInit /\ [][ClientNext]_clientVars

\* Tasks that are ready run. The body of a read need not end: with an endless
\* timeout it may never, not even when it is stopped (see EventLoop). That the
\* application's callback returns is an assumption on the application. Nobody has
\* to call anything. Fairness is strong because, without preemption, a task is
\* held up whenever another one is inside a call: callers block between their
\* calls, and then it runs.
Fairness ==
  /\ SF_clientVars(WorkerGoesOn /\ worker # "reading")
  /\ \A c \in Callers : SF_clientVars(ReadGoesOn(c) \/ StopGoesOn(c))

FairClientSpec == ClientSpec /\ Fairness

-----------------------------------------------------------------------------
(* Properties.                                                             *)

\* "A second call while a task is running returns RS_ERR_INTERNAL": also the
\* one a callback makes on that task, which would create the worker on the TCB
\* and the stack it runs on itself (rs_nfc_reader.c:540-546).
CallbackReadRefused == cpc[CallbackTask] \notin Creating

\* When the application bails out of a failed launch, whatever read is in
\* flight has been asked to stop, although the refused Read() was another's
\* (app_nfc_reader.c:248-258).
BailOutStops ==
  [][\A c \in App : c \in bailing /\ c \notin bailing' =>
       ~ReadInProgress' \/ g_stop_requested']_clientVars
=============================================================================
