---------------------------- MODULE ReadApiProofs ----------------------------
(***************************************************************************)
(* Safety of ReadApi, and of Client around it, for any number of callers.  *)
(*                                                                         *)
(* Under every schedule, with blocking and non-blocking reads, no flag is  *)
(* left without an owner.  Under the schedule the API relies on (equal     *)
(* priorities without preemption, non-blocking reads only, the idle task   *)
(* run between two reads) CoopInv is inductive: at most one task is inside *)
(* a call, so the flags change as if each call were atomic.                *)
(***************************************************************************)
EXTENDS Client, TLAPS

Cooperative == ~Preemptive /\ ~BlockingReads /\ IdleRuns

\* Where somebody is bound to clear g_async_ctx.active ...
ActiveWorker == {"start", "reading", "callback", "clear_active"}
ActiveCaller == {"clear_stop", "publish", "create", "undo_active"}

\* ... and g_reader_active.
ReaderWorker == {"start", "reading", "callback", "clear_active", "clear_reader"}
ReaderCaller == {"create", "undo_active", "undo_reader", "b_body", "b_done"}

Owned(workers, callers) ==
  worker \in workers \/ \E c \in Callers : cpc[c] \in callers

-----------------------------------------------------------------------------
(* Every schedule.                                                         *)

\* What a step of one caller does to the places of all of them.
LEMMA CallerMoves ==
  ASSUME TypeOK, NEW c \in Callers, NEW from, NEW to \in Cpc,
         CallerAt(c, from, to)
  PROVE  /\ cpc' \in [Callers -> Cpc]
         /\ cpc[c] = from /\ cpc'[c] = to
         /\ \A d \in Callers \ {c} : cpc'[d] = cpc[d]
  BY DEF CallerAt, TypeOK

\* A flag that was owned stays owned when its owner does not let go of it.
LEMMA OwnerStays ==
  ASSUME TypeOK, NEW c \in Callers, NEW from, NEW to \in Cpc,
         CallerAt(c, from, to), NEW workers, NEW callers,
         worker' = worker, from \in callers => to \in callers,
         Owned(workers, callers)
  PROVE  Owned(workers, callers)'
<1>1. CASE worker \in workers
  BY <1>1 DEF Owned
<1>2. CASE \E d \in Callers : cpc[d] \in callers
  <2>1. PICK d \in Callers : cpc[d] \in callers
    BY <1>2
  <2>2. cpc'[d] \in callers
    BY <2>1, CallerMoves
  <2>. QED
    BY <2>2 DEF Owned
<1>. QED
  BY <1>1, <1>2 DEF Owned

OwnersInv ==
  /\ active => Owned(ActiveWorker, ActiveCaller)
  /\ g_reader_active => Owned(ReaderWorker, ReaderCaller)

\* The invariant of the runs in terms of owners, before and after a step.
LEMMA FlagsOwned ==
  (FlagsAreOwned <=> OwnersInv) /\ (FlagsAreOwned' <=> OwnersInv')
  BY DEF FlagsAreOwned, OwnersInv, Owned, ActiveWorker, ActiveCaller,
     ReaderWorker, ReaderCaller

\* Every step keeps the types.
LEMMA NextTypeOK ==
  ASSUME TypeOK, [Next]_vars
  PROVE  TypeOK'
<1>. USE DEF flagVars
<1>1. CASE UNCHANGED vars
  BY <1>1 DEF vars, TypeOK
<1>2. CASE \E c \in Callers : Call(c)
  <2>1. PICK c \in Callers : Call(c)
    BY <1>2
  <2>2. cpc' \in [Callers -> Cpc]
    BY <2>1, CallerMoves DEF Call, CallRead, CallBlockingRead, CallStop, Cpc
  <2>. QED
    BY <2>1, <2>2 DEF Call, CallRead, CallBlockingRead, CallStop, TypeOK
<1>3. CASE \E c \in Callers : ReadStep(c)
  <2>1. PICK c \in Callers : ReadStep(c)
    BY <1>3
  <2>2. cpc' \in [Callers -> Cpc]
    BY <2>1, CallerMoves
    DEF ReadStep, ReadGuard, ReadClaim, ReadClearStop, ReadPublish, ReadCreate,
        ReadUndoActive, ReadUndoReader, Cpc
  <2>3. active' \in BOOLEAN /\ g_stop_requested' \in BOOLEAN
        /\ g_reader_active' \in BOOLEAN
    BY <2>1
    DEF ReadStep, ReadGuard, ReadClaim, ReadClearStop, ReadPublish, ReadCreate,
        ReadUndoActive, ReadUndoReader,
        TypeOK
  <2>4. worker' \in WorkerPc /\ tcbReused' \in BOOLEAN
    BY <2>1
    DEF ReadStep, ReadGuard, ReadClaim, ReadClearStop, ReadPublish, ReadCreate,
        ReadUndoActive, ReadUndoReader,
        TypeOK, WorkerPc
  <2>. QED
    BY <2>2, <2>3, <2>4 DEF TypeOK
<1>4. CASE \E c \in Callers : BlockingStep(c)
  <2>1. PICK c \in Callers : BlockingStep(c)
    BY <1>4
  <2>2. cpc' \in [Callers -> Cpc]
    BY <2>1, CallerMoves
    DEF BlockingStep, BlockingClearStop, BlockingPublish, BlockingBody,
        BlockingDone, Cpc
  <2>3. active' \in BOOLEAN /\ g_stop_requested' \in BOOLEAN
        /\ g_reader_active' \in BOOLEAN
    BY <2>1
    DEF BlockingStep, BlockingClearStop, BlockingPublish, BlockingBody,
        BlockingDone,
        TypeOK
  <2>4. worker' \in WorkerPc /\ tcbReused' \in BOOLEAN
    BY <2>1
    DEF BlockingStep, BlockingClearStop, BlockingPublish, BlockingBody,
        BlockingDone,
        TypeOK, WorkerPc
  <2>. QED
    BY <2>2, <2>3, <2>4 DEF TypeOK
<1>5. CASE \E c \in Callers : StopStep(c)
  <2>1. PICK c \in Callers : StopStep(c)
    BY <1>5
  <2>2. cpc' \in [Callers -> Cpc]
    BY <2>1, CallerMoves
    DEF StopStep, StopActive, StopFlag, StopSet, StopWake, Cpc
  <2>3. active' \in BOOLEAN /\ g_stop_requested' \in BOOLEAN
        /\ g_reader_active' \in BOOLEAN
    BY <2>1
    DEF StopStep, StopActive, StopFlag, StopSet, StopWake,
        TypeOK
  <2>4. worker' \in WorkerPc /\ tcbReused' \in BOOLEAN
    BY <2>1
    DEF StopStep, StopActive, StopFlag, StopSet, StopWake,
        TypeOK, WorkerPc
  <2>. QED
    BY <2>2, <2>3, <2>4 DEF TypeOK
<1>6. CASE WorkerStep
  BY <1>6
  DEF WorkerStep, WorkerStart, WorkerBody, WorkerCallback, WorkerClearActive,
      WorkerClearReader, WorkerDelete, IdleTask, WorkerAt, TypeOK, WorkerPc
<1>. QED
  BY <1>1, <1>2, <1>3, <1>4, <1>5, <1>6 DEF Next, CallerStep

\* A step of a caller that sets neither flag, and leaves the places of their
\* owners only by going to another one.
LEMMA CallerKeepsOwners ==
  ASSUME TypeOK, OwnersInv, NEW c \in Callers, NEW from, NEW to \in Cpc,
         CallerAt(c, from, to), worker' = worker,
         active' => active, g_reader_active' => g_reader_active,
         active' => (from \in ActiveCaller => to \in ActiveCaller),
         g_reader_active' => (from \in ReaderCaller => to \in ReaderCaller)
  PROVE  OwnersInv'
<1>1. active' => Owned(ActiveWorker, ActiveCaller)'
  BY OwnerStays DEF OwnersInv
<1>2. g_reader_active' => Owned(ReaderWorker, ReaderCaller)'
  BY OwnerStays DEF OwnersInv
<1>. QED
  BY <1>1, <1>2 DEF OwnersInv

LEMMA ReadKeepsOwners ==
  ASSUME TypeOK, OwnersInv, NEW c \in Callers, ReadStep(c)
  PROVE  OwnersInv'
<1>. USE DEF flagVars, ActiveCaller, ReaderCaller, Cpc
<1>1. CASE ReadGuard(c)
  BY <1>1, CallerKeepsOwners DEF ReadGuard
<1>2. CASE ReadClaim(c)
  <2>1. cpc'[c] \in ActiveCaller /\ worker' = worker
    BY <1>2, CallerMoves DEF ReadClaim
  <2>2. g_reader_active' => Owned(ReaderWorker, ReaderCaller)'
    BY <1>2, OwnerStays DEF ReadClaim, OwnersInv
  <2>. QED
    BY <2>1, <2>2 DEF OwnersInv, Owned
<1>3. CASE ReadClearStop(c)
  BY <1>3, CallerKeepsOwners DEF ReadClearStop
<1>4. CASE ReadPublish(c)
  <2>1. cpc'[c] \in ActiveCaller /\ cpc'[c] \in ReaderCaller
    BY <1>4, CallerMoves DEF ReadPublish
  <2>. QED
    BY <2>1 DEF OwnersInv, Owned
<1>5. CASE ReadCreate(c)
  <2>1. CASE CallerAt(c, "create", "idle") /\ worker' = "start"
    BY <2>1 DEF OwnersInv, Owned, ActiveWorker, ReaderWorker
  <2>2. CASE CallerAt(c, "create", "create") /\ UNCHANGED <<worker, flagVars>>
    BY <2>2, CallerKeepsOwners
  <2>3. CASE CallerAt(c, "create", "undo_active")
             /\ UNCHANGED <<worker, flagVars>>
    BY <2>3, CallerKeepsOwners
  <2>. QED
    BY <1>5, <2>1, <2>2, <2>3 DEF ReadCreate
<1>6. CASE ReadUndoActive(c)
  BY <1>6, CallerKeepsOwners DEF ReadUndoActive
<1>7. CASE ReadUndoReader(c)
  BY <1>7, CallerKeepsOwners DEF ReadUndoReader
<1>. QED
  BY <1>1, <1>2, <1>3, <1>4, <1>5, <1>6, <1>7 DEF ReadStep

LEMMA OtherCallsKeepOwners ==
  ASSUME TypeOK, OwnersInv, NEW c \in Callers,
         Call(c) \/ BlockingStep(c) \/ StopStep(c)
  PROVE  OwnersInv'
<1>. USE DEF flagVars, ActiveCaller, ReaderCaller, Cpc
<1>1. CASE Call(c)
  BY <1>1, CallerKeepsOwners DEF Call, CallRead, CallBlockingRead, CallStop
<1>2. CASE BlockingClearStop(c)
  BY <1>2, CallerKeepsOwners DEF BlockingClearStop
<1>3. CASE BlockingPublish(c)
  <2>1. cpc'[c] \in ReaderCaller
    BY <1>3, CallerMoves DEF BlockingPublish
  <2>2. active' => Owned(ActiveWorker, ActiveCaller)'
    BY <1>3, OwnerStays DEF BlockingPublish, OwnersInv
  <2>. QED
    BY <2>1, <2>2 DEF OwnersInv, Owned
<1>4. CASE BlockingBody(c) \/ BlockingDone(c)
  BY <1>4, CallerKeepsOwners DEF BlockingBody, BlockingDone
<1>5. CASE StopStep(c)
  BY <1>5, CallerKeepsOwners
  DEF StopStep, StopActive, StopFlag, StopSet, StopWake
<1>. QED
  BY <1>1, <1>2, <1>3, <1>4, <1>5 DEF BlockingStep

LEMMA WorkerKeepsOwners ==
  ASSUME OwnersInv, WorkerStep
  PROVE  OwnersInv'
  BY DEF OwnersInv, Owned, ActiveWorker, ReaderWorker, WorkerStep, WorkerStart,
     WorkerBody, WorkerCallback, WorkerClearActive, WorkerClearReader,
     WorkerDelete, IdleTask, WorkerAt, flagVars

\* TypeOK and the owners are invariants under every schedule.
THEOREM OwnersInvariance == Spec => [](TypeOK /\ OwnersInv)
<1>1. Init => TypeOK /\ OwnersInv
  <2>. SUFFICES ASSUME Init PROVE TypeOK /\ OwnersInv
    OBVIOUS
  <2>1. cpc \in [Callers -> Cpc]
    BY DEF Init, Cpc
  <2>2. worker \in WorkerPc
    BY DEF Init, WorkerPc
  <2>3. /\ active = FALSE /\ g_stop_requested = FALSE
        /\ g_reader_active = FALSE /\ tcbReused = FALSE
    BY DEF Init
  <2>. QED
    BY <2>1, <2>2, <2>3 DEF TypeOK, OwnersInv
<1>2. TypeOK /\ OwnersInv /\ [Next]_vars => (TypeOK /\ OwnersInv)'
  <2>. SUFFICES ASSUME TypeOK, OwnersInv, [Next]_vars PROVE OwnersInv'
    BY NextTypeOK
  <2>1. CASE UNCHANGED vars
    BY <2>1 DEF vars, flagVars, OwnersInv, Owned
  <2>2. CASE Next
    BY <2>2, ReadKeepsOwners, OtherCallsKeepOwners, WorkerKeepsOwners
    DEF Next, CallerStep
  <2>. QED
    BY <2>1, <2>2
<1>. QED
  BY <1>1, <1>2, PTL DEF Spec

\* The variables of the API keep their types, whoever calls when.
THEOREM ApiTypeCorrect == Spec => []TypeOK
  BY OwnersInvariance, PTL

\* No interleaving of reads, refused creations and stops leaves a flag set
\* with nobody to clear it.
THEOREM NoFlagStuck == Spec => []FlagsAreOwned
<1>1. OwnersInv => FlagsAreOwned
  BY FlagsOwned
<1>. QED
  BY <1>1, OwnersInvariance, PTL

-----------------------------------------------------------------------------
(* The schedule the API relies on.                                         *)

CallOK(c) ==
  /\ cpc[c] \notin {"b_clear_stop", "b_publish", "b_body", "b_done"}
  /\ cpc[c] = "guard" => worker # "terminating"
  /\ cpc[c] \in Creating => worker = "none"
  /\ cpc[c] \in {"publish", "create"} => ~g_stop_requested
  /\ cpc[c] \in {"clear_stop", "publish", "create"} => active
  /\ cpc[c] = "create" => g_reader_active
  /\ cpc[c] = "s_wake" => g_stop_requested

\* At most one caller is inside a call, and then the worker is not running.
OneInside ==
  \A c \in Callers : cpc[c] # "idle" =>
    WorkerYields /\ \A d \in Callers \ {c} : cpc[d] = "idle"

WorkerOK ==
  /\ worker \in ActiveWorker => active
  /\ worker \in ReaderWorker => g_reader_active

CoopInv ==
  /\ TypeOK
  /\ NoTcbReuse
  /\ \A c \in Callers : CallOK(c)
  /\ OneInside
  /\ WorkerOK

\* A step of a caller: everybody else is idle, before and after it.
LEMMA CoopCaller ==
  ASSUME Cooperative, CoopInv, NEW c \in Callers, NEW from, NEW to \in Cpc,
         CallerAt(c, from, to)
  PROVE  /\ WorkerYields
         /\ cpc[c] = from /\ cpc'[c] = to
         /\ \A d \in Callers \ {c} : cpc[d] = "idle" /\ cpc'[d] = "idle"
<1>1. /\ cpc[c] = from /\ cpc'[c] = to
      /\ \A d \in Callers \ {c} : cpc'[d] = cpc[d]
  BY CallerMoves DEF CoopInv
<1>2. WorkerYields /\ \A d \in Callers \ {c} : CallerYields(d)
  BY DEF CallerAt, CallerRuns, Cooperative
<1>3. \A d \in Callers \ {c} : cpc[d] = "idle"
  BY <1>2 DEF CallerYields, CoopInv, CallOK
<1>. QED
  BY <1>1, <1>2, <1>3

\* So a step of c keeps CoopInv if it keeps c's part of it and the flags'.
LEMMA CoopStep ==
  ASSUME Cooperative, CoopInv, TypeOK',
         NEW c \in Callers, NEW from, NEW to \in Cpc, CallerAt(c, from, to),
         WorkerYields', CallOK(c)', WorkerOK', NoTcbReuse'
  PROVE  CoopInv'
<1>1. \A d \in Callers \ {c} : cpc'[d] = "idle"
  BY CoopCaller
<1>2. ASSUME NEW d \in Callers \ {c} PROVE CallOK(d)'
  BY <1>1 DEF CallOK, Creating
<1>3. OneInside'
  BY <1>1 DEF OneInside
<1>. QED
  BY <1>2, <1>3 DEF CoopInv

\* A Read() that does not block.
LEMMA CoopRead ==
  ASSUME Cooperative, CoopInv, TypeOK', NEW c \in Callers, ReadStep(c)
  PROVE  CoopInv'
<1>1. CASE ReadGuard(c)
  <2>1. CASE CallerAt(c, "guard", "claim")
    <3>1. /\ cpc[c] = "guard" /\ cpc'[c] = "claim" /\ WorkerYields
          /\ CallOK(c) /\ WorkerOK /\ NoTcbReuse
      BY <2>1, CoopCaller DEF CoopInv, Cpc
    <3>2. ~active /\ UNCHANGED <<active, g_reader_active, g_stop_requested,
                                     worker, tcbReused>>
      BY <1>1, <3>1, CoopCaller DEF ReadGuard, Cpc, flagVars
    <3>3. worker = "none"
      BY <3>1, <3>2 DEF WorkerOK, ActiveWorker, WorkerYields, CallOK
    <3>4. CallOK(c)' /\ WorkerYields'
      BY <3>1, <3>2, <3>3 DEF CallOK, Creating, WorkerYields
    <3>5. WorkerOK' /\ NoTcbReuse'
      BY <3>1, <3>2, <3>3
      DEF CallOK, Creating, WorkerOK, ActiveWorker, ReaderWorker, NoTcbReuse
    <3>. QED
      BY <2>1, <3>4, <3>5, CoopStep DEF Cpc
  <2>2. CASE CallerAt(c, "guard", "idle")
    <3>1. /\ cpc[c] = "guard" /\ cpc'[c] = "idle" /\ WorkerYields
          /\ CallOK(c) /\ WorkerOK /\ NoTcbReuse
      BY <2>2, CoopCaller DEF CoopInv, Cpc
    <3>2. CallOK(c)' /\ WorkerYields'
      BY <1>1, <3>1
      DEF ReadGuard, CallerAt, flagVars, CallOK, Creating,
          WorkerYields
    <3>3. WorkerOK' /\ NoTcbReuse'
      BY <1>1, <3>1
      DEF ReadGuard, CallerAt, flagVars, CallOK, Creating,
          WorkerOK, ActiveWorker, ReaderWorker, NoTcbReuse
    <3>. QED
      BY <2>2, <3>2, <3>3, CoopStep DEF Cpc
  <2>. QED
    BY <1>1, <2>1, <2>2 DEF ReadGuard
<1>2. CASE ReadClaim(c)
  <2>1. CASE CallerAt(c, "claim", "clear_stop")
    <3>1. /\ cpc[c] = "claim" /\ cpc'[c] = "clear_stop" /\ WorkerYields
          /\ CallOK(c) /\ WorkerOK /\ NoTcbReuse
      BY <2>1, CoopCaller DEF CoopInv, Cpc
    <3>2. CallOK(c)' /\ WorkerYields'
      BY <1>2, <3>1
      DEF ReadClaim, CallerAt, flagVars, CallOK, Creating,
          WorkerYields
    <3>3. WorkerOK' /\ NoTcbReuse'
      BY <1>2, <3>1
      DEF ReadClaim, CallerAt, flagVars, CallOK, Creating,
          WorkerOK, ActiveWorker, ReaderWorker, NoTcbReuse
    <3>. QED
      BY <2>1, <3>2, <3>3, CoopStep DEF Cpc
  <2>. QED
    BY <1>2, <2>1 DEF ReadClaim
<1>3. CASE ReadClearStop(c)
  <2>1. CASE CallerAt(c, "clear_stop", "publish")
    <3>1. /\ cpc[c] = "clear_stop" /\ cpc'[c] = "publish" /\ WorkerYields
          /\ CallOK(c) /\ WorkerOK /\ NoTcbReuse
      BY <2>1, CoopCaller DEF CoopInv, Cpc
    <3>2. CallOK(c)' /\ WorkerYields'
      BY <1>3, <3>1
      DEF ReadClearStop, CallerAt, flagVars, CallOK, Creating,
          WorkerYields
    <3>3. WorkerOK' /\ NoTcbReuse'
      BY <1>3, <3>1
      DEF ReadClearStop, CallerAt, flagVars, CallOK, Creating,
          WorkerOK, ActiveWorker, ReaderWorker, NoTcbReuse
    <3>. QED
      BY <2>1, <3>2, <3>3, CoopStep DEF Cpc
  <2>. QED
    BY <1>3, <2>1 DEF ReadClearStop
<1>4. CASE ReadPublish(c)
  <2>1. CASE CallerAt(c, "publish", "create")
    <3>1. /\ cpc[c] = "publish" /\ cpc'[c] = "create" /\ WorkerYields
          /\ CallOK(c) /\ WorkerOK /\ NoTcbReuse
      BY <2>1, CoopCaller DEF CoopInv, Cpc
    <3>2. CallOK(c)' /\ WorkerYields'
      BY <1>4, <3>1
      DEF ReadPublish, CallerAt, flagVars, CallOK, Creating,
          WorkerYields
    <3>3. WorkerOK' /\ NoTcbReuse'
      BY <1>4, <3>1
      DEF ReadPublish, CallerAt, flagVars, CallOK, Creating,
          WorkerOK, ActiveWorker, ReaderWorker, NoTcbReuse
    <3>. QED
      BY <2>1, <3>2, <3>3, CoopStep DEF Cpc
  <2>. QED
    BY <1>4, <2>1 DEF ReadPublish
<1>5. CASE ReadCreate(c)
  <2>1. CASE CallerAt(c, "create", "idle")
    <3>1. /\ cpc[c] = "create" /\ cpc'[c] = "idle" /\ WorkerYields
          /\ CallOK(c) /\ WorkerOK /\ NoTcbReuse
      BY <2>1, CoopCaller DEF CoopInv, Cpc
    <3>2. CallOK(c)' /\ WorkerYields'
      BY <1>5, <3>1
      DEF ReadCreate, CallerAt, flagVars, CallOK, Creating,
          WorkerYields
    <3>3. WorkerOK' /\ NoTcbReuse'
      BY <1>5, <3>1
      DEF ReadCreate, CallerAt, flagVars, CallOK, Creating,
          WorkerOK, ActiveWorker, ReaderWorker, NoTcbReuse
    <3>. QED
      BY <2>1, <3>2, <3>3, CoopStep DEF Cpc
  <2>2. CASE CallerAt(c, "create", "create")
    <3>1. /\ cpc[c] = "create" /\ cpc'[c] = "create" /\ WorkerYields
          /\ CallOK(c) /\ WorkerOK /\ NoTcbReuse
      BY <2>2, CoopCaller DEF CoopInv, Cpc
    <3>2. worker = "none"
      BY <3>1 DEF CallOK, Creating
    <3>. QED
      BY <1>5, <3>1, <3>2, CoopCaller DEF ReadCreate, Cpc
  <2>3. CASE CallerAt(c, "create", "undo_active")
    <3>1. /\ cpc[c] = "create" /\ cpc'[c] = "undo_active" /\ WorkerYields
          /\ CallOK(c) /\ WorkerOK /\ NoTcbReuse
      BY <2>3, CoopCaller DEF CoopInv, Cpc
    <3>2. UNCHANGED <<active, g_reader_active, g_stop_requested, worker,
                      tcbReused>>
      BY <1>5, <3>1, CoopCaller DEF ReadCreate, Cpc, flagVars
    <3>3. CallOK(c)' /\ WorkerYields'
      BY <3>1, <3>2 DEF CallOK, Creating, WorkerYields
    <3>4. WorkerOK' /\ NoTcbReuse'
      BY <3>1, <3>2
      DEF CallOK, Creating, WorkerOK, ActiveWorker, ReaderWorker, NoTcbReuse
    <3>. QED
      BY <2>3, <3>3, <3>4, CoopStep DEF Cpc
  <2>. QED
    BY <1>5, <2>1, <2>2, <2>3 DEF ReadCreate
<1>6. CASE ReadUndoActive(c)
  <2>1. CASE CallerAt(c, "undo_active", "undo_reader")
    <3>1. /\ cpc[c] = "undo_active" /\ cpc'[c] = "undo_reader" /\ WorkerYields
          /\ CallOK(c) /\ WorkerOK /\ NoTcbReuse
      BY <2>1, CoopCaller DEF CoopInv, Cpc
    <3>2. CallOK(c)' /\ WorkerYields'
      BY <1>6, <3>1
      DEF ReadUndoActive, CallerAt, flagVars, CallOK, Creating,
          WorkerYields
    <3>3. WorkerOK' /\ NoTcbReuse'
      BY <1>6, <3>1
      DEF ReadUndoActive, CallerAt, flagVars, CallOK, Creating,
          WorkerOK, ActiveWorker, ReaderWorker, NoTcbReuse
    <3>. QED
      BY <2>1, <3>2, <3>3, CoopStep DEF Cpc
  <2>. QED
    BY <1>6, <2>1 DEF ReadUndoActive
<1>7. CASE ReadUndoReader(c)
  <2>1. CASE CallerAt(c, "undo_reader", "idle")
    <3>1. /\ cpc[c] = "undo_reader" /\ cpc'[c] = "idle" /\ WorkerYields
          /\ CallOK(c) /\ WorkerOK /\ NoTcbReuse
      BY <2>1, CoopCaller DEF CoopInv, Cpc
    <3>2. CallOK(c)' /\ WorkerYields'
      BY <1>7, <3>1
      DEF ReadUndoReader, CallerAt, flagVars, CallOK, Creating,
          WorkerYields
    <3>3. WorkerOK' /\ NoTcbReuse'
      BY <1>7, <3>1
      DEF ReadUndoReader, CallerAt, flagVars, CallOK, Creating,
          WorkerOK, ActiveWorker, ReaderWorker, NoTcbReuse
    <3>. QED
      BY <2>1, <3>2, <3>3, CoopStep DEF Cpc
  <2>. QED
    BY <1>7, <2>1 DEF ReadUndoReader
<1>. QED
  BY <1>1, <1>2, <1>3, <1>4, <1>5, <1>6, <1>7 DEF ReadStep

\* A Stop().
LEMMA CoopStop ==
  ASSUME Cooperative, CoopInv, TypeOK', NEW c \in Callers, StopStep(c)
  PROVE  CoopInv'
<1>1. CASE StopActive(c)
  <2>1. CASE CallerAt(c, "s_active", "s_flag")
    <3>1. /\ cpc[c] = "s_active" /\ cpc'[c] = "s_flag" /\ WorkerYields
          /\ CallOK(c) /\ WorkerOK /\ NoTcbReuse
      BY <2>1, CoopCaller DEF CoopInv, Cpc
    <3>2. CallOK(c)' /\ WorkerYields'
      BY <1>1, <3>1
      DEF StopActive, CallerAt, flagVars, CallOK, Creating,
          WorkerYields
    <3>3. WorkerOK' /\ NoTcbReuse'
      BY <1>1, <3>1
      DEF StopActive, CallerAt, flagVars, CallOK, Creating,
          WorkerOK, ActiveWorker, ReaderWorker, NoTcbReuse
    <3>. QED
      BY <2>1, <3>2, <3>3, CoopStep DEF Cpc
  <2>2. CASE CallerAt(c, "s_active", "idle")
    <3>1. /\ cpc[c] = "s_active" /\ cpc'[c] = "idle" /\ WorkerYields
          /\ CallOK(c) /\ WorkerOK /\ NoTcbReuse
      BY <2>2, CoopCaller DEF CoopInv, Cpc
    <3>2. CallOK(c)' /\ WorkerYields'
      BY <1>1, <3>1
      DEF StopActive, CallerAt, flagVars, CallOK, Creating,
          WorkerYields
    <3>3. WorkerOK' /\ NoTcbReuse'
      BY <1>1, <3>1
      DEF StopActive, CallerAt, flagVars, CallOK, Creating,
          WorkerOK, ActiveWorker, ReaderWorker, NoTcbReuse
    <3>. QED
      BY <2>2, <3>2, <3>3, CoopStep DEF Cpc
  <2>. QED
    BY <1>1, <2>1, <2>2 DEF StopActive
<1>2. CASE StopFlag(c)
  <2>1. CASE CallerAt(c, "s_flag", "s_set")
    <3>1. /\ cpc[c] = "s_flag" /\ cpc'[c] = "s_set" /\ WorkerYields
          /\ CallOK(c) /\ WorkerOK /\ NoTcbReuse
      BY <2>1, CoopCaller DEF CoopInv, Cpc
    <3>2. CallOK(c)' /\ WorkerYields'
      BY <1>2, <3>1
      DEF StopFlag, CallerAt, flagVars, CallOK, Creating, WorkerYields
    <3>3. WorkerOK' /\ NoTcbReuse'
      BY <1>2, <3>1
      DEF StopFlag, CallerAt, flagVars, CallOK, Creating, WorkerOK,
          ActiveWorker, ReaderWorker, NoTcbReuse
    <3>. QED
      BY <2>1, <3>2, <3>3, CoopStep DEF Cpc
  <2>2. CASE CallerAt(c, "s_flag", "idle")
    <3>1. /\ cpc[c] = "s_flag" /\ cpc'[c] = "idle" /\ WorkerYields
          /\ CallOK(c) /\ WorkerOK /\ NoTcbReuse
      BY <2>2, CoopCaller DEF CoopInv, Cpc
    <3>2. CallOK(c)' /\ WorkerYields'
      BY <1>2, <3>1
      DEF StopFlag, CallerAt, flagVars, CallOK, Creating,
          WorkerYields
    <3>3. WorkerOK' /\ NoTcbReuse'
      BY <1>2, <3>1
      DEF StopFlag, CallerAt, flagVars, CallOK, Creating, WorkerOK,
          ActiveWorker, ReaderWorker, NoTcbReuse
    <3>. QED
      BY <2>2, <3>2, <3>3, CoopStep DEF Cpc
  <2>. QED
    BY <1>2, <2>1, <2>2 DEF StopFlag
<1>3. CASE StopSet(c)
  <2>1. CASE CallerAt(c, "s_set", "s_wake")
    <3>1. /\ cpc[c] = "s_set" /\ cpc'[c] = "s_wake" /\ WorkerYields
          /\ CallOK(c) /\ WorkerOK /\ NoTcbReuse
      BY <2>1, CoopCaller DEF CoopInv, Cpc
    <3>2. CallOK(c)' /\ WorkerYields'
      BY <1>3, <3>1
      DEF StopSet, CallerAt, flagVars, CallOK, Creating,
          WorkerYields
    <3>3. WorkerOK' /\ NoTcbReuse'
      BY <1>3, <3>1
      DEF StopSet, CallerAt, flagVars, CallOK, Creating, WorkerOK,
          ActiveWorker, ReaderWorker, NoTcbReuse
    <3>. QED
      BY <2>1, <3>2, <3>3, CoopStep DEF Cpc
  <2>. QED
    BY <1>3, <2>1 DEF StopSet
<1>4. CASE StopWake(c)
  <2>1. CASE CallerAt(c, "s_wake", "idle")
    <3>1. /\ cpc[c] = "s_wake" /\ cpc'[c] = "idle" /\ WorkerYields
          /\ CallOK(c) /\ WorkerOK /\ NoTcbReuse
      BY <2>1, CoopCaller DEF CoopInv, Cpc
    <3>2. CallOK(c)' /\ WorkerYields'
      BY <1>4, <3>1
      DEF StopWake, CallerAt, flagVars, CallOK, Creating,
          WorkerYields
    <3>3. WorkerOK' /\ NoTcbReuse'
      BY <1>4, <3>1
      DEF StopWake, CallerAt, flagVars, CallOK, Creating, WorkerOK,
          ActiveWorker, ReaderWorker, NoTcbReuse
    <3>. QED
      BY <2>1, <3>2, <3>3, CoopStep DEF Cpc
  <2>. QED
    BY <1>4, <2>1 DEF StopWake
<1>. QED
  BY <1>1, <1>2, <1>3, <1>4 DEF StopStep

\* A call that begins.
LEMMA CoopCall ==
  ASSUME Cooperative, CoopInv, TypeOK', NEW c \in Callers, Call(c)
  PROVE  CoopInv'
<1>1. PICK to \in {"guard", "s_active"} : CallerAt(c, "idle", to)
  BY DEF Call, CallRead, CallBlockingRead, CallStop, Cooperative
<1>2. /\ cpc'[c] = to /\ WorkerYields /\ WorkerOK /\ NoTcbReuse
      /\ to \in Cpc
  BY <1>1, CoopCaller DEF CoopInv, Cpc
<1>3. UNCHANGED <<active, g_stop_requested, g_reader_active, worker, tcbReused>>
  BY DEF Call, CallRead, CallBlockingRead, CallStop, flagVars
<1>4. to = "guard" => worker # "terminating"
  <2>1. CASE CallRead(c)
    BY <2>1 DEF CallRead, Cooperative
  <2>2. CASE CallStop(c)
    <3>1. cpc'[c] = "s_active"
      BY <2>2, CoopCaller DEF CallStop, Cpc
    <3>. QED
      BY <3>1, <1>2
  <2>. QED
    BY <2>1, <2>2 DEF Call, CallBlockingRead, Cooperative
<1>5. CallOK(c)' /\ WorkerYields'
  BY <1>1, <1>2, <1>3, <1>4 DEF CallOK, Creating, WorkerYields
<1>6. WorkerOK' /\ NoTcbReuse'
  BY <1>2, <1>3 DEF WorkerOK, NoTcbReuse
<1>. QED
  BY <1>1, <1>2, <1>5, <1>6, CoopStep

\* The worker runs only while every caller is between two calls.
LEMMA CoopWorker ==
  ASSUME Cooperative, CoopInv, TypeOK', WorkerStep
  PROVE  CoopInv'
<1>1. \A c \in Callers : cpc[c] = "idle"
  <2>1. \A c \in Callers : CallerYields(c)
    BY DEF WorkerStep, WorkerStart, WorkerBody, WorkerCallback,
       WorkerClearActive, WorkerClearReader, WorkerDelete, IdleTask, WorkerAt,
       WorkerRuns, Cooperative
  <2>. QED
    BY <2>1 DEF CallerYields, CoopInv, CallOK
<1>2. UNCHANGED <<cpc, tcbReused, g_stop_requested>>
  BY DEF WorkerStep, WorkerStart, WorkerBody, WorkerCallback, WorkerClearActive,
     WorkerClearReader, WorkerDelete, IdleTask, flagVars
<1>3. (\A c \in Callers : CallOK(c)') /\ OneInside'
  BY <1>1, <1>2 DEF CallOK, OneInside, Creating
<1>4. WorkerOK'
  BY DEF CoopInv, WorkerOK, ActiveWorker, ReaderWorker, WorkerStep, WorkerStart,
     WorkerBody, WorkerCallback, WorkerClearActive, WorkerClearReader,
     WorkerDelete, IdleTask, WorkerAt, flagVars
<1>5. NoTcbReuse'
  BY <1>2 DEF CoopInv, NoTcbReuse
<1>. QED
  BY <1>3, <1>4, <1>5 DEF CoopInv

LEMMA CoopNext ==
  ASSUME Cooperative, CoopInv, [Next]_vars
  PROVE  CoopInv'
<1>1. TypeOK'
  BY NextTypeOK DEF CoopInv
<1>2. CASE UNCHANGED vars
  BY <1>2 DEF vars, flagVars, CoopInv, TypeOK, CallOK, OneInside,
     WorkerOK, NoTcbReuse, WorkerYields
<1>3. CASE Next
  <2>1. CASE \E c \in Callers : BlockingStep(c)
    BY <2>1
    DEF BlockingStep, BlockingClearStop, BlockingPublish, BlockingBody,
        BlockingDone, CallerAt, CoopInv, CallOK
  <2>. QED
    BY <1>1, <1>3, <2>1, CoopCall, CoopRead, CoopStop, CoopWorker
    DEF Next, CallerStep
<1>. QED
  BY <1>2, <1>3

THEOREM CoopInvariance ==
  ASSUME Cooperative
  PROVE  Spec => []CoopInv
<1>1. Init => CoopInv
  <2>. SUFFICES ASSUME Init PROVE CoopInv
    OBVIOUS
  <2>1. TypeOK
    <3>1. cpc \in [Callers -> Cpc]
      BY DEF Init, Cpc
    <3>2. worker \in WorkerPc
      BY DEF Init, WorkerPc
    <3>. QED
      BY <3>1, <3>2 DEF Init, TypeOK
  <2>2. \A c \in Callers : cpc[c] = "idle"
    BY DEF Init
  <2>3. (\A c \in Callers : CallOK(c)) /\ OneInside
    BY <2>2 DEF CallOK, OneInside, Creating
  <2>4. WorkerOK /\ NoTcbReuse
    BY DEF Init, WorkerOK, ActiveWorker, ReaderWorker, NoTcbReuse
  <2>. QED
    BY <2>1, <2>3, <2>4 DEF CoopInv
<1>. QED
  BY <1>1, CoopNext, PTL DEF Spec

\* No worker is created on a TCB that is still in use.
THEOREM TcbNeverReused ==
  ASSUME Cooperative
  PROVE  Spec => []NoTcbReuse
<1>1. CoopInv => NoTcbReuse
  BY DEF CoopInv
<1>. QED
  BY <1>1, CoopInvariance, PTL

\* A read in progress can be stopped.
THEOREM ReadingIsAnnounced ==
  ASSUME Cooperative
  PROVE  Spec => []ReaderActiveWhileReading
<1>1. CoopInv => ReaderActiveWhileReading
  BY DEF CoopInv, CallOK, WorkerOK, ReaderWorker, ReaderActiveWhileReading,
     ReadInProgress, WorkerReading, CallerReading
<1>. QED
  BY <1>1, CoopInvariance, PTL

\* Only a Read() that begins clears the stop flag, and then no read runs.
THEOREM StopKept ==
  ASSUME Cooperative
  PROVE  Spec => StopNotForgotten
<1>1. CoopInv /\ [Next]_vars =>
        [g_stop_requested /\ ~g_stop_requested' => ~ReadInProgress]_vars
  <2>. SUFFICES ASSUME CoopInv, Next, g_stop_requested, ~g_stop_requested'
                PROVE  ~ReadInProgress
    OBVIOUS
  <2>1. PICK c \in Callers : ReadClearStop(c) \/ BlockingClearStop(c)
    BY DEF Next, Call, CallRead, CallBlockingRead, CallStop, CallerStep, ReadStep,
       ReadGuard, ReadClaim, ReadPublish, ReadCreate, ReadUndoActive,
       ReadUndoReader, BlockingStep, BlockingPublish, BlockingBody, BlockingDone,
       StopStep, StopActive, StopFlag, StopSet, StopWake, WorkerStep, WorkerStart,
       WorkerBody, WorkerCallback, WorkerClearActive, WorkerClearReader,
       WorkerDelete, IdleTask, flagVars
  <2>2. cpc[c] \in {"clear_stop", "b_clear_stop"}
    BY <2>1 DEF ReadClearStop, BlockingClearStop, CallerAt
  <2>3. worker = "none" /\ \A d \in Callers : cpc[d] # "b_body"
    BY <2>2 DEF CoopInv, CallOK, Creating
  <2>. QED
    BY <2>3 DEF ReadInProgress, WorkerReading, CallerReading
<1>. QED
  BY <1>1, CoopInvariance, PTL DEF Spec, StopNotForgotten

-----------------------------------------------------------------------------
(* The abstract reader.                                                    *)

\* Each step of the API is one of AbstractReader or leaves its phase alone.
LEMMA StepRefines ==
  ASSUME Cooperative, CoopInv, Next
  PROVE  [Promise!Next]_(Phase)
<1>. USE DEF Phase, flagVars
<1>1. CASE WorkerStep
  <2>1. CASE WorkerBody
    BY <2>1 DEF WorkerBody, WorkerAt, Promise!Next, Promise!Complete
  <2>2. CASE WorkerCallback
    BY <2>2 DEF WorkerCallback, WorkerAt, Promise!Next, Promise!CallBack
  <2>3. CASE WorkerStart
    BY <2>3 DEF WorkerStart, WorkerAt
  <2>4. CASE WorkerClearActive \/ WorkerClearReader \/ WorkerDelete \/ IdleTask
    BY <2>4 DEF WorkerClearActive, WorkerClearReader, WorkerDelete, IdleTask,
       WorkerAt
  <2>. QED
    BY <1>1, <2>1, <2>2, <2>3, <2>4 DEF WorkerStep
<1>2. ASSUME NEW c \in Callers, ReadCreate(c)
      PROVE  [Promise!Next]_(Phase)
  <2>1. worker = "none" /\ ~g_stop_requested
    BY <1>2 DEF ReadCreate, CallerAt, CoopInv, CallOK, Creating
  <2>2. worker' \in {"start", "none"} /\ g_stop_requested' = g_stop_requested
    BY <1>2, <2>1 DEF ReadCreate
  <2>. QED
    BY <2>1, <2>2 DEF Promise!Next, Promise!Accept
<1>3. ASSUME NEW c \in Callers, ReadClearStop(c)
      PROVE  [Promise!Next]_(Phase)
  <2>1. worker = "none" /\ worker' = worker
    BY <1>3 DEF ReadClearStop, CallerAt, CoopInv, CallOK, Creating
  <2>. QED
    BY <2>1
<1>4. ASSUME NEW c \in Callers, StopSet(c)
      PROVE  [Promise!Next]_(Phase)
  BY <1>4 DEF StopSet, Promise!Next, Promise!Stop
<1>5. ASSUME NEW c \in Callers,
             \/ Call(c) \/ ReadGuard(c) \/ ReadClaim(c) \/ ReadPublish(c)
             \/ ReadUndoActive(c) \/ ReadUndoReader(c)
             \/ StopActive(c) \/ StopFlag(c) \/ StopWake(c)
      PROVE  [Promise!Next]_(Phase)
  BY <1>5 DEF Call, CallRead, CallBlockingRead, CallStop, ReadGuard, ReadClaim,
     ReadPublish, ReadUndoActive, ReadUndoReader, StopActive, StopFlag, StopWake
<1>6. ASSUME NEW c \in Callers, BlockingStep(c)
      PROVE  FALSE
  BY <1>6
  DEF BlockingStep, BlockingClearStop, BlockingPublish, BlockingBody,
      BlockingDone, CallerAt, CoopInv, CallOK
<1>. QED
  BY <1>1, <1>2, <1>3, <1>4, <1>5, <1>6 DEF Next, CallerStep, ReadStep, StopStep

\* A non-blocking read is accepted, stopped at most once, ended and called back
\* in the order AbstractReader allows.
THEOREM KeepsPromiseSafely ==
  ASSUME Cooperative
  PROVE  Spec => Promise!Safety
<1>1. Init => Promise!Init
  BY DEF Init, Promise!Init, Phase
<1>2. CoopInv /\ [Next]_vars => [Promise!Next]_(Phase)
  <2>1. CASE UNCHANGED vars
    BY <2>1 DEF vars, flagVars, Phase
  <2>. QED
    BY <2>1, StepRefines
<1>. QED
  BY <1>1, <1>2, CoopInvariance, PTL DEF Spec, Promise!Safety

-----------------------------------------------------------------------------
(* The application.  Its steps are steps of the API, so the theorems above *)
(* carry over; what is added is where the callbacks' calls can be.         *)

\* The client's steps seen from the API.
LEMMA ClientStep == [ClientNext]_clientVars => [Next]_vars
BY ClientAssumption
DEF ClientNext, clientVars, Launch, AppStop, CallbackCalls, ReadGoesOn, StopGoesOn,
    WorkerGoesOn, App, Next, Call, CallerStep

\* The application uses the API as ReadApi lets its callers use it.
THEOREM ClientUsesApi == ClientSpec => Spec
<1>1. ClientInit => Init
  BY DEF ClientInit
<1>. QED
  BY <1>1, ClientStep, PTL DEF ClientSpec, Spec

\* While a callback is inside a call the worker is inside the callback.
CallbackPhase ==
  cpc[CallbackTask] # "idle" => worker \in {"reading", "callback"}

ClientInv ==
  /\ bailing \subseteq App
  /\ CallbackPhase

\* A call begins from idle and goes to one of three places.
LEMMA CallFacts ==
  ASSUME Cooperative, CoopInv, NEW c \in Callers, CallRead(c) \/ CallStop(c)
  PROVE  /\ cpc[c] = "idle" /\ cpc'[c] \in {"guard", "s_active"}
         /\ \A d \in Callers \ {c} : cpc'[d] = cpc[d]
         /\ worker' = worker
<1>1. CASE CallRead(c)
  BY <1>1, CallerMoves DEF CallRead, CoopInv, Cpc
<1>2. CASE CallStop(c)
  BY <1>2, CallerMoves DEF CallStop, CoopInv, Cpc
<1>. QED
  BY <1>1, <1>2

\* A step inside a call, with everybody else idle before and after it.
LEMMA ReadFacts ==
  ASSUME Cooperative, CoopInv, NEW c \in Callers, ReadStep(c)
  PROVE  /\ cpc[c] \in Creating \cup {"guard"}
         /\ cpc'[c] \in Creating \cup {"idle"}
         /\ \A d \in Callers \ {c} : cpc[d] = "idle" /\ cpc'[d] = "idle"
         /\ worker' = worker \/ cpc[c] = "create"
         /\ cpc[c] = "guard" /\ cpc'[c] # "idle" => ~active
<1>. USE DEF Creating, Cpc
<1>1. CASE ReadGuard(c)
  <2>1. CASE CallerAt(c, "guard", "claim")
    BY <1>1, <2>1, CoopCaller DEF ReadGuard
  <2>2. CASE CallerAt(c, "guard", "idle") /\ active
    BY <1>1, <2>2, CoopCaller DEF ReadGuard
  <2>. QED
    BY <1>1, <2>1, <2>2 DEF ReadGuard
<1>2. CASE ReadClaim(c)
  BY <1>2, CoopCaller DEF ReadClaim
<1>3. CASE ReadClearStop(c)
  BY <1>3, CoopCaller DEF ReadClearStop
<1>4. CASE ReadPublish(c)
  BY <1>4, CoopCaller DEF ReadPublish
<1>5. CASE ReadCreate(c)
  <2>1. CASE CallerAt(c, "create", "idle")
    BY <2>1, CoopCaller
  <2>2. CASE CallerAt(c, "create", "create")
    BY <2>2, CoopCaller
  <2>3. CASE CallerAt(c, "create", "undo_active")
    BY <2>3, CoopCaller
  <2>. QED
    BY <1>5, <2>1, <2>2, <2>3 DEF ReadCreate
<1>6. CASE ReadUndoActive(c)
  BY <1>6, CoopCaller DEF ReadUndoActive
<1>7. CASE ReadUndoReader(c)
  BY <1>7, CoopCaller DEF ReadUndoReader
<1>. QED
  BY <1>1, <1>2, <1>3, <1>4, <1>5, <1>6, <1>7 DEF ReadStep

LEMMA StopFacts ==
  ASSUME Cooperative, CoopInv, NEW c \in Callers, StopStep(c)
  PROVE  /\ \A d \in Callers \ {c} : cpc[d] = "idle" /\ cpc'[d] = "idle"
         /\ worker' = worker /\ g_reader_active' = g_reader_active
         /\ \/ cpc[c] = "s_active" /\ cpc'[c] = "s_flag" /\ g_reader_active
            \/ /\ cpc[c] = "s_active" /\ cpc'[c] = "idle" /\ ~g_reader_active
            \/ cpc[c] = "s_flag" /\ cpc'[c] = "s_set"
            \/ /\ cpc[c] = "s_flag" /\ cpc'[c] = "idle" /\ g_stop_requested
               /\ g_stop_requested' = g_stop_requested
            \/ cpc[c] = "s_set" /\ cpc'[c] = "s_wake"
            \/ /\ cpc[c] = "s_wake" /\ cpc'[c] = "idle"
               /\ g_stop_requested' = g_stop_requested
<1>. USE DEF Cpc, flagVars
<1>1. CASE StopActive(c)
  <2>1. CASE CallerAt(c, "s_active", "s_flag") /\ g_reader_active
    BY <1>1, <2>1, CoopCaller DEF StopActive
  <2>2. CASE CallerAt(c, "s_active", "idle") /\ ~g_reader_active
    BY <1>1, <2>2, CoopCaller DEF StopActive
  <2>. QED
    BY <1>1, <2>1, <2>2 DEF StopActive
<1>2. CASE StopFlag(c)
  <2>1. CASE CallerAt(c, "s_flag", "s_set")
    BY <1>2, <2>1, CoopCaller DEF StopFlag
  <2>2. CASE CallerAt(c, "s_flag", "idle") /\ g_stop_requested
    BY <1>2, <2>2, CoopCaller DEF StopFlag
  <2>. QED
    BY <1>2, <2>1, <2>2 DEF StopFlag
<1>3. CASE StopSet(c)
  BY <1>3, CoopCaller DEF StopSet
<1>4. CASE StopWake(c)
  BY <1>4, CoopCaller DEF StopWake
<1>. QED
  BY <1>1, <1>2, <1>3, <1>4 DEF StopStep

\* The worker moves only when every caller is idle, and moves none.
LEMMA WorkerFacts ==
  ASSUME Cooperative, CoopInv, WorkerStep
  PROVE  cpc' = cpc /\ \A c \in Callers : cpc[c] = "idle"
<1>1. WorkerRuns /\ cpc' = cpc
  BY DEF WorkerStep, WorkerStart, WorkerBody, WorkerCallback, WorkerClearActive,
     WorkerClearReader, WorkerDelete, IdleTask, WorkerAt
<1>. QED
  BY <1>1 DEF WorkerRuns, Cooperative, CallerYields, CoopInv, CallOK

LEMMA InitClient == ClientInit => ClientInv
BY ClientAssumption
DEF ClientInit, Init, ClientInv, CallbackPhase

LEMMA NextClient ==
  ASSUME Cooperative, CoopInv, ClientInv, [ClientNext]_clientVars
  PROVE  ClientInv'
<1>. USE ClientAssumption
<1>1. ASSUME NEW c \in App, Launch(c) \/ AppStop(c)
      PROVE  ClientInv'
  <2>1. /\ cpc'[c] \in {"guard", "s_active"} /\ worker' = worker
        /\ \A d \in Callers \ {c} : cpc'[d] = cpc[d]
        /\ UNCHANGED bailing
    BY <1>1, CallFacts DEF Launch, AppStop, App
  <2>. QED
    BY <2>1 DEF ClientInv, CallbackPhase, App
<1>2. CASE CallbackCalls
  <2>1. /\ cpc'[CallbackTask] \in {"guard", "s_active"} /\ worker' = worker
        /\ \A d \in Callers \ {CallbackTask} : cpc'[d] = cpc[d]
    BY <1>2, CallFacts DEF CallbackCalls
  <2>2. worker \in {"reading", "callback"} /\ UNCHANGED bailing
    BY <1>2 DEF CallbackCalls
  <2>. QED
    BY <2>1, <2>2 DEF ClientInv, CallbackPhase
<1>3. ASSUME NEW c \in Callers, ReadGoesOn(c)
      PROVE  ClientInv'
  <2>1. ReadStep(c)
    BY <1>3 DEF ReadGoesOn
  <2>2. /\ cpc[c] \in Creating \cup {"guard"}
        /\ cpc'[c] \in Creating \cup {"idle"}
        /\ \A d \in Callers \ {c} : cpc[d] = "idle" /\ cpc'[d] = "idle"
        /\ worker' = worker \/ cpc[c] = "create"
    BY <2>1, ReadFacts
  <2>3. bailing' \subseteq App
    BY <1>3 DEF ReadGoesOn, ClientInv
  <2>4. CallbackPhase'
    <3>1. CASE c = CallbackTask
      <4>1. worker \in {"reading", "callback"}
        BY <2>2, <3>1 DEF ClientInv, CallbackPhase, Creating
      <4>2. cpc[c] # "create"
        BY <4>1 DEF CoopInv, CallOK, Creating
      <4>. QED
        BY <2>2, <4>1, <4>2 DEF CallbackPhase
    <3>2. CASE c # CallbackTask
      BY <2>2, <3>2 DEF CallbackPhase
    <3>. QED
      BY <3>1, <3>2
  <2>. QED
    BY <2>3, <2>4 DEF ClientInv
<1>4. ASSUME NEW c \in Callers, StopGoesOn(c)
      PROVE  ClientInv'
  <2>1. StopStep(c)
    BY <1>4 DEF StopGoesOn
  <2>2. bailing' \subseteq App
    BY <1>4 DEF StopGoesOn, ClientInv
  <2>3. CallbackPhase'
    BY <2>1, StopFacts DEF ClientInv, CallbackPhase
  <2>. QED
    BY <2>2, <2>3 DEF ClientInv
<1>5. CASE WorkerGoesOn
  <2>1. \A c \in Callers : cpc'[c] = "idle"
    BY <1>5, WorkerFacts DEF WorkerGoesOn
  <2>2. bailing' \subseteq App
    BY <1>5 DEF WorkerGoesOn, ClientInv
  <2>. QED
    BY <2>1, <2>2 DEF ClientInv, CallbackPhase
<1>6. CASE UNCHANGED clientVars
  BY <1>6 DEF clientVars, vars, ClientInv, CallbackPhase
<1>. QED
  BY <1>1, <1>2, <1>3, <1>4, <1>5, <1>6 DEF ClientNext

LEMMA ClientInvariance ==
  ASSUME Cooperative
  PROVE  ClientSpec => [](CoopInv /\ ClientInv)
BY InitClient, NextClient, ClientUsesApi, CoopInvariance, PTL DEF ClientSpec

\* The application's variables keep their types, whatever its tasks call.
THEOREM ClientTypeCorrect ==
  ASSUME Cooperative
  PROVE  ClientSpec => []ClientTypeOK
<1>1. CoopInv /\ ClientInv => ClientTypeOK
  BY DEF CoopInv, ClientInv, ClientTypeOK
<1>. QED
  BY <1>1, ClientInvariance, PTL

\* A Read() from a callback never gets past the guard.
THEOREM CallbackRefused ==
  ASSUME Cooperative
  PROVE  ClientSpec => []CallbackReadRefused
<1>1. CoopInv /\ ClientInv => CallbackReadRefused
  BY ClientAssumption
  DEF CoopInv, CallOK, Creating, ClientInv, CallbackPhase, CallbackReadRefused
<1>. QED
  BY <1>1, ClientInvariance, PTL

\* Bailing out leaves no read in flight that has not been asked to stop.
THEOREM BailOut ==
  ASSUME Cooperative
  PROVE  ClientSpec => BailOutStops
<1>1. ASSUME CoopInv, ClientInv, ClientNext, NEW c \in App,
             c \in bailing, c \notin bailing'
      PROVE  ~ReadInProgress' \/ g_stop_requested'
  <2>1. StopGoesOn(c) /\ cpc'[c] = "idle" /\ c \in Callers
    BY <1>1 DEF ClientNext, Launch, AppStop, CallbackCalls, ReadGoesOn, StopGoesOn,
       WorkerGoesOn, App
  <2>2. StopStep(c)
    BY <2>1 DEF StopGoesOn
  <2>3. ReadInProgress' => g_reader_active
    <3>1. /\ \A d \in Callers : cpc'[d] = "idle"
          /\ worker' = worker
      BY <1>1, <2>1, <2>2, StopFacts
    <3>. QED
      BY <3>1, <1>1 DEF ReadInProgress, WorkerReading, CallerReading, CoopInv,
         WorkerOK, ReaderWorker
  <2>4. cpc[c] = "s_wake" => g_stop_requested
    BY <1>1, <2>1 DEF CoopInv, CallOK
  <2>. QED
    BY <1>1, <2>1, <2>2, <2>3, <2>4, StopFacts
<1>2. CoopInv /\ ClientInv /\ [ClientNext]_clientVars =>
        [\A c \in App : c \in bailing /\ c \notin bailing' =>
           ~ReadInProgress' \/ g_stop_requested']_clientVars
  BY <1>1
<1>. QED
  BY <1>2, ClientInvariance, PTL DEF ClientSpec, BailOutStops
=============================================================================
