--------------------------- MODULE EventLoopProofs ---------------------------
(***************************************************************************)
(* Safety of EventLoop for every timeout, every chip and every number of   *)
(* tasks that call Stop().                                                 *)
(*                                                                         *)
(* LoopInv is the invariant of the Read() outside the wait, WaitInv (see   *)
(* WaitProofs) the one inside; the properties are consequences of both.    *)
(***************************************************************************)
EXTENDS EventLoop, WaitProofs

LoopTypeOK ==
  /\ SessionTypeOK(LoopPc)
  /\ state \in LoopState
  /\ elapsed_ms \in {0, Timeout}
  /\ lastEvent \in Event

InsideWait == pc = "waiting" <=> wpc # "idle"

\* A card counted after the stop is behind the stop test of LoopTop.
LateCards ==
  /\ cardsAfterStop \in 0..1
  /\ cardsAfterStop = 1 => g_stop_requested /\ pc \in SessionPc \cup {"top"}
  /\ pc \in {"open", "discover"} => cardsAfterStop = 0

LoopInv ==
  LoopTypeOK /\ InsideWait /\ OpenWhileReading /\ ErrorIsReported /\ LateCards

IInv == WaitInv /\ StopTypeOK /\ LoopInv

LEMMA Constants == MaxTick \in Nat /\ MaxTick > 0 /\ Timeout \in 1..MaxTick
                   /\ ChipEvents \subseteq Disc
  BY MaxTickAssumption, TimeoutAssumption, ChipEventsAssumption

-----------------------------------------------------------------------------
(* The rest of the Read().                                                 *)

\* The steps of the reading task outside the loop.
LEMMA ReadKeepsInv ==
  ASSUME IInv, StartRead \/ Opening \/ EnterLoop \/ Closing
  PROVE  IInv'
<1>1. WaitInv'
  <2>1. chip' \in Disc
    BY DEF IInv, WaitInv, WaitTypeOK, StartRead, Opening, EnterLoop, Closing, Read,
       Open, DiscoveryFails, StartDiscovery, Deactivate, Deactivated, Close,
       Finish, chipVars, Disc
  <2>. QED
    BY <2>1, OutsideKeepsWaitInv
    DEF IInv, WaitInv, WaitTypeOK, StartRead, Opening, EnterLoop, Closing, Read,
        Open, DiscoveryFails, StartDiscovery, Deactivate, Close, Finish,
        waitVars, wakeVars, chipVars
<1>2. StopTypeOK'
  BY DEF IInv, StopTypeOK, StartRead, Opening, EnterLoop, Closing, Read, Open,
     DiscoveryFails, StartDiscovery, Deactivate, Close, Finish, flagVars
<1>3. LoopInv'
  <2>. USE DEF IInv, LoopInv, waitVars, flagVars, loopVars, eventVars
  <2>1. CASE StartRead
    <3>. USE <2>1 DEF StartRead, Read
    <3>1. LoopTypeOK'
      BY DEF LoopTypeOK, SessionTypeOK, SessionPc, LoopPc, LoopState,
             Event, ReadStatus
    <3>2. InsideWait'
      BY DEF InsideWait
    <3>3. OpenWhileReading'
      BY DEF OpenWhileReading
    <3>4. ErrorIsReported'
      BY DEF ErrorIsReported
    <3>5. LateCards'
      BY DEF LateCards, SessionPc, StopTypeOK
    <3>. QED
      BY <3>1, <3>2, <3>3, <3>4, <3>5
  <2>2. CASE Opening /\ Open
    <3>. USE <2>2 DEF Opening, Open
    <3>1. LoopTypeOK'
      BY DEF LoopTypeOK, SessionTypeOK, SessionPc, LoopPc, LoopState,
             Event, ReadStatus
    <3>2. InsideWait'
      BY DEF InsideWait
    <3>3. OpenWhileReading'
      BY DEF OpenWhileReading
    <3>4. ErrorIsReported'
      BY DEF ErrorIsReported
    <3>5. LateCards'
      BY DEF LateCards, SessionPc, StopTypeOK
    <3>. QED
      BY <3>1, <3>2, <3>3, <3>4, <3>5
  <2>3. CASE Opening /\ DiscoveryFails
    <3>. USE <2>3 DEF Opening, DiscoveryFails
    <3>1. LoopTypeOK'
      BY DEF LoopTypeOK, SessionTypeOK, SessionPc, LoopPc, LoopState,
             Event, ReadStatus
    <3>2. InsideWait'
      BY DEF InsideWait
    <3>3. OpenWhileReading'
      BY DEF OpenWhileReading
    <3>4. ErrorIsReported'
      BY DEF ErrorIsReported
    <3>5. LateCards'
      BY DEF LateCards, SessionPc, StopTypeOK
    <3>. QED
      BY <3>1, <3>2, <3>3, <3>4, <3>5
  <2>4. CASE EnterLoop
    <3>. USE <2>4 DEF EnterLoop, StartDiscovery
    <3>1. LoopTypeOK'
      BY DEF LoopTypeOK, SessionTypeOK, SessionPc, LoopPc, LoopState,
             Event, ReadStatus
    <3>2. InsideWait'
      BY DEF InsideWait
    <3>3. OpenWhileReading'
      BY DEF OpenWhileReading
    <3>4. ErrorIsReported'
      BY DEF ErrorIsReported
    <3>5. LateCards'
      BY DEF LateCards, SessionPc, StopTypeOK
    <3>. QED
      BY <3>1, <3>2, <3>3, <3>4, <3>5
  <2>5. CASE Closing /\ Deactivate
    <3>. USE <2>5 DEF Closing, Deactivate
    <3>1. LoopTypeOK'
      BY DEF LoopTypeOK, SessionTypeOK, SessionPc, LoopPc, LoopState,
             Event, ReadStatus
    <3>2. InsideWait'
      BY DEF InsideWait
    <3>3. OpenWhileReading'
      BY DEF OpenWhileReading
    <3>4. ErrorIsReported'
      BY DEF ErrorIsReported
    <3>5. LateCards'
      BY DEF LateCards, SessionPc, StopTypeOK
    <3>. QED
      BY <3>1, <3>2, <3>3, <3>4, <3>5
  <2>6. CASE Closing /\ Close
    <3>. USE <2>6 DEF Closing, Close
    <3>1. LoopTypeOK'
      BY DEF LoopTypeOK, SessionTypeOK, SessionPc, LoopPc, LoopState,
             Event, ReadStatus
    <3>2. InsideWait'
      BY DEF InsideWait
    <3>3. OpenWhileReading'
      BY DEF OpenWhileReading
    <3>4. ErrorIsReported'
      BY DEF ErrorIsReported
    <3>5. LateCards'
      BY DEF LateCards, SessionPc, StopTypeOK
    <3>. QED
      BY <3>1, <3>2, <3>3, <3>4, <3>5
  <2>7. CASE Closing /\ Finish
    <3>. USE <2>7 DEF Closing, Finish
    <3>1. LoopTypeOK'
      BY DEF LoopTypeOK, SessionTypeOK, SessionPc, LoopPc, LoopState,
             Event, ReadStatus
    <3>2. InsideWait'
      BY DEF InsideWait
    <3>3. OpenWhileReading'
      BY DEF OpenWhileReading
    <3>4. ErrorIsReported'
      BY DEF ErrorIsReported
    <3>5. LateCards'
      BY DEF LateCards, SessionPc, StopTypeOK
    <3>. QED
      BY <3>1, <3>2, <3>3, <3>4, <3>5
  <2>. QED
    BY <2>1, <2>2, <2>3, <2>4, <2>5, <2>6, <2>7 DEF Opening, Closing
<1>. QED
  BY <1>1, <1>2, <1>3 DEF IInv

\* The steps of run_event_loop between two waits.
LEMMA LoopKeepsInv ==
  ASSUME IInv,
         \/ LoopTop \/ LoopHealth \/ LoopRfWarning
         \/ LoopDataEvent \/ LoopDeactivate \/ LoopSystemError
  PROVE  IInv'
<1>1. WaitInv'
  <2>1. chip' \in Disc
    BY DEF LoopTop, LoopHealth, LoopRfWarning, LoopDataEvent, LoopDeactivate,
       LoopSystemError, Deactivated, IInv, WaitInv, WaitTypeOK, chipVars, Disc
  <2>. QED
    BY <2>1, OutsideKeepsWaitInv
    DEF LoopTop, LoopHealth, LoopRfWarning, LoopDataEvent, LoopDeactivate,
        LoopSystemError, IInv, WaitInv, WaitTypeOK, waitVars, wakeVars, chipVars
<1>2. StopTypeOK'
  BY DEF LoopTop, LoopHealth, LoopRfWarning, LoopDataEvent, LoopDeactivate,
     LoopSystemError, OnCardEvent, IInv, StopTypeOK, flagVars
<1>3. LoopInv'
  <2>. USE DEF IInv, LoopInv, waitVars, flagVars, loopVars, eventVars
  <2>1. CASE LoopTop
    <3>. USE <2>1 DEF LoopTop
    <3>1. LoopTypeOK'
      BY DEF LoopTypeOK, SessionTypeOK, SessionPc, LoopPc, LoopState,
             Event, ReadStatus
    <3>2. InsideWait'
      BY DEF InsideWait
    <3>3. OpenWhileReading'
      BY DEF OpenWhileReading
    <3>4. ErrorIsReported'
      BY DEF ErrorIsReported
    <3>5. LateCards'
      BY DEF LateCards, SessionPc, StopTypeOK
    <3>. QED
      BY <3>1, <3>2, <3>3, <3>4, <3>5
  <2>2. CASE LoopHealth
    <3>. USE <2>2 DEF LoopHealth
    <3>1. LoopTypeOK'
      BY DEF LoopTypeOK, SessionTypeOK, SessionPc, LoopPc, LoopState,
             Event, ReadStatus
    <3>2. InsideWait'
      BY DEF InsideWait
    <3>3. OpenWhileReading'
      BY DEF OpenWhileReading
    <3>4. ErrorIsReported'
      BY DEF ErrorIsReported
    <3>5. LateCards'
      BY DEF LateCards, SessionPc, StopTypeOK
    <3>. QED
      BY <3>1, <3>2, <3>3, <3>4, <3>5
  <2>3. CASE LoopRfWarning
    <3>. USE <2>3 DEF LoopRfWarning, OnCardEvent
    <3>1. LoopTypeOK'
      BY DEF LoopTypeOK, SessionTypeOK, SessionPc, LoopPc, LoopState,
             Event, ReadStatus
    <3>2. InsideWait'
      BY DEF InsideWait
    <3>3. OpenWhileReading'
      BY DEF OpenWhileReading
    <3>4. ErrorIsReported'
      BY DEF ErrorIsReported
    <3>5. LateCards'
      BY DEF LateCards, SessionPc, StopTypeOK
    <3>. QED
      BY <3>1, <3>2, <3>3, <3>4, <3>5
  <2>4. CASE LoopDataEvent
    <3>. USE <2>4 DEF LoopDataEvent, OnCardEvent
    <3>1. LoopTypeOK'
      BY DEF LoopTypeOK, SessionTypeOK, SessionPc, LoopPc, LoopState,
             Event, ReadStatus
    <3>2. InsideWait'
      BY DEF InsideWait
    <3>3. OpenWhileReading'
      BY DEF OpenWhileReading
    <3>4. ErrorIsReported'
      BY DEF ErrorIsReported
    <3>5. LateCards'
      <4>1. cardsAfterStop = 0 /\ pc' = "top"
        BY DEF LateCards, SessionPc
      <4>2. \/ cardsAfterStop' = cardsAfterStop
            \/ cardsAfterStop' = cardsAfterStop + 1 /\ g_stop_requested
        OBVIOUS
      <4>3. g_stop_requested => g_stop_requested'
        BY DEF StopTypeOK
      <4>. QED
        BY <4>1, <4>2, <4>3 DEF LateCards
    <3>. QED
      BY <3>1, <3>2, <3>3, <3>4, <3>5
  <2>5. CASE LoopDeactivate
    <3>. USE <2>5 DEF LoopDeactivate
    <3>1. LoopTypeOK'
      BY DEF LoopTypeOK, SessionTypeOK, SessionPc, LoopPc, LoopState,
             Event, ReadStatus
    <3>2. InsideWait'
      BY DEF InsideWait
    <3>3. OpenWhileReading'
      BY DEF OpenWhileReading
    <3>4. ErrorIsReported'
      BY DEF ErrorIsReported
    <3>5. LateCards'
      BY DEF LateCards, SessionPc, StopTypeOK
    <3>. QED
      BY <3>1, <3>2, <3>3, <3>4, <3>5
  <2>6. CASE LoopSystemError
    <3>. USE <2>6 DEF LoopSystemError, OnCardEvent
    <3>1. LoopTypeOK'
      BY DEF LoopTypeOK, SessionTypeOK, SessionPc, LoopPc, LoopState,
             Event, ReadStatus
    <3>2. InsideWait'
      BY DEF InsideWait
    <3>3. OpenWhileReading'
      BY DEF OpenWhileReading
    <3>4. ErrorIsReported'
      BY DEF ErrorIsReported
    <3>5. LateCards'
      BY DEF LateCards, SessionPc, StopTypeOK
    <3>. QED
      BY <3>1, <3>2, <3>3, <3>4, <3>5
  <2>. QED
    BY <2>1, <2>2, <2>3, <2>4, <2>5, <2>6
<1>. QED
  BY <1>1, <1>2, <1>3 DEF IInv

\* The call of the wait and its return.
LEMMA CallAndReturnKeepInv ==
  ASSUME IInv, LoopWait \/ LoopWaitDone
  PROVE  IInv'
<1>1. CASE LoopWait
  <2>1. (IF LoopForever THEN MaxTick ELSE Timeout - elapsed_ms) \in 0..MaxTick
    BY Constants DEF IInv, LoopInv, LoopTypeOK
  <2>2. WaitInv'
    BY <1>1, <2>1, CallKeepsWaitInv DEF LoopWait, IInv
  <2>3. StopTypeOK' /\ LoopInv'
    BY <1>1
    DEF LoopWait, CallWait, IInv, LoopInv, LoopTypeOK, InsideWait, LateCards,
        SessionTypeOK, SessionPc, LoopPc, OpenWhileReading, ErrorIsReported,
        StopTypeOK, flagVars, loopVars, eventVars
  <2>. QED
    BY <2>2, <2>3 DEF IInv
<1>2. CASE LoopWaitDone
  <2>1. WaitInv'
    BY <1>2, ReturnKeepsWaitInv DEF LoopWaitDone, IInv
  <2>2. StopTypeOK' /\ LoopInv'
    BY <1>2
    DEF LoopWaitDone, WaitReturn, AfterWait, IInv, LoopInv, LoopTypeOK,
        InsideWait, LateCards, SessionTypeOK, SessionPc, LoopPc, LoopState,
        OpenWhileReading, ErrorIsReported, StopTypeOK, flagVars, loopVars,
        eventVars
  <2>. QED
    BY <2>1, <2>2 DEF IInv
<1>. QED
  BY <1>1, <1>2

\* A step of another task, of the chip or of the tick.
LEMMA OthersKeepInv ==
  ASSUME IInv,
         \/ \E s \in Stoppers : (Stop(s) \/ StopStep(s)) /\ UNCHANGED readVars
         \/ Around
  PROVE  IInv'
<1>1. CASE Around
  <2>1. WaitInv'
    BY <1>1, AroundKeepsWaitInv DEF Around, IInv
  <2>2. wpc' = wpc
    BY <1>1, AroundMovesNobody DEF Around
  <2>3. StopTypeOK' /\ LoopInv'
    BY <1>1, <2>2
    DEF Around, readVars, sessionVars, loopVars, eventVars, flagVars, IInv,
        LoopInv, LoopTypeOK, InsideWait, LateCards, SessionTypeOK,
        OpenWhileReading, ErrorIsReported, StopTypeOK
  <2>. QED
    BY <2>1, <2>3 DEF IInv
<1>2. CASE \E s \in Stoppers : (Stop(s) \/ StopStep(s)) /\ UNCHANGED readVars
  <2>1. PICK s \in Stoppers : (Stop(s) \/ StopStep(s)) /\ UNCHANGED readVars
    BY <1>2
  <2>2. WaitInv' /\ wpc' = wpc /\ StopTypeOK'
    BY <2>1, StopKeeps DEF IInv
  <2>4. g_reader_active' = g_reader_active
        /\ (g_stop_requested => g_stop_requested')
    BY <2>1, StopKeeps DEF IInv
  <2>5. LoopInv'
    BY <2>1, <2>2, <2>4
    DEF readVars, sessionVars, loopVars, eventVars, IInv, LoopInv, LoopTypeOK,
        InsideWait, LateCards, SessionTypeOK, OpenWhileReading, ErrorIsReported
  <2>. QED
    BY <2>2, <2>5 DEF IInv
<1>. QED
  BY <1>1, <1>2

\* The wait inside the loop.
LEMMA InWaitKeepsInv ==
  ASSUME IInv, InWait
  PROVE  IInv'
<1>1. WaitInv'
  BY StepKeepsWaitInv DEF IInv, InWait
<1>2. wpc # "idle" /\ wpc' # "idle"
  BY StepStaysInside DEF InWait
<1>3. StopTypeOK' /\ LoopInv'
  BY <1>2
  DEF InWait, IInv, LoopInv, LoopTypeOK, InsideWait, LateCards, SessionTypeOK,
      OpenWhileReading, ErrorIsReported, StopTypeOK, readVars, sessionVars, loopVars, eventVars, flagVars
<1>. QED
  BY <1>1, <1>3 DEF IInv

-----------------------------------------------------------------------------
(* The theorems.                                                           *)

LEMMA InitInv == Init => IInv
<1>. SUFFICES ASSUME Init PROVE IInv
  OBVIOUS
<1>1. WaitInv
  BY InitWaitInv DEF Init
<1>2. StopTypeOK
  BY DEF Init, StopInit, StopTypeOK, Spc
<1>3. LoopInv
  <2>1. LoopTypeOK
    BY DEF Init, SessionInit, LoopTypeOK, SessionTypeOK, SessionPc, ReadStatus,
       LoopState, Event
  <2>2. OpenWhileReading /\ ErrorIsReported
    BY DEF Init, StopInit, SessionInit, OpenWhileReading, ErrorIsReported
  <2>3. InsideWait /\ LateCards
    BY DEF Init, WaitInit, SessionInit, InsideWait, LateCards
  <2>. QED
    BY <2>1, <2>2, <2>3 DEF LoopInv
<1>. QED
  BY <1>1, <1>2, <1>3 DEF IInv

LEMMA NextInv == IInv /\ [Next]_vars => IInv'
<1>. SUFFICES ASSUME IInv, [Next]_vars PROVE IInv'
  OBVIOUS
<1>1. CASE UNCHANGED vars
  BY <1>1
  DEF vars, waitVars, wakeVars, timeVars, chipVars, flagVars, sessionVars, loopVars,
      eventVars, IInv, WaitInv, WaitTypeOK, StopTypeOK, LoopInv, LoopTypeOK,
      InsideWait, LateCards, SessionTypeOK, OpenWhileReading, ErrorIsReported
<1>2. CASE StartRead
  BY <1>2, ReadKeepsInv
<1>3. CASE ReaderStep
  BY <1>3, ReadKeepsInv, LoopKeepsInv, CallAndReturnKeepInv, InWaitKeepsInv
  DEF ReaderStep
<1>4. CASE \/ \E s \in Stoppers : Stop(s) /\ UNCHANGED readVars
           \/ \E s \in Stoppers : Stopping(s)
           \/ Around
  BY <1>4, OthersKeepInv DEF Stopping
<1>. QED
  BY <1>1, <1>2, <1>3, <1>4 DEF Next

\* IInv is an invariant of the specification.
THEOREM Invariance == Spec => []IInv
  BY InitInv, NextInv, PTL DEF Spec

\* The type invariant, for every timeout and every set of stopping tasks.
THEOREM TypeCorrect == Spec => []TypeOK
<1>1. IInv => TypeOK
  BY DEF IInv, WaitInv, LoopInv, LoopTypeOK, LateCards, TypeOK
<1>. QED
  BY <1>1, Invariance, PTL

\* At every step that talks to the chip the interrupt belongs to the SDK.
THEOREM SdkOwnsIrq == Spec => []SdkOwnsIrqOutsideSleep
<1>1. IInv => SdkOwnsIrqOutsideSleep
  BY DEF IInv, WaitInv, Armed, SdkOwnsIrqOutsideSleep
<1>. QED
  BY <1>1, Invariance, PTL

\* A sleeping reader can be woken by the chip and by Stop().
THEOREM SleeperReachable == Spec => []SleeperIsReachable
<1>1. IInv => SleeperIsReachable
  BY DEF IInv, WaitInv, Armed, Published, SleeperIsReachable
<1>. QED
  BY <1>1, Invariance, PTL

\* The handle Stop() notifies is published during the wait only.
THEOREM HandlePublished == Spec => []HandleOnlyInWait
<1>1. IInv => HandleOnlyInWait
  BY DEF IInv, WaitInv, LoopInv, InsideWait, Published, HandleOnlyInWait
<1>. QED
  BY <1>1, Invariance, PTL

\* Every way out of a Read() closes the adapter.
THEOREM AdapterClosed == Spec => []OpenWhileReading
<1>1. IInv => OpenWhileReading
  BY DEF IInv, LoopInv
<1>. QED
  BY <1>1, Invariance, PTL

\* The loop reports an error to the application before it returns it.
THEOREM ErrorReported == Spec => []ErrorIsReported
<1>1. IInv => ErrorIsReported
  BY DEF IInv, LoopInv
<1>. QED
  BY <1>1, Invariance, PTL

\* After Stop() at most one more card is reported.
THEOREM OneCardAfterStop == Spec => []AtMostOneCardAfterStop
<1>1. IInv => AtMostOneCardAfterStop
  BY DEF IInv, LoopInv, LateCards, AtMostOneCardAfterStop
<1>. QED
  BY <1>1, Invariance, PTL

\* What HeedsStop reads of the reader's place is left alone around the reader.
LEMMA OthersLeaveReader ==
  ASSUME \/ \E s \in Stoppers : (Stop(s) \/ StopStep(s)) /\ UNCHANGED readVars
         \/ Around
  PROVE  /\ pc' = pc /\ state' = state /\ wpc' = wpc
         /\ g_stop_requested => g_stop_requested'
<1>1. CASE Around
  BY <1>1, AroundMovesNobody
  DEF Around, readVars, sessionVars, loopVars, flagVars
<1>2. CASE \E s \in Stoppers : (Stop(s) \/ StopStep(s)) /\ UNCHANGED readVars
  BY <1>2 DEF Stop, StopStep, StopFlag, StopSet, StopWake, StopNotify,
     flagVars, waitVars, wakeVars, readVars, sessionVars, loopVars
<1>. QED
  BY <1>1, <1>2

\* A stop that was heard in time stays heard: where the loop still tests for
\* it, and on the wait's way out to that test, no step of the reader, of
\* another task or of the chip clears it or takes the loop back into a wait,
\* until the Read() has ended. With the scheduler's fairness this is what
\* StopBeforeWaitEnds says.
THEOREM StopStaysHeard == Spec => HeardStopIsKept
<1>1. ASSUME Next, g_stop_requested, HeedsStop
      PROVE  (g_stop_requested /\ HeedsStop)' \/ pc' = "idle"
  <2>1. CASE StartRead \/ LoopWait \/ LoopWaitDone
    BY <1>1, <2>1 DEF HeedsStop, StartRead, Read, LoopWait, LoopWaitDone, flagVars
  <2>2. CASE Opening \/ EnterLoop \/ Closing
    BY <1>1, <2>2 DEF HeedsStop, Opening, Open, DiscoveryFails, EnterLoop,
       StartDiscovery, Closing, Deactivate, Close, Finish, flagVars
  <2>3. CASE LoopTop \/ LoopHealth \/ LoopDeactivate
    BY <1>1, <2>3 DEF HeedsStop, LoopTop, LoopHealth, LoopDeactivate, flagVars,
       loopVars
  <2>4. CASE LoopRfWarning \/ LoopDataEvent \/ LoopSystemError
    BY <1>1, <2>4 DEF HeedsStop, LoopRfWarning, LoopDataEvent, LoopSystemError,
       OnCardEvent, flagVars, loopVars
  <2>5. CASE InWait
    <3>1. pc' = pc /\ state' = state /\ g_stop_requested'
      BY <1>1, <2>5 DEF InWait, readVars, sessionVars, loopVars, flagVars
    <3>2. CASE pc # "waiting"
      BY <1>1, <3>1, <3>2 DEF HeedsStop
    <3>3. CASE pc = "waiting"
      <4>1. wpc \in {"leave", "returned"}
        BY <1>1, <3>3 DEF HeedsStop
      <4>2. wpc' = "returned"
        BY <2>5, <4>1 DEF InWait, WaitStep, WaitSysCheck, WaitPublish, WaitArm,
           WaitFlush, WaitTake, WaitDisarm, WaitStatus, WaitDecide, WaitRearm,
           WaitLeave
      <4>. QED
        BY <3>1, <3>3, <4>2 DEF HeedsStop
    <3>. QED
      BY <3>2, <3>3
  <2>6. CASE \/ \E s \in Stoppers : (Stop(s) \/ StopStep(s)) /\ UNCHANGED readVars
             \/ Around
    BY <1>1, <2>6, OthersLeaveReader DEF HeedsStop
  <2>7. Next => \/ StartRead \/ ReaderStep \/ Around
                \/ \E s \in Stoppers : (Stop(s) \/ StopStep(s)) /\ UNCHANGED readVars
    BY DEF Next, Stopping
  <2>. QED
    BY <1>1, <2>1, <2>2, <2>3, <2>4, <2>5, <2>6, <2>7 DEF ReaderStep
<1>2. [Next]_vars =>
        [g_stop_requested /\ HeedsStop =>
           (g_stop_requested /\ HeedsStop)' \/ pc' = "idle"]_vars
  BY <1>1
<1>. QED
  BY <1>2, PTL DEF Spec, HeardStopIsKept

\* A step of the reading task takes the card further, or there is an excuse.
LEMMA ReaderTakesItFurther ==
  ASSUME LoopForever, IInv, ReaderStep, OnItsWay, ~Excused
  PROVE  (OnItsWay \/ Reporting \/ Excused)'
<1>. USE DEF OnItsWay
<1>1. CASE Opening \/ EnterLoop \/ Closing
  BY <1>1 DEF Opening, Open, DiscoveryFails, EnterLoop, StartDiscovery,
     Closing, Deactivate, Close, Finish
<1>2. CASE LoopTop \/ LoopHealth \/ LoopRfWarning
  BY <1>2 DEF LoopTop, TimeLeft, LoopHealth, LoopRfWarning, Excused,
     Reporting, loopVars
<1>3. CASE LoopWait \/ LoopDataEvent \/ LoopDeactivate \/ LoopSystemError
  BY <1>3 DEF LoopWait, LoopDataEvent, LoopDeactivate, LoopSystemError
<1>4. CASE LoopWaitDone
  BY <1>4 DEF LoopWaitDone, WaitReturn, AfterWait
<1>5. CASE InWait
  <2>1. pc' = pc /\ state' = state /\ WaitStep
    BY <1>5 DEF InWait, readVars, sessionVars, loopVars
  <2>2. CASE pc # "waiting"
    BY <2>1, <2>2
  <2>3. CASE pc = "waiting"
    BY <2>1, <2>3 DEF WaitStep, WaitSysCheck, WaitPublish, WaitArm, WaitFlush,
       WaitTake, WaitDisarm, WaitStatus, WaitDecide, WaitRearm, WaitLeave,
       Excused, chipVars
  <2>. QED
    BY <2>2, <2>3
<1>. QED
  BY <1>1, <1>2, <1>3, <1>4, <1>5 DEF ReaderStep

\* A step of another task, of the chip or of the tick leaves it there.
LEMMA OthersLeaveItThere ==
  ASSUME IInv, OnItsWay,
         \/ \E s \in Stoppers : (Stop(s) \/ StopStep(s)) /\ UNCHANGED readVars
         \/ Around
  PROVE  (OnItsWay \/ Excused)'
<1>1. CASE Around
  <2>0. UNCHANGED <<readVars, flagVars, spc>>
    BY <1>1 DEF Around
  <2>1. pc' = pc /\ state' = state
    BY <2>0 DEF readVars, sessionVars, loopVars
  <2>2. wpc' = wpc /\ st' = st /\ out_status' = out_status
    BY <1>1 DEF Around, Tick, Environment, ChipEdge, CardGone, LinkChange,
       SystemChange, wakeVars, waitVars
  <2>3. notified => notified'
    BY <1>1 DEF Around, Tick, Environment, ChipEdge, CardGone, LinkChange,
       SystemChange, wakeVars, waitVars, IInv, WaitInv, WaitTypeOK
  <2>. QED
    BY <2>1, <2>2, <2>3 DEF OnItsWay, Excused
<1>2. CASE \E s \in Stoppers : (Stop(s) \/ StopStep(s)) /\ UNCHANGED readVars
  <2>1. /\ pc' = pc /\ state' = state /\ wpc' = wpc /\ st' = st /\ chip' = chip
        /\ out_status' = out_status /\ (notified => notified')
    BY <1>2 DEF Stop, StopStep, StopFlag, StopSet, StopWake, StopNotify,
       wakeVars, waitVars, timeVars, chipVars, readVars, sessionVars, loopVars
  <2>. QED
    BY <2>1 DEF OnItsWay
<1>. QED
  BY <1>1, <1>2

\* In an endless loop no step loses a card that has woken the reader: it stays
\* on its way until it is reported, unless one of the excuses arises. With the
\* scheduler's fairness this is what WakeReportsCard says.
THEOREM CardKeepsItsWay ==
  ASSUME LoopForever
  PROVE  Spec =>
           /\ [](wpc = "take" /\ notified /\ chip = "CARD_ACTIVE" => OnItsWay)
           /\ CardStaysOnItsWay
<1>1. IInv => (wpc = "take" /\ notified /\ chip = "CARD_ACTIVE" => OnItsWay)
  BY DEF IInv, LoopInv, InsideWait, OnItsWay
<1>2. ASSUME IInv, Next, OnItsWay, ~Excused
      PROVE  (OnItsWay \/ Reporting \/ Excused)'
  <2>1. pc # "idle"
    BY <1>2 DEF OnItsWay
  <2>2. ~StartRead
    BY <2>1 DEF StartRead, Read
  <2>. QED
    BY <1>2, <2>2, ReaderTakesItFurther, OthersLeaveItThere DEF Next, Stopping
<1>3. IInv /\ [Next]_vars =>
        [OnItsWay /\ ~Excused => (OnItsWay \/ Reporting \/ Excused)']_vars
  BY <1>2
<1>. QED
  BY <1>1, <1>3, Invariance, PTL DEF Spec, CardStaysOnItsWay
=============================================================================
