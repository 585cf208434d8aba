-------------------------- MODULE SingleShotProofs --------------------------
(***************************************************************************)
(* Safety of SingleShot for every timeout, every set of retry counts,      *)
(* every limit of the 8-bit counter and every number of tasks that call    *)
(* Stop().  Outcome says what the result and the status to return can be   *)
(* at each place, Counting how the attempts made and the loop's counter    *)
(* relate; the wait is WaitProofs' subject.                                *)
(***************************************************************************)
EXTENDS SingleShot, WaitProofs

ShotTypeOK ==
  /\ SessionTypeOK(ShotPc)
  /\ retry_count \in 0..MaxU8
  /\ attempt \in 0..MaxU8
  /\ attempts \in 0..MaxU8 + 2

InsideWait == pc = "waiting" <=> wpc # "idle"

Outcome ==
  /\ cardRead \in BOOLEAN
  /\ cardRead => pc \in {"deactivate", "close", "finish", "idle"} /\ ret = "RS_OK"
  /\ Returned /\ ret = "RS_OK" => cardRead \/ g_stop_requested
  /\ pc = "failed" => ret # "RS_OK"

Counting ==
  retry_count < MaxU8 =>
    /\ attempts <= retry_count + 1
    /\ pc \in {"open", "discover", "attempt"} => attempts = attempt /\ attempt <= retry_count
    /\ pc \in {"waiting", "activate", "failed"} =>
         attempts = attempt + 1 /\ attempt <= retry_count

ShotInv == ShotTypeOK /\ InsideWait /\ Outcome /\ Counting

IInv == WaitInv /\ StopTypeOK /\ ShotInv

LEMMA ShotConstants ==
  /\ MaxTick \in Nat /\ MaxTick > 0 /\ Timeout \in 1..MaxTick
  /\ MaxU8 \in Nat /\ RetryCounts \subseteq 0..MaxU8
BY MaxTickAssumption, SingleShotAssumption

LEMMA InitInv == Init => IInv
<1> SUFFICES ASSUME Init PROVE IInv
  OBVIOUS
<1>1. WaitInv
  BY InitWaitInv DEF Init
<1>2. StopTypeOK
  BY DEF Init, StopInit, StopTypeOK, Spc
<1>3. /\ pc = "idle" /\ wpc = "idle" /\ ret = "RS_OK" /\ g_ptx_opened = FALSE
      /\ retry_count = 0 /\ attempt = 0 /\ attempts = 0 /\ cardRead = FALSE
  BY DEF Init, SessionInit, WaitInit
<1>4. ShotTypeOK
  <2>1. 0 \in 0..MaxU8 /\ 0 \in 0..MaxU8 + 2
    BY ShotConstants
  <2> QED
    BY <1>3, <2>1 DEF ShotTypeOK, SessionTypeOK, SessionPc, ReadStatus
<1>5. InsideWait /\ Outcome
  BY <1>3 DEF InsideWait, Outcome, Returned
<1>6. Counting
  BY <1>3 DEF Counting
<1> QED
  BY <1>1, <1>2, <1>4, <1>5, <1>6 DEF IInv, ShotInv

\* The steps of the reading task outside the wait.
ReadStep ==
  \/ StartRead
  \/ (Open \/ DiscoveryFails \/ Deactivate \/ Close \/ Finish) /\ UNCHANGED shotVars
  \/ EnterShot
  \/ Activate \/ AttemptFailed
  \/ Attempt /\ pc' # "waiting"

LEMMA ReadKeepsWait ==
  ASSUME WaitInv, StopTypeOK, ReadStep
  PROVE  WaitInv' /\ StopTypeOK' /\ wpc' = wpc
<1>1. /\ UNCHANGED <<g_waiting_task, irqCallback, timeVars, wpc, st, out_status>>
      /\ UNCHANGED <<notified, sysOk, linkOk, spc>>
      /\ chip' \in Disc
  BY DEF ReadStep, StartRead, Read, Open, DiscoveryFails, Deactivate, Deactivated, Close,
     Finish, EnterShot, StartDiscovery, Activate, AttemptFailed, Attempt,
     waitVars, wakeVars, chipVars, WaitInv, WaitTypeOK, Disc
<1>2. notified' \in BOOLEAN /\ sysOk' \in BOOLEAN /\ linkOk' \in BOOLEAN
  BY <1>1 DEF WaitInv, WaitTypeOK
<1>3. g_stop_requested' \in BOOLEAN /\ g_reader_active' \in BOOLEAN
  BY DEF ReadStep, StartRead, Read, Open, DiscoveryFails, Deactivate, Close,
     Finish, EnterShot, StartDiscovery, Activate, AttemptFailed, Attempt,
     flagVars, StopTypeOK
<1> QED
  BY <1>1, <1>2, <1>3, OutsideKeepsWaitInv DEF StopTypeOK

LEMMA ReadKeepsShot ==
  ASSUME IInv, ReadStep
  PROVE  ShotInv'
<1> USE DEF IInv, ShotInv
<1>1. wpc' = wpc
  BY ReadKeepsWait
<1>2. CASE StartRead
  <2>1. PICK n \in RetryCounts : retry_count' = n
    BY <1>2 DEF StartRead
  <2>2. /\ pc = "idle" /\ pc' = "open" /\ ret' = "RS_OK" /\ g_ptx_opened' = g_ptx_opened
        /\ attempt' = 0 /\ attempts' = 0 /\ cardRead' = FALSE
        /\ retry_count' \in 0..MaxU8
    BY <1>2, <2>1, ShotConstants DEF StartRead, Read
  <2>3. ShotTypeOK'
    BY <2>2, ShotConstants DEF ShotTypeOK, SessionTypeOK, SessionPc, ReadStatus
  <2>4. InsideWait' /\ Outcome'
    BY <1>1, <2>2 DEF InsideWait, Outcome, Returned
  <2>5. Counting'
    <3>1. attempts' = attempt' /\ attempt' <= retry_count' /\ attempts' <= retry_count' + 1
      <4>1. \A k \in 0..MaxU8 : 0 <= k /\ 0 <= k + 1
        BY ShotConstants
      <4>2. 0 <= retry_count' /\ 0 <= retry_count' + 1
        BY <2>2, <4>1
      <4> QED
        BY <2>2, <4>2
    <3>2. pc' \notin {"waiting", "activate", "failed"}
      BY <2>2
    <3> QED
      BY <3>1, <3>2, Zenon DEF Counting
  <2> QED
    BY <2>3, <2>4, <2>5
<1>3. CASE (Open \/ DiscoveryFails \/ Deactivate \/ Close \/ Finish) /\ UNCHANGED shotVars
  <2>1. /\ UNCHANGED <<retry_count, attempt, attempts, cardRead>>
        /\ g_stop_requested' = g_stop_requested
        /\ g_ptx_opened' \in BOOLEAN
        /\ \/ pc = "open" /\ pc' = "discover" /\ ret' = ret
           \/ pc \in {"open", "discover"} /\ pc' = "finish" /\ ret' = "RS_ERR_INTERNAL"
           \/ pc = "deactivate" /\ pc' = "close" /\ ret' = ret
           \/ pc = "close" /\ pc' = "finish" /\ ret' = ret
           \/ pc = "finish" /\ pc' = "idle" /\ ret' = ret
    BY <1>3 DEF Open, DiscoveryFails, Deactivate, Close, Finish, shotVars, flagVars,
       ShotTypeOK, SessionTypeOK
  <2>2. ShotTypeOK'
    BY <2>1 DEF ShotTypeOK, SessionTypeOK, SessionPc, ReadStatus
  <2>3. InsideWait' /\ Counting'
    BY <1>1, <2>1 DEF InsideWait, Counting
  <2>4. Outcome'
    BY <2>1 DEF Outcome, Returned
  <2> QED
    BY <2>2, <2>3, <2>4
<1>4. CASE EnterShot
  <2>1. /\ UNCHANGED <<retry_count, attempt, attempts, cardRead, ret, g_ptx_opened>>
        /\ pc = "discover" /\ pc' = "attempt"
    BY <1>4 DEF EnterShot, StartDiscovery, shotVars
  <2> QED
    BY <1>1, <2>1 DEF ShotTypeOK, SessionTypeOK, SessionPc, ShotPc, InsideWait, Outcome,
       Returned, Counting
<1>5. CASE Activate
  <2>1. /\ UNCHANGED <<retry_count, attempt, attempts, g_ptx_opened>>
        /\ pc = "activate"
        /\ \/ pc' = "deactivate" /\ ret' = "RS_OK" /\ cardRead' = TRUE
           \/ /\ pc' = "failed" /\ ret' \in {"RS_ERR_INTERNAL", "RS_ERR_NOT_FOUND"}
              /\ cardRead' = cardRead
    BY <1>5 DEF Activate
  <2>2. ShotTypeOK'
    BY <2>1 DEF ShotTypeOK, SessionTypeOK, SessionPc, ShotPc, ReadStatus
  <2>3. InsideWait'
    BY <1>1, <2>1 DEF InsideWait
  <2>4. Outcome'
    <3>1. ~cardRead
      BY <2>1 DEF Outcome
    <3>2. CASE pc' = "deactivate" /\ ret' = "RS_OK" /\ cardRead' = TRUE
      BY <3>2 DEF Outcome, Returned
    <3>3. CASE /\ pc' = "failed" /\ ret' \in {"RS_ERR_INTERNAL", "RS_ERR_NOT_FOUND"}
               /\ cardRead' = cardRead
      <4>1. cardRead' = FALSE
        BY <3>1, <3>3 DEF Outcome
      <4> QED
        BY <3>3, <4>1 DEF Outcome, Returned
    <3> QED
      BY <2>1, <3>2, <3>3
  <2>5. Counting'
    BY <2>1 DEF Counting, ShotTypeOK
  <2> QED
    BY <2>2, <2>3, <2>4, <2>5
<1>6. CASE AttemptFailed
  <2>1. /\ UNCHANGED <<retry_count, attempts, cardRead, ret, g_ptx_opened>>
        /\ pc = "failed"
        /\ \/ retry_count = 0 /\ pc' = "deactivate" /\ attempt' = attempt
           \/ /\ attempt' = (attempt + 1) % (MaxU8 + 1)
              /\ pc' = IF attempt' <= retry_count THEN "attempt" ELSE "deactivate"
    BY <1>6 DEF AttemptFailed
  <2>2. /\ attempt' \in 0..MaxU8
        /\ retry_count < MaxU8 => attempt' = attempt \/ attempt' = attempt + 1
    <3>1. CASE attempt' = attempt
      BY <3>1 DEF ShotTypeOK
    <3>2. CASE attempt' = (attempt + 1) % (MaxU8 + 1)
      <4>1. attempt \in 0..MaxU8 /\ MaxU8 \in Nat
        BY ShotConstants DEF ShotTypeOK
      <4>2. (attempt + 1) % (MaxU8 + 1) \in 0..MaxU8
        BY <4>1
      <4>3. retry_count < MaxU8 => attempt < MaxU8
        BY <2>1, <4>1 DEF Counting, ShotTypeOK
      <4>4. attempt < MaxU8 => (attempt + 1) % (MaxU8 + 1) = attempt + 1
        BY <4>1
      <4> QED
        BY <3>2, <4>2, <4>3, <4>4
    <3> QED
      BY <2>1, <3>1, <3>2
  <2>3. pc' \in {"attempt", "deactivate"}
    BY <2>1
  <2>4. ShotTypeOK'
    BY <2>1, <2>2, <2>3 DEF ShotTypeOK, SessionTypeOK, SessionPc, ShotPc
  <2>5. InsideWait' /\ Outcome'
    BY <1>1, <2>1, <2>3 DEF InsideWait, Outcome, Returned
  <2>6. Counting'
    <3>1. SUFFICES ASSUME retry_count < MaxU8
                   PROVE  /\ attempts <= retry_count + 1
                          /\ pc' = "attempt" => attempts = attempt' /\ attempt' <= retry_count
      BY <2>1, <2>3 DEF Counting
    <3>2. attempts = attempt + 1 /\ attempt <= retry_count
      BY <2>1, <3>1 DEF Counting
    <3>3. pc' = "attempt" => attempt' = attempt + 1 /\ attempt' <= retry_count
      <4>1. attempt \in Nat /\ MaxU8 \in Nat /\ attempt < MaxU8 /\ retry_count \in Nat
        BY <3>1, <3>2, ShotConstants DEF ShotTypeOK
      <4>2. (attempt + 1) % (MaxU8 + 1) = attempt + 1
        BY <4>1
      <4> QED
        BY <2>1, <4>2
    <3> QED
      BY <3>2, <3>3 DEF ShotTypeOK
  <2> QED
    BY <2>4, <2>5, <2>6
<1>7. CASE Attempt /\ pc' # "waiting"
  <2>1. /\ UNCHANGED <<retry_count, attempt, cardRead, g_ptx_opened, g_stop_requested>>
        /\ g_stop_requested
        /\ pc = "attempt" /\ pc' = "deactivate" /\ ret' = "RS_OK"
        /\ attempts' = IF attempts < MaxU8 + 2 THEN attempts + 1 ELSE attempts
    BY <1>7 DEF Attempt, Counted, flagVars
  <2>2. ShotTypeOK'
    BY <2>1, ShotConstants DEF ShotTypeOK, SessionTypeOK, SessionPc, ReadStatus
  <2>3. InsideWait' /\ Outcome'
    BY <1>1, <2>1 DEF InsideWait, Outcome, Returned
  <2>4. Counting'
    BY <2>1, ShotConstants DEF Counting, ShotTypeOK
  <2> QED
    BY <2>2, <2>3, <2>4
<1> QED
  BY <1>2, <1>3, <1>4, <1>5, <1>6, <1>7 DEF ReadStep

\* An attempt enters the wait.
LEMMA CallKeepsInv ==
  ASSUME IInv, Attempt, pc' = "waiting"
  PROVE  IInv'
<1> USE DEF IInv, ShotInv
<1>1. /\ UNCHANGED <<flagVars, spc, retry_count, attempt, cardRead, ret, g_ptx_opened>>
      /\ pc = "attempt" /\ CallWait(Timeout)
      /\ attempts' = IF attempts < MaxU8 + 2 THEN attempts + 1 ELSE attempts
  BY DEF Attempt, Counted
<1>2. WaitInv'
  BY <1>1, ShotConstants, CallKeepsWaitInv
<1>3. StopTypeOK'
  BY <1>1 DEF StopTypeOK, flagVars
<1>4. ShotTypeOK'
  BY <1>1, ShotConstants DEF ShotTypeOK, SessionTypeOK, ShotPc
<1>5. InsideWait' /\ Outcome'
  BY <1>1 DEF CallWait, InsideWait, Outcome, Returned
<1>6. Counting'
  BY <1>1, ShotConstants DEF Counting, ShotTypeOK
<1> QED
  BY <1>2, <1>3, <1>4, <1>5, <1>6

\* The wait returns to the attempt.
LEMMA ReturnKeepsInv ==
  ASSUME IInv, WaitDone
  PROVE  IInv'
<1> USE DEF IInv, ShotInv
<1>1. /\ UNCHANGED <<flagVars, spc, retry_count, attempt, attempts, cardRead, g_ptx_opened>>
      /\ pc = "waiting" /\ WaitReturn
      /\ \/ pc' = "failed" /\ ret' \in {"RS_ERR_INTERNAL", "RS_ERR_TIMEOUT"}
         \/ pc' = "deactivate" /\ ret' = "RS_OK" /\ g_stop_requested
         \/ pc' = "activate" /\ ret' = ret
  BY DEF WaitDone, shotVars, WaitInv, WaitTypeOK, Status
<1>2. WaitInv'
  BY <1>1, ReturnKeepsWaitInv
<1>3. StopTypeOK'
  BY <1>1 DEF StopTypeOK, flagVars
<1>4. ShotTypeOK'
  BY <1>1 DEF ShotTypeOK, SessionTypeOK, SessionPc, ShotPc, ReadStatus
<1>5. InsideWait' /\ Outcome'
  BY <1>1 DEF WaitReturn, InsideWait, Outcome, Returned, flagVars
<1>6. Counting'
  BY <1>1 DEF Counting, ShotTypeOK
<1> QED
  BY <1>2, <1>3, <1>4, <1>5, <1>6

\* Steps that leave the reading task outside the wait where it is.
LEMMA ElsewhereKeepsShot ==
  ASSUME ShotInv, UNCHANGED readVars, wpc' = wpc \/ (wpc # "idle" /\ wpc' # "idle"),
         g_stop_requested => g_stop_requested'
  PROVE  ShotInv'
<1>1. UNCHANGED <<pc, ret, g_ptx_opened, retry_count, attempt, attempts, cardRead>>
  BY DEF readVars, sessionVars, shotVars
<1>2. ShotTypeOK' /\ InsideWait' /\ Counting'
  BY <1>1 DEF ShotInv, ShotTypeOK, SessionTypeOK, InsideWait, Counting
<1>3. Outcome'
  BY <1>1 DEF ShotInv, Outcome, Returned
<1> QED
  BY <1>2, <1>3 DEF ShotInv

LEMMA NextInv == IInv /\ [Next]_vars => IInv'
<1> SUFFICES ASSUME IInv, [Next]_vars PROVE IInv'
  OBVIOUS
<1> USE DEF IInv
<1>1. CASE ReadStep
  BY <1>1, ReadKeepsWait, ReadKeepsShot
<1>2. CASE Attempt /\ pc' = "waiting"
  BY <1>2, CallKeepsInv
<1>3. CASE WaitDone
  BY <1>3, ReturnKeepsInv
<1>4. CASE InWait
  <2>1. WaitInv' /\ wpc # "idle" /\ wpc' # "idle"
    BY <1>4, StepKeepsWaitInv, StepStaysInside DEF InWait
  <2>2. UNCHANGED <<readVars, flagVars, spc>>
    BY <1>4 DEF InWait
  <2> QED
    BY <2>1, <2>2, ElsewhereKeepsShot DEF flagVars, StopTypeOK
<1>5. CASE Ticking \/ Outside
  <2>1. WaitInv' /\ wpc' = wpc
    BY <1>5, AroundKeepsWaitInv, AroundMovesNobody DEF Ticking, Outside
  <2>2. UNCHANGED <<readVars, flagVars, spc>>
    BY <1>5 DEF Ticking, Outside
  <2> QED
    BY <2>1, <2>2, ElsewhereKeepsShot DEF flagVars, StopTypeOK
<1>6. ASSUME NEW s \in Stoppers, Stop(s) \/ StopStep(s), UNCHANGED readVars
      PROVE  IInv'
  BY <1>6, StopKeeps, ElsewhereKeepsShot
<1>7. CASE UNCHANGED vars
  <2>1. WaitInv' /\ StopTypeOK' /\ wpc' = wpc
    BY <1>7 DEF vars, waitVars, wakeVars, timeVars, chipVars, flagVars, WaitInv,
       WaitTypeOK, StopTypeOK
  <2>2. UNCHANGED readVars /\ g_stop_requested' = g_stop_requested
    BY <1>7 DEF vars, flagVars
  <2> QED
    BY <2>1, <2>2, ElsewhereKeepsShot
<1>8. CASE StartRead \/ ReaderStep
  BY <1>1, <1>2, <1>3, <1>4, <1>8 DEF ReaderStep, Opening, Closing, ReadStep
<1> QED
  BY <1>5, <1>6, <1>7, <1>8 DEF Next, Stopping

LEMMA Invariance == Spec => []IInv
BY InitInv, NextInv, PTL DEF Spec

\* Every variable keeps to its values, the wrapping counter included.
THEOREM TypeCorrect == Spec => []TypeOK
<1>1. IInv => TypeOK
  BY DEF IInv, WaitInv, ShotInv, ShotTypeOK, Outcome, TypeOK
<1> QED
  BY <1>1, Invariance, PTL

\* RS_OK means that a card was read or a stop requested.
THEOREM NoEmptySuccess == Spec => []SuccessMeansCard
<1>1. IInv => SuccessMeansCard
  BY DEF IInv, ShotInv, Outcome, SuccessMeansCard
<1> QED
  BY <1>1, Invariance, PTL

\* A card read is reported as a success.
THEOREM NoCardLost == Spec => []CardMeansSuccess
<1>1. IInv => CardMeansSuccess
  BY DEF IInv, ShotInv, Outcome, CardMeansSuccess
<1> QED
  BY <1>1, Invariance, PTL

\* Below the counter's limit the attempts are bounded, for every retry count.
THEOREM Bounded == Spec => []AttemptsBounded
<1>1. IInv => AttemptsBounded
  BY DEF IInv, ShotInv, Counting, AttemptsBounded
<1> QED
  BY <1>1, Invariance, PTL

\* The places of a Read() in the order in which a stopped one passes them.
Place ==
  CASE pc = "open" -> 0 [] pc = "discover" -> 1 [] pc = "waiting" -> 2
    [] pc = "activate" -> 3 [] pc = "failed" -> 4 [] pc = "attempt" -> 5
    [] pc = "deactivate" -> 6 [] pc = "close" -> 7 [] pc = "finish" -> 8
    [] OTHER -> 9

\* Once a stop is requested the Read() only goes forward to its end: nothing
\* clears the request before, and no retry takes the Read() back into a wait,
\* not even when the counter wraps. With the scheduler's fairness, and a wait
\* that ends, this is what StopEndsRead says.
THEOREM StopGoesForward ==
  Spec => [][g_stop_requested /\ pc # "idle" =>
               /\ g_stop_requested'
               /\ pc' = pc \/ Place' > Place]_vars
<1>1. ASSUME Next, g_stop_requested, pc # "idle"
      PROVE  g_stop_requested' /\ (pc' = pc \/ Place' > Place)
  <2>. USE <1>1
  <2>1. CASE StartRead
    BY <2>1 DEF StartRead, Read
  <2>2. CASE Opening \/ EnterShot \/ Closing
    <3>1. /\ g_stop_requested'
          /\ \/ pc = "open" /\ pc' \in {"discover", "finish"}
             \/ pc = "discover" /\ pc' \in {"attempt", "finish"}
             \/ pc = "deactivate" /\ pc' = "close"
             \/ pc = "close" /\ pc' = "finish"
             \/ pc = "finish" /\ pc' = "idle"
      BY <2>2 DEF Opening, Open, DiscoveryFails, EnterShot, StartDiscovery,
         Closing, Deactivate, Close, Finish, flagVars
    <3>. QED
      BY <3>1 DEF Place
  <2>3. CASE Attempt \/ AttemptFailed
    <3>1. /\ g_stop_requested'
          /\ \/ pc = "failed" /\ pc' \in {"attempt", "deactivate"}
             \/ pc = "attempt" /\ pc' = "deactivate"
      BY <2>3 DEF Attempt, AttemptFailed, flagVars
    <3>. QED
      BY <3>1 DEF Place
  <2>4. CASE WaitDone \/ Activate
    <3>1. /\ g_stop_requested'
          /\ \/ pc = "waiting" /\ pc' \in {"failed", "deactivate"}
             \/ pc = "activate" /\ pc' \in {"failed", "deactivate"}
      BY <2>4 DEF WaitDone, Activate, flagVars
    <3>. QED
      BY <3>1 DEF Place
  <2>5. CASE InWait \/ Ticking \/ Outside
    BY <2>5 DEF InWait, Ticking, Outside, readVars, sessionVars, flagVars
  <2>6. CASE \E s \in Stoppers : (Stop(s) \/ StopStep(s)) /\ UNCHANGED readVars
    BY <2>6 DEF Stop, StopStep, StopFlag, StopSet, StopWake, StopNotify,
       flagVars, readVars, sessionVars
  <2>7. Next => \/ StartRead \/ ReaderStep \/ Ticking \/ Outside
                \/ \E s \in Stoppers : (Stop(s) \/ StopStep(s)) /\ UNCHANGED readVars
    BY DEF Next, Stopping
  <2>. QED
    BY <2>1, <2>2, <2>3, <2>4, <2>5, <2>6, <2>7 DEF ReaderStep
<1>2. [Next]_vars =>
        [g_stop_requested /\ pc # "idle" =>
           /\ g_stop_requested'
           /\ pc' = pc \/ Place' > Place]_vars
  BY <1>1
<1>. QED
  BY <1>2, PTL DEF Spec
=============================================================================
