---------------------------- MODULE AdapterProofs ----------------------------
(***************************************************************************)
(* Proofs about the adapter's life cycle: the invariants of AdapterLife,   *)
(* and that it implements Session's atomic open.                           *)
(***************************************************************************)
EXTENDS AdapterLife, TLAPS

\* Where the adapter is open: from the end of rs_nfc_ptx_open to a close.
OpenPhase == g_ptx_opened <=> pc \in {"discover", "body", "deactivate", "close"}

\* The peripherals opened so far by this open.
OpenedSoFar ==
  /\ pc = "timer" => up = {"gpio"}
  /\ pc = "app_timer" => up = {"gpio", "timer"}
  /\ pc = "spi" => up = {"gpio", "timer", "app_timer"}
  /\ pc = "gpio" => up = {}
  /\ pc \in {"init", "reinit"} => up = PeripheralPc

Pending == calibrate /\ pc \in {"init"} \cup PeripheralPc

\* The calibration is still to come, on its way, done or lost.
CalibrationTracked ==
  /\ calibrations <= 1
  /\ g_start_temp_calibration => pc \in {"idle", "open"}
  /\ g_start_temp_calibration \/ Pending => calibrations = 0
  /\ g_start_temp_calibration \/ Pending \/ calibrations = 1 \/ openFailed

IInv ==
  /\ TypeOK /\ OpenPhase /\ OpenedSoFar /\ CalibrationTracked
  /\ OpenMeansReady /\ RegistryOnlyWhileOpen

-----------------------------------------------------------------------------
LEMMA PeripheralFact ==
  /\ Peripheral[1] = "gpio" /\ Peripheral[2] = "timer"
  /\ Peripheral[3] = "app_timer" /\ Peripheral[4] = "spi"
  /\ PeripheralPc = {"gpio", "timer", "app_timer", "spi"}
<1>1. /\ Peripheral[1] = "gpio" /\ Peripheral[2] = "timer"
      /\ Peripheral[3] = "app_timer" /\ Peripheral[4] = "spi"
  BY DEF Peripheral
<1>2. 1..4 = {1, 2, 3, 4}
  OBVIOUS
<1> QED
  BY <1>1, <1>2 DEF PeripheralPc

\* What one of the four calls that open the peripherals does.
LEMMA PeripheralStep ==
  ASSUME OpenPeripheral
  PROVE  \/ /\ up' = up
            /\ pc \in PeripheralPc /\ OpenFails
         \/ /\ UNCHANGED <<ret, openFailed>>
            /\ up' = up \cup {pc}
            /\ \/ pc = "gpio" /\ pc' = "timer"
               \/ pc = "timer" /\ pc' = "app_timer"
               \/ pc = "app_timer" /\ pc' = "spi"
               \/ pc = "spi" /\ pc' = "init"
<1>1. PICK i \in 1..4 :
        /\ pc = Peripheral[i]
        /\ \/ /\ up' = up \cup {Peripheral[i]}
              /\ pc' = IF i = 4 THEN "init" ELSE Peripheral[i + 1]
              /\ UNCHANGED <<ret, openFailed>>
           \/ OpenFails /\ UNCHANGED up
  BY DEF OpenPeripheral
<1>2. i = 1 \/ i = 2 \/ i = 3 \/ i = 4
  OBVIOUS
<1> QED
  BY <1>1, <1>2, PeripheralFact

LEMMA ValidateType ==
  ASSUME NEW c PROVE Validate(c) \in {"RS_OK", "RS_ERR_INVALID_CFG", "RS_ERR_DEPENDENCY"}
BY DEF Validate, Dependencies

LEMMA InitIInv == Init => IInv
<1> SUFFICES ASSUME Init PROVE IInv
  OBVIOUS
<1>1. TypeOK
  <2>1. cfg \in Config \cup {<<>>}
    BY Zenon DEF Init
  <2>2. up \subseteq PeripheralPc
    BY DEF Init
  <2>3. /\ g_ptx_opened \in BOOLEAN /\ g_start_temp_calibration \in BOOLEAN
        /\ calibrate \in BOOLEAN /\ sdkUp \in BOOLEAN /\ openFailed \in BOOLEAN
    BY DEF Init
  <2>4. /\ pc = "idle" /\ g_active_reg = "null" /\ calibrations \in 0..2
        /\ ret = "RS_OK" /\ answer = "RS_OK"
    BY DEF Init
  <2> QED
    BY <2>1, <2>2, <2>3, <2>4 DEF TypeOK, ReadStatus
<1>2. OpenPhase /\ OpenedSoFar /\ OpenMeansReady /\ RegistryOnlyWhileOpen
  BY DEF Init, OpenPhase, OpenedSoFar, OpenMeansReady, RegistryOnlyWhileOpen
<1>3. CalibrationTracked
  BY PeripheralFact DEF Init, CalibrationTracked, Pending
<1> QED
  BY <1>1, <1>2, <1>3 DEF IInv

LEMMA NextIInv == IInv /\ [Next]_vars => IInv'
<1> SUFFICES ASSUME IInv, [Next]_vars PROVE IInv'
  OBVIOUS
<1> USE PeripheralFact
    DEF IInv, OpenPhase, OpenedSoFar, CalibrationTracked, Pending, OpenMeansReady,
        RegistryOnlyWhileOpen, OpenPc
<1>1. ASSUME NEW c \in Config, Refuse(c) PROVE IInv'
  <2>1. answer' \in {"RS_OK", "RS_ERR_INVALID_CFG", "RS_ERR_DEPENDENCY"}
    BY <1>1, ValidateType DEF Refuse
  <2>2. TypeOK'
    BY <1>1, <2>1 DEF Refuse, TypeOK, openVars, chipVars, ReadStatus
  <2> QED
    BY <1>1, <2>2 DEF Refuse, openVars, chipVars
<1>2. ASSUME NEW c \in Config, Read(c) PROVE IInv'
  <2>1. TypeOK'
    BY <1>2 DEF Read, TypeOK, openVars, chipVars, ReadStatus
  <2> QED
    BY <1>2, <2>1 DEF Read, openVars, chipVars
<1>3. CASE OpenParams
  <2>1. TypeOK'
    BY <1>3 DEF OpenParams, TypeOK
  <2> QED
    BY <1>3, <2>1 DEF OpenParams, TypeOK
<1>4. CASE OpenPeripheral
  <2>1. UNCHANGED <<cfg, openVars, sdkUp, calibrations, answer>>
    BY <1>4 DEF OpenPeripheral
  <2>2. CASE up' = up /\ pc \in PeripheralPc /\ OpenFails
    <3>1. TypeOK'
      BY <2>1, <2>2 DEF OpenFails, TypeOK, openVars, ReadStatus
    <3> QED
      BY <2>1, <2>2, <3>1 DEF OpenFails, openVars
  <2>3. CASE /\ UNCHANGED <<ret, openFailed>>
             /\ up' = up \cup {pc}
             /\ \/ pc = "gpio" /\ pc' = "timer"
                \/ pc = "timer" /\ pc' = "app_timer"
                \/ pc = "app_timer" /\ pc' = "spi"
                \/ pc = "spi" /\ pc' = "init"
    <3>1. TypeOK'
      BY <2>1, <2>3 DEF TypeOK, openVars
    <3> QED
      BY <2>1, <2>3, <3>1 DEF openVars
  <2> QED
    BY <1>4, <2>2, <2>3, PeripheralStep
<1>5. ASSUME CalibrationTracked', calibrations' \in 0..2,
             pc \in {"init", "reinit"}, SdkInit,
             UNCHANGED <<cfg, g_active_reg, g_start_temp_calibration, calibrate,
                         up, answer>>
      PROVE  IInv'
  <2>1. TypeOK'
    BY <1>5 DEF SdkInit, TypeOK
  <2> QED
    BY <1>5, <2>1 DEF SdkInit
<1>6. CASE InitSdk
  <2>1. /\ UNCHANGED <<cfg, g_active_reg, g_start_temp_calibration, calibrate,
                       up, answer>>
        /\ pc = "init" /\ pc' \in {"discover", "reinit"}
        /\ openFailed' = openFailed
    BY <1>6 DEF InitSdk, SdkInit
  <2>2. calibrations' \in 0..1 /\ (calibrations' = 1 \/ openFailed)
    BY <1>6 DEF InitSdk, TypeOK
  <2>3. CalibrationTracked'
    BY <2>1, <2>2
  <2>4. CASE pc' = "reinit" /\ UNCHANGED <<sdkUp, g_ptx_opened, ret, openFailed>>
    <3>1. TypeOK'
      BY <2>1, <2>2, <2>4 DEF TypeOK
    <3> QED
      BY <2>1, <2>3, <2>4, <3>1
  <2> QED
    BY <1>5, <1>6, <2>1, <2>2, <2>3, <2>4 DEF InitSdk
<1>7. CASE RetryInit
  <2>1. /\ UNCHANGED <<cfg, g_active_reg, g_start_temp_calibration, calibrate,
                       up, calibrations, answer>>
        /\ pc = "reinit" /\ pc' \in {"discover", "finish"}
        /\ openFailed => openFailed'
    BY <1>7 DEF RetryInit, SdkInit, OpenFails
  <2>2. CalibrationTracked'
    BY <2>1
  <2>3. calibrations' \in 0..2
    BY <2>1 DEF TypeOK
  <2>4. CASE OpenFails /\ sdkUp' = FALSE /\ UNCHANGED g_ptx_opened
    <3>1. TypeOK'
      BY <2>1, <2>4 DEF OpenFails, TypeOK, ReadStatus
    <3> QED
      BY <2>1, <2>2, <2>4, <3>1 DEF OpenFails
  <2> QED
    BY <1>5, <1>7, <2>1, <2>2, <2>3, <2>4 DEF RetryInit
<1>8. CASE StartDiscovery
  <2>1. TypeOK'
    BY <1>8 DEF StartDiscovery, PtxClose, TypeOK, ReadStatus
  <2> QED
    BY <1>8, <2>1 DEF StartDiscovery, PtxClose
<1>9. CASE ActivateCard
  <2>1. TypeOK'
    BY <1>9 DEF ActivateCard, TypeOK, chipVars
  <2> QED
    BY <1>9, <2>1 DEF ActivateCard, chipVars
<1>10. CASE BodyEnds
  <2>1. TypeOK'
    BY <1>10 DEF BodyEnds, TypeOK, openVars, chipVars
  <2> QED
    BY <1>10, <2>1 DEF BodyEnds, openVars, chipVars
<1>11. CASE Deactivate
  <2>1. TypeOK'
    BY <1>11 DEF Deactivate, TypeOK, openVars, chipVars
  <2> QED
    BY <1>11, <2>1 DEF Deactivate, openVars, chipVars
<1>12. CASE Close
  <2>1. TypeOK'
    BY <1>12 DEF Close, PtxClose, TypeOK
  <2> QED
    BY <1>12, <2>1 DEF Close, PtxClose
<1>13. CASE Finish
  <2>1. TypeOK'
    BY <1>13 DEF Finish, TypeOK, openVars, chipVars
  <2> QED
    BY <1>13, <2>1 DEF Finish, openVars, chipVars
<1>14. CASE UNCHANGED vars
  <2>1. TypeOK'
    BY <1>14 DEF vars, TypeOK, openVars, chipVars
  <2> QED
    BY <1>14, <2>1 DEF vars, openVars, chipVars
<1> QED
  BY <1>1, <1>2, <1>3, <1>4, <1>6, <1>7, <1>8, <1>9, <1>10, <1>11, <1>12, <1>13,
     <1>14 DEF Next

LEMMA LifeInv == Spec => []IInv
BY InitIInv, NextIInv, PTL DEF Spec

-----------------------------------------------------------------------------
\* Every variable keeps to its values.
THEOREM TypeCorrect == Spec => []TypeOK
<1>1. IInv => TypeOK
  BY DEF IInv
<1> QED
  BY <1>1, LifeInv, PTL

\* An adapter that counts as open has all its peripherals and the SDK.
THEOREM Ready == Spec => []OpenMeansReady
<1>1. IInv => OpenMeansReady
  BY DEF IInv
<1> QED
  BY <1>1, LifeInv, PTL

\* No reference to the card registry outlives the SDK's session.
THEOREM NoStaleRegistry == Spec => []RegistryOnlyWhileOpen
<1>1. IInv => RegistryOnlyWhileOpen
  BY DEF IInv
<1> QED
  BY <1>1, LifeInv, PTL

\* One calibration per power-up, unless an open that failed consumed it.
THEOREM Calibration == Spec => []CalibratedUnlessFailed
<1>1. IInv => CalibratedUnlessFailed
  BY PeripheralFact DEF IInv, CalibratedUnlessFailed, CalibrationTracked, Pending, OpenPhase
<1> QED
  BY <1>1, LifeInv, PTL

-----------------------------------------------------------------------------
(* The implementation of Session.                                          *)

LEMMA InitRefines == Init => OneStep!SessionInit
BY PeripheralFact DEF Init, OneStep!SessionInit, OpenPc

\* A step inside rs_nfc_ptx_open that neither ends nor fails it.
LEMMA InsideOpen ==
  ASSUME pc \in OpenPc, pc' \in OpenPc, UNCHANGED <<ret, g_ptx_opened>>
  PROVE  UNCHANGED OneStep!sessionVars
BY DEF OneStep!sessionVars

\* One that fails it, and one that ends it.
LEMMA OpenFailing ==
  ASSUME pc \in OpenPc, OpenFails, UNCHANGED g_ptx_opened
  PROVE  OneStep!Open
<1>1. pc' # "open" /\ pc' \notin OpenPc /\ pc # "idle"
  BY PeripheralFact DEF OpenFails, OpenPc
<1> QED
  BY <1>1 DEF OpenFails, OneStep!Open, OneStep!waitVars, OneStep!chipVars,
     OneStep!flagVars, OneStep!wakeVars, OneStep!timeVars

LEMMA OpenEnding ==
  ASSUME pc \in OpenPc, SdkInit
  PROVE  OneStep!Open
<1>1. pc' \notin OpenPc /\ pc # "idle"
  BY PeripheralFact DEF SdkInit, OpenPc
<1> QED
  BY <1>1 DEF SdkInit, OneStep!Open, OneStep!waitVars, OneStep!chipVars,
     OneStep!flagVars, OneStep!wakeVars, OneStep!timeVars

LEMMA NextRefines ==
  IInv /\ [Next]_vars => [SessionStep]_(OneStep!sessionVars)
<1> SUFFICES ASSUME IInv, [Next]_vars
             PROVE  SessionStep \/ UNCHANGED OneStep!sessionVars
  OBVIOUS
<1> USE PeripheralFact DEF OpenPc, SessionStep
<1>1. ASSUME NEW c \in Config, Refuse(c) PROVE UNCHANGED OneStep!sessionVars
  BY <1>1 DEF Refuse, openVars, OneStep!sessionVars
<1>2. ASSUME NEW c \in Config, Read(c) PROVE OneStep!Read
  BY <1>2 DEF Read, openVars, OneStep!Read, OneStep!waitVars, OneStep!chipVars,
     OneStep!wakeVars, OneStep!timeVars
<1>3. CASE OpenParams
  BY <1>3, InsideOpen DEF OpenParams
<1>4. CASE OpenPeripheral
  <2>1. UNCHANGED g_ptx_opened
    BY <1>4 DEF OpenPeripheral, openVars
  <2> QED
    BY <1>4, <2>1, PeripheralStep, InsideOpen, OpenFailing
<1>5. CASE InitSdk
  BY <1>5, InsideOpen, OpenEnding DEF InitSdk
<1>6. CASE RetryInit
  BY <1>6, OpenFailing, OpenEnding DEF RetryInit
<1>7. CASE StartDiscovery
  BY <1>7 DEF StartDiscovery, PtxClose, OneStep!StartDiscovery, OneStep!DiscoveryFails,
     OneStep!waitVars, OneStep!chipVars, OneStep!flagVars, OneStep!wakeVars,
     OneStep!timeVars
<1>8. CASE ActivateCard
  BY <1>8 DEF ActivateCard, OneStep!sessionVars
<1>9. CASE BodyEnds
  BY <1>9 DEF BodyEnds, openVars
<1>10. CASE Deactivate
  BY <1>10 DEF Deactivate, openVars, OneStep!Deactivate, OneStep!Deactivated,
     OneStep!waitVars, OneStep!flagVars, OneStep!wakeVars, OneStep!timeVars
<1>11. CASE Close
  BY <1>11 DEF Close, PtxClose, OneStep!Close, OneStep!waitVars, OneStep!chipVars,
     OneStep!flagVars, OneStep!wakeVars, OneStep!timeVars
<1>12. CASE Finish
  BY <1>12 DEF Finish, openVars, OneStep!Finish, OneStep!waitVars, OneStep!chipVars,
     OneStep!wakeVars, OneStep!timeVars
<1>13. CASE UNCHANGED vars
  BY <1>13 DEF vars, openVars, OneStep!sessionVars
<1> QED
  BY <1>1, <1>2, <1>3, <1>4, <1>5, <1>6, <1>7, <1>8, <1>9, <1>10, <1>11, <1>12,
     <1>13 DEF Next

\* The open in six calls, each of which may fail, implements the open in one
\* step that EventLoop and SingleShot are built on.
THEOREM Refinement == Spec => RefinesSession
<1>1. Spec => OneStep!SessionInit
  BY InitRefines DEF Spec
<1> QED
  BY <1>1, NextRefines, LifeInv, PTL DEF Spec, RefinesSession
=============================================================================
