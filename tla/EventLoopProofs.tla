--------------------------- MODULE EventLoopProofs ---------------------------
(***************************************************************************)
(* What holds of EventLoop for every number of sources and processors,     *)
(* every build and every machine.                                          *)
(***************************************************************************)
EXTENDS EventLoop, TLAPS

------------------------------------------------------------------------------
(* Types *)

LEMMA InitType == Init => TypeOK
  BY SizeAssumption DEF Init, Start, TypeOK, Procs, Sources, EpPcs, SrcPcs, MainPcs

\* The bounds of the loops over processors and over sources.
LEMMA Bounds ==
  /\ 0 \in Procs /\ 0 \in Sources
  /\ \A i \in Procs : i + 1 < NumProcs => i + 1 \in Procs
  /\ \A i \in Sources : i + 1 < NumSources => i + 1 \in Sources
  BY SizeAssumption DEF Procs, Sources

LEMMA NextSourceType ==
  ASSUME TypeOK, NEW e \in Procs, NextSource(e)
  PROVE  idx' \in [Procs -> Sources] /\ epPc' \in [Procs -> EpPcs]
  BY Bounds DEF TypeOK, NextSource, EpPcs

LEMMA EpType ==
  ASSUME TypeOK, NEW e \in Procs, EpStep(e) \/ EpSignal(e) \/ ExternalEvent(e)
  PROVE  TypeOK'
<1>1. CASE EpTest(e)
  BY <1>1 DEF TypeOK, EpTest, EpGoto, AfterWait, EpPcs, fixed, hwVars, stopVars
<1>2. CASE EpWfe(e)
  BY <1>2 DEF TypeOK, EpWfe, EpGoto, AfterWait, EpPcs, fixed, stopVars
<1>3. CASE EpArmMonitor(e)
  BY <1>3 DEF TypeOK, EpArmMonitor, EpGoto, AfterWait, EpPcs, fixed, stopVars
<1>4. CASE EpBell(e)
  BY <1>4 DEF TypeOK, EpBell, EpGoto, EpPcs, fixed, hwVars, stopVars
<1>5. CASE EpScanIdle(e)
  BY <1>5, NextSourceType DEF TypeOK, EpScanIdle, fixed, hwVars, stopVars
<1>6. CASE EpScanActive(e)
  BY <1>6 DEF TypeOK, EpScanActive, EpGoto, EpPcs, fixed, hwVars, stopVars
<1>7. CASE EpHandle(e)
  BY <1>7, NextSourceType DEF TypeOK, EpHandle, fixed, hwVars, stopVars
<1>8. CASE EpSignal(e)
  BY <1>8 DEF TypeOK, EpSignal, fixed, epVars
<1>9. CASE ExternalEvent(e)
  BY <1>9 DEF TypeOK, ExternalEvent, fixed, epVars, stopVars
<1> QED
  BY <1>1, <1>2, <1>3, <1>4, <1>5, <1>6, <1>7, <1>8, <1>9 DEF EpStep

LEMMA SrcType ==
  ASSUME TypeOK, NEW s \in Sources, SrcStep(s) \/ SrcSignal(s)
  PROVE  TypeOK'
<1>1. CASE SrcTest(s) \/ SrcNap(s) \/ SrcWake(s)
  BY <1>1 DEF TypeOK, SrcTest, SrcNap, SrcWake, SrcGoto, SrcPcs, fixed, hwVars,
              epVars, stopVars
<1>2. CASE SrcActivate(s)
  BY <1>2 DEF TypeOK, SrcActivate, SrcGoto, SrcPcs, fixed, hwVars, epVars,
              stopVars
<1>3. CASE SrcPress(s)
  BY <1>3 DEF TypeOK, SrcPress, SrcGoto, SrcPcs, MonitorSees, fixed, epVars,
              stopVars
<1>4. CASE SrcSev(s)
  BY <1>4 DEF TypeOK, SrcSev, SrcGoto, SrcPcs, fixed, epVars, stopVars
<1>5. CASE SrcSignal(s)
  BY <1>5 DEF TypeOK, SrcSignal, SrcPcs, fixed, hwVars, epVars
<1> QED
  BY <1>1, <1>2, <1>3, <1>4, <1>5 DEF SrcStep

LEMMA MainType == TypeOK /\ (MainUsleep \/ MainStop) => TypeOK'
<1> SUFFICES ASSUME TypeOK, MainUsleep \/ MainStop PROVE TypeOK'
  OBVIOUS
<1> USE Bounds DEF TypeOK, MainGoto, MainPcs, fixed, hwVars, epVars
<1>1. CASE MainUsleep
  BY <1>1 DEF MainUsleep
<1>2. CASE MainFlagEp
  BY <1>2 DEF MainFlagEp
<1>3. CASE MainKillEp
  BY <1>3 DEF MainKillEp
<1>4. CASE MainWaitEps
  BY <1>4 DEF MainWaitEps
<1>5. CASE MainFlagSrc
  BY <1>5 DEF MainFlagSrc
<1>6. CASE MainKillSrc
  BY <1>6 DEF MainKillSrc
<1>7. CASE MainWaitSrcs
  BY <1>7 DEF MainWaitSrcs
<1> QED
  BY <1>1, <1>2, <1>3, <1>4, <1>5, <1>6, <1>7 DEF MainStop

LEMMA StepType == TypeOK /\ [Next]_vars => TypeOK'
<1> SUFFICES ASSUME TypeOK, [Next]_vars PROVE TypeOK'
  OBVIOUS
<1>1. CASE UNCHANGED vars
  BY <1>1 DEF TypeOK, vars, fixed, hwVars, epVars, stopVars
<1>2. CASE Next
  BY <1>2, EpType, SrcType, MainType DEF Next
<1> QED
  BY <1>1, <1>2

\* Every variable keeps its type: no scan leaves the source list, no loop of
\* main the lists of processors and sources.
THEOREM TypeCorrect == Spec => []TypeOK
  BY InitType, StepType, PTL DEF Spec

------------------------------------------------------------------------------
(* The doorbell and the source list *)

\* A scan starts at source 0.
ScanFromZero == \A e \in Procs : epPc[e] \notin {"scan", "handle"} => idx[e] = 0

StrandedInv == TypeOK /\ ScanFromZero /\ NoStrandedEvent

\* The steps that leave the event processors' own state alone ...
LEMMA NotEpStep ==
  ASSUME [Next]_vars, \A e \in Procs : ~EpStep(e)
  PROVE  UNCHANGED epVars
<1>1. ASSUME NEW e \in Procs, EpSignal(e) \/ ExternalEvent(e) PROVE UNCHANGED epVars
  BY <1>1 DEF EpSignal, ExternalEvent
<1>2. ASSUME NEW s \in Sources, SrcStep(s) \/ SrcSignal(s) PROVE UNCHANGED epVars
  BY <1>2 DEF SrcStep, SrcSignal, SrcTest, SrcNap, SrcWake, SrcActivate, SrcPress,
              SrcSev
<1>3. ASSUME MainUsleep \/ MainStop PROVE UNCHANGED epVars
  BY <1>3 DEF MainUsleep, MainStop, MainFlagEp, MainKillEp, MainWaitEps,
              MainFlagSrc, MainKillSrc, MainWaitSrcs
<1>4. ASSUME UNCHANGED vars PROVE UNCHANGED epVars
  BY <1>4 DEF vars
<1> QED
  BY <1>1, <1>2, <1>3, <1>4 DEF Next

\* ... and those that leave the events and the doorbell alone too.
Quiet == /\ UNCHANGED <<fixed, event, db, epVars>>
         /\ \A e \in Procs : eventReg[e] => eventReg'[e]
         /\ \/ UNCHANGED srcPc
            \/ \E s \in Sources : /\ srcPc[s] = "sleep"
                                  /\ srcPc' = [srcPc EXCEPT ![s] = "activate"]

LEMMA QuietStep ==
  ASSUME TypeOK, [Next]_vars,
         \A e \in Procs : ~EpStep(e), \A s \in Sources : ~SrcStep(s)
  PROVE  Quiet
<1> USE DEF TypeOK, Quiet
<1>1. ASSUME NEW e \in Procs, EpSignal(e) \/ ExternalEvent(e) PROVE Quiet
  BY <1>1 DEF EpSignal, ExternalEvent
<1>2. ASSUME NEW s \in Sources, SrcSignal(s) PROVE Quiet
  BY <1>2 DEF SrcSignal, hwVars
<1>3. ASSUME MainUsleep \/ MainStop PROVE Quiet
  BY <1>3 DEF MainUsleep, MainStop, MainFlagEp, MainKillEp, MainWaitEps,
              MainFlagSrc, MainKillSrc, MainWaitSrcs, hwVars
<1>4. ASSUME UNCHANGED vars PROVE Quiet
  BY <1>4 DEF vars, hwVars
<1> QED
  BY <1>1, <1>2, <1>3, <1>4 DEF Next

LEMMA ScanFromZeroStep == TypeOK /\ ScanFromZero /\ [Next]_vars => ScanFromZero'
<1> SUFFICES ASSUME TypeOK, ScanFromZero, [Next]_vars PROVE ScanFromZero'
  OBVIOUS
<1> USE DEF TypeOK, ScanFromZero
<1>1. ASSUME NEW e \in Procs, EpStep(e) PROVE ScanFromZero'
  <2>1. CASE \/ EpTest(e) \/ EpWfe(e) \/ EpArmMonitor(e) \/ EpBell(e)
             \/ EpScanActive(e)
    BY <2>1 DEF EpTest, EpWfe, EpArmMonitor, EpBell, EpScanActive, EpGoto, AfterWait
  <2>2. CASE EpScanIdle(e) \/ EpHandle(e)
    BY <2>2 DEF EpScanIdle, EpHandle, NextSource
  <2> QED
    BY <1>1, <2>1, <2>2 DEF EpStep
<1>2. CASE \A e \in Procs : ~EpStep(e)
  BY <1>2, NotEpStep DEF epVars
<1> QED
  BY <1>1, <1>2

LEMMA StrandedStep == StrandedInv /\ [Next]_vars => NoStrandedEvent'
<1> SUFFICES ASSUME StrandedInv, [Next]_vars,
                    USE_DOORBELL',
                    NEW s \in Sources, (event[s] = "ACTIVE")'
             PROVE  LET e == srcEp[s] IN
                    (\/ srcPc[s] \in {"press", "latePress"}
                     \/ db[e] = "PRESSED"
                     \/ epPc[e] \in {"scan", "handle"} /\ idx[e] <= s)'
  BY DEF NoStrandedEvent
<1> USE DEF StrandedInv, TypeOK, ScanFromZero, NoStrandedEvent, USE_DOORBELL
<1>1. /\ srcEp[s] \in Procs /\ s \in Sources
      /\ \A e \in Procs : idx[e] \in Sources
      /\ Sources \subseteq Nat
  BY SizeAssumption DEF Sources
<1>2. ASSUME NEW e \in Procs, NextSource(e), epPc[e] \in {"scan", "handle"}
      PROVE  /\ \A p \in Procs \ {e} : epPc'[p] = epPc[p] /\ idx'[p] = idx[p]
             /\ idx[e] < s => epPc'[e] = "scan" /\ idx'[e] <= s
  <2>1. s < NumSources /\ s \in Nat /\ NumSources \in Nat /\ idx[e] \in Nat
    BY SizeAssumption, <1>1 DEF Sources
  <2>2. \A p \in Procs \ {e} : epPc'[p] = epPc[p] /\ idx'[p] = idx[p]
    BY <1>2 DEF NextSource
  <2>3. ASSUME idx[e] < s PROVE epPc'[e] = "scan" /\ idx'[e] <= s
    <3>1. idx[e] + 1 < NumSources /\ idx[e] + 1 <= s
      BY <2>1, <2>3
    <3>2. epPc'[e] = "scan" /\ idx'[e] = idx[e] + 1
      BY <1>2, <3>1 DEF NextSource
    <3> QED
      BY <3>1, <3>2
  <2> QED
    BY <2>2, <2>3
<1>3. ASSUME NEW e \in Procs, EpTest(e) \/ EpWfe(e) \/ EpArmMonitor(e)
      PROVE  /\ event[s] = "ACTIVE" /\ setup.bell /\ UNCHANGED <<fixed, srcPc, db, idx>>
             /\ \A p \in Procs : epPc[p] \in {"scan", "handle"} => epPc'[p] = epPc[p]
  BY <1>3 DEF EpTest, EpWfe, EpArmMonitor, EpGoto, fixed
<1>4. CASE \E e \in Procs : EpTest(e) \/ EpWfe(e) \/ EpArmMonitor(e)
  BY <1>1, <1>3, <1>4 DEF fixed
<1>5. CASE \E e \in Procs : EpBell(e)
  BY <1>1, <1>5 DEF EpBell, EpGoto, fixed, Sources
<1>6. CASE \E e \in Procs : EpScanActive(e)
  BY <1>1, <1>6 DEF EpScanActive, EpGoto, fixed
<1>7. ASSUME NEW e \in Procs, EpScanIdle(e) \/ EpHandle(e)
      PROVE  \/ srcPc'[s] \in {"press", "latePress"}
             \/ db'[srcEp'[s]] = "PRESSED"
             \/ epPc'[srcEp'[s]] \in {"scan", "handle"} /\ idx'[srcEp'[s]] <= s
  <2>1. /\ NextSource(e) /\ epPc[e] \in {"scan", "handle"}
        /\ UNCHANGED <<fixed, srcPc, db>>
    BY <1>7 DEF EpScanIdle, EpHandle
  <2>2. event[s] = "ACTIVE" /\ idx[e] # s
    BY <1>1, <1>7 DEF EpScanIdle, EpHandle
  <2>3. CASE srcEp[s] = e /\ idx[e] <= s
    <3>1. idx[e] \in Nat /\ s \in Nat
      BY <1>1
    <3>2. idx[e] < s
      BY <2>2, <2>3, <3>1
    <3> QED
      BY <1>2, <2>1, <2>3, <3>2 DEF fixed
  <2>4. CASE ~(srcEp[s] = e /\ idx[e] <= s)
    BY <1>1, <1>2, <2>1, <2>2, <2>4 DEF fixed
  <2> QED
    BY <2>3, <2>4
<1>8. CASE \E e \in Procs : EpScanIdle(e) \/ EpHandle(e)
  BY <1>7, <1>8
<1>9. CASE \E r \in Sources : SrcTest(r) \/ SrcNap(r) \/ SrcWake(r)
  BY <1>1, <1>9 DEF SrcTest, SrcNap, SrcWake, SrcGoto, fixed, epVars
<1>10. CASE \E r \in Sources : SrcActivate(r)
  BY <1>1, <1>10 DEF SrcActivate, SrcGoto, fixed, epVars
<1>11. CASE \E r \in Sources : SrcPress(r)
  BY <1>1, <1>11 DEF SrcPress, SrcGoto, fixed, epVars
<1>12. CASE \E r \in Sources : SrcSev(r)
  BY <1>1, <1>12 DEF SrcSev, SrcGoto, fixed, epVars
<1>13. CASE (\A e \in Procs : ~EpStep(e)) /\ (\A r \in Sources : ~SrcStep(r))
  BY <1>1, <1>13, QuietStep DEF Quiet, fixed, epVars
<1> QED
  BY <1>4, <1>5, <1>6, <1>8, <1>9, <1>10, <1>11, <1>12, <1>13
     DEF EpStep, SrcStep

\* No event is left behind by a reset doorbell, whatever the build, the
\* machine and the number of processors.
THEOREM EventsNotStranded == Spec => []NoStrandedEvent
<1>1. Init => StrandedInv
  BY InitType DEF Init, Start, StrandedInv, ScanFromZero, NoStrandedEvent
<1>2. StrandedInv /\ [Next]_vars => StrandedInv'
  BY StepType, ScanFromZeroStep, StrandedStep DEF StrandedInv
<1>3. StrandedInv => NoStrandedEvent
  BY DEF StrandedInv
<1> QED
  BY <1>1, <1>2, <1>3, PTL DEF Spec

------------------------------------------------------------------------------
(* The doorbell and the event register *)

\* Without a doorbell nothing presses one.
BellUnused == USE_DOORBELL \/ ( /\ \A e \in Procs : db[e] = "RESET"
                               /\ \A s \in Sources :
                                    srcPc[s] \notin {"press", "latePress", "sev"} )

\* A press that has not been seen has its wake-up wherever the processor is,
\* but between the end of WFE and its look at the doorbell.
WakeFollows ==
  SevOrdered =>
    /\ \A s \in Sources : srcPc[s] # "latePress"
    /\ \A e \in Procs :
         epPc[e] \in {"test", "wfe", "scan", "handle"} /\ db[e] = "PRESSED" /\ ~eventReg[e]
         => \E s \in Sources : srcEp[s] = e /\ srcPc[s] = "sev"

LooseInv == TypeOK /\ BellUnused /\ WakeFollows

LEMMA BellUnusedStep == TypeOK /\ BellUnused /\ [Next]_vars => BellUnused'
<1> SUFFICES ASSUME TypeOK, BellUnused, [Next]_vars PROVE BellUnused'
  OBVIOUS
<1> USE DEF TypeOK, BellUnused, USE_DOORBELL
<1>1. ASSUME NEW e \in Procs, EpStep(e) PROVE BellUnused'
  BY <1>1 DEF EpStep, EpTest, EpWfe, EpArmMonitor, EpBell, EpScanIdle,
              EpScanActive, EpHandle, fixed
<1>2. ASSUME NEW s \in Sources, SrcStep(s) PROVE BellUnused'
  BY <1>2 DEF SrcStep, SrcTest, SrcNap, SrcWake, SrcActivate, SrcPress, SrcSev,
              SrcGoto, fixed
<1>3. CASE (\A e \in Procs : ~EpStep(e)) /\ (\A s \in Sources : ~SrcStep(s))
  BY <1>3, QuietStep DEF Quiet, fixed
<1> QED
  BY <1>1, <1>2, <1>3

LEMMA WakeFollowsStep == LooseInv /\ [Next]_vars => WakeFollows'
<1> SUFFICES ASSUME LooseInv, [Next]_vars, SevOrdered' PROVE WakeFollows'
  BY DEF WakeFollows
<1> USE DEF LooseInv, TypeOK, WakeFollows, SevOrdered, USE_MONITOR
<1>1. setup' = setup /\ srcEp' = srcEp /\ SevOrdered
  BY DEF Next, vars, fixed, EpStep, EpTest, EpWfe, EpArmMonitor, EpBell,
         EpScanIdle, EpScanActive, EpHandle, EpSignal, ExternalEvent, SrcStep,
         SrcTest, SrcNap, SrcWake, SrcActivate, SrcPress, SrcSev, SrcSignal,
         MainUsleep, MainStop, MainFlagEp, MainKillEp, MainWaitEps, MainFlagSrc,
         MainKillSrc, MainWaitSrcs
<1>2. ASSUME NEW e \in Procs, EpStep(e) PROVE WakeFollows'
  <2>1. UNCHANGED srcPc /\ \A p \in Procs \ {e} : UNCHANGED <<epPc[p], db[p], eventReg[p]>>
    BY <1>2 DEF EpStep, EpTest, EpWfe, EpArmMonitor, EpBell, EpScanIdle,
                EpScanActive, EpHandle, EpGoto, NextSource, hwVars
  <2>2. \/ epPc'[e] \notin {"test", "wfe", "scan", "handle"}
        \/ db'[e] = "RESET"
        \/ /\ UNCHANGED <<db[e], eventReg[e]>>
           /\ epPc[e] \in {"test", "wfe", "scan", "handle"}
    <3>1. CASE EpTest(e) \/ EpScanActive(e)
      BY <3>1 DEF EpTest, EpScanActive, EpGoto, hwVars
    <3>2. CASE EpWfe(e)
      BY <3>2, <1>1 DEF EpWfe, EpGoto, AfterWait, BellUnused
    <3>3. CASE EpArmMonitor(e)
      BY <3>3, <1>1 DEF EpArmMonitor, EpGoto, AfterWait, BellUnused
    <3>4. CASE EpBell(e)
      BY <3>4 DEF EpBell
    <3>5. CASE EpScanIdle(e) \/ EpHandle(e)
      BY <3>5 DEF EpScanIdle, EpHandle, hwVars
    <3> QED
      BY <1>2, <3>1, <3>2, <3>3, <3>4, <3>5 DEF EpStep
  <2> QED
    BY <1>1, <2>1, <2>2
<1>3. ASSUME NEW s \in Sources, SrcStep(s) PROVE WakeFollows'
  <2>1. CASE SrcTest(s) \/ SrcNap(s) \/ SrcWake(s) \/ SrcActivate(s)
    BY <1>1, <2>1 DEF SrcTest, SrcNap, SrcWake, SrcActivate, SrcGoto, hwVars, epVars
  <2>2. CASE SrcPress(s)
    BY <1>1, <2>2 DEF SrcPress, SrcGoto, epVars
  <2>3. CASE SrcSev(s)
    BY <1>1, <2>3 DEF SrcSev, SrcGoto, epVars
  <2> QED
    BY <1>3, <2>1, <2>2, <2>3 DEF SrcStep
<1>4. CASE (\A e \in Procs : ~EpStep(e)) /\ (\A s \in Sources : ~SrcStep(s))
  BY <1>1, <1>4, QuietStep DEF Quiet, epVars
<1> QED
  BY <1>2, <1>3, <1>4

\* No wake-up is lost where SEV is ordered after the press of the doorbell.
THEOREM NoWakeupLost == Spec => []NoLooseSev
<1>1. Init => LooseInv
  BY InitType DEF Init, Start, LooseInv, BellUnused, WakeFollows
<1>2. LooseInv /\ [Next]_vars => LooseInv'
  BY StepType, BellUnusedStep, WakeFollowsStep DEF LooseInv
<1>3. LooseInv => NoLooseSev
  BY DEF LooseInv, WakeFollows, NoLooseSev, NoLooseSignal
<1> QED
  BY <1>1, <1>2, <1>3, PTL DEF Spec

------------------------------------------------------------------------------
(* The end *)

LEMMA WokenStep == TypeOK /\ EpWokenToStop /\ [Next]_vars => EpWokenToStop'
<1> SUFFICES ASSUME TypeOK, EpWokenToStop, [Next]_vars PROVE EpWokenToStop'
  OBVIOUS
<1> USE DEF TypeOK, EpWokenToStop
<1>1. ASSUME NEW e \in Procs, EpStep(e) PROVE EpWokenToStop'
  BY <1>1 DEF EpStep, EpTest, EpWfe, EpArmMonitor, EpBell, EpScanIdle,
              EpScanActive, EpHandle, EpGoto, NextSource, AfterWait, hwVars, stopVars
<1>2. ASSUME NEW e \in Procs, EpSignal(e) \/ ExternalEvent(e) PROVE EpWokenToStop'
  BY <1>2 DEF EpSignal, ExternalEvent, epVars, stopVars
<1>3. ASSUME NEW s \in Sources, SrcStep(s) PROVE EpWokenToStop'
  BY <1>3 DEF SrcStep, SrcTest, SrcNap, SrcWake, SrcActivate, SrcPress, SrcSev,
              epVars, hwVars, stopVars
<1>4. ASSUME NEW s \in Sources, SrcSignal(s) PROVE EpWokenToStop'
  BY <1>4 DEF SrcSignal, epVars, hwVars
<1>5. ASSUME MainUsleep \/ MainStop PROVE EpWokenToStop'
  BY <1>5 DEF MainUsleep, MainStop, MainGoto, MainFlagEp, MainKillEp, MainWaitEps,
              MainFlagSrc, MainKillSrc, MainWaitSrcs, epVars, hwVars
<1>6. CASE UNCHANGED vars
  BY <1>6 DEF vars, epVars, hwVars, stopVars
<1> QED
  BY <1>1, <1>2, <1>3, <1>4, <1>5, <1>6 DEF Next

\* The wake-up that ends a processor's last WFE is never lost.
THEOREM StopNotLost == Spec => []EpWokenToStop
<1>1. Init => TypeOK /\ EpWokenToStop
  BY InitType DEF Init, Start, EpWokenToStop
<1>2. TypeOK /\ EpWokenToStop /\ [Next]_vars => (TypeOK /\ EpWokenToStop)'
  BY StepType, WokenStep
<1> QED
  BY <1>1, <1>2, PTL DEF Spec

\* The step of one thread, seen by all: it is closer to its end, or where it was.
EpCloser(e)  == epEnd[e] => \/ UNCHANGED <<epPc[e], idx[e]>>
                            \/ EpLeft(e)' < EpLeft(e)
SrcCloser(s) == srcEnd[s] => UNCHANGED srcPc[s] \/ SrcLeft(s)' < SrcLeft(s)

FlagsStay == /\ \A e \in Procs : epEnd[e] => epEnd'[e]
             /\ \A s \in Sources : srcEnd[s] => srcEnd'[s]

LEMMA FlagsStayStep == TypeOK /\ [Next]_vars => FlagsStay
<1> SUFFICES ASSUME TypeOK, [Next]_vars PROVE FlagsStay
  OBVIOUS
<1> USE DEF TypeOK, FlagsStay
<1>1. ASSUME NEW e \in Procs, EpStep(e) \/ EpSignal(e) \/ ExternalEvent(e) PROVE FlagsStay
  BY <1>1 DEF EpStep, EpTest, EpWfe, EpArmMonitor, EpBell, EpScanIdle, EpScanActive,
              EpHandle, EpSignal, ExternalEvent, stopVars
<1>2. ASSUME NEW s \in Sources, SrcStep(s) \/ SrcSignal(s) PROVE FlagsStay
  BY <1>2 DEF SrcStep, SrcTest, SrcNap, SrcWake, SrcActivate, SrcPress, SrcSev, SrcSignal,
              stopVars
<1>3. ASSUME MainUsleep \/ MainStop PROVE FlagsStay
  BY <1>3 DEF MainUsleep, MainStop, MainFlagEp, MainKillEp, MainWaitEps, MainFlagSrc,
              MainKillSrc, MainWaitSrcs
<1>4. CASE UNCHANGED vars
  BY <1>4 DEF vars, stopVars
<1> QED
  BY <1>1, <1>2, <1>3, <1>4 DEF Next

\* What is left of a scan at source i of n, whether or not its event is active.
LEMMA NextSourceCloser ==
  ASSUME TypeOK, NEW e \in Procs, epPc[e] \in {"scan", "handle"}, NextSource(e)
  PROVE  EpLeft(e)' < EpLeft(e)
<1>1. PICK i \in Nat, n \in Nat : i = idx[e] /\ n = NumSources /\ i < n
  BY SizeAssumption DEF TypeOK, Sources
<1>2. EpLeft(e) \in {2 * (n - i), 2 * (n - i) + 1}
  BY <1>1 DEF EpLeft
<1>3. CASE i + 1 < n
  <2>1. epPc'[e] = "scan" /\ idx'[e] = i + 1
    BY <1>1, <1>3 DEF NextSource, TypeOK
  <2>2. EpLeft(e)' = 2 * (n - (i + 1)) + 1
    BY <1>1, <2>1 DEF EpLeft
  <2> QED
    BY <1>1, <1>2, <2>2
<1>4. CASE ~(i + 1 < n)
  <2>1. epPc'[e] = "test"
    BY <1>1, <1>4 DEF NextSource, TypeOK
  <2>2. EpLeft(e)' = 1
    BY <2>1 DEF EpLeft
  <2> QED
    BY <1>1, <1>2, <2>2
<1> QED
  BY <1>3, <1>4

LEMMA EpCloserStep ==
  ASSUME TypeOK, NEW e \in Procs, EpStep(e)
  PROVE  EpCloser(e)
<1> SUFFICES ASSUME epEnd[e]
             PROVE  EpLeft(e)' < EpLeft(e)
  BY DEF EpCloser
<1>1. PICK i \in Nat, n \in Nat : i = idx[e] /\ n = NumSources /\ i < n
  BY SizeAssumption DEF TypeOK, Sources
<1>2. CASE EpTest(e)
  BY <1>2 DEF EpTest, EpGoto, TypeOK, EpLeft
<1>3. CASE EpWfe(e) \/ EpArmMonitor(e) \/ EpBell(e)
  <2>1. idx'[e] = i
    BY <1>1, <1>3 DEF EpWfe, EpArmMonitor, EpBell
  <2>2. \/ epPc[e] = "wfe" /\ epPc'[e] \in {"arm", "bell", "scan"}
        \/ epPc[e] = "arm" /\ epPc'[e] \in {"bell", "scan"}
        \/ epPc[e] = "bell" /\ epPc'[e] \in {"scan", "test"}
    BY <1>3 DEF EpWfe, EpArmMonitor, EpBell, EpGoto, AfterWait, TypeOK
  <2>3. /\ epPc[e] = "wfe" => EpLeft(e) = 2 * n + 4
        /\ epPc[e] = "arm" => EpLeft(e) = 2 * n + 3
        /\ epPc[e] = "bell" => EpLeft(e) = 2 * n + 2
    BY <1>1 DEF EpLeft
  <2>4. /\ epPc'[e] = "arm" => EpLeft(e)' = 2 * n + 3
        /\ epPc'[e] = "bell" => EpLeft(e)' = 2 * n + 2
        /\ epPc'[e] = "scan" => EpLeft(e)' = 2 * (n - i) + 1
        /\ epPc'[e] = "test" => EpLeft(e)' = 1
    BY <1>1, <2>1 DEF EpLeft
  <2> QED
    BY <1>1, <2>2, <2>3, <2>4
<1>4. CASE EpScanIdle(e) \/ EpHandle(e)
  BY <1>4, NextSourceCloser DEF EpScanIdle, EpHandle
<1>5. CASE EpScanActive(e)
  <2>1. epPc[e] = "scan" /\ epPc'[e] = "handle" /\ idx'[e] = i
    BY <1>1, <1>5 DEF EpScanActive, EpGoto, TypeOK
  <2>2. EpLeft(e) = 2 * (n - i) + 1 /\ EpLeft(e)' = 2 * (n - i)
    BY <1>1, <2>1 DEF EpLeft
  <2> QED
    BY <1>1, <2>2
<1> QED
  BY <1>2, <1>3, <1>4, <1>5 DEF EpStep

LEMMA SrcCloserStep ==
  ASSUME TypeOK, NEW s \in Sources, SrcStep(s) \/ SrcSignal(s)
  PROVE  SrcCloser(s)
<1> SUFFICES ASSUME srcEnd[s], srcPc'[s] # srcPc[s]
             PROVE  SrcLeft(s)' < SrcLeft(s)
  BY DEF SrcCloser
<1>1. \/ srcPc[s] = "test" /\ srcPc'[s] = "out"
      \/ srcPc[s] = "nap" /\ srcPc'[s] = "sleep"
      \/ srcPc[s] = "sleep" /\ srcPc'[s] = "activate"
      \/ srcPc[s] = "activate" /\ srcPc'[s] \in {"press", "test"}
      \/ srcPc[s] = "press" /\ srcPc'[s] \in {"test", "sev", "latePress"}
      \/ srcPc[s] \in {"sev", "latePress"} /\ srcPc'[s] = "test"
  BY DEF SrcStep, SrcTest, SrcNap, SrcWake, SrcActivate, SrcPress, SrcSev, SrcSignal, SrcGoto,
         TypeOK
<1> QED
  BY <1>1 DEF SrcLeft

\* The other threads leave a thread where it is.
LEMMA OthersStay ==
  ASSUME TypeOK, [Next]_vars
  PROVE  /\ \A e \in Procs : EpStep(e) \/ UNCHANGED <<epPc[e], idx[e]>>
         /\ \A s \in Sources : SrcStep(s) \/ SrcSignal(s) \/ UNCHANGED srcPc[s]
<1> USE DEF TypeOK
<1>1. ASSUME NEW d \in Procs, EpStep(d)
      PROVE  UNCHANGED srcPc /\ \A e \in Procs : e # d => UNCHANGED <<epPc[e], idx[e]>>
  BY <1>1 DEF EpStep, EpTest, EpWfe, EpArmMonitor, EpBell, EpScanIdle, EpScanActive,
              EpHandle, EpGoto, NextSource
<1>2. ASSUME NEW d \in Procs, EpSignal(d) \/ ExternalEvent(d)
      PROVE  UNCHANGED <<epPc, idx, srcPc>>
  BY <1>2 DEF EpSignal, ExternalEvent, epVars
<1>3. ASSUME NEW r \in Sources, SrcStep(r) \/ SrcSignal(r)
      PROVE  UNCHANGED <<epPc, idx>> /\ \A s \in Sources : s # r => UNCHANGED srcPc[s]
  BY <1>3 DEF SrcStep, SrcTest, SrcNap, SrcWake, SrcActivate, SrcPress, SrcSev, SrcSignal,
              SrcGoto, epVars
<1>4. ASSUME MainUsleep \/ MainStop
      PROVE  UNCHANGED <<epPc, idx, srcPc>>
  BY <1>4 DEF MainUsleep, MainStop, MainFlagEp, MainKillEp, MainWaitEps, MainFlagSrc,
              MainKillSrc, MainWaitSrcs, epVars
<1>5. CASE UNCHANGED vars
  BY <1>5 DEF vars, epVars
<1> QED
  BY <1>1, <1>2, <1>3, <1>4, <1>5 DEF Next

\* Every thread that main has told to stop does stop, but for the waits (WFE, the
\* sleep): the number of steps it may still take only falls.
THEOREM StopIsBounded == Spec => StopsSoon
<1>1. TypeOK /\ [Next]_vars => Closer
  <2> SUFFICES ASSUME TypeOK, [Next]_vars
               PROVE  Closer
    OBVIOUS
  <2>1. \A e \in Procs : EpCloser(e)
    BY EpCloserStep, OthersStay DEF EpCloser
  <2>2. \A s \in Sources : SrcCloser(s)
    BY SrcCloserStep, OthersStay DEF SrcCloser
  <2> QED
    BY <2>1, <2>2, FlagsStayStep DEF FlagsStay, EpCloser, SrcCloser, Closer
<1> QED
  BY <1>1, TypeCorrect, PTL DEF Spec, StopsSoon

------------------------------------------------------------------------------
(* Nobody is starved *)

\* Away in numbers: of source k of n, its processor at i of the list.
AwayAt(pc, i, k, n) ==
  LET behind == IF i <= k THEN 0 ELSE n + 2
  IN CASE pc = "out"    -> 0
       [] pc = "handle" -> 2 * (behind + k - i)
       [] pc = "scan"   -> 2 * (behind + k - i) + 1
       [] pc = "bell"   -> 2 * k + 2
       [] pc = "arm"    -> 2 * k + 3
       [] pc = "wfe"    -> 2 * k + 4
       [] pc = "test"   -> 2 * k + 5

LEMMA AwayIs ==
  ASSUME NEW s \in Sources
  PROVE  /\ Away(s) = AwayAt(epPc[srcEp[s]], idx[srcEp[s]], s, NumSources)
         /\ Away(s)' = AwayAt(epPc'[srcEp'[s]], idx'[srcEp'[s]], s, NumSources)
  BY DEF Away, AwayAt

\* The next source of a scan, where it is not k that is passed.
LEMMA ScanNears ==
  ASSUME NEW n \in Nat, NEW i \in Nat, NEW k \in Nat, i < n, k < n, i # k,
         NEW pc \in {"scan", "handle"}
  PROVE  /\ i + 1 < n => AwayAt("scan", i + 1, k, n) < AwayAt(pc, i, k, n)
         /\ ~(i + 1 < n) => AwayAt("test", 0, k, n) < AwayAt(pc, i, k, n)
<1>1. AwayAt("test", 0, k, n) = 2 * k + 5
  BY DEF AwayAt
<1>2. CASE i < k
  <2>1. AwayAt(pc, i, k, n) \in {2 * (k - i), 2 * (k - i) + 1}
    BY <1>2 DEF AwayAt
  <2>2. AwayAt("scan", i + 1, k, n) = 2 * (k - (i + 1)) + 1
    BY <1>2 DEF AwayAt
  <2> QED
    BY <1>2, <2>1, <2>2
<1>3. CASE k < i
  <2>1. AwayAt(pc, i, k, n) \in {2 * (n + 2 + k - i), 2 * (n + 2 + k - i) + 1}
    BY <1>3 DEF AwayAt
  <2>2. AwayAt("scan", i + 1, k, n) = 2 * (n + 2 + k - (i + 1)) + 1
    BY <1>3 DEF AwayAt
  <2> QED
    BY <1>1, <1>3, <2>1, <2>2
<1> QED
  BY <1>2, <1>3

\* Only the builds with a doorbell look at it.
BellIsUsed == \A e \in Procs : epPc[e] = "bell" => USE_DOORBELL

LEMMA BellIsUsedStep == TypeOK /\ BellIsUsed /\ [Next]_vars => BellIsUsed'
<1> SUFFICES ASSUME TypeOK, BellIsUsed, [Next]_vars PROVE BellIsUsed'
  OBVIOUS
<1> USE DEF TypeOK, BellIsUsed, USE_DOORBELL
<1>1. ASSUME NEW e \in Procs, EpStep(e) PROVE BellIsUsed'
  BY <1>1 DEF EpStep, EpTest, EpWfe, EpArmMonitor, EpBell, EpScanIdle, EpScanActive,
              EpHandle, EpGoto, NextSource, AfterWait, USE_DOORBELL, fixed
<1>2. ASSUME NEW s \in Sources, SrcStep(s) PROVE BellIsUsed'
  BY <1>2 DEF SrcStep, SrcTest, SrcNap, SrcWake, SrcActivate, SrcPress, SrcSev, fixed, epVars
<1>3. CASE (\A e \in Procs : ~EpStep(e)) /\ (\A s \in Sources : ~SrcStep(s))
  BY <1>3, QuietStep DEF Quiet, fixed, epVars
<1> QED
  BY <1>1, <1>2, <1>3

ServeInv == TypeOK /\ ScanFromZero /\ BellIsUsed

LEMMA ServeInvariant == Spec => []ServeInv
<1>1. Init => ServeInv
  BY InitType DEF Init, Start, ServeInv, ScanFromZero, BellIsUsed
<1>2. ServeInv /\ [Next]_vars => ServeInv'
  BY StepType, ScanFromZeroStep, BellIsUsedStep DEF ServeInv
<1> QED
  BY <1>1, <1>2, PTL DEF Spec

\* What a step does for the event of source s.
Served(s) == \/ event'[s] = "RESET"
             \/ /\ event'[s] = "ACTIVE" /\ Noticed(s)'
                /\ UNCHANGED <<epPc[srcEp[s]], idx[srcEp[s]]>> \/ Away(s)' < Away(s)

\* The steps of its own processor.
LEMMA OwnStepServes ==
  ASSUME ServeInv, NEW s \in Sources, EpStep(srcEp[s]),
         event[s] = "ACTIVE", Noticed(s), ~epEnd[srcEp[s]]
  PROVE  Served(s)
<1> DEFINE e == srcEp[s]
<1> USE DEF ServeInv
<1>1. e \in Procs /\ UNCHANGED fixed
  BY DEF TypeOK, EpStep, EpTest, EpWfe, EpArmMonitor, EpBell, EpScanIdle, EpScanActive, EpHandle
<1>2. PICK i \in Nat, k \in Nat, n \in Nat :
        i = idx[e] /\ k = s /\ n = NumSources /\ i < n /\ k < n
  BY <1>1, SizeAssumption DEF TypeOK, Sources
<1>3. /\ Away(s) = AwayAt(epPc[e], i, k, n)
      /\ Away(s)' = AwayAt(epPc'[e], idx'[e], k, n)
  BY <1>1, <1>2, AwayIs DEF fixed
<1>4. CASE EpTest(e) \/ EpWfe(e) \/ EpArmMonitor(e) \/ EpBell(e)
  <2>1. event' = event /\ idx' = idx /\ i = 0
    BY <1>1, <1>2, <1>4
       DEF EpTest, EpWfe, EpArmMonitor, EpBell, EpGoto, ScanFromZero
  <2>2. \/ epPc[e] = "test" /\ epPc'[e] \in {"wfe", "bell", "scan"}
        \/ epPc[e] = "wfe" /\ epPc'[e] \in {"arm", "bell", "scan"}
        \/ epPc[e] = "arm" /\ epPc'[e] \in {"bell", "scan"}
        \/ epPc[e] = "bell" /\ epPc'[e] = "scan"
    BY <1>1, <1>4
       DEF EpTest, EpWfe, EpArmMonitor, EpBell, EpGoto, AfterWait, TypeOK, Noticed, BellIsUsed
  <2>3. Away(s)' < Away(s)
    BY <1>2, <1>3, <2>1, <2>2 DEF AwayAt
  <2>4. Noticed(s)'
    <3>1. epPc'[e] # "scan" => UNCHANGED db
      BY <1>1, <1>4, <2>2 DEF EpTest, EpWfe, EpArmMonitor, EpBell, EpGoto, TypeOK
    <3>2. epPc'[e] = "scan" => idx'[e] <= s
      BY <1>2, <2>1
    <3> QED
      BY <1>1, <2>2, <3>1, <3>2 DEF Noticed, USE_DOORBELL, fixed
  <2> QED
    BY <2>1, <2>3, <2>4 DEF Served
<1>5. CASE EpScanActive(e)
  <2>1. /\ epPc[e] = "scan" /\ epPc'[e] = "handle"
        /\ UNCHANGED <<event, db, idx>>
    BY <1>1, <1>5 DEF EpScanActive, EpGoto, TypeOK
  <2>2. Away(s)' < Away(s)
    BY <1>2, <1>3, <2>1 DEF AwayAt
  <2>3. Noticed(s)'
    BY <1>1, <2>1 DEF Noticed, USE_DOORBELL, fixed
  <2> QED
    BY <2>1, <2>2, <2>3 DEF Served
<1>6. CASE EpScanIdle(e) \/ EpHandle(e)
  <2>1. /\ epPc[e] \in {"scan", "handle"} /\ NextSource(e) /\ UNCHANGED db
    BY <1>6 DEF EpScanIdle, EpHandle
  <2>2. \/ event'[s] = "RESET"
        \/ event'[s] = "ACTIVE" /\ i # k
    BY <1>1, <1>2, <1>6 DEF EpScanIdle, EpHandle, TypeOK
  <2>3. /\ i + 1 < n => epPc'[e] = "scan" /\ idx'[e] = i + 1
        /\ ~(i + 1 < n) => epPc'[e] = "test" /\ idx'[e] = 0
    BY <1>1, <1>2, <2>1 DEF NextSource, TypeOK
  <2>4. ASSUME i # k PROVE Away(s)' < Away(s)
    BY <1>2, <1>3, <2>1, <2>3, <2>4, ScanNears
  <2>5. ASSUME i # k PROVE Noticed(s)'
    <3>1. CASE i < k
      <4>1. i + 1 < n /\ i + 1 <= k
        BY <1>2, <3>1
      <4> QED
        BY <1>1, <1>2, <2>3, <4>1 DEF Noticed, fixed
    <3>2. CASE k < i
      <4>1. ~USE_DOORBELL \/ db[e] = "PRESSED"
        BY <1>2, <3>2 DEF Noticed
      <4> QED
        BY <1>1, <2>1, <4>1 DEF Noticed, USE_DOORBELL, fixed
    <3> QED
      BY <1>2, <2>5, <3>1, <3>2
  <2> QED
    BY <2>2, <2>4, <2>5 DEF Served
<1> QED
  BY <1>4, <1>5, <1>6 DEF EpStep

\* The steps of everybody else.
LEMMA OthersServe ==
  ASSUME ServeInv, [Next]_vars, NEW s \in Sources, ~EpStep(srcEp[s]),
         event[s] = "ACTIVE", Noticed(s)
  PROVE  Served(s)
<1> USE DEF ServeInv, TypeOK
<1>1. srcEp[s] \in Procs
  OBVIOUS
<1>2. ASSUME UNCHANGED fixed,
             epPc'[srcEp[s]] = epPc[srcEp[s]], idx'[srcEp[s]] = idx[srcEp[s]],
             event'[s] \in {"RESET", "ACTIVE"},
             db[srcEp[s]] = "PRESSED" => db'[srcEp[s]] = "PRESSED"
      PROVE  Served(s)
  BY <1>2 DEF Served, Noticed, USE_DOORBELL, fixed
<1>3. ASSUME NEW d \in Procs, EpStep(d) PROVE Served(s)
  <2>1. d # srcEp[s]
    BY <1>3
  <2>2. /\ UNCHANGED fixed /\ db'[srcEp[s]] = db[srcEp[s]]
        /\ epPc'[srcEp[s]] = epPc[srcEp[s]] /\ idx'[srcEp[s]] = idx[srcEp[s]]
        /\ event'[s] \in {"RESET", "ACTIVE"}
    BY <1>1, <1>3, <2>1
       DEF EpStep, EpTest, EpWfe, EpArmMonitor, EpBell, EpScanIdle, EpScanActive, EpHandle,
           EpGoto, NextSource
  <2> QED
    BY <1>2, <2>2
<1>4. ASSUME NEW r \in Sources, SrcStep(r) PROVE Served(s)
  <2>1. /\ UNCHANGED <<fixed, epVars>>
        /\ event'[s] \in {"RESET", "ACTIVE"}
        /\ db[srcEp[s]] = "PRESSED" => db'[srcEp[s]] = "PRESSED"
    BY <1>1, <1>4
       DEF SrcStep, SrcTest, SrcNap, SrcWake, SrcActivate, SrcPress, SrcSev
  <2> QED
    BY <1>2, <2>1 DEF epVars
<1>5. CASE (\A d \in Procs : ~EpStep(d)) /\ (\A r \in Sources : ~SrcStep(r))
  BY <1>2, <1>5, QuietStep DEF Quiet, epVars
<1> QED
  BY <1>3, <1>4, <1>5

\* An event that its processor has been rung for is handled within a number of
\* the processor's own steps that every one of them makes smaller: for any number
\* of sources that raise events at any rate, and whoever else handles some.
THEOREM ServiceIsBounded == Spec => ServesSoon
<1>1. ServeInv /\ [Next]_vars => Nearer
  <2> SUFFICES ASSUME ServeInv, [Next]_vars, NEW s \in Sources,
                      event[s] = "ACTIVE", Noticed(s), ~epEnd[srcEp[s]]
               PROVE  Served(s)
    BY DEF Nearer, Served
  <2> QED
    BY OwnStepServes, OthersServe
<1> QED
  BY <1>1, ServeInvariant, PTL DEF Spec, ServesSoon

------------------------------------------------------------------------------
(* The loop implements EventNotify *)

\* With one processor nobody else resets the event it works on.
HandledIsActive == \A e \in Procs : epPc[e] = "handle" => event[idx[e]] = "ACTIVE"

RefInv == TypeOK /\ HandledIsActive

LEMMA HandledStep ==
  ASSUME NumProcs = 1, RefInv, [Next]_vars
  PROVE  HandledIsActive'
<1> USE DEF RefInv, TypeOK, HandledIsActive
<1>1. ASSUME NEW e \in Procs, EpStep(e) PROVE HandledIsActive'
  <2>1. Procs = {e}
    BY <1>1 DEF Procs
  <2>2. CASE \/ EpTest(e) \/ EpWfe(e) \/ EpArmMonitor(e) \/ EpBell(e)
             \/ EpScanActive(e)
    BY <2>1, <2>2 DEF EpTest, EpWfe, EpArmMonitor, EpBell, EpScanActive, EpGoto,
                      AfterWait
  <2>3. CASE EpScanIdle(e) \/ EpHandle(e)
    BY <2>1, <2>3 DEF EpScanIdle, EpHandle, NextSource
  <2> QED
    BY <1>1, <2>2, <2>3 DEF EpStep
<1>2. ASSUME NEW s \in Sources, SrcStep(s) PROVE HandledIsActive'
  BY <1>2 DEF SrcStep, SrcTest, SrcNap, SrcWake, SrcActivate, SrcPress, SrcSev,
              epVars
<1>3. CASE (\A e \in Procs : ~EpStep(e)) /\ (\A s \in Sources : ~SrcStep(s))
  BY <1>3, QuietStep DEF Quiet, epVars
<1> QED
  BY <1>1, <1>2, <1>3

\* The state EventNotify sees.
RaisedNow  == {s \in Sources : event[s] = "ACTIVE"}
ServingNow == [e \in Procs |-> IF epPc[e] = "handle" THEN idx[e] ELSE NumSources]
QuitNow    == {e \in Procs : epPc[e] = "out"}

LEMMA RefInit == Init => Notify!Init
  BY DEF Init, Start, Notify!Init

LEMMA RefStep ==
  ASSUME NumProcs = 1, RefInv, [Next]_vars
  PROVE  [Notify!Next]_Notify!nvars
<1> USE DEF RefInv, TypeOK
<1>1. UNCHANGED <<event, epVars>> => UNCHANGED Notify!nvars
  BY DEF Notify!nvars, epVars
<1>2. NumSources \notin Sources
  BY SizeAssumption DEF Sources
<1>3. ASSUME NEW e \in Procs, EpStep(e) PROVE [Notify!Next]_Notify!nvars
  <2>1. Procs = {e}
    BY <1>3 DEF Procs
  <2>2. CASE EpTest(e) /\ epEnd[e]
    <3>1. /\ UNCHANGED <<RaisedNow, ServingNow>> /\ QuitNow' = QuitNow \cup {e}
          /\ ServingNow[e] = NumSources
      BY <2>1, <2>2 DEF EpTest, EpGoto, RaisedNow, ServingNow, QuitNow
    <3> QED
      BY <3>1 DEF Notify!Next, Notify!Quit, RaisedNow, ServingNow, QuitNow
  <2>3. CASE \/ EpTest(e) /\ ~epEnd[e]
             \/ EpWfe(e) \/ EpArmMonitor(e) \/ EpBell(e) \/ EpScanIdle(e)
    <3>1. UNCHANGED <<RaisedNow, ServingNow, QuitNow>>
      BY <2>1, <2>3 DEF EpTest, EpWfe, EpArmMonitor, EpBell, EpScanIdle, EpGoto,
                        AfterWait, NextSource, RaisedNow, ServingNow, QuitNow
    <3> QED
      BY <3>1 DEF Notify!nvars, RaisedNow, ServingNow, QuitNow
  <2>4. CASE EpScanActive(e)
    <3>1. /\ UNCHANGED <<RaisedNow, QuitNow>>
          /\ ServingNow' = [ServingNow EXCEPT ![e] = idx[e]]
          /\ e \notin QuitNow /\ ServingNow[e] = NumSources
          /\ idx[e] \in RaisedNow
      BY <2>1, <2>4 DEF EpScanActive, EpGoto, RaisedNow, ServingNow, QuitNow
    <3> QED
      BY <3>1 DEF Notify!Next, Notify!Take, RaisedNow, ServingNow, QuitNow
  <2>5. CASE EpHandle(e)
    <3>1. /\ RaisedNow' = RaisedNow \ {ServingNow[e]}
          /\ ServingNow' = [ServingNow EXCEPT ![e] = NumSources]
          /\ UNCHANGED QuitNow /\ ServingNow[e] \in RaisedNow
      BY <2>1, <2>5 DEF EpHandle, NextSource, HandledIsActive, RaisedNow,
                        ServingNow, QuitNow
    <3> QED
      BY <3>1 DEF Notify!Next, Notify!Finish, RaisedNow, ServingNow, QuitNow
  <2> QED
    BY <1>3, <2>2, <2>3, <2>4, <2>5 DEF EpStep
<1>4. ASSUME NEW s \in Sources, SrcStep(s) PROVE [Notify!Next]_Notify!nvars
  <2>1. CASE SrcActivate(s)
    <3>1. RaisedNow' = RaisedNow \cup {s} /\ UNCHANGED <<ServingNow, QuitNow>>
      BY <2>1 DEF SrcActivate, epVars, RaisedNow, ServingNow, QuitNow
    <3> QED
      BY <3>1 DEF Notify!Next, Notify!Raise, RaisedNow, ServingNow, QuitNow
  <2>2. CASE SrcTest(s) \/ SrcNap(s) \/ SrcWake(s) \/ SrcPress(s) \/ SrcSev(s)
    BY <1>1, <2>2 DEF SrcTest, SrcNap, SrcWake, SrcPress, SrcSev
  <2> QED
    BY <1>4, <2>1, <2>2 DEF SrcStep
<1>5. CASE (\A e \in Procs : ~EpStep(e)) /\ (\A s \in Sources : ~SrcStep(s))
  BY <1>1, <1>5, QuietStep DEF Quiet
<1> QED
  BY <1>3, <1>4, <1>5

\* With the one event processor the program accepts, each of the builds, on
\* each machine and with any number of sources, keeps the promise of
\* EventNotify: no work for an event that is not raised, no event lowered
\* before its work is done, nothing half done at the end.
THEOREM LoopImplementsNotify ==
  ASSUME NumProcs = 1
  PROVE  Spec => ImplementsNotify
<1>1. Init => RefInv /\ Notify!Init
  BY InitType, RefInit DEF Init, Start, RefInv, HandledIsActive
<1>2. RefInv /\ [Next]_vars => RefInv'
  BY StepType, HandledStep DEF RefInv
<1>3. RefInv /\ [Next]_vars => [Notify!Next]_Notify!nvars
  BY RefStep
<1> QED
  BY <1>1, <1>2, <1>3, PTL DEF Spec, ImplementsNotify, Notify!Spec
==============================================================================
