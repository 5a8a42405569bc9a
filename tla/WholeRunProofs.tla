----------------------------- MODULE WholeRunProofs -----------------------------
(***************************************************************************)
(* What holds of a whole run because it implements EventLoop, and that it  *)
(* never deadlocks but in the ways that NoDeadlock names: for every number *)
(* of sources, processors and idle cores, every build and every machine.   *)
(***************************************************************************)
EXTENDS BenchmarkProofs

------------------------------------------------------------------------------
(* EventLoop's theorems, said of a whole run                                *)

\* EventLoop with its theorems, and the doorbells it sees in a whole run.
TheLoop == INSTANCE EventLoopProofs WITH db <- Seen

\* The same loop as Ideal.
LEMMA SameInit == Ideal!Init <=> TheLoop!Init
  BY DEF Seen, Ideal!Init, Ideal!Start, Ideal!Procs, Ideal!Sources, Ideal!USE_MONITOR,
     TheLoop!Init, TheLoop!Start, TheLoop!Procs, TheLoop!Sources, TheLoop!USE_MONITOR

LEMMA SameNext == [Ideal!Next]_Ideal!vars <=> [TheLoop!Next]_TheLoop!vars
<1> USE DEF Seen, Ideal!fixed, Ideal!hwVars, Ideal!epVars, Ideal!stopVars, Ideal!Procs,
       Ideal!Sources, Ideal!USE_MONITOR, Ideal!USE_DOORBELL, Ideal!BUSY_POLL,
       TheLoop!fixed, TheLoop!hwVars, TheLoop!epVars, TheLoop!stopVars, TheLoop!Procs,
       TheLoop!Sources, TheLoop!USE_MONITOR, TheLoop!USE_DOORBELL, TheLoop!BUSY_POLL
<1>1. Ideal!vars = TheLoop!vars /\ Ideal!vars' = TheLoop!vars'
  BY DEF Ideal!vars, TheLoop!vars
<1>2. ASSUME NEW e
      PROVE  /\ Ideal!EpStep(e) <=> TheLoop!EpStep(e)
             /\ Ideal!EpSignal(e) <=> TheLoop!EpSignal(e)
             /\ Ideal!ExternalEvent(e) <=> TheLoop!ExternalEvent(e)
  BY DEF Ideal!EpStep, Ideal!EpTest, Ideal!EpWfe, Ideal!EpArmMonitor, Ideal!EpBell,
     Ideal!EpScanIdle, Ideal!EpScanActive, Ideal!EpHandle, Ideal!EpGoto, Ideal!AfterWait,
     Ideal!NextSource, Ideal!EpSignal, Ideal!ExternalEvent,
     TheLoop!EpStep, TheLoop!EpTest, TheLoop!EpWfe, TheLoop!EpArmMonitor, TheLoop!EpBell,
     TheLoop!EpScanIdle, TheLoop!EpScanActive, TheLoop!EpHandle, TheLoop!EpGoto, TheLoop!AfterWait,
     TheLoop!NextSource, TheLoop!EpSignal, TheLoop!ExternalEvent
<1>3. ASSUME NEW s
      PROVE  /\ Ideal!SrcStep(s) <=> TheLoop!SrcStep(s)
             /\ Ideal!SrcSignal(s) <=> TheLoop!SrcSignal(s)
  BY DEF Ideal!SrcStep, Ideal!SrcTest, Ideal!SrcNap, Ideal!SrcWake, Ideal!SrcActivate,
     Ideal!SrcPress, Ideal!SrcSev, Ideal!SrcGoto, Ideal!MonitorSees, Ideal!SrcSignal,
     TheLoop!SrcStep, TheLoop!SrcTest, TheLoop!SrcNap, TheLoop!SrcWake, TheLoop!SrcActivate,
     TheLoop!SrcPress, TheLoop!SrcSev, TheLoop!SrcGoto, TheLoop!MonitorSees, TheLoop!SrcSignal
<1>4. Ideal!MainUsleep \/ Ideal!MainStop <=> TheLoop!MainUsleep \/ TheLoop!MainStop
  BY DEF Ideal!MainUsleep, Ideal!MainStop, Ideal!MainFlagEp, Ideal!MainKillEp,
     Ideal!MainWaitEps, Ideal!MainFlagSrc, Ideal!MainKillSrc, Ideal!MainWaitSrcs, Ideal!MainGoto,
     TheLoop!MainUsleep, TheLoop!MainStop, TheLoop!MainFlagEp, TheLoop!MainKillEp,
     TheLoop!MainWaitEps, TheLoop!MainFlagSrc, TheLoop!MainKillSrc, TheLoop!MainWaitSrcs, TheLoop!MainGoto
<1> QED
  BY <1>1, <1>2, <1>3, <1>4 DEF Ideal!Next, TheLoop!Next

LEMMA RunIsLoop == BenchSpec => TheLoop!Spec
<1>1. Ideal!Spec => TheLoop!Spec
  BY SameInit, SameNext, PTL DEF Ideal!Spec, TheLoop!Spec
<1> QED
  BY <1>1, RunImplementsLoop DEF ImplementsEventLoop

\* The constants are the program's: what EventLoop assumes of them holds.
LEMMA SameSetup == TheLoop!Setup = Setup
  BY DEF Setup, TheLoop!Setup

LEMMA RunInvariant == BenchSpec => []RunInv
  BY RunInit, RunStep, PTL DEF BenchSpec

LEMMA TypeOfRun == RunInv => TypeOK /\ PcInv
  BY TypesOf DEF RunInv, LifeInv

\* The doorbell and the source list agree in every run, startup and end included: the
\* doorbell that is reset behind the first barrier (wfey.c:340) holds no press yet.
THEOREM RunStrandsNoEvent == BenchSpec => []NoStrandedEvent
<1>1. TheLoop!Spec => []TheLoop!NoStrandedEvent
  BY TheLoop!EventsNotStranded, SizeAssumption, SetupAssumption, SameSetup
<1>2. RunInv /\ TheLoop!NoStrandedEvent => NoStrandedEvent
  <2> SUFFICES ASSUME RunInv, TheLoop!NoStrandedEvent, USE_DOORBELL,
                      NEW s \in Sources, event[s] = "ACTIVE"
               PROVE  \/ srcPc[s] \in {"press", "latePress"}
                      \/ db[srcEp[s]] = "PRESSED"
                      \/ epPc[srcEp[s]] \in {"scan", "handle"} /\ idx[srcEp[s]] <= s
    BY DEF NoStrandedEvent
  <2>1. srcEp[s] \in Procs
    BY TypeOfRun DEF TypeOK
  <2>2. Seen[srcEp[s]] = "PRESSED" => db[srcEp[s]] = "PRESSED"
    BY <2>1 DEF Seen
  <2>3. \/ srcPc[s] \in {"press", "latePress"}
        \/ Seen[srcEp[s]] = "PRESSED"
        \/ epPc[srcEp[s]] \in {"scan", "handle"} /\ idx[srcEp[s]] <= s
    BY DEF TheLoop!NoStrandedEvent, TheLoop!USE_DOORBELL, USE_DOORBELL, TheLoop!Sources, Sources
  <2> QED
    BY <2>2, <2>3
<1> QED
  BY <1>1, <1>2, RunIsLoop, RunInvariant, PTL

\* No wake-up is lost in a whole run of the builds that send a SEV after each press: a
\* processor that has yet to start does not wait.
THEOREM RunLosesNoWakeup == BenchSpec => []NoLooseSev
<1>1. TheLoop!Spec => []TheLoop!NoLooseSev
  BY TheLoop!NoWakeupLost, SizeAssumption, SetupAssumption, SameSetup
<1>2. RunInv /\ TheLoop!NoLooseSev => NoLooseSev
  <2> SUFFICES ASSUME RunInv, TheLoop!NoLooseSev, SevOrdered, NEW e \in Procs,
                      epPc[e] = "wfe", db[e] = "PRESSED", ~eventReg[e]
               PROVE  \E s \in Sources : srcEp[s] = e /\ srcPc[s] = "sev"
    BY DEF NoLooseSev, NoLooseSignal
  <2>1. Seen[e] = "PRESSED"
    BY TypeOfRun DEF PcInv, Seen
  <2>2. TheLoop!NoLooseSignal
    BY DEF TheLoop!NoLooseSev, TheLoop!SevOrdered, SevOrdered, TheLoop!USE_MONITOR, USE_MONITOR
  <2> QED
    BY <2>1, <2>2 DEF TheLoop!NoLooseSignal, TheLoop!Procs, Procs, TheLoop!Sources, Sources
<1> QED
  BY <1>1, <1>2, RunIsLoop, RunInvariant, PTL

\* The wake-up that ends a processor's last WFE is never lost in a whole run.
THEOREM RunStopNotLost == BenchSpec => []EpWokenToStop
<1>1. TheLoop!Spec => []TheLoop!EpWokenToStop
  BY TheLoop!StopNotLost, SizeAssumption, SetupAssumption, SameSetup
<1>2. TheLoop!EpWokenToStop => EpWokenToStop
  BY DEF TheLoop!EpWokenToStop, EpWokenToStop, TheLoop!Procs, Procs
<1> QED
  BY <1>1, <1>2, RunIsLoop, PTL

\* A whole run with the one processor the program accepts keeps the promise of
\* EventNotify: main's initialisation of the sources lowers no event, and the scan of
\* sources not yet initialised takes none.
THEOREM RunImplementsNotify ==
  ASSUME NumProcs = 1
  PROVE  BenchSpec => ImplementsNotify
<1>1. TheLoop!Spec => TheLoop!ImplementsNotify
  BY TheLoop!LoopImplementsNotify, SizeAssumption, SetupAssumption, SameSetup
<1>2. TheLoop!ImplementsNotify => ImplementsNotify
  <2> USE DEF TheLoop!Procs, Procs, TheLoop!Sources, Sources
  <2>1. TheLoop!Notify!Init => Notify!Init
    BY DEF TheLoop!Notify!Init, Notify!Init
  <2>2. [TheLoop!Notify!Next]_TheLoop!Notify!nvars => [Notify!Next]_Notify!nvars
    BY DEF TheLoop!Notify!Next, TheLoop!Notify!Raise, TheLoop!Notify!Take, TheLoop!Notify!Finish,
       TheLoop!Notify!Quit, TheLoop!Notify!nvars, Notify!Next, Notify!Raise, Notify!Take,
       Notify!Finish, Notify!Quit, Notify!nvars
  <2> QED
    BY <2>1, <2>2, PTL DEF TheLoop!ImplementsNotify, ImplementsNotify, TheLoop!Notify!Spec, Notify!Spec
<1> QED
  BY <1>1, <1>2, RunIsLoop

\* Once told to stop, a thread of a whole run has a bounded number of steps left before
\* it is at its last barrier.
THEOREM RunStopIsBounded == BenchSpec => StopsSoon
<1>1. TheLoop!Spec => TheLoop!StopsSoon
  BY TheLoop!StopIsBounded, SizeAssumption, SetupAssumption, SameSetup
<1>2. [TheLoop!Closer]_TheLoop!vars => [Closer]_vars
  <2>1. TheLoop!Closer => Closer
    BY DEF TheLoop!Closer, Closer, EpLeft, SrcLeft, TheLoop!EpLeft, TheLoop!SrcLeft, Procs,
       TheLoop!Procs, Sources, TheLoop!Sources
  <2>2. UNCHANGED TheLoop!vars => Closer
    BY DEF TheLoop!vars, TheLoop!epVars, TheLoop!stopVars, Closer
  <2> QED
    BY <2>1, <2>2
<1> QED
  BY <1>1, <1>2, RunIsLoop, PTL DEF StopsSoon, TheLoop!StopsSoon

\* An event is only raised once every processor has reset its doorbell: what EventLoop
\* sees of it is what it is.
SameNotice == \A s \in Sources : event[s] = "ACTIVE" => (TheLoop!Noticed(s) <=> Noticed(s))

LEMMA SeenIfRaised == RunInv => SameNotice
<1> SUFFICES ASSUME RunInv, NEW s \in Sources, event[s] = "ACTIVE"
             PROVE  TheLoop!Noticed(s) <=> Noticed(s)
  BY DEF SameNotice
<1>1. stage \notin NoSrcYet
  BY DEF RunInv, LifeInv, QuietInv
<1>2. ReadyEps = Procs
  BY <1>1 DEF RunInv, WaitedInv, NoSrcYet, NoInitYet
<1>3. srcEp[s] \in Procs
  BY TypeOfRun DEF TypeOK
<1>4. Seen[srcEp[s]] = db[srcEp[s]]
  BY <1>2, <1>3 DEF Seen, ReadyEps
<1> QED
  BY <1>4 DEF TheLoop!Noticed, Noticed, TheLoop!USE_DOORBELL, USE_DOORBELL

\* In a whole run, too, an event that its processor has been rung for is handled within a
\* number of the processor's own steps that each of them makes smaller.
THEOREM RunServiceIsBounded == BenchSpec => ServesSoon
<1>1. TheLoop!Spec => TheLoop!ServesSoon
  BY TheLoop!ServiceIsBounded, SizeAssumption, SetupAssumption, SameSetup
<1>2. SameNotice /\ SameNotice' /\ [TheLoop!Nearer]_TheLoop!vars => [Nearer]_vars
  <2> SUFFICES ASSUME SameNotice, SameNotice', [TheLoop!Nearer]_TheLoop!vars,
                      NEW s \in Sources, event[s] = "ACTIVE", Noticed(s), ~epEnd[srcEp[s]]
               PROVE  \/ event'[s] = "RESET"
                      \/ /\ event'[s] = "ACTIVE" /\ Noticed(s)'
                         /\ UNCHANGED <<epPc[srcEp[s]], idx[srcEp[s]]>> \/ Away(s)' < Away(s)
    BY DEF Nearer
  <2>1. TheLoop!Noticed(s)
    BY DEF SameNotice
  <2>2. event'[s] = "ACTIVE" => (TheLoop!Noticed(s)' <=> Noticed(s)')
    BY DEF SameNotice, Sources
  <2>3. CASE TheLoop!Nearer
    <3>1. \/ event'[s] = "RESET"
          \/ /\ event'[s] = "ACTIVE" /\ TheLoop!Noticed(s)'
             /\ \/ UNCHANGED <<epPc[srcEp[s]], idx[srcEp[s]]>>
                \/ TheLoop!Away(s)' < TheLoop!Away(s)
      BY <2>1, <2>3 DEF TheLoop!Nearer, TheLoop!Sources, Sources
    <3>2. TheLoop!Away(s) = Away(s) /\ TheLoop!Away(s)' = Away(s)'
      BY DEF TheLoop!Away, Away
    <3> QED
      BY <2>2, <3>1, <3>2
  <2>4. CASE UNCHANGED TheLoop!vars
    <3>1. UNCHANGED <<setup, srcEp, event, Seen, epPc, idx>>
      BY <2>4 DEF TheLoop!vars, TheLoop!fixed, TheLoop!epVars
    <3>2. TheLoop!Noticed(s)'
      BY <2>1, <3>1 DEF TheLoop!Noticed, TheLoop!USE_DOORBELL
    <3> QED
      BY <2>2, <3>1, <3>2
  <2> QED
    BY <2>3, <2>4
<1> QED
  BY <1>1, <1>2, SeenIfRaised, RunIsLoop, RunInvariant, PTL DEF ServesSoon, TheLoop!ServesSoon

------------------------------------------------------------------------------
(* What main has told whom                                                  *)

\* main walks its two lists in order: those behind it have their end flag.
EpBehind(e)  == \/ mainPc \in {"waitEps", "flagSrc", "killSrc", "waitSrcs", "done"}
                \/ mainPc = "flagEp" /\ e < mi
                \/ mainPc = "killEp" /\ e <= mi
SrcBehind(s) == \/ mainPc \in {"waitSrcs", "done"}
                \/ mainPc = "flagSrc" /\ s < mi
                \/ mainPc = "killSrc" /\ s <= mi

FlaggedInv == /\ \A e \in Procs : EpBehind(e) => epEnd[e]
              /\ \A s \in Sources : SrcBehind(s) => srcEnd[s]

LEMMA FlaggedStep ==
  ASSUME TypeOK, FlaggedInv,
         MainUsleep \/ MainFlagEp \/ MainKillEp \/ MainFlagSrc \/ MainKillSrc
  PROVE  FlaggedInv'
<1> USE DEF TypeOK, FlaggedInv, EpBehind, SrcBehind, MainGoto
<1>1. CASE MainUsleep
  <2>1. mainPc' = "flagEp" /\ mi' = 0
    BY <1>1 DEF MainUsleep
  <2> QED
    BY <2>1 DEF Procs
<1>2. CASE MainFlagEp
  <2>1. /\ mainPc = "flagEp" /\ mi \in Procs /\ mainPc' = "killEp" /\ mi' = mi
        /\ epEnd' = [epEnd EXCEPT ![mi] = TRUE] /\ srcEnd' = srcEnd
    BY <1>2 DEF MainFlagEp
  <2> QED
    BY <2>1 DEF Procs
<1>3. CASE MainKillEp
  <2>1. /\ mainPc = "killEp" /\ mi \in Procs /\ UNCHANGED <<epEnd, srcEnd>>
        /\ IF mi + 1 < NumProcs THEN mainPc' = "flagEp" /\ mi' = mi + 1
                                ELSE mainPc' = "waitEps" /\ mi' = 0
    BY <1>3 DEF MainKillEp
  <2> QED
    BY <2>1, SizeAssumption DEF Procs
<1>4. CASE MainFlagSrc
  <2>1. /\ mainPc = "flagSrc" /\ mi \in Sources /\ mainPc' = "killSrc" /\ mi' = mi
        /\ srcEnd' = [srcEnd EXCEPT ![mi] = TRUE] /\ epEnd' = epEnd
    BY <1>4 DEF MainFlagSrc
  <2> QED
    BY <2>1 DEF Sources
<1>5. CASE MainKillSrc
  <2>1. /\ mainPc = "killSrc" /\ mi \in Sources /\ UNCHANGED <<epEnd, srcEnd>>
        /\ IF mi + 1 < NumSources THEN mainPc' = "flagSrc" /\ mi' = mi + 1
                                  ELSE mainPc' = "waitSrcs" /\ mi' = 0
    BY <1>5 DEF MainKillSrc
  <2> QED
    BY <2>1, SizeAssumption DEF Sources
<1> QED
  BY <1>1, <1>2, <1>3, <1>4, <1>5

LEMMA FlaggedNext == RunInv /\ FlaggedInv /\ [BenchNext]_allVars => FlaggedInv'
<1> SUFFICES ASSUME RunInv, FlaggedInv, [BenchNext]_allVars PROVE FlaggedInv'
  OBVIOUS
<1>1. TypeOK /\ MainInv
  BY TypesOf DEF RunInv, LifeInv
<1>2. CASE UNCHANGED <<epEnd, srcEnd, mainPc, mi>>
  BY <1>2 DEF FlaggedInv, EpBehind, SrcBehind
<1>3. CASE LoopStep
  <2>1. CASE MainUsleep \/ MainFlagEp \/ MainKillEp \/ MainFlagSrc \/ MainKillSrc
    BY <1>1, <2>1, FlaggedStep
  <2>2. CASE \/ \E e \in Procs : EpStep(e) \/ EpSignal(e) \/ ExternalEvent(e)
             \/ \E s \in Sources : SrcStep(s) \/ SrcSignal(s)
    BY <1>2, <2>2 DEF EpStep, EpTest, EpWfe, EpArmMonitor, EpBell, EpScanIdle, EpScanActive,
       EpHandle, EpSignal, ExternalEvent, SrcStep, SrcTest, SrcNap, SrcWake, SrcActivate,
       SrcPress, SrcSev, SrcSignal, stopVars
  <2> QED
    BY <1>3, <2>1, <2>2 DEF LoopStep
<1>4. CASE MainPassWait
  <2>1. /\ mainPc \in {"waitEps", "waitSrcs"}
        /\ mainPc' = (IF mainPc = "waitEps" THEN "flagSrc" ELSE "done")
        /\ mi = 0 /\ mi' = 0 /\ UNCHANGED <<epEnd, srcEnd>>
    BY <1>1, <1>4 DEF MainPassWait, Goto, MainInv, TypeOK
  <2> QED
    BY <2>1 DEF FlaggedInv, EpBehind, SrcBehind, Sources
<1>5. CASE MainStartEp \/ MainReady \/ MainPassReady \/ MainReinit \/ MainAlloc
           \/ MainInitSrc \/ MainInitStart \/ MainStartSrc \/ MainInitEnd \/ MainStartIdle
           \/ MainStart \/ MainPassStart \/ MainWait \/ MainExit
  BY <1>2, <1>5 DEF MainStartEp, MainReady, MainPassReady, MainReinit, MainAlloc, MainInitSrc,
     MainInitStart, MainStartSrc, MainInitEnd, MainStartIdle, MainStart, MainPassStart,
     MainWait, MainExit, vars, stopVars
<1>6. CASE \/ \E e \in Procs : \/ EpReady(e) \/ EpGo(e) \/ EpScanWild(e) \/ EpScanRaw(e)
                               \/ EpEnd(e) \/ EpReturn(e)
           \/ \E s \in Sources : SrcReady(s) \/ SrcGo(s) \/ SrcEnd(s) \/ SrcReturn(s)
           \/ \E i \in Idles : IdleEnd(i) \/ IdleReturn(i)
  BY <1>2, <1>6 DEF EpReady, EpGo, EpScanWild, EpScanRaw, EpEnd, EpReturn, SrcReady, SrcGo,
     SrcEnd, SrcReturn, IdleEnd, IdleReturn, vars, stopVars
<1>7. CASE UNCHANGED allVars
  BY <1>2, <1>7 DEF allVars, vars, stopVars
<1> QED
  BY <1>3, <1>4, <1>5, <1>6, <1>7, NextCases

------------------------------------------------------------------------------
(* Who has passed which barrier                                             *)

\* A ticket is no higher than the arrivals at its barrier, and main lets go of the
\* sources only after a complete round.
HeldTicket == (stage \in {"atReady", "atStart", "atWait"})
                => (ticket[Main] <= bar[MainBarrier].arrived)
MainOff    == \/ stage = "atStart" /\ ticket[Main] = 0
              \/ stage \in {"run", "atWait", "exited"}
Started    == MainOff => (bar["srcbarrier"].round > 0)
SrcTickets == \A s \in Sources : (srcAt[s] = "atStart")
                => (ticket[Src(s)] <= bar["srcbarrier"].arrived)

PassInv == HeldTicket /\ Started /\ SrcTickets

\* The arrivals at a barrier and its rounds only grow ...
Grows == \A b \in Barriers : /\ bar[b].arrived <= bar'[b].arrived
                             /\ bar[b].round <= bar'[b].round

LEMMA ArriveGrows ==
  ASSUME BarTypeOK, NEW t \in Threads, NEW b \in Barriers, Arrive(t, b)
  PROVE  /\ Grows
         /\ \A u \in Threads : u # t => ticket'[u] = ticket[u]
         /\ ticket'[t] <= bar'[b].arrived
         /\ ticket'[t] = 0 => bar'[b].round > 0
<1>1. PICK n \in Nat, a \in Nat, r \in Nat :
             n = bar[b].count /\ a = bar[b].arrived /\ r = bar[b].round
  BY DEF BarTypeOK, BarRecords
<1>2. bar'[b].arrived = a + 1
  BY <1>1, ArriveType
<1>3. \A c \in Barriers : c # b => bar'[c] = bar[c]
  BY ArriveType
<1>4. IF n # 0 /\ r + n <= a + 1
      THEN ticket'[t] = 0 /\ bar'[b].round = a + 1
      ELSE ticket'[t] = a + 1 /\ bar'[b].round = r
  BY <1>1, ArriveType
<1>5. /\ bar[b].arrived <= bar'[b].arrived /\ bar[b].round <= bar'[b].round
      /\ ticket'[t] <= bar'[b].arrived
      /\ ticket'[t] = 0 => bar'[b].round > 0
  BY <1>1, <1>2, <1>4
<1>6. \A c \in Barriers : c # b => bar[c].arrived <= bar'[c].arrived /\ bar[c].round <= bar'[c].round
  BY <1>3 DEF BarTypeOK, BarRecords
<1> QED
  BY <1>5, <1>6, ArriveType DEF Grows

LEMMA LeaveGrows ==
  ASSUME BarTypeOK, NEW t \in Threads, NEW b \in Barriers, Leave(t, b)
  PROVE  /\ Grows /\ bar' = bar
         /\ \A u \in Threads : u # t => ticket'[u] = ticket[u]
         /\ ticket[t] <= bar[b].round
<1>1. bar' = bar
  BY LeaveType
<1>2. Grows
  BY <1>1 DEF Grows, BarTypeOK, BarRecords
<1> QED
  BY <1>1, <1>2, LeaveType

\* ... except where main initialises it, which it does before anybody of the new
\* round is inside.
LEMMA InitGrows ==
  ASSUME BarTypeOK, NEW c \in Barriers, NEW n \in Nat, BarrierInit(c, n)
  PROVE  /\ ticket' = ticket
         /\ \A b \in Barriers : b # c => bar'[b] = bar[b]
  BY DEF BarTypeOK, BarrierInit

\* The steps of others than main: main's place is left alone.
LEMMA OthersPass ==
  ASSUME BTypeOK, PassInv, Grows, UNCHANGED <<stage, mainPc>>, ticket'[Main] = ticket[Main],
         BarTypeOK',
         \A s \in Sources : srcAt'[s] = "atStart" =>
           \/ srcAt[s] = "atStart" /\ ticket'[Src(s)] = ticket[Src(s)]
           \/ ticket'[Src(s)] <= bar'["srcbarrier"].arrived
  PROVE  PassInv'
<1>1. BarTypeOK /\ MainInv
  BY TypesOf
<1>2. MainBarrier \in Barriers /\ MainBarrier' = MainBarrier
  BY DEF MainBarrier, WaitBarrier, Barriers
<1>3. Main \in Threads /\ \A s \in Sources : Src(s) \in Threads
  BY ThreadNames
<1>4. HeldTicket'
  <2> SUFFICES ASSUME stage \in {"atReady", "atStart", "atWait"}
               PROVE  ticket'[Main] <= bar'[MainBarrier].arrived
    BY <1>2 DEF HeldTicket
  <2>1. PICK a \in Nat, b \in Nat, t \in Nat : /\ a = bar[MainBarrier].arrived
                                               /\ b = bar'[MainBarrier].arrived
                                               /\ t = ticket[Main]
    BY <1>1, <1>2, <1>3 DEF BarTypeOK, BarRecords
  <2>2. t <= a /\ a <= b
    BY <1>2, <2>1 DEF PassInv, HeldTicket, Grows
  <2> QED
    BY <2>1, <2>2
<1>5. PICK x \in Nat, y \in Nat, u \in Nat, v \in Nat :
             /\ x = bar["srcbarrier"].arrived /\ y = bar'["srcbarrier"].arrived /\ x <= y
             /\ u = bar["srcbarrier"].round /\ v = bar'["srcbarrier"].round /\ u <= v
  BY <1>1 DEF BarTypeOK, BarRecords, Barriers, Grows
<1>6. Started'
  BY <1>5 DEF PassInv, Started, MainOff
<1>7. SrcTickets'
  <2> SUFFICES ASSUME NEW s \in Sources, srcAt'[s] = "atStart",
                      srcAt[s] = "atStart", ticket'[Src(s)] = ticket[Src(s)]
               PROVE  ticket'[Src(s)] <= bar'["srcbarrier"].arrived
    BY DEF SrcTickets
  <2>1. PICK t \in Nat : t = ticket[Src(s)]
    BY <1>1, <1>3 DEF BarTypeOK
  <2>2. t <= x
    BY <1>5, <2>1 DEF PassInv, SrcTickets
  <2> QED
    BY <1>5, <2>1, <2>2
<1> QED
  BY <1>4, <1>6, <1>7 DEF PassInv

\* The steps that touch no barrier.
LEMMA StillPass ==
  ASSUME BTypeOK, PassInv,
         \/ LoopStep \/ MainStartEp \/ MainAlloc \/ MainInitSrc \/ MainStartSrc
         \/ MainStartIdle \/ MainExit
         \/ \E e \in Procs : EpScanWild(e) \/ EpScanRaw(e)
         \/ UNCHANGED allVars
  PROVE  PassInv'
<1>1. /\ UNCHANGED <<bar, ticket>>
      /\ \A s \in Sources : srcAt'[s] = "atStart" => srcAt[s] = "atStart"
  <2>1. KTypeOK /\ AtTypeOK
    BY TypesOf
  <2> QED
    BY <2>1 DEF LoopStep, MainStartEp, MainAlloc, MainInitSrc, MainStartSrc, MainStartIdle, MainExit,
       EpScanWild, EpScanRaw, allVars, benchVars, barVars, lifeVars, AtTypeOK
<1>2. \/ UNCHANGED <<stage, mainPc>>
      \/ stage' \notin {"atReady", "atStart", "run", "atWait", "exited"}
      \/ stage = "run" /\ stage' \in {"run", "exited"}
  <2>1. CASE LoopStep
    <3>1. stage' = stage
      BY <2>1 DEF LoopStep, benchVars
    <3>2. stage = "run" \/ mainPc' = mainPc
      BY <2>1 DEF LoopStep, EpStep, EpTest, EpWfe, EpArmMonitor, EpBell, EpScanIdle, EpScanActive,
         EpHandle, EpSignal, ExternalEvent, SrcStep, SrcTest, SrcNap, SrcWake, SrcActivate, SrcPress,
         SrcSev, SrcSignal, stopVars
    <3> QED
      BY <3>1, <3>2
  <2>2. CASE MainStartEp \/ MainAlloc \/ MainInitSrc \/ MainStartSrc \/ MainStartIdle \/ MainExit
    BY <2>2 DEF MainStartEp, MainAlloc, MainInitSrc, MainStartSrc, MainStartIdle, MainExit, Loop, Goto
  <2>3. CASE (\E e \in Procs : EpScanWild(e) \/ EpScanRaw(e)) \/ UNCHANGED allVars
    BY <2>3 DEF EpScanWild, EpScanRaw, benchVars, allVars, vars, stopVars
  <2> QED
    BY <2>1, <2>2, <2>3
<1>3. SrcTickets'
  BY <1>1 DEF PassInv, SrcTickets
<1>4. HeldTicket'
  BY <1>1, <1>2 DEF PassInv, HeldTicket, MainBarrier, WaitBarrier
<1>5. Started'
  BY <1>1, <1>2 DEF PassInv, Started, MainOff
<1> QED
  BY <1>3, <1>4, <1>5 DEF PassInv

\* The steps of the other threads at their barriers.
LEMMA ThreadPass ==
  ASSUME BTypeOK, BTypeOK', PassInv,
         \/ \E e \in Procs : EpReady(e) \/ EpGo(e) \/ EpEnd(e) \/ EpReturn(e)
         \/ \E s \in Sources : SrcReady(s) \/ SrcGo(s) \/ SrcEnd(s) \/ SrcReturn(s)
         \/ \E i \in Idles : IdleEnd(i) \/ IdleReturn(i)
  PROVE  PassInv'
<1>1. BarTypeOK /\ BarTypeOK' /\ AtTypeOK
  BY TypesOf DEF BTypeOK, BenchTypeOK, BarTypeOK, BarRecords
<1>2. /\ {"epbarrier", "srcbarrier", "endbarrier"} \subseteq Barriers
      /\ Main \in Threads /\ \A r \in Sources : Src(r) \in Threads
  BY ThreadNames DEF Barriers
<1>3. ASSUME NEW e \in Procs, EpReady(e) \/ EpGo(e) \/ EpEnd(e) \/ EpReturn(e)
      PROVE  PassInv'
  <2>1. UNCHANGED <<stage, mainPc, srcAt>>
    BY <1>3 DEF EpReady, EpGo, EpEnd, EpReturn, vars, stopVars
  <2>2. Arrive(Ep(e), "epbarrier") \/ Leave(Ep(e), "epbarrier")
    BY <1>3 DEF EpReady, EpGo, EpEnd, EpReturn
  <2>3. Grows /\ \A u \in Threads : u # Ep(e) => ticket'[u] = ticket[u]
    BY <1>1, <1>2, <2>2, ThreadNames, ArriveGrows, LeaveGrows
  <2> QED
    BY <1>1, <1>2, <2>1, <2>3, NamesDiffer, OthersPass
<1>4. ASSUME NEW s \in Sources, SrcReady(s) \/ SrcGo(s) \/ SrcEnd(s) \/ SrcReturn(s)
      PROVE  PassInv'
  <2>1. UNCHANGED <<stage, mainPc>>
    BY <1>4 DEF SrcReady, SrcGo, SrcEnd, SrcReturn, vars, stopVars
  <2>2. /\ \/ SrcReady(s) /\ Arrive(Src(s), "srcbarrier")
           \/ srcAt'[s] # "atStart"
              /\ (\/ Arrive(Src(s), "endbarrier")
                  \/ Leave(Src(s), "srcbarrier") \/ Leave(Src(s), "endbarrier"))
        /\ \A r \in Sources : r # s => srcAt'[r] = srcAt[r]
    BY <1>1, <1>4 DEF SrcReady, SrcGo, SrcEnd, SrcReturn, SrcAt, AtTypeOK
  <2>3. Grows /\ \A u \in Threads : u # Src(s) => ticket'[u] = ticket[u]
    BY <1>1, <1>2, <2>2, ArriveGrows, LeaveGrows
  <2>4. srcAt'[s] = "atStart" => ticket'[Src(s)] <= bar'["srcbarrier"].arrived
    BY <1>1, <1>2, <2>2, ArriveGrows
  <2> QED
    BY <1>1, <1>2, <2>1, <2>2, <2>3, <2>4, NamesDiffer, OthersPass
<1>5. ASSUME NEW i \in Idles, IdleEnd(i) \/ IdleReturn(i)
      PROVE  PassInv'
  <2>1. UNCHANGED <<stage, mainPc, srcAt>>
    BY <1>5 DEF IdleEnd, IdleReturn, vars, stopVars
  <2>2. Arrive(Idle(i), "endbarrier") \/ Leave(Idle(i), "endbarrier")
    BY <1>5 DEF IdleEnd, IdleReturn
  <2>3. Grows /\ \A u \in Threads : u # Idle(i) => ticket'[u] = ticket[u]
    BY <1>1, <1>2, <2>2, ThreadNames, ArriveGrows, LeaveGrows
  <2> QED
    BY <1>1, <1>2, <2>1, <2>3, NamesDiffer, OthersPass
<1> QED
  BY <1>3, <1>4, <1>5

\* The steps of main at its barriers.
LEMMA MainPass ==
  ASSUME BTypeOK, BTypeOK', PassInv,
         \/ MainReady \/ MainPassReady \/ MainReinit \/ MainInitStart \/ MainInitEnd
         \/ MainStart \/ MainPassStart \/ MainWait \/ MainPassWait
  PROVE  PassInv'
<1>1. BarTypeOK /\ BarTypeOK' /\ AtTypeOK /\ MainInv /\ PlaceInv
  BY TypesOf DEF BTypeOK, BenchTypeOK, BarTypeOK, BarRecords
<1>2. /\ {"epbarrier", "srcbarrier", "endbarrier"} \subseteq Barriers
      /\ Main \in Threads /\ \A r \in Sources : Src(r) \in Threads /\ Src(r) # Main
  BY ThreadNames, NamesDiffer DEF Barriers
<1>3. UNCHANGED srcAt
  BY DEF MainReady, MainPassReady, MainReinit, MainInitStart, MainInitEnd, MainStart,
     MainPassStart, MainWait, MainPassWait, lifeVars
<1>4. ASSUME Grows, \A u \in Threads : u # Main => ticket'[u] = ticket[u]
      PROVE  SrcTickets'
  <2> SUFFICES ASSUME NEW s \in Sources, srcAt[s] = "atStart"
               PROVE  ticket'[Src(s)] <= bar'["srcbarrier"].arrived
    BY <1>3 DEF SrcTickets
  <2>1. PICK x \in Nat, y \in Nat, t \in Nat :
               /\ x = bar["srcbarrier"].arrived /\ y = bar'["srcbarrier"].arrived
               /\ t = ticket[Src(s)]
    BY <1>1, <1>2 DEF BarTypeOK, BarRecords
  <2>2. t <= x /\ x <= y /\ ticket'[Src(s)] = t
    BY <1>2, <1>4, <2>1 DEF PassInv, SrcTickets, Grows
  <2> QED
    BY <2>1, <2>2
<1>5. ASSUME Grows, MainOff
      PROVE  bar'["srcbarrier"].round > 0
  <2>1. PICK u \in Nat, v \in Nat : u = bar["srcbarrier"].round /\ v = bar'["srcbarrier"].round
    BY <1>1, <1>2 DEF BarTypeOK, BarRecords
  <2> QED
    BY <1>2, <1>5, <2>1 DEF PassInv, Started, Grows
<1>6. CASE MainReady
  <2>1. stage' = "atReady" /\ Arrive(Main, "epbarrier")
    BY <1>6 DEF MainReady, Goto
  <2>2. MainBarrier' = "epbarrier"
    BY <2>1 DEF MainBarrier
  <2>3. HeldTicket' /\ Started'
    BY <1>1, <1>2, <2>1, <2>2, ArriveGrows DEF HeldTicket, Started, MainOff
  <2> QED
    BY <1>1, <1>2, <1>4, <2>1, <2>3, ArriveGrows DEF PassInv
<1>7. CASE MainPassReady
  <2>1. stage' = "reinit" /\ Leave(Main, "epbarrier")
    BY <1>7 DEF MainPassReady, Goto
  <2> QED
    BY <1>1, <1>2, <1>4, <2>1, LeaveGrows DEF PassInv, HeldTicket, Started, MainOff
<1>8. CASE MainReinit \/ MainInitEnd
  <2>1. /\ stage' \in {"alloc", "startIdle", "start"}
        /\ bar'["srcbarrier"] = bar["srcbarrier"] /\ ticket' = ticket
    BY <1>1, <1>2, <1>8, Sizes, InitGrows DEF MainReinit, MainInitEnd, Goto, barVars
  <2> QED
    BY <1>3, <2>1 DEF PassInv, HeldTicket, Started, MainOff, SrcTickets
<1>9. CASE MainInitStart
  <2>1. stage = "initStart" /\ stage' = "startSrc"
    BY <1>9 DEF MainInitStart, Goto
  <2>2. \A s \in Sources : srcAt[s] = "none"
    BY <1>1, <2>1 DEF PlaceInv, NoSrcYet
  <2> QED
    BY <1>3, <2>1, <2>2 DEF PassInv, HeldTicket, Started, MainOff, SrcTickets
<1>10. CASE MainStart
  <2>1. stage' = "atStart" /\ Arrive(Main, "srcbarrier")
    BY <1>10 DEF MainStart, Goto
  <2>2. MainBarrier' = "srcbarrier"
    BY <2>1 DEF MainBarrier
  <2>3. HeldTicket' /\ Started'
    BY <1>1, <1>2, <2>1, <2>2, ArriveGrows DEF HeldTicket, Started, MainOff
  <2> QED
    BY <1>1, <1>2, <1>4, <2>1, <2>3, ArriveGrows DEF PassInv
<1>11. CASE MainPassStart
  <2>1. stage = "atStart" /\ stage' = "run" /\ Leave(Main, "srcbarrier")
    BY <1>11 DEF MainPassStart, Goto
  <2>2. PICK t \in Nat, r \in Nat : t = ticket[Main] /\ r = bar["srcbarrier"].round
    BY <1>1, <1>2 DEF BarTypeOK, BarRecords
  <2>3. t <= r /\ bar' = bar
    BY <1>1, <1>2, <2>1, <2>2, LeaveGrows
  <2>4. t = 0 => r > 0
    BY <2>1, <2>2 DEF PassInv, Started, MainOff
  <2>5. Started' /\ HeldTicket'
    BY <2>1, <2>2, <2>3, <2>4 DEF Started, HeldTicket
  <2> QED
    BY <1>1, <1>2, <1>4, <2>1, <2>5, LeaveGrows DEF PassInv
<1>12. CASE MainWait
  <2>1. /\ stage = "run" /\ stage' = "atWait" /\ Arrive(Main, WaitBarrier)
        /\ mainPc' = mainPc
    BY <1>12 DEF MainWait, Goto, vars, stopVars
  <2>2. MainBarrier' = WaitBarrier /\ WaitBarrier \in Barriers
    BY <2>1 DEF MainBarrier, WaitBarrier, Barriers
  <2>3. /\ Grows /\ \A u \in Threads : u # Main => ticket'[u] = ticket[u]
        /\ ticket'[Main] <= bar'[WaitBarrier].arrived
    BY <1>1, <1>2, <2>1, <2>2, ArriveGrows
  <2>4. HeldTicket' /\ Started'
    BY <1>5, <2>1, <2>2, <2>3 DEF HeldTicket, Started, MainOff
  <2> QED
    BY <1>4, <2>3, <2>4 DEF PassInv
<1>13. CASE MainPassWait
  <2>1. stage = "atWait" /\ stage' = "run" /\ Leave(Main, WaitBarrier)
    BY <1>13 DEF MainPassWait, Goto
  <2>2. WaitBarrier \in Barriers
    BY DEF WaitBarrier, Barriers
  <2>3. Grows /\ \A u \in Threads : u # Main => ticket'[u] = ticket[u]
    BY <1>1, <1>2, <2>1, <2>2, LeaveGrows
  <2>4. HeldTicket' /\ Started'
    BY <1>5, <2>1, <2>3 DEF HeldTicket, Started, MainOff
  <2> QED
    BY <1>4, <2>3, <2>4 DEF PassInv
<1> QED
  BY <1>6, <1>7, <1>8, <1>9, <1>10, <1>11, <1>12, <1>13

LEMMA PassStep == RunInv /\ PassInv /\ [BenchNext]_allVars => PassInv'
<1> SUFFICES ASSUME RunInv, PassInv, [BenchNext]_allVars PROVE PassInv'
  OBVIOUS
<1>1. BTypeOK /\ BTypeOK'
  BY LifeStep DEF RunInv, LifeInv
<1> QED
  BY <1>1, NextCases, StillPass, ThreadPass, MainPass

------------------------------------------------------------------------------
(* Deadlock                                                                 *)

\* The barrier at which main is held has not completed a round: somebody is missing.
LEMMA RoundOpen ==
  ASSUME RunInv, PassInv, MainHeld, NEW n \in Nat, NEW a \in Nat, BarIs(MainBarrier, n, a)
  PROVE  a # n
<1>1. BarTypeOK /\ Main \in Threads /\ MainBarrier \in Barriers
  BY TypesOf, ThreadNames DEF RunInv, LifeInv, MainBarrier, WaitBarrier, Barriers
<1>2. PICK t \in Nat, r \in Nat : t = ticket[Main] /\ r = bar[MainBarrier].round
  BY <1>1 DEF BarTypeOK, BarRecords
<1>3. ~(t <= r) /\ t <= a
  BY <1>2 DEF MainHeld, MayLeave, PassInv, HeldTicket, BarIs
<1>4. a = n => r = n
  BY <1>2 DEF BarIs
<1> QED
  BY <1>2, <1>3, <1>4

LEMMA SomebodyMissing ==
  ASSUME RunInv, PassInv, MainHeld
  PROVE  \/ \E e \in Procs : EpAwaited(e)
         \/ \E s \in Sources : SrcAwaited(s)
         \/ \E i \in Idles : IdleAwaited(i)
         \/ NumIdle = 0 /\ mainPc = "waitSrcs"
<1>1. CountInv /\ MainInv /\ PlaceInv /\ AtTypeOK
  BY TypesOf DEF RunInv, LifeInv
<1>2. CASE stage = "atReady"
  <2>1. MainBarrier = "epbarrier" /\ EpCount = Cardinality(ReadyEps) + 1
    BY <1>2 DEF MainBarrier, EpCount, FirstRound, MainReadied, One
  <2>2. EpCount # NumProcs + 1
    BY <1>1, <2>1, CountTypes, Sizes, RoundOpen DEF CountInv, EpBar
  <2>3. ReadyEps # Procs
    BY <2>1, <2>2, SetSizes
  <2>4. PICK e \in Procs : epAt[e] \in {"none", "setup"}
    BY <2>3 DEF ReadyEps
  <2> QED
    BY <1>1, <1>2, <2>4 DEF PlaceInv, EpAwaited
<1>3. CASE stage = "atStart"
  <2>1. /\ MainBarrier = "srcbarrier" /\ SrcSize = NumSources + 1
        /\ SrcCount = Cardinality(ReadySrcs) + 1
    BY <1>3 DEF MainBarrier, SrcCount, SrcSize, HasStart, MainStarted, One, NoSrcYet, NoInitYet
  <2>2. SrcCount # NumSources + 1
    BY <1>1, <2>1, CountTypes, Sizes, RoundOpen DEF CountInv, SrcBar
  <2>3. ReadySrcs # Sources
    BY <2>1, <2>2, SetSizes
  <2>4. PICK s \in Sources : srcAt[s] \in {"none", "setup"}
    BY <2>3 DEF ReadySrcs
  <2> QED
    BY <1>1, <1>3, <2>4 DEF PlaceInv, SrcAwaited, NoSrcYet, NoInitYet
<1>4. CASE stage = "atWait" /\ mainPc = "waitEps"
  <2>1. MainBarrier = "epbarrier" /\ EpCount = Cardinality(GoneEps) + 1
    BY <1>4 DEF MainBarrier, WaitBarrier, EpCount, FirstRound, MainAtEps, One
  <2>2. EpCount # NumProcs + 1
    BY <1>1, <2>1, CountTypes, Sizes, RoundOpen DEF CountInv, EpBar
  <2>3. GoneEps # Procs
    BY <2>1, <2>2, SetSizes
  <2> QED
    BY <1>4, <2>3 DEF GoneEps, EpAwaited
<1>5. CASE stage = "atWait" /\ mainPc = "waitSrcs" /\ NumIdle # 0
  <2>1. /\ MainBarrier = "endbarrier" /\ EndSize = NumIdle + NumSources + 1
        /\ EndCount = Cardinality(GoneSrcs) + Cardinality(GoneIdles) + 1
    BY <1>5 DEF MainBarrier, WaitBarrier, EndCount, EndSize, HasEnd, MainAtAll, One, NoIdleYet,
       NoSrcYet, NoInitYet
  <2>2. EndCount # NumIdle + NumSources + 1
    BY <1>1, <2>1, CountTypes, Sizes, RoundOpen DEF CountInv, EndBar
  <2>3. GoneSrcs # Sources \/ GoneIdles # Idles
    BY <2>1, <2>2, SetSizes, Sizes
  <2> QED
    BY <1>5, <2>3 DEF GoneSrcs, GoneIdles, SrcAwaited, IdleAwaited
<1> QED
  BY <1>1, <1>2, <1>3, <1>4, <1>5 DEF MainHeld, MainInv

\* A processor main waits for is not stopped for good: in WFE it has its wake-up.
LEMMA EpsCome ==
  ASSUME RunInv, FlaggedInv, EpWokenToStop, NEW e \in Procs, EpAwaited(e)
  PROVE  EpMoves(e) \/ CaughtInside(e)
<1>1. PlaceInv /\ AtTypeOK
  BY TypesOf DEF RunInv, LifeInv
<1>2. epAt[e] \in {"none", "setup", "atReady", "loop", "atEnd", "returned"}
  BY <1>1 DEF AtTypeOK, EpAts
<1>3. CASE stage = "atReady" /\ epAt[e] = "setup"
  BY <1>3 DEF EpMoves
<1>4. CASE stage = "atWait" /\ mainPc = "waitEps" /\ epAt[e] \notin {"atEnd", "returned"}
  <2>1. epAt[e] # "none"
    BY <1>1, <1>4 DEF PlaceInv
  <2>2. epEnd[e]
    BY <1>4 DEF FlaggedInv, EpBehind
  <2>3. epPc[e] = "wfe" => eventReg[e] \/ epSig[e]
    BY <1>4, <2>2 DEF EpWokenToStop
  <2> QED
    BY <1>2, <1>4, <2>1, <2>3 DEF EpMoves, CaughtInside
<1> QED
  BY <1>3, <1>4 DEF EpAwaited

\* No source main waits for is left inside the start barrier, whose round is complete.
LEMMA SrcsCome ==
  ASSUME RunInv, FlaggedInv, PassInv, NEW s \in Sources, SrcAwaited(s)
  PROVE  SrcMoves(s) \/ SleepsOn(s)
<1>1. PlaceInv /\ AtTypeOK /\ BarTypeOK /\ TypeOK /\ CountInv
  BY TypesOf DEF RunInv, LifeInv
<1>2. srcAt[s] \in {"none", "setup", "atStart", "loop", "atEnd", "returned"}
  BY <1>1 DEF AtTypeOK, SrcAts
<1>3. CASE stage = "atStart" /\ srcAt[s] = "setup"
  BY <1>3 DEF SrcMoves
<1>4. CASE stage = "atWait" /\ mainPc = "waitSrcs" /\ srcAt[s] \notin {"atEnd", "returned"}
  <2>1. srcAt[s] # "none"
    BY <1>1, <1>4 DEF PlaceInv, NoSrcYet, NoInitYet
  <2>2. CASE srcAt[s] = "setup"
    BY <2>2 DEF SrcMoves
  <2>3. CASE srcAt[s] = "atStart"
    <3>1. PICK t \in Nat, a \in Nat, r \in Nat :
                 /\ t = ticket[Src(s)] /\ a = bar["srcbarrier"].arrived
                 /\ r = bar["srcbarrier"].round
      BY <1>1, ThreadNames DEF BarTypeOK, BarRecords, Barriers
    <3>2. t <= a
      BY <2>3, <3>1 DEF PassInv, SrcTickets
    <3>3. r > 0
      BY <1>4, <3>1 DEF PassInv, Started, MainOff
    <3>4. a = r
      BY <1>1, <3>1, <3>3, CountTypes DEF CountInv, SrcBar, BarIs
    <3> QED
      BY <2>3, <3>1, <3>2, <3>4 DEF SrcMoves, MayLeave
  <2>4. CASE srcAt[s] = "loop"
    <3>1. srcEnd[s]
      BY <1>4 DEF FlaggedInv, SrcBehind
    <3> QED
      BY <2>4, <3>1 DEF SrcMoves, SleepsOn
  <2> QED
    BY <1>2, <1>4, <2>1, <2>2, <2>3, <2>4
<1> QED
  BY <1>3, <1>4 DEF SrcAwaited

\* "Wait for event processor to be ready" (wfey.c:652), "Wait for event processor to
\* finish" (wfey.c:731) and "Wait for all source and idle threads" (wfey.c:743): whatever
\* the numbers of threads and the order of their steps, main is held at a barrier only by
\* threads that have yet to come and that can move, but for the processor caught inside
\* the barrier initialised anew, the source asleep at rate 0, and the end barrier of a
\* machine without idle cores.
THEOREM RunNeverDeadlocks == BenchSpec => []NoDeadlock
<1>1. BenchInit => FlaggedInv /\ PassInv
  <2> SUFFICES ASSUME BenchInit PROVE FlaggedInv /\ PassInv
    OBVIOUS
  <2>1. stage = "startEp" /\ mainPc = "usleep" /\ \A s \in Sources : srcAt[s] = "none"
    BY DEF BenchInit, Start
  <2> QED
    BY <2>1 DEF FlaggedInv, EpBehind, SrcBehind, PassInv, HeldTicket, Started, MainOff, SrcTickets
<1>2. RunInv /\ FlaggedInv /\ PassInv /\ [BenchNext]_allVars => FlaggedInv' /\ PassInv'
  BY FlaggedNext, PassStep
<1>3. RunInv /\ FlaggedInv /\ PassInv /\ EpWokenToStop => NoDeadlock
  <2> SUFFICES ASSUME RunInv, FlaggedInv, PassInv, EpWokenToStop, MainHeld
               PROVE  NoDeadlock
    BY DEF NoDeadlock
  <2>1. \A i \in Idles : IdleAwaited(i) => idleAt[i] = "setup"
    <3>1. PlaceInv /\ AtTypeOK
      BY TypesOf DEF RunInv, LifeInv
    <3> QED
      BY <3>1 DEF IdleAwaited, PlaceInv, AtTypeOK, IdleAts, NoIdleYet, NoSrcYet, NoInitYet
  <2> QED
    BY <2>1, SomebodyMissing, EpsCome, SrcsCome DEF NoDeadlock
<1> QED
  BY <1>1, <1>2, <1>3, RunInvariant, RunStopNotLost, PTL DEF BenchSpec

===============================================================================
