---------------------------- MODULE BenchmarkProofs ----------------------------
(***************************************************************************)
(* What holds of a whole run for every number of sources, processors and   *)
(* idle cores, every build and every machine.                              *)
(***************************************************************************)
EXTENDS Benchmark, EventLoopProofs, FiniteSetTheorems

------------------------------------------------------------------------------
(* Types.  The threads are told apart by their names.                       *)

LEMMA ThreadNames ==
  /\ Main \in Threads
  /\ \A e \in Procs : Ep(e) \in Threads
  /\ \A s \in Sources : Src(s) \in Threads
  /\ \A i \in Idles : Idle(i) \in Threads
  BY DEF Threads

LEMMA NamesDiffer ==
  /\ \A e, d \in Procs : e # d => Ep(e) # Ep(d)
  /\ \A s, r \in Sources : s # r => Src(s) # Src(r)
  /\ \A i, j \in Idles : i # j => Idle(i) # Idle(j)
  /\ \A e \in Procs, s \in Sources : Ep(e) # Src(s)
  /\ \A e \in Procs, i \in Idles : Ep(e) # Idle(i)
  /\ \A s \in Sources, i \in Idles : Src(s) # Idle(i)
  /\ \A e \in Procs : Ep(e) # Main
  /\ \A s \in Sources : Src(s) # Main
  /\ \A i \in Idles : Idle(i) # Main
  BY DEF Main, Ep, Src, Idle

BarRecords == [count : Nat, arrived : Nat, round : Nat]

BarTypeOK == bar \in [Barriers -> BarRecords] /\ ticket \in [Threads -> Nat]

KTypeOK == k \in CASE stage = "startEp" -> Procs
                   [] stage \in {"initSrc", "startSrc"} -> Sources
                   [] stage = "startIdle" -> Idles
                   [] OTHER -> {0}

AtTypeOK == /\ epAt \in [Procs -> EpAts]
            /\ srcAt \in [Sources -> SrcAts]
            /\ idleAt \in [Idles -> IdleAts]

LEMMA BenchTypes ==
  BenchTypeOK <=> /\ TypeOK /\ BarTypeOK /\ stage \in Stages /\ KTypeOK /\ AtTypeOK
                  /\ mem \in [Sources -> {"null", "raw", "init"}] /\ crashed \in BOOLEAN
  BY DEF BenchTypeOK, BarTypeOK, BarRecords, KTypeOK, AtTypeOK

LEMMA BarrierInitType ==
  ASSUME BarTypeOK, NEW b \in Barriers, NEW n \in Nat, BarrierInit(b, n)
  PROVE  BarTypeOK'
  BY DEF BarTypeOK, BarRecords, BarrierInit

\* What the two halves of a wait do to a barrier and to the ticket of its thread.
LEMMA ArriveType ==
  ASSUME BarTypeOK, NEW t \in Threads, NEW b \in Barriers, Arrive(t, b)
  PROVE  /\ BarTypeOK'
         /\ bar'[b].count = bar[b].count /\ bar'[b].arrived = bar[b].arrived + 1
         /\ \A c \in Barriers : c # b => bar'[c] = bar[c]
         /\ \A u \in Threads : u # t => ticket'[u] = ticket[u]
         /\ IF bar[b].count # 0 /\ bar[b].round + bar[b].count <= bar[b].arrived + 1
            THEN ticket'[t] = 0 /\ bar'[b].round = bar[b].arrived + 1
            ELSE ticket'[t] = bar[b].arrived + 1 /\ bar'[b].round = bar[b].round
<1> DEFINE i    == bar[b].arrived + 1
           last == bar[b].count # 0 /\ bar[b].round + bar[b].count <= i
           r    == IF last THEN i ELSE bar[b].round
           n    == IF last THEN 0 ELSE i
<1>1. bar[b] \in BarRecords /\ i \in Nat /\ r \in Nat /\ n \in Nat
  BY DEF BarTypeOK, BarRecords
<1>2. bar' = [bar EXCEPT ![b].arrived = i, ![b].round = r]
  BY DEF Arrive
<1>3. ticket' = [ticket EXCEPT ![t] = n]
  BY DEF Arrive
<1> HIDE DEF r, n, i
<1>4. bar' = [bar EXCEPT ![b] = [bar[b] EXCEPT !.arrived = i, !.round = r]]
  BY <1>2 DEF BarTypeOK
<1> DEFINE new == [bar[b] EXCEPT !.arrived = i, !.round = r]
<1>5. new \in BarRecords /\ new.count = bar[b].count /\ new.arrived = i /\ new.round = r
  BY <1>1 DEF BarRecords
<1> HIDE DEF new
<1>6. bar' = [bar EXCEPT ![b] = new]
  BY <1>4 DEF new
<1>7. BarTypeOK' /\ bar'[b] = new
  BY <1>1, <1>3, <1>5, <1>6 DEF BarTypeOK
<1>8. ticket'[t] = n /\ \A u \in Threads : u # t => ticket'[u] = ticket[u]
  BY <1>3 DEF BarTypeOK
<1>9. \A c \in Barriers : c # b => bar'[c] = bar[c]
  BY <1>6 DEF BarTypeOK
<1> QED
  BY <1>5, <1>7, <1>8, <1>9 DEF i, r, n

LEMMA LeaveType ==
  ASSUME BarTypeOK, NEW t \in Threads, NEW b \in Barriers, Leave(t, b)
  PROVE  /\ BarTypeOK' /\ bar' = bar
         /\ \A u \in Threads : u # t => ticket'[u] = ticket[u]
         /\ ticket'[t] = 0 /\ ticket[t] <= bar[b].round
  BY DEF BarTypeOK, Leave

------------------------------------------------------------------------------
(* Where main is, and what it has created                                   *)

NoInitYet == {"startEp", "ready", "atReady", "reinit", "alloc", "initSrc"}
NoSrcYet  == NoInitYet \cup {"initStart"}
NoIdleYet == NoSrcYet \cup {"startSrc", "initEnd"}

\* EventLoop's main starts where Benchmark's is let go, and it waits at its last
\* two barriers.
MainInv == /\ stage \notin {"run", "atWait", "exited"} => mainPc = "usleep"
           /\ stage = "atWait" => mainPc \in {"waitEps", "waitSrcs"}

PlaceInv ==
  /\ \A e \in Procs : epAt[e] = "none" <=> stage = "startEp" /\ e >= k
  /\ \A s \in Sources : srcAt[s] = "none" <=> stage \in NoSrcYet \/ (stage = "startSrc" /\ s >= k)
  /\ \A i \in Idles : idleAt[i] = "none" <=> stage \in NoIdleYet \/ (stage = "startIdle" /\ i >= k)

BTypeOK == BenchTypeOK /\ MainInv /\ PlaceInv

LEMMA Sizes == NumProcs \in Nat /\ NumSources \in Nat /\ NumIdle \in Nat
  BY SizeAssumption, IdleAssumption

LEMMA IdleBounds == /\ NumIdle # 0 => 0 \in Idles
                    /\ \A i \in Idles : i + 1 < NumIdle => i + 1 \in Idles
  BY IdleAssumption DEF Idles

\* The steps that are EventLoop's own.
LoopStep == /\ \/ stage = "run" /\ (MainUsleep \/ MainFlagEp \/ MainKillEp \/ MainFlagSrc \/ MainKillSrc)
               \/ \E e \in Procs : epAt[e] = "loop" /\ EpStep(e)
                                   /\ (epPc[e] = "scan" => mem[idx[e]] = "init")
               \/ \E e \in Procs : epAt[e] # "returned" /\ EpSignal(e)
               \/ \E e \in Procs : ExternalEvent(e)
               \/ \E s \in Sources : srcAt[s] = "loop" /\ SrcStep(s)
               \/ \E s \in Sources : srcAt[s] # "returned" /\ SrcSignal(s)
            /\ UNCHANGED benchVars

LEMMA NextCases ==
  BenchNext => \/ LoopStep
               \/ MainStartEp \/ MainReady \/ MainPassReady \/ MainReinit \/ MainAlloc
               \/ MainInitSrc \/ MainInitStart \/ MainStartSrc \/ MainInitEnd \/ MainStartIdle
               \/ MainStart \/ MainPassStart \/ MainWait \/ MainPassWait \/ MainExit
               \/ \E e \in Procs : \/ EpReady(e) \/ EpGo(e) \/ EpScanWild(e) \/ EpScanRaw(e)
                                   \/ EpEnd(e) \/ EpReturn(e)
               \/ \E s \in Sources : SrcReady(s) \/ SrcGo(s) \/ SrcEnd(s) \/ SrcReturn(s)
               \/ \E i \in Idles : IdleEnd(i) \/ IdleReturn(i)
<1> SUFFICES ASSUME BenchNext
             PROVE  \/ LoopStep
                    \/ MainStartEp \/ MainReady \/ MainPassReady \/ MainReinit \/ MainAlloc
                    \/ MainInitSrc \/ MainInitStart \/ MainStartSrc \/ MainInitEnd \/ MainStartIdle
                    \/ MainStart \/ MainPassStart \/ MainWait \/ MainPassWait \/ MainExit
                    \/ \E e \in Procs : \/ EpReady(e) \/ EpGo(e) \/ EpScanWild(e) \/ EpScanRaw(e)
                                        \/ EpEnd(e) \/ EpReturn(e)
                    \/ \E s \in Sources : SrcReady(s) \/ SrcGo(s) \/ SrcEnd(s) \/ SrcReturn(s)
                    \/ \E i \in Idles : IdleEnd(i) \/ IdleReturn(i)
  OBVIOUS
<1>1. CASE MainThread
  BY <1>1 DEF MainThread, MainRun, LoopStep
<1>2. CASE \E e \in Procs : EpThread(e) \/ EpInterrupt(e) \/ CoreEvent(e)
  BY <1>2 DEF EpThread, EpRun, EpInterrupt, CoreEvent, LoopStep
<1>3. CASE \E s \in Sources : SrcThread(s) \/ SrcInterrupt(s)
  BY <1>3 DEF SrcThread, SrcRun, SrcInterrupt, LoopStep
<1>4. CASE \E i \in Idles : IdleThread(i)
  BY <1>4 DEF IdleThread
<1> QED
  BY <1>1, <1>2, <1>3, <1>4 DEF BenchNext

LEMMA LoopType ==
  ASSUME BTypeOK, LoopStep
  PROVE  BTypeOK'
<1>1. TypeOK'
  <2>1. TypeOK
    BY BenchTypes DEF BTypeOK
  <2> QED
    BY <2>1, EpType, SrcType, MainType DEF LoopStep, MainStop
<1>2. UNCHANGED <<bar, ticket, stage, k, epAt, srcAt, idleAt, mem, crashed>>
  BY DEF LoopStep, benchVars, barVars, lifeVars
<1>3. BenchTypeOK'
  BY <1>1, <1>2 DEF BTypeOK, BenchTypeOK
<1>4. MainInv'
  <2>1. stage = "run" \/ mainPc' = mainPc
    BY DEF LoopStep, EpStep, EpTest, EpWfe, EpArmMonitor, EpBell, EpScanIdle, EpScanActive, EpHandle,
       EpSignal, ExternalEvent, SrcStep, SrcTest, SrcNap, SrcWake, SrcActivate, SrcPress, SrcSev,
       SrcSignal, stopVars
  <2> QED
    BY <1>2, <2>1 DEF BTypeOK, MainInv
<1>5. PlaceInv'
  BY <1>2 DEF BTypeOK, PlaceInv
<1> QED
  BY <1>3, <1>4, <1>5 DEF BTypeOK

\* The steps of main that create threads.
LEMMA CreateType ==
  ASSUME BTypeOK, MainStartEp \/ MainStartSrc \/ MainStartIdle
  PROVE  BTypeOK'
<1> USE DEF BTypeOK
<1>1. UNCHANGED <<vars, bar, ticket, mem, crashed>>
  BY DEF MainStartEp, MainStartSrc, MainStartIdle, barVars
<1>2. TypeOK' /\ mainPc' = mainPc
  BY <1>1, BenchTypes DEF TypeOK, vars, fixed, hwVars, epVars, stopVars
<1>3. BarTypeOK /\ KTypeOK /\ AtTypeOK /\ mem \in [Sources -> {"null", "raw", "init"}]
      /\ crashed \in BOOLEAN /\ stage \in Stages
  BY BenchTypes
<1>4. CASE MainStartEp
  <2>1. /\ stage = "startEp" /\ k \in Procs
        /\ stage' = (IF k + 1 < NumProcs THEN "startEp" ELSE "ready")
        /\ k' = (IF k + 1 < NumProcs THEN k + 1 ELSE 0)
        /\ epAt' = [epAt EXCEPT ![k] = "setup"] /\ srcAt' = srcAt /\ idleAt' = idleAt
    BY <1>3, <1>4 DEF MainStartEp, Loop, KTypeOK
  <2>2. stage' \in Stages /\ KTypeOK' /\ AtTypeOK'
    BY <1>3, <2>1, Bounds DEF KTypeOK, AtTypeOK, EpAts, Stages
  <2>3. \A e \in Procs : epAt'[e] = "none" <=> stage' = "startEp" /\ e >= k'
    BY <1>3, <2>1, SizeAssumption DEF PlaceInv, AtTypeOK, Procs
  <2>4. PlaceInv' /\ MainInv'
    BY <1>2, <2>1, <2>3 DEF PlaceInv, MainInv, NoIdleYet, NoSrcYet, NoInitYet
  <2> QED
    BY <1>1, <1>2, <1>3, <2>2, <2>4, BenchTypes DEF BenchTypeOK, BarTypeOK, BarRecords, KTypeOK, AtTypeOK
<1>5. CASE MainStartSrc
  <2>1. /\ stage = "startSrc" /\ k \in Sources
        /\ stage' = (IF k + 1 < NumSources THEN "startSrc" ELSE "initEnd")
        /\ k' = (IF k + 1 < NumSources THEN k + 1 ELSE 0)
        /\ srcAt' = [srcAt EXCEPT ![k] = "setup"] /\ epAt' = epAt /\ idleAt' = idleAt
    BY <1>3, <1>5 DEF MainStartSrc, Loop, KTypeOK
  <2>2. stage' \in Stages /\ KTypeOK' /\ AtTypeOK'
    BY <1>3, <2>1, Bounds DEF KTypeOK, AtTypeOK, SrcAts, Stages
  <2>3. \A s \in Sources : srcAt'[s] = "none" <=> stage' = "startSrc" /\ s >= k'
    BY <1>3, <2>1, SizeAssumption DEF PlaceInv, AtTypeOK, Sources, NoSrcYet, NoInitYet
  <2>4. PlaceInv' /\ MainInv'
    BY <1>2, <2>1, <2>3 DEF PlaceInv, MainInv, NoIdleYet, NoSrcYet, NoInitYet
  <2> QED
    BY <1>1, <1>2, <1>3, <2>2, <2>4, BenchTypes DEF BenchTypeOK, BarTypeOK, BarRecords, KTypeOK, AtTypeOK
<1>6. CASE MainStartIdle
  <2>1. /\ stage = "startIdle" /\ k \in Idles
        /\ stage' = (IF k + 1 < NumIdle THEN "startIdle" ELSE "start")
        /\ k' = (IF k + 1 < NumIdle THEN k + 1 ELSE 0)
        /\ idleAt' = [idleAt EXCEPT ![k] = "setup"] /\ epAt' = epAt /\ srcAt' = srcAt
    BY <1>3, <1>6 DEF MainStartIdle, Loop, KTypeOK
  <2>2. stage' \in Stages /\ KTypeOK' /\ AtTypeOK'
    BY <1>3, <2>1, IdleBounds DEF KTypeOK, AtTypeOK, IdleAts, Stages
  <2>3. \A i \in Idles : idleAt'[i] = "none" <=> stage' = "startIdle" /\ i >= k'
    BY <1>3, <2>1, IdleAssumption DEF PlaceInv, AtTypeOK, Idles, NoIdleYet, NoSrcYet, NoInitYet
  <2>4. PlaceInv' /\ MainInv'
    BY <1>2, <2>1, <2>3 DEF PlaceInv, MainInv, NoIdleYet, NoSrcYet, NoInitYet
  <2> QED
    BY <1>1, <1>2, <1>3, <2>2, <2>4, BenchTypes DEF BenchTypeOK, BarTypeOK, BarRecords, KTypeOK, AtTypeOK
<1> QED
  BY <1>4, <1>5, <1>6

\* The steps of main that leave the lists of threads alone.
LEMMA StraightType ==
  ASSUME BTypeOK,
         MainReady \/ MainPassReady \/ MainReinit \/ MainAlloc \/ MainInitStart \/ MainInitEnd
           \/ MainStart \/ MainPassStart \/ MainWait \/ MainPassWait \/ MainExit
  PROVE  BTypeOK'
<1> USE DEF BTypeOK
<1>1. /\ TypeOK /\ BarTypeOK /\ KTypeOK /\ AtTypeOK /\ mem \in [Sources -> {"null", "raw", "init"}]
      /\ crashed \in BOOLEAN /\ stage \in Stages
  BY BenchTypes
<1>2. UNCHANGED <<k, epAt, srcAt, idleAt, crashed>>
  BY DEF MainReady, MainPassReady, MainReinit, MainAlloc, MainInitStart, MainInitEnd, MainStart,
     MainPassStart, MainWait, MainPassWait, MainExit, lifeVars
<1>3. /\ MainInv' /\ k = 0 /\ stage' \in Stages
      /\ stage' \notin {"startEp"} /\ stage \notin {"startEp", "startSrc", "startIdle", "initSrc"}
      /\ stage \in NoSrcYet <=> stage' \in NoSrcYet \/ stage' = "startSrc"
      /\ NumIdle # 0 => (stage \in NoIdleYet <=> stage' \in NoIdleYet \cup {"startIdle"})
      /\ stage' = "startIdle" => NumIdle # 0
  <2>1. MainInv /\ NumIdle \in Nat
    BY Sizes
  <2>2. CASE MainReady \/ MainPassReady \/ MainReinit \/ MainAlloc \/ MainInitStart \/ MainInitEnd
             \/ MainStart \/ MainPassStart
    <3>1. mainPc' = mainPc
      BY <2>2 DEF MainReady, MainPassReady, MainReinit, MainAlloc, MainInitStart, MainInitEnd,
         MainStart, MainPassStart, vars, stopVars
    <3>2. <<stage, stage'>> \in {<<"ready", "atReady">>, <<"atReady", "reinit">>,
              <<"reinit", "alloc">>, <<"alloc", "initSrc">>, <<"initStart", "startSrc">>,
              <<"initEnd", IF NumIdle # 0 THEN "startIdle" ELSE "start">>,
              <<"start", "atStart">>, <<"atStart", "run">>}
      BY <2>2 DEF MainReady, MainPassReady, MainReinit, MainAlloc, MainInitStart, MainInitEnd,
         MainStart, MainPassStart, Goto
    <3> QED
      BY <1>1, <2>1, <3>1, <3>2 DEF MainInv, KTypeOK, Stages, NoIdleYet, NoSrcYet, NoInitYet
  <2>3. CASE MainWait \/ MainPassWait \/ MainExit
    BY <1>1, <2>1, <2>3 DEF MainWait, MainPassWait, MainExit, Goto, MainInv, KTypeOK, Stages,
       NoIdleYet, NoSrcYet, NoInitYet, vars, stopVars
  <2> QED
    BY <2>2, <2>3
<1>4. KTypeOK'
  BY <1>2, <1>3, Bounds, IdleBounds DEF KTypeOK
<1>5. PlaceInv'
  <2>1. \A i \in Idles : i >= 0
    BY DEF Idles
  <2>2. \A s \in Sources : s >= 0
    BY DEF Sources
  <2>3. \A i \in Idles : NumIdle # 0
    BY IdleAssumption DEF Idles
  <2>4. \A e \in Procs : epAt'[e] = "none" <=> stage' = "startEp" /\ e >= k'
    BY <1>2, <1>3 DEF PlaceInv
  <2>5. \A s \in Sources : srcAt'[s] = "none" <=>
                             stage' \in NoSrcYet \/ (stage' = "startSrc" /\ s >= k')
    BY <1>2, <1>3, <2>2 DEF PlaceInv
  <2>6. \A i \in Idles : idleAt'[i] = "none" <=>
                             stage' \in NoIdleYet \/ (stage' = "startIdle" /\ i >= k')
    BY <1>2, <1>3, <2>1, <2>3 DEF PlaceInv
  <2>7. NoSrcYet' = NoSrcYet /\ NoIdleYet' = NoIdleYet
    BY DEF NoIdleYet, NoSrcYet, NoInitYet
  <2> QED
    BY <2>4, <2>5, <2>6, <2>7 DEF PlaceInv
<1>6. BarTypeOK'
  <2>1. CASE MainReady
    BY <1>1, <2>1, ArriveType, ThreadNames DEF MainReady, Barriers
  <2>2. CASE MainPassReady
    BY <1>1, <2>2, LeaveType, ThreadNames DEF MainPassReady, Barriers
  <2>3. CASE MainReinit
    BY <1>1, <2>3, BarrierInitType, Sizes DEF MainReinit, Barriers
  <2>4. CASE MainInitStart
    BY <1>1, <2>4, BarrierInitType, Sizes DEF MainInitStart, Barriers
  <2>5. CASE MainInitEnd
    <3>1. CASE NumIdle # 0
      BY <1>1, <2>5, <3>1, BarrierInitType, Sizes DEF MainInitEnd, Barriers
    <3>2. CASE NumIdle = 0
      BY <1>1, <2>5, <3>2 DEF MainInitEnd, BarTypeOK, barVars, BarRecords, Threads
    <3> QED
      BY <3>1, <3>2
  <2>6. CASE MainStart
    BY <1>1, <2>6, ArriveType, ThreadNames DEF MainStart, Barriers
  <2>7. CASE MainPassStart
    BY <1>1, <2>7, LeaveType, ThreadNames DEF MainPassStart, Barriers
  <2>8. WaitBarrier \in Barriers
    BY DEF WaitBarrier, Barriers
  <2>9. CASE MainWait
    BY <1>1, <2>8, <2>9, ArriveType, ThreadNames DEF MainWait
  <2>10. CASE MainPassWait
    BY <1>1, <2>8, <2>10, LeaveType, ThreadNames DEF MainPassWait
  <2>11. CASE MainAlloc \/ MainExit
    BY <1>1, <2>11 DEF MainAlloc, MainExit, BarTypeOK, barVars, BarRecords, Threads
  <2> QED
    BY <2>1, <2>2, <2>3, <2>4, <2>5, <2>6, <2>7, <2>9, <2>10, <2>11
<1>7. mem' \in [Sources -> {"null", "raw", "init"}]
  BY <1>1 DEF MainReady, MainPassReady, MainReinit, MainAlloc, MainInitStart, MainInitEnd,
     MainStart, MainPassStart, MainWait, MainPassWait, MainExit
<1>8. TypeOK'
  <2>1. CASE MainPassWait
    <3>1. mainPc' = (IF mainPc = "waitEps" THEN "flagSrc" ELSE "done")
          /\ UNCHANGED <<setup, srcEp, event, db, eventReg, monitor, epPc, idx, srcPc, epEnd, srcEnd,
                         epSig, srcSig, mi>>
      BY <2>1 DEF MainPassWait, fixed, hwVars, epVars
    <3>2. mainPc \in {"waitEps", "waitSrcs"}
      BY <2>1 DEF MainPassWait, Goto, MainInv
    <3> QED
      BY <1>1, <3>1, <3>2, Bounds DEF TypeOK, MainPcs
  <2>2. CASE UNCHANGED vars
    BY <1>1, <2>2 DEF TypeOK, vars, fixed, hwVars, epVars, stopVars
  <2> QED
    BY <2>1, <2>2 DEF MainReady, MainPassReady, MainReinit, MainAlloc, MainInitStart, MainInitEnd,
       MainStart, MainPassStart, MainWait, MainExit
<1>9. AtTypeOK'
  BY <1>1, <1>2 DEF AtTypeOK
<1> QED
  BY <1>2, <1>1, <1>3, <1>4, <1>5, <1>6, <1>7, <1>8, <1>9, BenchTypes
     DEF BenchTypeOK, BarTypeOK, BarRecords, KTypeOK, AtTypeOK

LEMMA InitSrcType ==
  ASSUME BTypeOK, MainInitSrc
  PROVE  BTypeOK'
<1> USE DEF BTypeOK
<1>1. /\ TypeOK /\ BarTypeOK /\ KTypeOK /\ AtTypeOK /\ mem \in [Sources -> {"null", "raw", "init"}]
      /\ crashed \in BOOLEAN /\ stage \in Stages
  BY BenchTypes
<1>2. /\ stage = "initSrc" /\ k \in Sources
      /\ stage' = (IF k + 1 < NumSources THEN "initSrc" ELSE "initStart")
      /\ k' = (IF k + 1 < NumSources THEN k + 1 ELSE 0)
      /\ event' = [event EXCEPT ![k] = "RESET"] /\ mem' = [mem EXCEPT ![k] = "init"]
      /\ UNCHANGED <<setup, srcEp, db, eventReg, monitor, epPc, idx, srcPc, epEnd, srcEnd,
                     epSig, srcSig, mainPc, mi, bar, ticket, epAt, srcAt, idleAt, crashed>>
  BY <1>1 DEF MainInitSrc, Loop, KTypeOK, fixed, hwVars, epVars, stopVars, barVars, lifeVars
<1>3. TypeOK'
  BY <1>1, <1>2 DEF TypeOK
<1>4. KTypeOK' /\ stage' \in Stages
  BY <1>2, Bounds DEF KTypeOK, Stages
<1>5. PlaceInv' /\ MainInv'
  BY <1>2 DEF PlaceInv, MainInv, NoIdleYet, NoSrcYet, NoInitYet
<1>6. mem' \in [Sources -> {"null", "raw", "init"}]
  BY <1>1, <1>2
<1> QED
  BY <1>1, <1>2, <1>3, <1>4, <1>5, <1>6, BenchTypes
     DEF BenchTypeOK, BarTypeOK, BarRecords, KTypeOK, AtTypeOK

\* A thread that goes from one place to another of those behind its creation.
LEMMA ThreadType ==
  ASSUME BTypeOK, TypeOK', BarTypeOK', UNCHANGED <<stage, k, mem, mainPc>>, crashed' \in BOOLEAN,
         AtTypeOK',
         \A e \in Procs : epAt'[e] = "none" <=> epAt[e] = "none",
         \A s \in Sources : srcAt'[s] = "none" <=> srcAt[s] = "none",
         \A i \in Idles : idleAt'[i] = "none" <=> idleAt[i] = "none"
  PROVE  BTypeOK'
<1>1. PlaceInv' /\ MainInv'
  BY DEF BTypeOK, PlaceInv, MainInv, NoIdleYet, NoSrcYet, NoInitYet
<1>2. /\ KTypeOK /\ mem \in [Sources -> {"null", "raw", "init"}] /\ stage \in Stages
  BY BenchTypes DEF BTypeOK
<1> QED
  BY <1>1, <1>2 DEF BTypeOK, BenchTypeOK, BarTypeOK, BarRecords, KTypeOK, AtTypeOK

LEMMA SameVars == TypeOK /\ UNCHANGED vars => TypeOK' /\ mainPc' = mainPc
  BY DEF TypeOK, vars, fixed, hwVars, epVars, stopVars

LEMMA EpPlaceType ==
  ASSUME BTypeOK, NEW e \in Procs,
         EpReady(e) \/ EpGo(e) \/ EpScanWild(e) \/ EpScanRaw(e) \/ EpEnd(e) \/ EpReturn(e)
  PROVE  BTypeOK'
<1>1. TypeOK /\ BarTypeOK /\ AtTypeOK /\ crashed \in BOOLEAN
  BY BenchTypes DEF BTypeOK
<1>2. Ep(e) \in Threads /\ "epbarrier" \in Barriers
  BY ThreadNames DEF Barriers
<1>3. TypeOK' /\ mainPc' = mainPc
  <2>1. CASE EpReady(e)
    BY <1>1, <2>1 DEF EpReady, TypeOK, fixed, hwVars, epVars, stopVars
  <2>2. CASE EpScanRaw(e)
    BY <1>1, <2>2, NextSourceType DEF EpScanRaw, TypeOK, fixed, hwVars, stopVars
  <2> QED
    BY <1>1, <2>1, <2>2, SameVars DEF EpGo, EpScanWild, EpEnd, EpReturn
<1>4. BarTypeOK'
  <2>1. CASE EpReady(e) \/ EpEnd(e)
    BY <1>1, <1>2, <2>1, ArriveType DEF EpReady, EpEnd
  <2>2. CASE EpGo(e) \/ EpReturn(e)
    BY <1>1, <1>2, <2>2, LeaveType DEF EpGo, EpReturn
  <2>3. CASE EpScanWild(e) \/ EpScanRaw(e)
    BY <1>1, <2>3 DEF EpScanWild, EpScanRaw, benchVars, barVars, BarTypeOK, BarRecords, Threads
  <2> QED
    BY <2>1, <2>2, <2>3
<1>5. UNCHANGED <<stage, k, mem, srcAt, idleAt>> /\ crashed' \in BOOLEAN
  BY <1>1 DEF EpReady, EpGo, EpScanWild, EpScanRaw, EpEnd, EpReturn, benchVars, lifeVars
<1>6. \/ epAt' = epAt
      \/ \E to \in EpAts \ {"none"} : epAt[e] # "none" /\ epAt' = [epAt EXCEPT ![e] = to]
  BY DEF EpReady, EpGo, EpScanWild, EpScanRaw, EpEnd, EpReturn, EpAt, EpAts, benchVars, lifeVars
<1>7. AtTypeOK' /\ \A d \in Procs : epAt'[d] = "none" <=> epAt[d] = "none"
  BY <1>1, <1>5, <1>6 DEF AtTypeOK
<1> QED
  BY <1>3, <1>4, <1>5, <1>7, ThreadType

LEMMA SrcPlaceType ==
  ASSUME BTypeOK, NEW s \in Sources, SrcReady(s) \/ SrcGo(s) \/ SrcEnd(s) \/ SrcReturn(s)
  PROVE  BTypeOK'
<1>1. TypeOK /\ BarTypeOK /\ AtTypeOK /\ crashed \in BOOLEAN
  BY BenchTypes DEF BTypeOK
<1>2. Src(s) \in Threads /\ "srcbarrier" \in Barriers /\ "endbarrier" \in Barriers
  BY ThreadNames DEF Barriers
<1>3. TypeOK' /\ mainPc' = mainPc
  BY <1>1, SameVars DEF SrcReady, SrcGo, SrcEnd, SrcReturn
<1>4. BarTypeOK'
  BY <1>1, <1>2, ArriveType, LeaveType DEF SrcReady, SrcGo, SrcEnd, SrcReturn
<1>5. UNCHANGED <<stage, k, mem, epAt, idleAt, crashed>>
  BY DEF SrcReady, SrcGo, SrcEnd, SrcReturn
<1>6. \E to \in SrcAts \ {"none"} : srcAt[s] # "none" /\ srcAt' = [srcAt EXCEPT ![s] = to]
  BY DEF SrcReady, SrcGo, SrcEnd, SrcReturn, SrcAt, SrcAts
<1>7. AtTypeOK' /\ \A r \in Sources : srcAt'[r] = "none" <=> srcAt[r] = "none"
  BY <1>1, <1>5, <1>6 DEF AtTypeOK
<1> QED
  BY <1>1, <1>3, <1>4, <1>5, <1>7, ThreadType

LEMMA IdlePlaceType ==
  ASSUME BTypeOK, NEW i \in Idles, IdleEnd(i) \/ IdleReturn(i)
  PROVE  BTypeOK'
<1>1. TypeOK /\ BarTypeOK /\ AtTypeOK /\ crashed \in BOOLEAN
  BY BenchTypes DEF BTypeOK
<1>2. Idle(i) \in Threads /\ "endbarrier" \in Barriers
  BY ThreadNames DEF Barriers
<1>3. TypeOK' /\ mainPc' = mainPc
  BY <1>1, SameVars DEF IdleEnd, IdleReturn
<1>4. BarTypeOK'
  BY <1>1, <1>2, ArriveType, LeaveType DEF IdleEnd, IdleReturn
<1>5. UNCHANGED <<stage, k, mem, epAt, srcAt, crashed>>
  BY DEF IdleEnd, IdleReturn
<1>6. \E to \in IdleAts \ {"none"} : idleAt[i] # "none" /\ idleAt' = [idleAt EXCEPT ![i] = to]
  BY DEF IdleEnd, IdleReturn, IdleAt, IdleAts
<1>7. AtTypeOK' /\ \A j \in Idles : idleAt'[j] = "none" <=> idleAt[j] = "none"
  BY <1>1, <1>5, <1>6 DEF AtTypeOK
<1> QED
  BY <1>1, <1>3, <1>4, <1>5, <1>7, ThreadType

LEMMA InitBType == BenchInit => BTypeOK
<1> SUFFICES ASSUME BenchInit PROVE BTypeOK
  OBVIOUS
<1>1. TypeOK
  BY SizeAssumption DEF BenchInit, Start, TypeOK, Procs, Sources, EpPcs, SrcPcs, MainPcs
<1>2. BarTypeOK
  BY Sizes DEF BenchInit, BarTypeOK, BarRecords, NoBarrier, Barriers
<1>3. KTypeOK /\ stage \in Stages
  BY Bounds DEF BenchInit, KTypeOK, Stages
<1>4. AtTypeOK
  BY DEF BenchInit, AtTypeOK, EpAts, SrcAts, IdleAts
<1>5. MainInv /\ PlaceInv
  BY DEF BenchInit, Start, MainInv, PlaceInv, NoSrcYet, NoInitYet, NoIdleYet, Procs, Sources, Idles
<1>6. mem \in [Sources -> {"null", "raw", "init"}] /\ crashed \in BOOLEAN
  BY DEF BenchInit
<1> QED
  BY <1>1, <1>2, <1>3, <1>4, <1>5, <1>6, BenchTypes DEF BTypeOK

LEMMA BTypeNext == BTypeOK /\ BenchNext => BTypeOK'
  BY NextCases, LoopType, CreateType, StraightType, InitSrcType, EpPlaceType, SrcPlaceType,
     IdlePlaceType

------------------------------------------------------------------------------
(* The places of the threads and EventLoop's                                *)

\* A thread that has yet to pass its barrier, or passed its loop, is where EventLoop
\* says, and the end flags are not set before main is back from usleep.
PcInv ==
  /\ \A e \in Procs : /\ epAt[e] \in {"none", "setup", "atReady"} => epPc[e] = "test"
                      /\ epAt[e] \in {"atEnd", "returned"} => epPc[e] = "out"
                      /\ epPc[e] = "out" => epEnd[e]
                      /\ epEnd[e] => mainPc # "usleep"
  /\ \A s \in Sources : /\ srcAt[s] \in {"none", "setup", "atStart"} => srcPc[s] = "test"
                        /\ srcAt[s] \in {"atEnd", "returned"} => srcPc[s] = "out"

LEMMA TypesOf ==
  ASSUME BTypeOK
  PROVE  TypeOK /\ BarTypeOK /\ KTypeOK /\ AtTypeOK /\ stage \in Stages /\ MainInv /\ PlaceInv
  BY BenchTypes DEF BTypeOK

\* The step of a processor's loop.
LEMMA EpStepPc ==
  ASSUME TypeOK, NEW e \in Procs, EpStep(e)
  PROVE  /\ \A d \in Procs : d # e => epPc'[d] = epPc[d]
         /\ epPc'[e] = "out" => epEnd[e]
         /\ UNCHANGED <<srcPc, epEnd, mainPc>>
<1>1. CASE EpTest(e)
  BY <1>1 DEF EpTest, EpGoto, AfterWait, TypeOK, stopVars
<1>2. CASE EpWfe(e) \/ EpArmMonitor(e) \/ EpBell(e) \/ EpScanActive(e)
  BY <1>2 DEF EpWfe, EpArmMonitor, EpBell, EpScanActive, EpGoto, AfterWait, TypeOK, stopVars
<1>3. CASE EpScanIdle(e) \/ EpHandle(e)
  BY <1>3 DEF EpScanIdle, EpHandle, NextSource, TypeOK, stopVars
<1> QED
  BY <1>1, <1>2, <1>3 DEF EpStep

LEMMA SrcStepPc ==
  ASSUME TypeOK, NEW s \in Sources, SrcStep(s)
  PROVE  /\ \A r \in Sources : r # s => srcPc'[r] = srcPc[r]
         /\ UNCHANGED <<epPc, epEnd, mainPc>>
  BY DEF SrcStep, SrcTest, SrcNap, SrcWake, SrcActivate, SrcPress, SrcSev, SrcGoto, TypeOK,
     epVars, stopVars

LEMMA LoopPc == BTypeOK /\ PcInv /\ LoopStep => PcInv'
<1> SUFFICES ASSUME BTypeOK, PcInv, LoopStep PROVE PcInv'
  OBVIOUS
<1>1. TypeOK
  BY TypesOf
<1>2. UNCHANGED <<epAt, srcAt>>
  BY DEF LoopStep, benchVars, lifeVars
<1>3. ASSUME MainUsleep \/ MainFlagEp \/ MainKillEp \/ MainFlagSrc \/ MainKillSrc
      PROVE  PcInv'
  <2>1. /\ UNCHANGED <<epPc, srcPc>> /\ mainPc' # "usleep"
        /\ \A e \in Procs : epEnd[e] => epEnd'[e]
    BY <1>1, <1>3 DEF MainUsleep, MainFlagEp, MainKillEp, MainFlagSrc, MainKillSrc, MainGoto,
       TypeOK, epVars, stopVars
  <2> QED
    BY <1>2, <2>1 DEF PcInv
<1>4. ASSUME NEW e \in Procs, epAt[e] = "loop", EpStep(e)
      PROVE  PcInv'
  BY <1>1, <1>2, <1>4, EpStepPc DEF PcInv
<1>5. ASSUME NEW e \in Procs, EpSignal(e) \/ ExternalEvent(e)
      PROVE  PcInv'
  BY <1>2, <1>5 DEF PcInv, EpSignal, ExternalEvent, epVars, stopVars
<1>6. ASSUME NEW s \in Sources, srcAt[s] = "loop", SrcStep(s)
      PROVE  PcInv'
  BY <1>1, <1>2, <1>6, SrcStepPc DEF PcInv
<1>7. ASSUME NEW s \in Sources, SrcSignal(s)
      PROVE  PcInv'
  <2>1. /\ UNCHANGED <<epPc, epEnd, mainPc>>
        /\ \A r \in Sources : srcPc[r] \in {"test", "out"} => srcPc'[r] = srcPc[r]
    BY <1>1, <1>7 DEF SrcSignal, TypeOK, epVars
  <2> QED
    BY <1>2, <2>1 DEF PcInv
<1> QED
  BY <1>3, <1>4, <1>5, <1>6, <1>7 DEF LoopStep

LEMMA PcNext == BTypeOK /\ PcInv /\ BenchNext => PcInv'
<1> SUFFICES ASSUME BTypeOK, PcInv, BenchNext PROVE PcInv'
  OBVIOUS
<1>1. TypeOK /\ AtTypeOK /\ MainInv /\ PlaceInv /\ KTypeOK
  BY TypesOf
<1>2. CASE LoopStep
  BY <1>2, LoopPc
<1>3. CASE MainStartEp \/ MainStartSrc
  <2>1. UNCHANGED <<epPc, srcPc, epEnd, mainPc>>
    BY <1>3 DEF MainStartEp, MainStartSrc, vars, epVars, stopVars
  <2>2. CASE MainStartEp
    <3>1. k \in Procs /\ epAt[k] = "none"
      BY <1>1, <2>2 DEF MainStartEp, Loop, KTypeOK, PlaceInv, Procs
    <3>2. epAt' = [epAt EXCEPT ![k] = "setup"] /\ srcAt' = srcAt
      BY <2>2 DEF MainStartEp
    <3> QED
      BY <1>1, <2>1, <3>1, <3>2 DEF PcInv, AtTypeOK
  <2>3. CASE MainStartSrc
    <3>1. k \in Sources /\ srcAt[k] = "none"
      BY <1>1, <2>3 DEF MainStartSrc, Loop, KTypeOK, PlaceInv, Sources
    <3>2. srcAt' = [srcAt EXCEPT ![k] = "setup"] /\ epAt' = epAt
      BY <2>3 DEF MainStartSrc
    <3> QED
      BY <1>1, <2>1, <3>1, <3>2 DEF PcInv, AtTypeOK
  <2> QED
    BY <1>3, <2>2, <2>3
<1>4. CASE MainReady \/ MainPassReady \/ MainReinit \/ MainAlloc \/ MainInitSrc \/ MainInitStart
           \/ MainInitEnd \/ MainStartIdle \/ MainStart \/ MainPassStart \/ MainWait \/ MainExit
  <2>1. UNCHANGED <<epPc, srcPc, epEnd, mainPc, epAt, srcAt>>
    BY <1>4 DEF MainReady, MainPassReady, MainReinit, MainAlloc, MainInitSrc, MainInitStart,
       MainInitEnd, MainStartIdle, MainStart, MainPassStart, MainWait, MainExit,
       vars, epVars, stopVars, lifeVars
  <2> QED
    BY <2>1 DEF PcInv
<1>5. CASE MainPassWait
  <2>1. UNCHANGED <<epPc, srcPc, epEnd, epAt, srcAt>> /\ mainPc' # "usleep"
    BY <1>5 DEF MainPassWait, epVars, lifeVars
  <2> QED
    BY <2>1 DEF PcInv
<1>6. ASSUME NEW e \in Procs,
             EpReady(e) \/ EpGo(e) \/ EpScanWild(e) \/ EpEnd(e) \/ EpReturn(e)
      PROVE  PcInv'
  <2>1. UNCHANGED <<epPc, srcPc, epEnd, mainPc, srcAt>>
    BY <1>6 DEF EpReady, EpGo, EpScanWild, EpEnd, EpReturn, vars, epVars, stopVars, lifeVars
  <2>2. \A d \in Procs :
          \/ epAt'[d] = epAt[d] \/ epAt'[d] = "loop"
          \/ epAt[d] = "setup" /\ epAt'[d] = "atReady"
          \/ epPc[d] = "out" /\ epAt'[d] \in {"atEnd", "returned"}
    BY <1>1, <1>6 DEF EpReady, EpGo, EpScanWild, EpEnd, EpReturn, EpAt, AtTypeOK, PcInv, lifeVars
  <2> QED
    BY <2>1, <2>2 DEF PcInv
<1>7. ASSUME NEW e \in Procs, EpScanRaw(e)
      PROVE  PcInv'
  <2>1. /\ UNCHANGED <<srcPc, epEnd, mainPc, srcAt, epAt>> /\ epAt[e] = "loop"
    BY <1>7 DEF EpScanRaw, benchVars, lifeVars, stopVars
  <2>2. /\ \A d \in Procs : d # e => epPc'[d] = epPc[d]
        /\ epPc'[e] # "out"
    BY <1>1, <1>7 DEF EpScanRaw, NextSource, TypeOK
  <2> QED
    BY <2>1, <2>2 DEF PcInv
<1>8. ASSUME NEW s \in Sources, SrcReady(s) \/ SrcGo(s) \/ SrcEnd(s) \/ SrcReturn(s)
      PROVE  PcInv'
  <2>1. UNCHANGED <<epPc, srcPc, epEnd, mainPc, epAt>>
    BY <1>8 DEF SrcReady, SrcGo, SrcEnd, SrcReturn, vars, epVars, stopVars
  <2>2. \A r \in Sources :
          \/ srcAt'[r] = srcAt[r] \/ srcAt'[r] = "loop"
          \/ srcAt[r] = "setup" /\ srcAt'[r] = "atStart"
          \/ srcPc[r] = "out" /\ srcAt'[r] \in {"atEnd", "returned"}
    BY <1>1, <1>8 DEF SrcReady, SrcGo, SrcEnd, SrcReturn, SrcAt, AtTypeOK, PcInv
  <2> QED
    BY <2>1, <2>2 DEF PcInv
<1>9. ASSUME NEW i \in Idles, IdleEnd(i) \/ IdleReturn(i)
      PROVE  PcInv'
  BY <1>9 DEF IdleEnd, IdleReturn, PcInv, vars, epVars, stopVars
<1> QED
  BY <1>2, <1>3, <1>4, <1>5, <1>6, <1>7, <1>8, <1>9, NextCases

------------------------------------------------------------------------------
(* The memory of the sources, their events and the doorbells                *)

MemInv == /\ stage = "initSrc" => \A s \in Sources : s < k => mem[s] = "init"
          /\ stage \notin NoInitYet => \A s \in Sources : mem[s] = "init"

\* Before there are sources nothing is raised, and nobody gets as far as a scan who
\* waits for the doorbell.
QuietInv == stage \in NoSrcYet =>
  /\ \A s \in Sources : event[s] = "RESET"
  /\ USE_DOORBELL => \A e \in Procs :
       epPc[e] \notin {"scan", "handle"} /\ (epAt[e] \notin {"none", "setup"} => db[e] = "RESET")

CrashInv == USE_DOORBELL => ~crashed

\* main only goes on.
LEMMA StageOrder ==
  ASSUME BTypeOK, BenchNext
  PROVE  /\ stage' \in NoSrcYet => stage \in NoSrcYet
         /\ stage' \in NoIdleYet => stage \in NoIdleYet
         /\ stage' \notin NoInitYet => stage \notin NoInitYet \/ MainInitSrc
         /\ stage' = "initSrc" => (stage = "initSrc" /\ k' = k) \/ MainInitSrc \/ MainAlloc
         /\ setup' = setup
<1>1. stage \in Stages
  BY TypesOf
<1>2. CASE LoopStep
  BY <1>2 DEF LoopStep, benchVars, MainUsleep, MainFlagEp, MainKillEp, MainFlagSrc, MainKillSrc,
     EpStep, EpTest, EpWfe, EpArmMonitor, EpBell, EpScanIdle, EpScanActive, EpHandle,
     EpSignal, ExternalEvent, SrcStep, SrcTest, SrcNap, SrcWake, SrcActivate, SrcPress, SrcSev,
     SrcSignal, fixed
<1>3. CASE MainStartEp \/ MainReady \/ MainPassReady \/ MainReinit \/ MainAlloc
           \/ MainInitSrc \/ MainInitStart
  BY <1>1, <1>3 DEF MainStartEp, MainReady, MainPassReady, MainReinit, MainAlloc, MainInitSrc,
     MainInitStart, Loop, Goto, NoIdleYet, NoSrcYet, NoInitYet, vars, fixed
<1>4. CASE MainStartSrc \/ MainInitEnd \/ MainStartIdle
           \/ MainStart \/ MainPassStart \/ MainWait \/ MainPassWait \/ MainExit
  <2>1. setup' = setup
    BY <1>4 DEF MainStartSrc, MainInitEnd, MainStartIdle, MainStart, MainPassStart, MainWait,
       MainPassWait, MainExit, vars, fixed
  <2>2. <<stage, stage'>> \in {<<"startSrc", "startSrc">>, <<"startSrc", "initEnd">>,
            <<"initEnd", "startIdle">>, <<"initEnd", "start">>, <<"startIdle", "startIdle">>,
            <<"startIdle", "start">>, <<"start", "atStart">>, <<"atStart", "run">>,
            <<"run", "atWait">>, <<"atWait", "run">>, <<"run", "exited">>}
    BY <1>4 DEF MainStartSrc, MainInitEnd, MainStartIdle, MainStart, MainPassStart, MainWait,
       MainPassWait, MainExit, Loop, Goto
  <2> QED
    BY <2>1, <2>2 DEF NoIdleYet, NoSrcYet, NoInitYet
<1>5. ASSUME NEW e \in Procs, \/ EpReady(e) \/ EpGo(e) \/ EpScanWild(e) \/ EpScanRaw(e)
                              \/ EpEnd(e) \/ EpReturn(e)
      PROVE  stage' = stage /\ k' = k /\ setup' = setup
  BY <1>5 DEF EpReady, EpGo, EpScanWild, EpScanRaw, EpEnd, EpReturn, vars, fixed, benchVars
<1>6. ASSUME NEW s \in Sources, SrcReady(s) \/ SrcGo(s) \/ SrcEnd(s) \/ SrcReturn(s)
      PROVE  stage' = stage /\ k' = k /\ setup' = setup
  BY <1>6 DEF SrcReady, SrcGo, SrcEnd, SrcReturn, vars, fixed
<1>7. ASSUME NEW i \in Idles, IdleEnd(i) \/ IdleReturn(i)
      PROVE  stage' = stage /\ k' = k /\ setup' = setup
  BY <1>7 DEF IdleEnd, IdleReturn, vars, fixed
<1> QED
  BY <1>2, <1>3, <1>4, <1>5, <1>6, <1>7, NextCases

LEMMA MemStep == BTypeOK /\ MemInv /\ BenchNext => MemInv'
<1> SUFFICES ASSUME BTypeOK, MemInv, BenchNext PROVE MemInv'
  OBVIOUS
<1>1. KTypeOK /\ mem \in [Sources -> {"null", "raw", "init"}] /\ NumSources \in Nat
  BY Sizes, BenchTypes DEF BTypeOK
<1>2. CASE MainInitSrc
  <2>1. /\ stage = "initSrc" /\ k \in Sources
        /\ stage' = (IF k + 1 < NumSources THEN "initSrc" ELSE "initStart")
        /\ k' = (IF k + 1 < NumSources THEN k + 1 ELSE 0)
        /\ mem' = [mem EXCEPT ![k] = "init"]
    BY <1>1, <1>2 DEF MainInitSrc, Loop, KTypeOK
  <2>2. \A s \in Sources : s <= k => mem'[s] = "init"
    BY <1>1, <2>1 DEF MemInv, Sources
  <2> QED
    BY <1>1, <2>1, <2>2 DEF MemInv, Sources, NoInitYet
<1>3. CASE MainAlloc
  BY <1>1, <1>3 DEF MainAlloc, Goto, KTypeOK, MemInv, NoInitYet, Sources
<1>4. CASE ~MainInitSrc /\ ~MainAlloc
  <2>1. mem' = mem
    <3>1. CASE \/ LoopStep \/ \E e \in Procs : EpScanRaw(e)
      BY <3>1 DEF LoopStep, EpScanRaw, benchVars
    <3>2. CASE \/ \E e \in Procs : EpReady(e) \/ EpGo(e) \/ EpScanWild(e) \/ EpEnd(e) \/ EpReturn(e)
               \/ \E s \in Sources : SrcReady(s) \/ SrcGo(s) \/ SrcEnd(s) \/ SrcReturn(s)
               \/ \E i \in Idles : IdleEnd(i) \/ IdleReturn(i)
      BY <3>2 DEF EpReady, EpGo, EpScanWild, EpEnd, EpReturn, SrcReady, SrcGo, SrcEnd, SrcReturn,
         IdleEnd, IdleReturn
    <3>3. CASE MainStartEp \/ MainReady \/ MainPassReady \/ MainReinit \/ MainInitStart
               \/ MainStartSrc \/ MainInitEnd \/ MainStartIdle
               \/ MainStart \/ MainPassStart \/ MainWait \/ MainPassWait \/ MainExit
      BY <3>3 DEF MainStartEp, MainReady, MainPassReady, MainReinit, MainInitStart,
         MainStartSrc, MainInitEnd, MainStartIdle, MainStart, MainPassStart, MainWait,
         MainPassWait, MainExit
    <3> QED
      BY <1>4, <3>1, <3>2, <3>3, NextCases
  <2> QED
    BY <1>4, <2>1, StageOrder DEF MemInv, NoInitYet
<1> QED
  BY <1>2, <1>3, <1>4

\* A thread of epThread has nothing to scan before there are sources.
LEMMA EpStill ==
  ASSUME TypeOK, USE_DOORBELL, NEW e \in Procs, EpStep(e),
         epPc[e] \notin {"scan", "handle"}, db[e] = "RESET"
  PROVE  /\ \A d \in Procs : d # e => epPc'[d] = epPc[d] /\ db'[d] = db[d]
         /\ epPc'[e] \notin {"scan", "handle"} /\ db'[e] = "RESET"
         /\ UNCHANGED <<setup, event>>
<1>1. CASE EpTest(e)
  BY <1>1 DEF EpTest, EpGoto, AfterWait, TypeOK, fixed
<1>2. CASE EpWfe(e) \/ EpArmMonitor(e)
  BY <1>2 DEF EpWfe, EpArmMonitor, EpGoto, AfterWait, TypeOK, fixed
<1>3. CASE EpBell(e)
  BY <1>3 DEF EpBell, EpGoto, TypeOK, fixed
<1>4. ~EpScanIdle(e) /\ ~EpScanActive(e) /\ ~EpHandle(e)
  BY DEF EpScanIdle, EpScanActive, EpHandle, EpGoto
<1> QED
  BY <1>1, <1>2, <1>3, <1>4 DEF EpStep

LEMMA StillStep == BTypeOK /\ PcInv /\ QuietInv /\ BenchNext => QuietInv'
<1> SUFFICES ASSUME BTypeOK, PcInv, QuietInv, BenchNext, stage' \in NoSrcYet
             PROVE  /\ \A s \in Sources : event'[s] = "RESET"
                    /\ USE_DOORBELL' => \A e \in Procs :
                         /\ epPc'[e] \notin {"scan", "handle"}
                         /\ epAt'[e] \notin {"none", "setup"} => db'[e] = "RESET"
  BY DEF QuietInv, NoSrcYet, NoInitYet
<1>1. TypeOK /\ AtTypeOK /\ KTypeOK /\ PlaceInv
  BY TypesOf
<1>2. /\ stage \in NoSrcYet /\ (USE_DOORBELL' <=> USE_DOORBELL)
      /\ \A s \in Sources : event[s] = "RESET"
      /\ USE_DOORBELL => \A e \in Procs :
           epPc[e] \notin {"scan", "handle"} /\ (epAt[e] \notin {"none", "setup"} => db[e] = "RESET")
  BY StageOrder DEF QuietInv, USE_DOORBELL, NoSrcYet, NoInitYet
<1>3. \A s \in Sources : srcAt[s] = "none" /\ srcPc[s] = "test"
  BY <1>1, <1>2 DEF PlaceInv, PcInv
<1>4. CASE LoopStep
  <2>1. UNCHANGED <<epAt, srcAt>>
    BY <1>4 DEF LoopStep, benchVars, lifeVars
  <2>2. ASSUME NEW e \in Procs, epAt[e] = "loop", EpStep(e), USE_DOORBELL
        PROVE  \A d \in Procs : /\ epPc'[d] \notin {"scan", "handle"}
                                /\ epAt'[d] \notin {"none", "setup"} => db'[d] = "RESET"
    BY <1>1, <1>2, <2>1, <2>2, EpStill
  <2>3. ASSUME NEW e \in Procs, EpStep(e)
        PROVE  \A s \in Sources : event'[s] = "RESET"
    BY <1>1, <1>2, <2>3 DEF EpStep, EpTest, EpWfe, EpArmMonitor, EpBell, EpScanIdle, EpScanActive,
       EpHandle, TypeOK
  <2>4. ASSUME stage = "run" /\ (MainUsleep \/ MainFlagEp \/ MainKillEp \/ MainFlagSrc \/ MainKillSrc)
        PROVE  FALSE
    BY <1>2, <2>4 DEF NoSrcYet, NoInitYet
  <2>5. CASE \/ \E e \in Procs : EpSignal(e) \/ ExternalEvent(e)
             \/ \E s \in Sources : SrcSignal(s)
    BY <1>2, <2>1, <2>5 DEF EpSignal, ExternalEvent, SrcSignal, epVars
  <2> QED
    BY <1>2, <1>3, <1>4, <2>2, <2>3, <2>4, <2>5 DEF LoopStep
<1>5. CASE MainInitSrc
  <2>1. UNCHANGED <<epPc, db, epAt>> /\ event' = [event EXCEPT ![k] = "RESET"]
    BY <1>5 DEF MainInitSrc, epVars, lifeVars
  <2> QED
    BY <1>1, <1>2, <2>1 DEF TypeOK
<1>6. CASE MainStartEp
  <2>1. UNCHANGED <<epPc, db, event>> /\ epAt' = [epAt EXCEPT ![k] = "setup"]
    BY <1>6 DEF MainStartEp, vars, epVars
  <2> QED
    BY <1>1, <1>2, <2>1 DEF AtTypeOK
<1>7. CASE MainReady \/ MainPassReady \/ MainReinit \/ MainAlloc \/ MainInitStart \/ MainStartSrc
           \/ MainInitEnd \/ MainStartIdle \/ MainStart \/ MainPassStart \/ MainWait
           \/ MainPassWait \/ MainExit
  <2>1. UNCHANGED <<epPc, db, event, epAt>>
    BY <1>7 DEF MainReady, MainPassReady, MainReinit, MainAlloc, MainInitStart, MainStartSrc,
       MainInitEnd, MainStartIdle, MainStart, MainPassStart, MainWait, MainPassWait, MainExit,
       vars, epVars, lifeVars
  <2> QED
    BY <1>2, <2>1
<1>8. ASSUME NEW e \in Procs, EpReady(e)
      PROVE  /\ \A s \in Sources : event'[s] = "RESET"
             /\ USE_DOORBELL => \A d \in Procs :
                  /\ epPc'[d] \notin {"scan", "handle"}
                  /\ epAt'[d] \notin {"none", "setup"} => db'[d] = "RESET"
  <2>1. /\ UNCHANGED <<epPc, event>> /\ epAt' = [epAt EXCEPT ![e] = "atReady"]
        /\ USE_DOORBELL => db' = [db EXCEPT ![e] = "RESET"]
    BY <1>8 DEF EpReady, EpAt, epVars
  <2> QED
    BY <1>1, <1>2, <2>1 DEF AtTypeOK, TypeOK
<1>9. ASSUME NEW e \in Procs, EpGo(e) \/ EpScanWild(e) \/ EpEnd(e) \/ EpReturn(e)
      PROVE  /\ \A s \in Sources : event'[s] = "RESET"
             /\ USE_DOORBELL => \A d \in Procs :
                  /\ epPc'[d] \notin {"scan", "handle"}
                  /\ epAt'[d] \notin {"none", "setup"} => db'[d] = "RESET"
  <2>1. UNCHANGED <<epPc, event, db>>
    BY <1>9 DEF EpGo, EpScanWild, EpEnd, EpReturn, vars, epVars
  <2>2. \A d \in Procs : epAt[d] \in {"none", "setup"} => epAt'[d] = epAt[d]
    BY <1>1, <1>9 DEF EpGo, EpScanWild, EpEnd, EpReturn, EpAt, AtTypeOK, lifeVars
  <2> QED
    BY <1>2, <2>1, <2>2
<1>10. ASSUME NEW e \in Procs, EpScanRaw(e)
       PROVE  ~USE_DOORBELL /\ event' = event
  BY <1>2, <1>10 DEF EpScanRaw
<1>11. ASSUME NEW s \in Sources, SrcReady(s) \/ SrcGo(s) \/ SrcEnd(s) \/ SrcReturn(s)
       PROVE  FALSE
  BY <1>3, <1>11 DEF SrcReady, SrcGo, SrcEnd, SrcReturn, SrcAt
<1>12. ASSUME NEW i \in Idles, IdleEnd(i) \/ IdleReturn(i)
       PROVE  UNCHANGED <<epPc, db, event, epAt>>
  BY <1>12 DEF IdleEnd, IdleReturn, vars, epVars
<1> QED
  BY <1>2, <1>4, <1>5, <1>6, <1>7, <1>8, <1>9, <1>10, <1>11, <1>12, NextCases

------------------------------------------------------------------------------
(* Nothing uninitialised is scanned                                         *)

LEMMA ScansReadyHolds ==
  ASSUME BTypeOK, MemInv, QuietInv, USE_DOORBELL
  PROVE  ScansReady
<1>1. \A e \in Procs : idx[e] \in Sources
  BY TypesOf DEF TypeOK
<1> QED
  BY <1>1 DEF ScansReady, MemInv, QuietInv, NoSrcYet

LEMMA CrashStep == BTypeOK /\ MemInv /\ QuietInv /\ CrashInv /\ BenchNext => CrashInv'
<1> SUFFICES ASSUME BTypeOK, MemInv, QuietInv, CrashInv, BenchNext, USE_DOORBELL' PROVE ~crashed'
  BY DEF CrashInv
<1>1. USE_DOORBELL /\ ~crashed
  BY StageOrder DEF CrashInv, USE_DOORBELL
<1>2. \A e \in Procs : ~EpScanWild(e)
  BY <1>1, ScansReadyHolds DEF ScansReady, EpScanWild
<1>3. CASE \/ LoopStep \/ \E e \in Procs : EpScanRaw(e)
  BY <1>1, <1>3 DEF LoopStep, EpScanRaw, benchVars
<1>4. CASE \/ \E e \in Procs : EpReady(e) \/ EpGo(e) \/ EpEnd(e) \/ EpReturn(e)
           \/ \E s \in Sources : SrcReady(s) \/ SrcGo(s) \/ SrcEnd(s) \/ SrcReturn(s)
           \/ \E i \in Idles : IdleEnd(i) \/ IdleReturn(i)
  BY <1>1, <1>4 DEF EpReady, EpGo, EpEnd, EpReturn, SrcReady, SrcGo, SrcEnd, SrcReturn,
     IdleEnd, IdleReturn
<1>5. CASE MainStartEp \/ MainReady \/ MainPassReady \/ MainReinit \/ MainAlloc
           \/ MainInitSrc \/ MainInitStart \/ MainStartSrc \/ MainInitEnd \/ MainStartIdle
           \/ MainStart \/ MainPassStart \/ MainWait \/ MainPassWait \/ MainExit
  BY <1>1, <1>5 DEF MainStartEp, MainReady, MainPassReady, MainReinit, MainAlloc,
     MainInitSrc, MainInitStart, MainStartSrc, MainInitEnd, MainStartIdle, MainStart,
     MainPassStart, MainWait, MainPassWait, MainExit
<1> QED
  BY <1>2, <1>3, <1>4, <1>5, NextCases

LifeInv == BTypeOK /\ PcInv /\ MemInv /\ QuietInv /\ CrashInv

LEMMA LifeInit == BenchInit => LifeInv
<1> SUFFICES ASSUME BenchInit PROVE LifeInv
  OBVIOUS
<1>1. PcInv
  BY DEF BenchInit, Start, PcInv
<1>2. MemInv /\ QuietInv /\ CrashInv
  BY DEF BenchInit, Start, MemInv, QuietInv, CrashInv, NoInitYet
<1> QED
  BY <1>1, <1>2, InitBType DEF LifeInv

LEMMA LifeStep == LifeInv /\ [BenchNext]_allVars => LifeInv'
<1> SUFFICES ASSUME LifeInv, [BenchNext]_allVars PROVE LifeInv'
  OBVIOUS
<1>1. CASE BenchNext
  BY <1>1, BTypeNext, PcNext, MemStep, StillStep, CrashStep DEF LifeInv
<1>2. CASE UNCHANGED allVars
  <2>1. /\ UNCHANGED <<vars, bar, ticket, stage, k, epAt, srcAt, idleAt, mem, crashed>>
    BY <1>2 DEF allVars, benchVars, lifeVars, barVars
  <2>2. UNCHANGED <<setup, event, db, epPc, srcPc, epEnd, mainPc>>
    BY <2>1 DEF vars, fixed, epVars, stopVars
  <2>3. TypeOK'
    BY <2>1, TypesOf, SameVars DEF LifeInv
  <2>4. BTypeOK'
    BY <2>1, <2>2, <2>3 DEF LifeInv, BTypeOK, BenchTypeOK, MainInv, PlaceInv
  <2>5. PcInv' /\ MemInv' /\ QuietInv' /\ CrashInv'
    BY <2>1, <2>2 DEF LifeInv, PcInv, MemInv, QuietInv, CrashInv, USE_DOORBELL
  <2> QED
    BY <2>4, <2>5 DEF LifeInv
<1> QED
  BY <1>1, <1>2

\* Type correctness of a whole run: through its startup, the loops and its end every
\* loop variable of main stays within the list it walks.
THEOREM BenchTyped == BenchSpec => []BenchTypeOK
<1>1. LifeInv => BenchTypeOK
  BY DEF LifeInv, BTypeOK
<1> QED
  BY <1>1, LifeInit, LifeStep, PTL DEF BenchSpec

\* epThread announces "we are now ready to accept events" (wfey.c:343) before main has
\* allocated a source: with a doorbell nothing is scanned, and nothing crashes, before
\* main has initialised every one.
THEOREM NothingScannedRaw == BenchSpec => []ScanAfterInit
<1>1. LifeInv => ScanAfterInit
  BY ScansReadyHolds DEF LifeInv, ScanAfterInit, CrashInv
<1> QED
  BY <1>1, LifeInit, LifeStep, PTL DEF BenchSpec

------------------------------------------------------------------------------
(* Who has entered which barrier: the counts of the library's records are    *)
(* numbers of threads.                                                       *)

ReadyEps  == {e \in Procs : epAt[e] \notin {"none", "setup"}}
GoneEps   == {e \in Procs : epAt[e] \in {"atEnd", "returned"}}
ReadySrcs == {s \in Sources : srcAt[s] \notin {"none", "setup"}}
GoneSrcs  == {s \in Sources : srcAt[s] \in {"atEnd", "returned"}}
GoneIdles == {i \in Idles : idleAt[i] \in {"atEnd", "returned"}}

\* Where main is with each of its barriers.
FirstRound  == stage \in {"startEp", "ready", "atReady", "reinit"}
MainReadied == stage \in {"atReady", "reinit"}
MainStarted == stage \in {"atStart", "run", "atWait", "exited"}
EpsEnded    == mainPc \in {"flagSrc", "killSrc", "waitSrcs", "done"}
MainAtEps   == EpsEnded \/ (stage = "atWait" /\ mainPc = "waitEps")
MainAtAll   == mainPc = "done" \/ (stage = "atWait" /\ mainPc = "waitSrcs")
HasStart    == stage \notin NoSrcYet
HasEnd      == NumIdle # 0 /\ stage \notin NoIdleYet

One(b) == IF b THEN 1 ELSE 0

\* Barrier b was initialised for n threads (0: not yet), a of which have entered: the
\* round is complete when the last one has.
BarIs(b, n, a) == /\ bar[b].count = n /\ bar[b].arrived = a
                  /\ bar[b].round = IF a = n THEN n ELSE 0

EpCount  == IF FirstRound THEN Cardinality(ReadyEps) + One(MainReadied)
                          ELSE Cardinality(GoneEps) + One(MainAtEps)
SrcCount == Cardinality(ReadySrcs) + One(MainStarted)
EndCount == Cardinality(GoneSrcs) + Cardinality(GoneIdles) + One(MainAtAll)
SrcSize  == IF HasStart THEN NumSources + 1 ELSE 0
EndSize  == IF HasEnd THEN NumIdle + NumSources + 1 ELSE 0

EpBar  == BarIs("epbarrier", NumProcs + 1, EpCount)
SrcBar == BarIs("srcbarrier", SrcSize, SrcCount)
EndBar == BarIs("endbarrier", EndSize, EndCount)
CountInv == EpBar /\ SrcBar /\ EndBar

LEMMA SetSizes ==
  /\ IsFiniteSet(Procs) /\ Cardinality(Procs) = NumProcs
  /\ IsFiniteSet(Sources) /\ Cardinality(Sources) = NumSources
  /\ IsFiniteSet(Idles) /\ Cardinality(Idles) = NumIdle
<1>1. NumProcs - 1 \in Int /\ NumSources - 1 \in Int /\ NumIdle - 1 \in Int /\ 0 \in Int
  BY Sizes
<1>2. /\ IsFiniteSet(0 .. NumProcs - 1) /\ Cardinality(0 .. NumProcs - 1) = NumProcs
  BY <1>1, FS_Interval, Sizes
<1>3. /\ IsFiniteSet(0 .. NumSources - 1) /\ Cardinality(0 .. NumSources - 1) = NumSources
  BY <1>1, FS_Interval, Sizes
<1>4. /\ IsFiniteSet(0 .. NumIdle - 1) /\ Cardinality(0 .. NumIdle - 1) = NumIdle
  BY <1>1, FS_Interval, Sizes
<1> QED
  BY <1>2, <1>3, <1>4 DEF Procs, Sources, Idles

\* The part A of a set S of n threads.
LEMMA PartSize ==
  ASSUME NEW S, IsFiniteSet(S), NEW A \in SUBSET S
  PROVE  /\ Cardinality(A) \in Nat /\ Cardinality(A) <= Cardinality(S)
         /\ Cardinality(A) = Cardinality(S) => A = S
  BY FS_Subset, FS_CardinalityType

LEMMA PartGrows ==
  ASSUME NEW S, IsFiniteSet(S), NEW A \in SUBSET S, NEW x \in S, x \notin A
  PROVE  /\ Cardinality(A \cup {x}) = Cardinality(A) + 1
         /\ Cardinality(A) < Cardinality(S)
<1>1. IsFiniteSet(A)
  BY FS_Subset
<1>2. Cardinality(A \cup {x}) = Cardinality(A) + 1
  BY <1>1, FS_AddElement
<1>3. Cardinality(A) # Cardinality(S) /\ Cardinality(A) <= Cardinality(S)
      /\ Cardinality(A) \in Nat /\ Cardinality(S) \in Nat
  BY PartSize, FS_CardinalityType
<1> QED
  BY <1>2, <1>3

LEMMA PartSizes ==
  /\ Cardinality(ReadyEps) \in Nat /\ Cardinality(ReadyEps) <= NumProcs
  /\ Cardinality(ReadyEps) = NumProcs => ReadyEps = Procs
  /\ Cardinality(GoneEps) \in Nat /\ Cardinality(GoneEps) <= NumProcs
  /\ Cardinality(GoneEps) = NumProcs => GoneEps = Procs
  /\ Cardinality(ReadySrcs) \in Nat /\ Cardinality(ReadySrcs) <= NumSources
  /\ Cardinality(ReadySrcs) = NumSources => ReadySrcs = Sources
  /\ Cardinality(GoneSrcs) \in Nat /\ Cardinality(GoneSrcs) <= NumSources
  /\ Cardinality(GoneSrcs) = NumSources => GoneSrcs = Sources
  /\ Cardinality(GoneIdles) \in Nat /\ Cardinality(GoneIdles) <= NumIdle
  /\ Cardinality(GoneIdles) = NumIdle => GoneIdles = Idles
<1>1. /\ ReadyEps \in SUBSET Procs /\ GoneEps \in SUBSET Procs
      /\ ReadySrcs \in SUBSET Sources /\ GoneSrcs \in SUBSET Sources
      /\ GoneIdles \in SUBSET Idles
  BY DEF ReadyEps, GoneEps, ReadySrcs, GoneSrcs, GoneIdles
<1>2. /\ Cardinality(ReadyEps) \in Nat /\ Cardinality(ReadyEps) <= NumProcs
      /\ Cardinality(ReadyEps) = NumProcs => ReadyEps = Procs
  BY <1>1, SetSizes, PartSize
<1>3. /\ Cardinality(GoneEps) \in Nat /\ Cardinality(GoneEps) <= NumProcs
      /\ Cardinality(GoneEps) = NumProcs => GoneEps = Procs
  BY <1>1, SetSizes, PartSize
<1>4. /\ Cardinality(ReadySrcs) \in Nat /\ Cardinality(ReadySrcs) <= NumSources
      /\ Cardinality(ReadySrcs) = NumSources => ReadySrcs = Sources
  BY <1>1, SetSizes, PartSize
<1>5. /\ Cardinality(GoneSrcs) \in Nat /\ Cardinality(GoneSrcs) <= NumSources
      /\ Cardinality(GoneSrcs) = NumSources => GoneSrcs = Sources
  BY <1>1, SetSizes, PartSize
<1>6. /\ Cardinality(GoneIdles) \in Nat /\ Cardinality(GoneIdles) <= NumIdle
      /\ Cardinality(GoneIdles) = NumIdle => GoneIdles = Idles
  BY <1>1, SetSizes, PartSize
<1> QED
  BY <1>2, <1>3, <1>4, <1>5, <1>6

LEMMA CountTypes == EpCount \in Nat /\ SrcCount \in Nat /\ EndCount \in Nat
  BY PartSizes DEF EpCount, SrcCount, EndCount, One

\* A completed round tells that everyone is there.
LEMMA RoundFull ==
  ASSUME CountInv
  PROVE  /\ FirstRound /\ bar["epbarrier"].round > 0 => ReadyEps = Procs /\ MainReadied
         /\ ~FirstRound /\ bar["epbarrier"].round > 0 => GoneEps = Procs /\ MainAtEps
         /\ bar["srcbarrier"].round > 0 => HasStart /\ ReadySrcs = Sources /\ MainStarted
         /\ bar["endbarrier"].round > 0 => /\ HasEnd /\ GoneSrcs = Sources /\ GoneIdles = Idles
                                           /\ MainAtAll
<1>1. ASSUME bar["epbarrier"].round > 0
      PROVE  EpCount = NumProcs + 1
  BY <1>1 DEF CountInv, EpBar, BarIs
<1>2. ASSUME bar["srcbarrier"].round > 0
      PROVE  SrcCount = SrcSize /\ SrcSize > 0
  BY <1>2 DEF CountInv, SrcBar, BarIs
<1>3. ASSUME bar["endbarrier"].round > 0
      PROVE  EndCount = EndSize /\ EndSize > 0
  BY <1>3 DEF CountInv, EndBar, BarIs
<1>4. ASSUME EpCount = NumProcs + 1
      PROVE  IF FirstRound THEN ReadyEps = Procs /\ MainReadied ELSE GoneEps = Procs /\ MainAtEps
  BY <1>4, PartSizes, Sizes DEF EpCount, One
<1>5. ASSUME SrcCount = SrcSize, SrcSize > 0
      PROVE  HasStart /\ ReadySrcs = Sources /\ MainStarted
  BY <1>5, PartSizes, Sizes DEF SrcCount, SrcSize, One
<1>6. ASSUME EndCount = EndSize, EndSize > 0
      PROVE  HasEnd /\ GoneSrcs = Sources /\ GoneIdles = Idles /\ MainAtAll
  <2>1. HasEnd /\ Cardinality(GoneSrcs) + Cardinality(GoneIdles) + One(MainAtAll)
                    = NumIdle + NumSources + 1
    BY <1>6 DEF EndCount, EndSize
  <2>2. One(MainAtAll) = 1 /\ Cardinality(GoneSrcs) = NumSources /\ Cardinality(GoneIdles) = NumIdle
    BY <2>1, PartSizes, Sizes DEF One
  <2> QED
    BY <2>1, <2>2, PartSizes DEF One
<1> QED
  BY <1>1, <1>2, <1>3, <1>4, <1>5, <1>6

\* One more thread enters.
LEMMA ArriveCounts ==
  ASSUME BarTypeOK, NEW t \in Threads, NEW b \in Barriers, NEW n \in Nat, NEW a \in Nat,
         BarIs(b, n, a), n = 0 \/ a < n, Arrive(t, b)
  PROVE  /\ bar'[b].count = n /\ bar'[b].arrived = a + 1
         /\ bar'[b].round = IF a + 1 = n THEN n ELSE 0
         /\ ticket'[t] = 0 => bar'[b].round > 0
<1>1. bar[b].count = n /\ bar[b].arrived = a /\ bar[b].round = 0
  BY DEF BarIs
<1>2. CASE n = a + 1
  BY <1>1, <1>2, ArriveType
<1>3. CASE n # a + 1
  BY <1>1, <1>3, ArriveType
<1> QED
  BY <1>2, <1>3

------------------------------------------------------------------------------
(* What the tickets tell                                                    *)

\* A thread that may leave the barrier it is at, or has left it, tells of a round that
\* is complete.
MainFree(at) == stage = at /\ ticket[Main] = 0
EpOut(e)     == epAt[e] = "returned" \/ (epAt[e] = "atEnd" /\ ticket[Ep(e)] = 0)
SrcOff(s)    == \/ srcAt[s] \in {"loop", "atEnd", "returned"}
                \/ srcAt[s] = "atStart" /\ ticket[Src(s)] = 0
SrcOut(s)    == srcAt[s] = "returned" \/ (srcAt[s] = "atEnd" /\ ticket[Src(s)] = 0)

TicketInv ==
  /\ MainFree("atReady") => bar["epbarrier"].round > 0
  /\ MainFree("atWait") => bar[WaitBarrier].round > 0
  /\ \A e \in Procs : EpOut(e) => bar["epbarrier"].round > 0
  /\ \A s \in Sources : SrcOff(s) => bar["srcbarrier"].round > 0
  /\ \A s \in Sources : SrcOut(s) => bar["endbarrier"].round > 0

\* What main has waited for has happened.
WaitedInv ==
  /\ stage \notin {"startEp", "ready", "atReady"} => ReadyEps = Procs
  /\ EpsEnded => GoneEps = Procs
  /\ mainPc = "done" => GoneSrcs = Sources /\ GoneIdles = Idles

RunInv == LifeInv /\ CountInv /\ TicketInv /\ WaitedInv

\* Before main is past a barrier nobody has gone further.
LEMMA NobodyAhead ==
  ASSUME RunInv
  PROVE  /\ FirstRound => GoneEps = {}
         /\ ~HasStart => ReadySrcs = {} /\ \A s \in Sources : srcAt[s] = "none"
         /\ ~MainStarted => GoneSrcs = {} /\ \A s \in Sources : ~SrcOff(s)
         /\ stage \in NoIdleYet => GoneIdles = {}
<1>1. PcInv /\ MainInv /\ PlaceInv /\ CountInv /\ TicketInv
  BY TypesOf DEF RunInv, LifeInv
<1>2. FirstRound => GoneEps = {}
  BY <1>1 DEF FirstRound, GoneEps, PcInv, MainInv
<1>3. ~HasStart => ReadySrcs = {} /\ \A s \in Sources : srcAt[s] = "none"
  BY <1>1 DEF HasStart, ReadySrcs, PlaceInv
<1>4. stage \in NoIdleYet => GoneIdles = {}
  BY <1>1 DEF GoneIdles, PlaceInv
<1>5. ~MainStarted => \A s \in Sources : ~SrcOff(s)
  BY <1>1, RoundFull DEF TicketInv
<1>6. GoneSrcs # {} => \E s \in Sources : SrcOff(s)
  BY DEF GoneSrcs, SrcOff
<1> QED
  BY <1>2, <1>3, <1>4, <1>5, <1>6

------------------------------------------------------------------------------
(* The steps at which nobody enters a barrier                               *)

SameFlags == /\ FirstRound' <=> FirstRound
             /\ MainReadied' <=> MainReadied
             /\ MainStarted' <=> MainStarted
             /\ MainAtEps' <=> MainAtEps
             /\ MainAtAll' <=> MainAtAll
             /\ HasStart' <=> HasStart
             /\ HasEnd' <=> HasEnd

SameParts == UNCHANGED <<ReadyEps, GoneEps, ReadySrcs, GoneSrcs, GoneIdles>>

LEMMA OneSame ==
  ASSUME SameFlags
  PROVE  /\ One(MainReadied)' = One(MainReadied) /\ One(MainStarted)' = One(MainStarted)
         /\ One(MainAtEps)' = One(MainAtEps) /\ One(MainAtAll)' = One(MainAtAll)
  BY DEF SameFlags, One

LEMMA StillCounts ==
  ASSUME CountInv, UNCHANGED bar, SameFlags, SameParts
  PROVE  CountInv'
<1>1. EpCount' = EpCount
  BY OneSame DEF SameFlags, SameParts, EpCount
<1>2. SrcCount' = SrcCount /\ EndCount' = EndCount
  BY OneSame DEF SameFlags, SameParts, SrcCount, EndCount
<1>3. SrcSize' = SrcSize /\ EndSize' = EndSize
  BY DEF SameFlags, SrcSize, EndSize
<1> QED
  BY <1>1, <1>2, <1>3 DEF CountInv, EpBar, SrcBar, EndBar, BarIs

LEMMA StillTickets ==
  ASSUME TicketInv, UNCHANGED bar,
         MainFree("atReady")' => MainFree("atReady"),
         MainFree("atWait")' => MainFree("atWait") /\ WaitBarrier' = WaitBarrier,
         \A e \in Procs : EpOut(e)' => EpOut(e) \/ bar["epbarrier"].round > 0,
         \A s \in Sources : SrcOff(s)' => SrcOff(s) \/ bar["srcbarrier"].round > 0,
         \A s \in Sources : SrcOut(s)' => SrcOut(s) \/ bar["endbarrier"].round > 0
  PROVE  TicketInv'
  BY DEF TicketInv

\* The loops' own steps, and those of main's that are no barrier's.
LEMMA LoopRun ==
  ASSUME RunInv, \/ LoopStep \/ MainAlloc \/ MainInitSrc \/ MainExit
                 \/ \E e \in Procs : EpScanWild(e) \/ EpScanRaw(e)
  PROVE  CountInv' /\ TicketInv' /\ WaitedInv'
<1>1. UNCHANGED <<bar, ticket, epAt, srcAt, idleAt>>
  BY DEF LoopStep, MainAlloc, MainInitSrc, MainExit, EpScanWild, EpScanRaw, benchVars, barVars,
     lifeVars
<1>2. \/ /\ stage' = stage
         /\ \/ mainPc' = mainPc
            \/ stage = "run" /\ <<mainPc, mainPc'>> \in
                 {<<"usleep", "flagEp">>, <<"flagEp", "killEp">>, <<"killEp", "flagEp">>,
                  <<"killEp", "waitEps">>, <<"flagSrc", "killSrc">>, <<"killSrc", "flagSrc">>,
                  <<"killSrc", "waitSrcs">>}
      \/ /\ mainPc' = mainPc
         /\ <<stage, stage'>> \in {<<"alloc", "initSrc">>, <<"initSrc", "initSrc">>,
                                   <<"initSrc", "initStart">>, <<"run", "exited">>}
  <2>1. CASE LoopStep
    <3>1. stage' = stage
      BY <2>1 DEF LoopStep, benchVars
    <3>2. CASE \/ \E e \in Procs : EpStep(e) \/ EpSignal(e) \/ ExternalEvent(e)
               \/ \E s \in Sources : SrcStep(s) \/ SrcSignal(s)
      BY <3>1, <3>2 DEF EpStep, EpTest, EpWfe, EpArmMonitor, EpBell, EpScanIdle, EpScanActive, EpHandle,
         EpSignal, ExternalEvent, SrcStep, SrcTest, SrcNap, SrcWake, SrcActivate, SrcPress, SrcSev,
         SrcSignal, stopVars
    <3>3. CASE stage = "run" /\ (MainUsleep \/ MainFlagEp \/ MainKillEp \/ MainFlagSrc \/ MainKillSrc)
      BY <3>1, <3>3 DEF MainUsleep, MainFlagEp, MainKillEp, MainFlagSrc, MainKillSrc, MainGoto
    <3> QED
      BY <2>1, <3>2, <3>3 DEF LoopStep
  <2>2. CASE MainAlloc \/ MainInitSrc \/ MainExit
    BY <2>2 DEF MainAlloc, MainInitSrc, MainExit, Goto, Loop, vars, stopVars
  <2>3. CASE \E e \in Procs : EpScanWild(e) \/ EpScanRaw(e)
    BY <2>3 DEF EpScanWild, EpScanRaw, benchVars, vars, stopVars
  <2> QED
    BY <2>1, <2>2, <2>3
<1>3. SameFlags
  BY <1>2 DEF SameFlags, FirstRound, MainReadied, MainStarted, MainAtEps, MainAtAll, HasStart,
     HasEnd, EpsEnded, NoIdleYet, NoSrcYet, NoInitYet
<1>4. SameParts
  BY <1>1 DEF SameParts, ReadyEps, GoneEps, ReadySrcs, GoneSrcs, GoneIdles
<1>5. CountInv'
  BY <1>1, <1>3, <1>4, StillCounts DEF RunInv
<1>6. /\ MainFree("atReady")' => MainFree("atReady")
      /\ MainFree("atWait")' => MainFree("atWait") /\ WaitBarrier' = WaitBarrier
  BY <1>1, <1>2 DEF MainFree, WaitBarrier
<1>7. /\ \A e \in Procs : EpOut(e)' => EpOut(e)
      /\ \A s \in Sources : (SrcOff(s)' => SrcOff(s)) /\ (SrcOut(s)' => SrcOut(s))
  BY <1>1 DEF EpOut, SrcOff, SrcOut
<1>8. TicketInv'
  BY <1>1, <1>6, <1>7, StillTickets DEF RunInv
<1>9. WaitedInv'
  <2>1. /\ EpsEnded' => EpsEnded
        /\ mainPc' = "done" => mainPc = "done"
        /\ stage' \notin {"startEp", "ready", "atReady"} => stage \notin {"startEp", "ready", "atReady"}
    BY <1>2 DEF EpsEnded
  <2> QED
    BY <1>4, <2>1 DEF RunInv, WaitedInv, SameParts
<1> QED
  BY <1>5, <1>8, <1>9

\* The steps that create threads.
LEMMA CreateRun ==
  ASSUME RunInv, MainStartEp \/ MainStartSrc \/ MainStartIdle
  PROVE  CountInv' /\ TicketInv' /\ WaitedInv'
<1>1. KTypeOK /\ AtTypeOK /\ PlaceInv
  BY TypesOf DEF RunInv, LifeInv
<1>2. UNCHANGED <<bar, ticket, mainPc>>
  BY DEF MainStartEp, MainStartSrc, MainStartIdle, barVars, vars, stopVars
<1>3. \A e \in Procs : epAt'[e] = epAt[e] \/ (epAt[e] = "none" /\ epAt'[e] = "setup")
  <2>1. CASE MainStartEp
    <3>1. k \in Procs /\ epAt[k] = "none" /\ epAt' = [epAt EXCEPT ![k] = "setup"]
      BY <1>1, <2>1 DEF MainStartEp, Loop, KTypeOK, PlaceInv, Procs
    <3> QED
      BY <1>1, <3>1 DEF AtTypeOK
  <2> QED
    BY <2>1 DEF MainStartSrc, MainStartIdle
<1>4. \A s \in Sources : srcAt'[s] = srcAt[s] \/ (srcAt[s] = "none" /\ srcAt'[s] = "setup")
  <2>1. CASE MainStartSrc
    <3>1. k \in Sources /\ srcAt[k] = "none" /\ srcAt' = [srcAt EXCEPT ![k] = "setup"]
      BY <1>1, <2>1 DEF MainStartSrc, Loop, KTypeOK, PlaceInv, Sources
    <3> QED
      BY <1>1, <3>1 DEF AtTypeOK
  <2> QED
    BY <2>1 DEF MainStartEp, MainStartIdle
<1>5. \A i \in Idles : idleAt'[i] = idleAt[i] \/ (idleAt[i] = "none" /\ idleAt'[i] = "setup")
  <2>1. CASE MainStartIdle
    <3>1. k \in Idles /\ idleAt[k] = "none" /\ idleAt' = [idleAt EXCEPT ![k] = "setup"]
      BY <1>1, <2>1 DEF MainStartIdle, Loop, KTypeOK, PlaceInv, Idles, NoIdleYet, NoSrcYet, NoInitYet
    <3> QED
      BY <1>1, <3>1 DEF AtTypeOK
  <2> QED
    BY <2>1 DEF MainStartEp, MainStartSrc
<1>6. SameParts
  BY <1>3, <1>4, <1>5 DEF SameParts, ReadyEps, GoneEps, ReadySrcs, GoneSrcs, GoneIdles
<1>7. <<stage, stage'>> \in {<<"startEp", "startEp">>, <<"startEp", "ready">>,
         <<"startSrc", "startSrc">>, <<"startSrc", "initEnd">>,
         <<"startIdle", "startIdle">>, <<"startIdle", "start">>}
  BY DEF MainStartEp, MainStartSrc, MainStartIdle, Loop
<1>8. SameFlags
  BY <1>2, <1>7 DEF SameFlags, FirstRound, MainReadied, MainStarted, MainAtEps, MainAtAll, HasStart,
     HasEnd, EpsEnded, NoIdleYet, NoSrcYet, NoInitYet
<1>9. CountInv'
  BY <1>2, <1>6, <1>8, StillCounts DEF RunInv
<1>10. /\ ~MainFree("atReady")' /\ ~MainFree("atWait")'
       /\ \A e \in Procs : EpOut(e)' => EpOut(e)
       /\ \A s \in Sources : (SrcOff(s)' => SrcOff(s)) /\ (SrcOut(s)' => SrcOut(s))
  BY <1>2, <1>3, <1>4, <1>7 DEF EpOut, SrcOff, SrcOut, MainFree
<1>11. TicketInv'
  BY <1>2, <1>10, StillTickets DEF RunInv
<1>12. WaitedInv'
  BY <1>2, <1>6, <1>7 DEF RunInv, WaitedInv, SameParts, EpsEnded
<1> QED
  BY <1>9, <1>11, <1>12

------------------------------------------------------------------------------
(* The steps at which somebody leaves a barrier                             *)

LEMMA LeaveRound ==
  ASSUME BarTypeOK, NEW t \in Threads, NEW b \in Barriers, Leave(t, b)
  PROVE  ticket[t] = 0 \/ bar[b].round > 0
<1>1. ticket[t] \in Nat /\ bar[b].round \in Nat /\ ticket[t] <= bar[b].round
  BY LeaveType DEF BarTypeOK, BarRecords
<1> QED
  BY <1>1

LEMMA MainLeaveRun ==
  ASSUME RunInv, MainPassReady \/ MainPassStart \/ MainPassWait
  PROVE  CountInv' /\ TicketInv' /\ WaitedInv'
<1>1. BarTypeOK /\ MainInv
  BY TypesOf DEF RunInv, LifeInv
<1>2. PICK b \in Barriers : /\ Leave(Main, b)
                            /\ stage = "atReady" => b = "epbarrier"
                            /\ stage = "atWait" => b = WaitBarrier
  BY DEF MainPassReady, MainPassStart, MainPassWait, Goto, WaitBarrier, Barriers
<1>3. /\ UNCHANGED <<bar, epAt, srcAt, idleAt>>
      /\ \A u \in Threads : u # Main => ticket'[u] = ticket[u]
  BY <1>1, <1>2, LeaveType, ThreadNames DEF MainPassReady, MainPassStart, MainPassWait, lifeVars
<1>4. \/ <<stage, stage'>> \in {<<"atReady", "reinit">>, <<"atStart", "run">>} /\ mainPc' = mainPc
      \/ /\ stage = "atWait" /\ stage' = "run"
         /\ <<mainPc, mainPc'>> \in {<<"waitEps", "flagSrc">>, <<"waitSrcs", "done">>}
  BY <1>1 DEF MainPassReady, MainPassStart, MainPassWait, Goto, vars, stopVars, MainInv
<1>5. SameFlags
  BY <1>1, <1>4 DEF SameFlags, FirstRound, MainReadied, MainStarted, MainAtEps, MainAtAll, HasStart,
     HasEnd, EpsEnded, NoIdleYet, NoSrcYet, NoInitYet, MainInv
<1>6. SameParts
  BY <1>3 DEF SameParts, ReadyEps, GoneEps, ReadySrcs, GoneSrcs, GoneIdles
<1>7. CountInv'
  BY <1>3, <1>5, <1>6, StillCounts DEF RunInv
<1>8. /\ \A e \in Procs : EpOut(e)' => EpOut(e)
      /\ \A s \in Sources : (SrcOff(s)' => SrcOff(s)) /\ (SrcOut(s)' => SrcOut(s))
  BY <1>3, ThreadNames, NamesDiffer DEF EpOut, SrcOff, SrcOut
<1>9. ~MainFree("atReady")' /\ ~MainFree("atWait")'
  BY <1>4 DEF MainFree
<1>10. TicketInv'
  BY <1>3, <1>8, <1>9, StillTickets DEF RunInv
<1>11. stage \in {"atReady", "atWait"} => bar[b].round > 0
  BY <1>1, <1>2, LeaveRound, ThreadNames DEF RunInv, TicketInv, MainFree
<1>12. WaitedInv'
  <2>1. CASE stage = "atReady"
    <3>1. ReadyEps = Procs
      BY <1>2, <1>11, <2>1, RoundFull DEF RunInv, FirstRound
    <3>2. ~EpsEnded' /\ mainPc' # "done"
      BY <1>1, <1>4, <2>1 DEF MainInv, EpsEnded
    <3> QED
      BY <1>6, <3>1, <3>2 DEF SameParts, WaitedInv
  <2>2. CASE stage = "atStart"
    BY <1>4, <1>6, <2>2 DEF SameParts, WaitedInv, RunInv, EpsEnded
  <2>3. CASE stage = "atWait" /\ mainPc = "waitEps"
    <3>1. GoneEps = Procs
      BY <1>2, <1>11, <2>3, RoundFull DEF RunInv, FirstRound, WaitBarrier
    <3> QED
      BY <1>4, <1>6, <2>3, <3>1 DEF SameParts, WaitedInv, RunInv
  <2>4. CASE stage = "atWait" /\ mainPc = "waitSrcs"
    <3>1. GoneSrcs = Sources /\ GoneIdles = Idles
      BY <1>2, <1>11, <2>4, RoundFull DEF RunInv, WaitBarrier
    <3> QED
      BY <1>4, <1>6, <2>4, <3>1 DEF SameParts, WaitedInv, RunInv, EpsEnded
  <2> QED
    BY <1>4, <2>1, <2>2, <2>3, <2>4
<1> QED
  BY <1>7, <1>10, <1>12

\* The same of the other threads, one of which goes from a place behind its creation
\* to the next and is counted as before.
LEMMA SameStage ==
  ASSUME UNCHANGED <<stage, mainPc>>
  PROVE  /\ SameFlags /\ WaitBarrier' = WaitBarrier
         /\ (EpsEnded' <=> EpsEnded)
         /\ \A at : MainFree(at)' <=> (stage = at /\ ticket'[Main] = 0)
  BY DEF SameFlags, FirstRound, MainReadied, MainStarted, MainAtEps, MainAtAll, HasStart,
     HasEnd, EpsEnded, NoIdleYet, NoSrcYet, NoInitYet, WaitBarrier, MainFree

LEMMA ThreadLeaveRun ==
  ASSUME RunInv, UNCHANGED <<stage, mainPc>>, SameParts, NEW t \in Threads, t # Main,
         NEW b \in Barriers, Leave(t, b),
         \A e \in Procs : EpOut(e)' => EpOut(e) \/ (Ep(e) = t /\ b = "epbarrier" /\ epAt[e] = "atEnd"),
         \A s \in Sources : SrcOff(s)' => SrcOff(s) \/ (Src(s) = t /\ b = "srcbarrier" /\ srcAt[s] = "atStart"),
         \A s \in Sources : SrcOut(s)' => SrcOut(s) \/ (Src(s) = t /\ b = "endbarrier" /\ srcAt[s] = "atEnd")
  PROVE  CountInv' /\ TicketInv' /\ WaitedInv'
<1>1. BarTypeOK
  BY TypesOf DEF RunInv, LifeInv
<1>2. bar' = bar /\ ticket'[Main] = ticket[Main]
  BY <1>1, LeaveType, ThreadNames
<1>3. CountInv'
  BY <1>2, SameStage, StillCounts DEF RunInv
<1>4. ticket[t] = 0 \/ bar[b].round > 0
  BY <1>1, LeaveRound
<1>5. TicketInv'
  <2>1. \A e \in Procs : EpOut(e)' => EpOut(e) \/ bar["epbarrier"].round > 0
    BY <1>4 DEF EpOut
  <2>2. \A s \in Sources : SrcOff(s)' => SrcOff(s) \/ bar["srcbarrier"].round > 0
    BY <1>4 DEF SrcOff
  <2>3. \A s \in Sources : SrcOut(s)' => SrcOut(s) \/ bar["endbarrier"].round > 0
    BY <1>4 DEF SrcOut
  <2>4. /\ MainFree("atReady")' => MainFree("atReady")
        /\ MainFree("atWait")' => MainFree("atWait") /\ WaitBarrier' = WaitBarrier
    BY <1>2, SameStage DEF MainFree
  <2> QED
    BY <1>2, <2>1, <2>2, <2>3, <2>4, StillTickets DEF RunInv
<1>6. WaitedInv'
  BY SameStage DEF RunInv, WaitedInv, SameParts
<1> QED
  BY <1>3, <1>5, <1>6

LEMMA EpLeaveRun ==
  ASSUME RunInv, NEW e \in Procs, EpGo(e) \/ EpReturn(e)
  PROVE  CountInv' /\ TicketInv' /\ WaitedInv'
<1>1. AtTypeOK /\ BarTypeOK
  BY TypesOf DEF RunInv, LifeInv
<1>2. Leave(Ep(e), "epbarrier") /\ UNCHANGED <<stage, mainPc, srcAt, idleAt>>
  BY DEF EpGo, EpReturn, vars, stopVars
<1>3. \/ epAt[e] = "atReady" /\ epAt' = [epAt EXCEPT ![e] = "loop"]
      \/ epAt[e] = "atEnd" /\ epAt' = [epAt EXCEPT ![e] = "returned"]
  BY DEF EpGo, EpReturn, EpAt
<1>4. \A d \in Procs : d # e => epAt'[d] = epAt[d]
  BY <1>1, <1>3 DEF AtTypeOK
<1>5. \/ epAt[e] = "atReady" /\ epAt'[e] = "loop"
      \/ epAt[e] = "atEnd" /\ epAt'[e] = "returned"
  BY <1>1, <1>3 DEF AtTypeOK
<1>6. SameParts
  BY <1>2, <1>4, <1>5 DEF SameParts, ReadyEps, GoneEps, ReadySrcs, GoneSrcs, GoneIdles
<1>7. Ep(e) \in Threads /\ Ep(e) # Main /\ "epbarrier" \in Barriers
  BY ThreadNames, NamesDiffer DEF Barriers
<1>8. \A u \in Threads : u # Ep(e) => ticket'[u] = ticket[u]
  BY <1>1, <1>2, <1>7, LeaveType
<1>9. \A d \in Procs : EpOut(d)' => EpOut(d) \/ (Ep(d) = Ep(e) /\ epAt[d] = "atEnd")
  BY <1>4, <1>5, <1>8, ThreadNames, NamesDiffer DEF EpOut
<1>10. \A s \in Sources : (SrcOff(s)' => SrcOff(s)) /\ (SrcOut(s)' => SrcOut(s))
  BY <1>2, <1>8, ThreadNames, NamesDiffer DEF SrcOff, SrcOut
<1> QED
  BY <1>2, <1>6, <1>7, <1>9, <1>10, ThreadLeaveRun

LEMMA SrcLeaveRun ==
  ASSUME RunInv, NEW s \in Sources, SrcGo(s) \/ SrcReturn(s)
  PROVE  CountInv' /\ TicketInv' /\ WaitedInv'
<1>1. AtTypeOK /\ BarTypeOK
  BY TypesOf DEF RunInv, LifeInv
<1>2. UNCHANGED <<stage, mainPc, epAt, idleAt>>
  BY DEF SrcGo, SrcReturn, vars, stopVars
<1>3. PICK b \in Barriers :
        /\ Leave(Src(s), b)
        /\ \/ b = "srcbarrier" /\ srcAt[s] = "atStart" /\ srcAt' = [srcAt EXCEPT ![s] = "loop"]
           \/ b = "endbarrier" /\ srcAt[s] = "atEnd" /\ srcAt' = [srcAt EXCEPT ![s] = "returned"]
  BY DEF SrcGo, SrcReturn, SrcAt, Barriers
<1>4. \A r \in Sources : r # s => srcAt'[r] = srcAt[r]
  BY <1>1, <1>3 DEF AtTypeOK
<1>5. \/ b = "srcbarrier" /\ srcAt[s] = "atStart" /\ srcAt'[s] = "loop"
      \/ b = "endbarrier" /\ srcAt[s] = "atEnd" /\ srcAt'[s] = "returned"
  BY <1>1, <1>3 DEF AtTypeOK
<1>6. SameParts
  BY <1>2, <1>4, <1>5 DEF SameParts, ReadyEps, GoneEps, ReadySrcs, GoneSrcs, GoneIdles
<1>7. Src(s) \in Threads /\ Src(s) # Main
  BY ThreadNames, NamesDiffer
<1>8. \A u \in Threads : u # Src(s) => ticket'[u] = ticket[u]
  BY <1>1, <1>3, <1>7, LeaveType
<1>9. \A e \in Procs : EpOut(e)' => EpOut(e)
  BY <1>2, <1>8, ThreadNames, NamesDiffer DEF EpOut
<1>10. \A r \in Sources :
         /\ SrcOff(r)' => SrcOff(r) \/ (Src(r) = Src(s) /\ b = "srcbarrier" /\ srcAt[r] = "atStart")
         /\ SrcOut(r)' => SrcOut(r) \/ (Src(r) = Src(s) /\ b = "endbarrier" /\ srcAt[r] = "atEnd")
  BY <1>4, <1>5, <1>8, ThreadNames, NamesDiffer DEF SrcOff, SrcOut
<1> QED
  BY <1>2, <1>3, <1>6, <1>7, <1>9, <1>10, ThreadLeaveRun

LEMMA IdleLeaveRun ==
  ASSUME RunInv, NEW i \in Idles, IdleReturn(i)
  PROVE  CountInv' /\ TicketInv' /\ WaitedInv'
<1>1. AtTypeOK /\ BarTypeOK
  BY TypesOf DEF RunInv, LifeInv
<1>2. /\ Leave(Idle(i), "endbarrier") /\ UNCHANGED <<stage, mainPc, epAt, srcAt>>
      /\ idleAt[i] = "atEnd" /\ idleAt' = [idleAt EXCEPT ![i] = "returned"]
  BY DEF IdleReturn, IdleAt, vars, stopVars
<1>3. SameParts
  BY <1>1, <1>2 DEF AtTypeOK, SameParts, ReadyEps, GoneEps, ReadySrcs, GoneSrcs, GoneIdles
<1>4. Idle(i) \in Threads /\ Idle(i) # Main /\ "endbarrier" \in Barriers
  BY ThreadNames, NamesDiffer DEF Barriers
<1>5. \A u \in Threads : u # Idle(i) => ticket'[u] = ticket[u]
  BY <1>1, <1>2, <1>4, LeaveType
<1>6. /\ \A e \in Procs : EpOut(e)' => EpOut(e)
      /\ \A s \in Sources : (SrcOff(s)' => SrcOff(s)) /\ (SrcOut(s)' => SrcOut(s))
  BY <1>2, <1>5, ThreadNames, NamesDiffer DEF EpOut, SrcOff, SrcOut
<1> QED
  BY <1>2, <1>3, <1>4, <1>6, ThreadLeaveRun

------------------------------------------------------------------------------
(* The steps at which somebody enters a barrier                             *)

LEMMA EnterCounts ==
  ASSUME BarTypeOK, CountInv, NEW t \in Threads, NEW b \in Barriers, Arrive(t, b),
         UNCHANGED <<SrcSize, EndSize>>,
         EpCount' = EpCount + One(b = "epbarrier"),
         SrcCount' = SrcCount + One(b = "srcbarrier"),
         EndCount' = EndCount + One(b = "endbarrier"),
         b = "epbarrier" => EpCount < NumProcs + 1,
         b = "srcbarrier" => SrcSize = 0 \/ SrcCount < SrcSize,
         b = "endbarrier" => EndSize = 0 \/ EndCount < EndSize
  PROVE  /\ CountInv'
         /\ bar[b].round = 0 /\ (ticket'[t] = 0 => bar'[b].round > 0)
         /\ \A c \in Barriers : c # b => bar'[c] = bar[c]
<1>1. /\ EpCount \in Nat /\ SrcCount \in Nat /\ EndCount \in Nat
      /\ NumProcs + 1 \in Nat /\ SrcSize \in Nat /\ EndSize \in Nat
  BY CountTypes, Sizes DEF SrcSize, EndSize
<1>2. \A c \in Barriers : c # b => bar'[c] = bar[c]
  BY ArriveType
<1>3. "epbarrier" \in Barriers /\ "srcbarrier" \in Barriers /\ "endbarrier" \in Barriers
  BY DEF Barriers
<1>4. CASE b = "epbarrier"
  <2>1. EpCount' = EpCount + 1 /\ SrcCount' = SrcCount /\ EndCount' = EndCount
    BY <1>1, <1>4 DEF One
  <2>2. /\ BarIs("epbarrier", NumProcs + 1, EpCount) /\ EpCount < NumProcs + 1
        /\ BarIs("srcbarrier", SrcSize, SrcCount) /\ BarIs("endbarrier", EndSize, EndCount)
    BY <1>4 DEF CountInv, EpBar, SrcBar, EndBar
  <2>3. /\ bar'[b].count = NumProcs + 1 /\ bar'[b].arrived = EpCount + 1
        /\ bar'[b].round = IF EpCount + 1 = NumProcs + 1 THEN NumProcs + 1 ELSE 0
        /\ ticket'[t] = 0 => bar'[b].round > 0
    BY <1>1, <1>4, <2>2, ArriveCounts
  <2>4. bar[b].round = 0
    BY <1>1, <1>4, <2>2 DEF BarIs
  <2>5. EpBar' /\ SrcBar' /\ EndBar'
    BY <1>2, <1>3, <1>4, <2>1, <2>2, <2>3 DEF EpBar, SrcBar, EndBar, BarIs
  <2> QED
    BY <1>2, <2>3, <2>4, <2>5 DEF CountInv
<1>5. CASE b = "srcbarrier"
  <2>1. EpCount' = EpCount /\ SrcCount' = SrcCount + 1 /\ EndCount' = EndCount
    BY <1>1, <1>5 DEF One
  <2>2. /\ BarIs("srcbarrier", SrcSize, SrcCount) /\ (SrcSize = 0 \/ SrcCount < SrcSize)
        /\ BarIs("epbarrier", NumProcs + 1, EpCount) /\ BarIs("endbarrier", EndSize, EndCount)
    BY <1>5 DEF CountInv, EpBar, SrcBar, EndBar
  <2>3. /\ bar'[b].count = SrcSize /\ bar'[b].arrived = SrcCount + 1
        /\ bar'[b].round = IF SrcCount + 1 = SrcSize THEN SrcSize ELSE 0
        /\ ticket'[t] = 0 => bar'[b].round > 0
    BY <1>1, <1>5, <2>2, ArriveCounts
  <2>4. bar[b].round = 0
    BY <1>1, <1>5, <2>2 DEF BarIs
  <2>5. EpBar' /\ SrcBar' /\ EndBar'
    BY <1>2, <1>3, <1>5, <2>1, <2>2, <2>3 DEF EpBar, SrcBar, EndBar, BarIs
  <2> QED
    BY <1>2, <2>3, <2>4, <2>5 DEF CountInv
<1>6. CASE b = "endbarrier"
  <2>1. EpCount' = EpCount /\ SrcCount' = SrcCount /\ EndCount' = EndCount + 1
    BY <1>1, <1>6 DEF One
  <2>2. /\ BarIs("endbarrier", EndSize, EndCount) /\ (EndSize = 0 \/ EndCount < EndSize)
        /\ BarIs("epbarrier", NumProcs + 1, EpCount) /\ BarIs("srcbarrier", SrcSize, SrcCount)
    BY <1>6 DEF CountInv, EpBar, SrcBar, EndBar
  <2>3. /\ bar'[b].count = EndSize /\ bar'[b].arrived = EndCount + 1
        /\ bar'[b].round = IF EndCount + 1 = EndSize THEN EndSize ELSE 0
        /\ ticket'[t] = 0 => bar'[b].round > 0
    BY <1>1, <1>6, <2>2, ArriveCounts
  <2>4. bar[b].round = 0
    BY <1>1, <1>6, <2>2 DEF BarIs
  <2>5. EpBar' /\ SrcBar' /\ EndBar'
    BY <1>2, <1>3, <1>6, <2>1, <2>2, <2>3 DEF EpBar, SrcBar, EndBar, BarIs
  <2> QED
    BY <1>2, <2>3, <2>4, <2>5 DEF CountInv
<1> QED
  BY <1>4, <1>5, <1>6 DEF Barriers

\* Nobody may leave a round that is not complete, so only the thread that completes it
\* becomes free.
LEMMA EnterTickets ==
  ASSUME TicketInv, NEW t \in Threads, NEW b \in Barriers,
         bar[b].round = 0, ticket'[t] = 0 => bar'[b].round > 0,
         \A c \in Barriers : c # b => bar'[c] = bar[c],
         MainFree("atReady")' => MainFree("atReady") \/ (b = "epbarrier" /\ ticket'[t] = 0),
         MainFree("atWait")' => \/ MainFree("atWait") /\ WaitBarrier' = WaitBarrier
                                \/ b = WaitBarrier' /\ ticket'[t] = 0,
         \A e \in Procs : EpOut(e)' => EpOut(e) \/ (b = "epbarrier" /\ ticket'[t] = 0),
         \A s \in Sources : SrcOff(s)' => SrcOff(s) \/ (b = "srcbarrier" /\ ticket'[t] = 0),
         \A s \in Sources : SrcOut(s)' => SrcOut(s) \/ (b = "endbarrier" /\ ticket'[t] = 0)
  PROVE  TicketInv'
<1>1. \A c \in Barriers : bar[c].round > 0 => bar'[c].round > 0
  OBVIOUS
<1>2. /\ "epbarrier" \in Barriers /\ "srcbarrier" \in Barriers /\ "endbarrier" \in Barriers
      /\ WaitBarrier \in Barriers
  BY DEF Barriers, WaitBarrier
<1> QED
  BY <1>1, <1>2 DEF TicketInv

LEMMA MainEnterRun ==
  ASSUME RunInv, MainReady \/ MainStart \/ MainWait
  PROVE  CountInv' /\ TicketInv' /\ WaitedInv'
<1>1. BarTypeOK /\ MainInv
  BY TypesOf DEF RunInv, LifeInv
<1>2. UNCHANGED <<epAt, srcAt, idleAt, mainPc>>
  BY DEF MainReady, MainStart, MainWait, lifeVars, vars, stopVars
<1>3. PICK b \in Barriers : /\ Arrive(Main, b)
                            /\ \/ b = "epbarrier" /\ stage = "ready" /\ stage' = "atReady"
                               \/ b = "srcbarrier" /\ stage = "start" /\ stage' = "atStart"
                               \/ /\ b = "epbarrier" /\ mainPc = "waitEps" /\ WaitBarrier' = b
                                  /\ stage = "run" /\ stage' = "atWait"
                               \/ /\ b = "endbarrier" /\ mainPc = "waitSrcs" /\ WaitBarrier' = b
                                  /\ stage = "run" /\ stage' = "atWait"
  BY <1>2 DEF MainReady, MainStart, MainWait, Goto, WaitBarrier, Barriers
<1>4. SameParts
  BY <1>2 DEF SameParts, ReadyEps, GoneEps, ReadySrcs, GoneSrcs, GoneIdles
<1>5. /\ UNCHANGED <<SrcSize, EndSize>>
      /\ FirstRound' <=> FirstRound
      /\ HasStart' <=> HasStart
  BY <1>3 DEF SrcSize, EndSize, HasStart, HasEnd, FirstRound, NoIdleYet, NoSrcYet, NoInitYet
<1>6. /\ EpCount' = EpCount + One(b = "epbarrier")
      /\ b = "epbarrier" => EpCount < NumProcs + 1
  <2>1. CASE stage = "ready"
    <3>1. /\ EpCount = Cardinality(ReadyEps) + 0 /\ EpCount' = Cardinality(ReadyEps) + 1
          /\ b = "epbarrier"
      BY <1>3, <1>4, <2>1 DEF EpCount, One, FirstRound, MainReadied, SameParts
    <3> QED
      BY <3>1, PartSizes, Sizes DEF One
  <2>2. CASE stage = "start"
    <3>1. /\ EpCount = Cardinality(GoneEps) + One(MainAtEps) /\ EpCount' = EpCount
          /\ b = "srcbarrier"
      BY <1>2, <1>3, <1>4, <2>2 DEF EpCount, One, FirstRound, MainAtEps, SameParts, EpsEnded
    <3> QED
      BY <3>1, CountTypes DEF One
  <2>3. CASE stage = "run" /\ mainPc = "waitEps"
    <3>1. /\ EpCount = Cardinality(GoneEps) + 0 /\ EpCount' = Cardinality(GoneEps) + 1
          /\ b = "epbarrier"
      BY <1>2, <1>3, <1>4, <2>3 DEF EpCount, One, FirstRound, MainAtEps, SameParts, EpsEnded
    <3> QED
      BY <3>1, PartSizes, Sizes DEF One
  <2>4. CASE stage = "run" /\ mainPc = "waitSrcs"
    <3>1. EpCount' = EpCount /\ b = "endbarrier"
      BY <1>2, <1>3, <1>4, <2>4 DEF EpCount, One, FirstRound, MainAtEps, SameParts, EpsEnded
    <3> QED
      BY <3>1, CountTypes DEF One
  <2> QED
    BY <1>3, <2>1, <2>2, <2>3, <2>4
<1>7. /\ SrcCount' = SrcCount + One(b = "srcbarrier")
      /\ b = "srcbarrier" => SrcSize = 0 \/ SrcCount < SrcSize
  <2>1. CASE stage = "start"
    <3>1. /\ SrcCount = Cardinality(ReadySrcs) + 0 /\ SrcCount' = Cardinality(ReadySrcs) + 1
          /\ b = "srcbarrier" /\ SrcSize = NumSources + 1
      BY <1>3, <1>4, <2>1 DEF SrcCount, One, MainStarted, SameParts, SrcSize, HasStart, NoSrcYet, NoInitYet
    <3> QED
      BY <3>1, PartSizes, Sizes DEF One
  <2>2. CASE stage # "start"
    <3>1. SrcCount' = SrcCount /\ b # "srcbarrier"
      BY <1>3, <1>4, <2>2 DEF SrcCount, One, MainStarted, SameParts
    <3> QED
      BY <3>1, CountTypes DEF One
  <2> QED
    BY <2>1, <2>2
<1>8. /\ EndCount' = EndCount + One(b = "endbarrier")
      /\ b = "endbarrier" => EndSize = 0 \/ EndCount < EndSize
  <2>1. CASE b = "endbarrier"
    <3>1. /\ EndCount = Cardinality(GoneSrcs) + Cardinality(GoneIdles) + 0
          /\ EndCount' = Cardinality(GoneSrcs) + Cardinality(GoneIdles) + 1
          /\ EndSize = 0 \/ EndSize = NumIdle + NumSources + 1
      BY <1>2, <1>3, <1>4, <2>1 DEF EndCount, One, MainAtAll, SameParts, EndSize
    <3> QED
      BY <2>1, <3>1, PartSizes, Sizes DEF One
  <2>2. CASE b # "endbarrier"
    <3>1. EndCount' = EndCount
      BY <1>1, <1>2, <1>3, <1>4, <2>2 DEF EndCount, One, MainAtAll, SameParts, MainInv
    <3> QED
      BY <2>2, <3>1, CountTypes DEF One
  <2> QED
    BY <2>1, <2>2
<1>9. Main \in Threads /\ CountInv /\ TicketInv
  BY ThreadNames DEF RunInv
<1>10. /\ CountInv'
       /\ bar[b].round = 0 /\ (ticket'[Main] = 0 => bar'[b].round > 0)
       /\ \A c \in Barriers : c # b => bar'[c] = bar[c]
  BY <1>1, <1>3, <1>5, <1>6, <1>7, <1>8, <1>9, EnterCounts
<1>11. \A u \in Threads : u # Main => ticket'[u] = ticket[u]
  BY <1>1, <1>3, <1>9, ArriveType
<1>12. /\ \A e \in Procs : EpOut(e)' => EpOut(e)
       /\ \A s \in Sources : (SrcOff(s)' => SrcOff(s)) /\ (SrcOut(s)' => SrcOut(s))
  BY <1>2, <1>11, ThreadNames, NamesDiffer DEF EpOut, SrcOff, SrcOut
<1>13. /\ MainFree("atReady")' => b = "epbarrier" /\ ticket'[Main] = 0
       /\ MainFree("atWait")' => b = WaitBarrier' /\ ticket'[Main] = 0
  BY <1>3 DEF MainFree
<1>14. TicketInv'
  BY <1>9, <1>10, <1>12, <1>13, EnterTickets
<1>15. WaitedInv'
  BY <1>2, <1>3, <1>4 DEF RunInv, WaitedInv, SameParts, EpsEnded
<1> QED
  BY <1>10, <1>14, <1>15

LEMMA EpReadyRun ==
  ASSUME RunInv, NEW e \in Procs, EpReady(e)
  PROVE  CountInv' /\ TicketInv' /\ WaitedInv'
<1>1. BarTypeOK /\ AtTypeOK /\ CountInv /\ TicketInv /\ WaitedInv
  BY TypesOf DEF RunInv, LifeInv
<1>2. /\ UNCHANGED <<stage, mainPc, srcAt, idleAt>> /\ Arrive(Ep(e), "epbarrier")
      /\ epAt[e] = "setup" /\ epAt' = [epAt EXCEPT ![e] = "atReady"]
  BY DEF EpReady, EpAt, stopVars
<1>3. /\ e \notin ReadyEps /\ ReadyEps' = ReadyEps \cup {e}
      /\ UNCHANGED <<GoneEps, ReadySrcs, GoneSrcs, GoneIdles>>
  BY <1>1, <1>2 DEF AtTypeOK, ReadyEps, GoneEps, ReadySrcs, GoneSrcs, GoneIdles
<1>4. FirstRound /\ (stage \in {"startEp", "ready", "atReady"})
  BY <1>1, <1>3 DEF WaitedInv, FirstRound
<1>5. SameFlags /\ (EpsEnded' <=> EpsEnded) /\ WaitBarrier' = WaitBarrier
  BY <1>2, SameStage
<1>6. /\ UNCHANGED <<SrcSize, EndSize>>
      /\ SrcCount' = SrcCount /\ EndCount' = EndCount
  BY <1>3, <1>5, OneSame DEF SameFlags, SrcSize, EndSize, SrcCount, EndCount
<1>7. /\ EpCount' = EpCount + 1 /\ EpCount < NumProcs + 1
  <2>1. ReadyEps \in SUBSET Procs
    BY DEF ReadyEps
  <2>2. Cardinality(ReadyEps') = Cardinality(ReadyEps) + 1 /\ Cardinality(ReadyEps) < NumProcs
    BY <1>3, <2>1, SetSizes, PartGrows
  <2>3. /\ EpCount = Cardinality(ReadyEps) + One(MainReadied)
        /\ EpCount' = Cardinality(ReadyEps') + One(MainReadied)
    BY <1>4, <1>5, OneSame DEF EpCount, SameFlags
  <2> QED
    BY <2>2, <2>3, PartSizes, Sizes DEF One
<1>8. Ep(e) \in Threads /\ "epbarrier" \in Barriers
  BY ThreadNames DEF Barriers
<1>9. /\ EpCount' = EpCount + One("epbarrier" = "epbarrier")
      /\ SrcCount' = SrcCount + One("epbarrier" = "srcbarrier")
      /\ EndCount' = EndCount + One("epbarrier" = "endbarrier")
  BY <1>6, <1>7, CountTypes DEF One
<1>10. /\ CountInv'
       /\ bar["epbarrier"].round = 0 /\ (ticket'[Ep(e)] = 0 => bar'["epbarrier"].round > 0)
       /\ \A c \in Barriers : c # "epbarrier" => bar'[c] = bar[c]
  BY <1>1, <1>2, <1>6, <1>7, <1>8, <1>9, EnterCounts
<1>11. \A u \in Threads : u # Ep(e) => ticket'[u] = ticket[u]
  BY <1>1, <1>2, <1>8, ArriveType
<1>12. /\ \A d \in Procs : EpOut(d)' => EpOut(d)
       /\ \A s \in Sources : (SrcOff(s)' => SrcOff(s)) /\ (SrcOut(s)' => SrcOut(s))
  BY <1>1, <1>2, <1>11, ThreadNames, NamesDiffer DEF AtTypeOK, EpOut, SrcOff, SrcOut
<1>13. (MainFree("atReady")' => MainFree("atReady")) /\ (MainFree("atWait")' => MainFree("atWait"))
  BY <1>2, <1>11, ThreadNames, NamesDiffer DEF MainFree
<1>14. TicketInv'
  BY <1>1, <1>5, <1>8, <1>10, <1>12, <1>13, EnterTickets
<1>15. WaitedInv'
  BY <1>1, <1>2, <1>3, <1>4, <1>5 DEF WaitedInv
<1> QED
  BY <1>10, <1>14, <1>15

LEMMA EpEndRun ==
  ASSUME RunInv, NEW e \in Procs, EpEnd(e)
  PROVE  CountInv' /\ TicketInv' /\ WaitedInv'
<1>1. BarTypeOK /\ AtTypeOK /\ MainInv /\ PcInv /\ CountInv /\ TicketInv /\ WaitedInv
  BY TypesOf DEF RunInv, LifeInv
<1>2. /\ UNCHANGED <<stage, mainPc, srcAt, idleAt>> /\ Arrive(Ep(e), "epbarrier")
      /\ epAt[e] = "loop" /\ epAt' = [epAt EXCEPT ![e] = "atEnd"] /\ epPc[e] = "out"
  BY DEF EpEnd, EpAt, vars, stopVars
<1>3. /\ e \notin GoneEps /\ GoneEps' = GoneEps \cup {e}
      /\ UNCHANGED <<ReadyEps, ReadySrcs, GoneSrcs, GoneIdles>>
  BY <1>1, <1>2 DEF AtTypeOK, ReadyEps, GoneEps, ReadySrcs, GoneSrcs, GoneIdles
<1>4. ~FirstRound
  BY <1>1, <1>2 DEF MainInv, PcInv, FirstRound
<1>5. SameFlags /\ (EpsEnded' <=> EpsEnded) /\ WaitBarrier' = WaitBarrier
  BY <1>2, SameStage
<1>6. /\ UNCHANGED <<SrcSize, EndSize>>
      /\ SrcCount' = SrcCount /\ EndCount' = EndCount
  BY <1>3, <1>5, OneSame DEF SameFlags, SrcSize, EndSize, SrcCount, EndCount
<1>7. /\ EpCount' = EpCount + 1 /\ EpCount < NumProcs + 1
  <2>1. GoneEps \in SUBSET Procs
    BY DEF GoneEps
  <2>2. Cardinality(GoneEps') = Cardinality(GoneEps) + 1 /\ Cardinality(GoneEps) < NumProcs
    BY <1>3, <2>1, SetSizes, PartGrows
  <2>3. /\ EpCount = Cardinality(GoneEps) + One(MainAtEps)
        /\ EpCount' = Cardinality(GoneEps') + One(MainAtEps)
    BY <1>4, <1>5, OneSame DEF EpCount, SameFlags
  <2> QED
    BY <2>2, <2>3, PartSizes, Sizes DEF One
<1>8. Ep(e) \in Threads /\ "epbarrier" \in Barriers
  BY ThreadNames DEF Barriers
<1>9. /\ EpCount' = EpCount + One("epbarrier" = "epbarrier")
      /\ SrcCount' = SrcCount + One("epbarrier" = "srcbarrier")
      /\ EndCount' = EndCount + One("epbarrier" = "endbarrier")
  BY <1>6, <1>7, CountTypes DEF One
<1>10. /\ CountInv'
       /\ bar["epbarrier"].round = 0 /\ (ticket'[Ep(e)] = 0 => bar'["epbarrier"].round > 0)
       /\ \A c \in Barriers : c # "epbarrier" => bar'[c] = bar[c]
  BY <1>1, <1>2, <1>6, <1>7, <1>8, <1>9, EnterCounts
<1>11. \A u \in Threads : u # Ep(e) => ticket'[u] = ticket[u]
  BY <1>1, <1>2, <1>8, ArriveType
<1>12. /\ \A d \in Procs : EpOut(d)' => EpOut(d) \/ ticket'[Ep(e)] = 0
       /\ \A s \in Sources : (SrcOff(s)' => SrcOff(s)) /\ (SrcOut(s)' => SrcOut(s))
  BY <1>1, <1>2, <1>11, ThreadNames, NamesDiffer DEF AtTypeOK, EpOut, SrcOff, SrcOut
<1>13. (MainFree("atReady")' => MainFree("atReady")) /\ (MainFree("atWait")' => MainFree("atWait"))
  BY <1>2, <1>11, ThreadNames, NamesDiffer DEF MainFree
<1>14. TicketInv'
  BY <1>1, <1>5, <1>8, <1>10, <1>12, <1>13, EnterTickets
<1>15. WaitedInv'
  BY <1>1, <1>2, <1>3, <1>5 DEF WaitedInv, GoneEps
<1> QED
  BY <1>10, <1>14, <1>15

LEMMA SrcReadyRun ==
  ASSUME RunInv, NEW r \in Sources, SrcReady(r)
  PROVE  CountInv' /\ TicketInv' /\ WaitedInv'
<1>1. BarTypeOK /\ AtTypeOK /\ PlaceInv /\ CountInv /\ TicketInv /\ WaitedInv
  BY TypesOf DEF RunInv, LifeInv
<1>2. /\ UNCHANGED <<stage, mainPc, epAt, idleAt>> /\ Arrive(Src(r), "srcbarrier")
      /\ srcAt[r] = "setup" /\ srcAt' = [srcAt EXCEPT ![r] = "atStart"]
  BY DEF SrcReady, SrcAt, vars, stopVars
<1>3. /\ r \notin ReadySrcs /\ ReadySrcs' = ReadySrcs \cup {r}
      /\ UNCHANGED <<ReadyEps, GoneEps, GoneSrcs, GoneIdles>>
  BY <1>1, <1>2 DEF AtTypeOK, ReadyEps, GoneEps, ReadySrcs, GoneSrcs, GoneIdles
<1>4. SameFlags /\ (EpsEnded' <=> EpsEnded) /\ WaitBarrier' = WaitBarrier
  BY <1>2, SameStage
<1>5. /\ UNCHANGED <<SrcSize, EndSize>>
      /\ EpCount' = EpCount /\ EndCount' = EndCount
  BY <1>3, <1>4, OneSame DEF SameFlags, SrcSize, EndSize, EpCount, EndCount
<1>6. /\ SrcCount' = SrcCount + 1 /\ (SrcSize = 0 \/ SrcCount < SrcSize)
  <2>1. ReadySrcs \in SUBSET Sources
    BY DEF ReadySrcs
  <2>2. Cardinality(ReadySrcs') = Cardinality(ReadySrcs) + 1 /\ Cardinality(ReadySrcs) < NumSources
    BY <1>3, <2>1, SetSizes, PartGrows
  <2>3. /\ SrcCount = Cardinality(ReadySrcs) + One(MainStarted)
        /\ SrcCount' = Cardinality(ReadySrcs') + One(MainStarted)
        /\ SrcSize = 0 \/ SrcSize = NumSources + 1
    BY <1>3, <1>4, OneSame DEF SrcCount, SrcSize
  <2> QED
    BY <2>2, <2>3, PartSizes, Sizes DEF One
<1>7. Src(r) \in Threads /\ "srcbarrier" \in Barriers
  BY ThreadNames DEF Barriers
<1>8. /\ EpCount' = EpCount + One("srcbarrier" = "epbarrier")
      /\ SrcCount' = SrcCount + One("srcbarrier" = "srcbarrier")
      /\ EndCount' = EndCount + One("srcbarrier" = "endbarrier")
  BY <1>5, <1>6, CountTypes DEF One
<1>9. /\ CountInv'
      /\ bar["srcbarrier"].round = 0 /\ (ticket'[Src(r)] = 0 => bar'["srcbarrier"].round > 0)
      /\ \A c \in Barriers : c # "srcbarrier" => bar'[c] = bar[c]
  BY <1>1, <1>2, <1>5, <1>6, <1>7, <1>8, EnterCounts
<1>10. \A u \in Threads : u # Src(r) => ticket'[u] = ticket[u]
  BY <1>1, <1>2, <1>7, ArriveType
<1>11. /\ \A e \in Procs : EpOut(e)' => EpOut(e)
       /\ \A s \in Sources : (SrcOff(s)' => SrcOff(s) \/ ticket'[Src(r)] = 0) /\ (SrcOut(s)' => SrcOut(s))
  BY <1>1, <1>2, <1>10, ThreadNames, NamesDiffer DEF AtTypeOK, EpOut, SrcOff, SrcOut
<1>12. (MainFree("atReady")' => MainFree("atReady")) /\ (MainFree("atWait")' => MainFree("atWait"))
  BY <1>2, <1>10, ThreadNames, NamesDiffer DEF MainFree
<1>13. TicketInv'
  BY <1>1, <1>4, <1>7, <1>9, <1>11, <1>12, EnterTickets
<1>14. WaitedInv'
  BY <1>1, <1>2, <1>3, <1>4 DEF WaitedInv
<1> QED
  BY <1>9, <1>13, <1>14

LEMMA SrcEndRun ==
  ASSUME RunInv, NEW r \in Sources, SrcEnd(r)
  PROVE  CountInv' /\ TicketInv' /\ WaitedInv'
<1>1. BarTypeOK /\ AtTypeOK /\ PlaceInv /\ CountInv /\ TicketInv /\ WaitedInv
  BY TypesOf DEF RunInv, LifeInv
<1>2. /\ UNCHANGED <<stage, mainPc, epAt, idleAt>> /\ Arrive(Src(r), "endbarrier")
      /\ srcAt[r] = "loop" /\ srcAt' = [srcAt EXCEPT ![r] = "atEnd"]
  BY DEF SrcEnd, SrcAt, vars, stopVars
<1>3. /\ r \notin GoneSrcs /\ GoneSrcs' = GoneSrcs \cup {r}
      /\ UNCHANGED <<ReadyEps, GoneEps, ReadySrcs, GoneIdles>>
  BY <1>1, <1>2 DEF AtTypeOK, ReadyEps, GoneEps, ReadySrcs, GoneSrcs, GoneIdles
<1>4. SameFlags /\ (EpsEnded' <=> EpsEnded) /\ WaitBarrier' = WaitBarrier
  BY <1>2, SameStage
<1>5. /\ UNCHANGED <<SrcSize, EndSize>>
      /\ EpCount' = EpCount /\ SrcCount' = SrcCount
  BY <1>3, <1>4, OneSame DEF SameFlags, SrcSize, EndSize, EpCount, SrcCount
<1>6. /\ EndCount' = EndCount + 1 /\ (EndSize = 0 \/ EndCount < EndSize)
  <2>1. GoneSrcs \in SUBSET Sources
    BY DEF GoneSrcs
  <2>2. Cardinality(GoneSrcs') = Cardinality(GoneSrcs) + 1 /\ Cardinality(GoneSrcs) < NumSources
    BY <1>3, <2>1, SetSizes, PartGrows
  <2>3. /\ EndCount = Cardinality(GoneSrcs) + Cardinality(GoneIdles) + One(MainAtAll)
        /\ EndCount' = Cardinality(GoneSrcs') + Cardinality(GoneIdles) + One(MainAtAll)
        /\ EndSize = 0 \/ EndSize = NumIdle + NumSources + 1
    BY <1>3, <1>4, OneSame DEF EndCount, EndSize
  <2> QED
    BY <2>2, <2>3, PartSizes, Sizes DEF One
<1>7. Src(r) \in Threads /\ "endbarrier" \in Barriers
  BY ThreadNames DEF Barriers
<1>8. /\ EpCount' = EpCount + One("endbarrier" = "epbarrier")
      /\ SrcCount' = SrcCount + One("endbarrier" = "srcbarrier")
      /\ EndCount' = EndCount + One("endbarrier" = "endbarrier")
  BY <1>5, <1>6, CountTypes DEF One
<1>9. /\ CountInv'
      /\ bar["endbarrier"].round = 0 /\ (ticket'[Src(r)] = 0 => bar'["endbarrier"].round > 0)
      /\ \A c \in Barriers : c # "endbarrier" => bar'[c] = bar[c]
  BY <1>1, <1>2, <1>5, <1>6, <1>7, <1>8, EnterCounts
<1>10. \A u \in Threads : u # Src(r) => ticket'[u] = ticket[u]
  BY <1>1, <1>2, <1>7, ArriveType
<1>11. /\ \A e \in Procs : EpOut(e)' => EpOut(e)
       /\ \A s \in Sources : (SrcOff(s)' => SrcOff(s)) /\ (SrcOut(s)' => SrcOut(s) \/ ticket'[Src(r)] = 0)
  BY <1>1, <1>2, <1>10, ThreadNames, NamesDiffer DEF AtTypeOK, EpOut, SrcOff, SrcOut
<1>12. (MainFree("atReady")' => MainFree("atReady")) /\ (MainFree("atWait")' => MainFree("atWait"))
  BY <1>2, <1>10, ThreadNames, NamesDiffer DEF MainFree
<1>13. TicketInv'
  BY <1>1, <1>4, <1>7, <1>9, <1>11, <1>12, EnterTickets
<1>14. WaitedInv'
  BY <1>1, <1>2, <1>3, <1>4 DEF WaitedInv
<1> QED
  BY <1>9, <1>13, <1>14

LEMMA IdleEndRun ==
  ASSUME RunInv, NEW i \in Idles, IdleEnd(i)
  PROVE  CountInv' /\ TicketInv' /\ WaitedInv'
<1>1. BarTypeOK /\ AtTypeOK /\ PlaceInv /\ CountInv /\ TicketInv /\ WaitedInv
  BY TypesOf DEF RunInv, LifeInv
<1>2. /\ UNCHANGED <<stage, mainPc, epAt, srcAt>> /\ Arrive(Idle(i), "endbarrier")
      /\ idleAt[i] = "setup" /\ idleAt' = [idleAt EXCEPT ![i] = "atEnd"]
  BY DEF IdleEnd, IdleAt, vars, stopVars
<1>3. /\ i \notin GoneIdles /\ GoneIdles' = GoneIdles \cup {i}
      /\ UNCHANGED <<ReadyEps, GoneEps, ReadySrcs, GoneSrcs>>
  BY <1>1, <1>2 DEF AtTypeOK, ReadyEps, GoneEps, ReadySrcs, GoneSrcs, GoneIdles
<1>4. SameFlags /\ (EpsEnded' <=> EpsEnded) /\ WaitBarrier' = WaitBarrier
  BY <1>2, SameStage
<1>5. /\ UNCHANGED <<SrcSize, EndSize>>
      /\ EpCount' = EpCount /\ SrcCount' = SrcCount
  BY <1>3, <1>4, OneSame DEF SameFlags, SrcSize, EndSize, EpCount, SrcCount
<1>6. /\ EndCount' = EndCount + 1 /\ (EndSize = 0 \/ EndCount < EndSize)
  <2>1. GoneIdles \in SUBSET Idles
    BY DEF GoneIdles
  <2>2. Cardinality(GoneIdles') = Cardinality(GoneIdles) + 1 /\ Cardinality(GoneIdles) < NumIdle
    BY <1>3, <2>1, SetSizes, PartGrows
  <2>3. /\ EndCount = Cardinality(GoneSrcs) + Cardinality(GoneIdles) + One(MainAtAll)
        /\ EndCount' = Cardinality(GoneSrcs) + Cardinality(GoneIdles') + One(MainAtAll)
        /\ EndSize = 0 \/ EndSize = NumIdle + NumSources + 1
    BY <1>3, <1>4, OneSame DEF EndCount, EndSize
  <2> QED
    BY <2>2, <2>3, PartSizes, Sizes DEF One
<1>7. Idle(i) \in Threads /\ "endbarrier" \in Barriers
  BY ThreadNames DEF Barriers
<1>8. /\ EpCount' = EpCount + One("endbarrier" = "epbarrier")
      /\ SrcCount' = SrcCount + One("endbarrier" = "srcbarrier")
      /\ EndCount' = EndCount + One("endbarrier" = "endbarrier")
  BY <1>5, <1>6, CountTypes DEF One
<1>9. /\ CountInv'
      /\ bar["endbarrier"].round = 0 /\ (ticket'[Idle(i)] = 0 => bar'["endbarrier"].round > 0)
      /\ \A c \in Barriers : c # "endbarrier" => bar'[c] = bar[c]
  BY <1>1, <1>2, <1>5, <1>6, <1>7, <1>8, EnterCounts
<1>10. \A u \in Threads : u # Idle(i) => ticket'[u] = ticket[u]
  BY <1>1, <1>2, <1>7, ArriveType
<1>11. /\ \A e \in Procs : EpOut(e)' => EpOut(e)
       /\ \A s \in Sources : (SrcOff(s)' => SrcOff(s)) /\ (SrcOut(s)' => SrcOut(s))
  BY <1>1, <1>2, <1>10, ThreadNames, NamesDiffer DEF AtTypeOK, EpOut, SrcOff, SrcOut
<1>12. (MainFree("atReady")' => MainFree("atReady")) /\ (MainFree("atWait")' => MainFree("atWait"))
  BY <1>2, <1>10, ThreadNames, NamesDiffer DEF MainFree
<1>13. TicketInv'
  BY <1>1, <1>4, <1>7, <1>9, <1>11, <1>12, EnterTickets
<1>14. WaitedInv'
  BY <1>1, <1>2, <1>3, <1>4 DEF WaitedInv
<1> QED
  BY <1>9, <1>13, <1>14

------------------------------------------------------------------------------
(* The steps at which a barrier is initialised: nobody is counted inside    *)

LEMMA InitBar ==
  ASSUME BarTypeOK, NEW b \in Barriers, NEW n \in Nat, BarrierInit(b, n)
  PROVE  /\ bar'[b].count = n /\ bar'[b].arrived = 0 /\ bar'[b].round = 0
         /\ \A c \in Barriers : c # b => bar'[c] = bar[c]
         /\ ticket' = ticket
  BY DEF BarTypeOK, BarrierInit

LEMMA ReinitRun ==
  ASSUME RunInv, MainReinit
  PROVE  CountInv' /\ TicketInv' /\ WaitedInv'
<1>1. BarTypeOK /\ MainInv /\ CountInv /\ TicketInv /\ WaitedInv /\ NumProcs + 1 \in Nat
  BY TypesOf, Sizes DEF RunInv, LifeInv
<1>2. /\ UNCHANGED <<epAt, srcAt, idleAt, mainPc>> /\ stage = "reinit" /\ stage' = "alloc"
      /\ BarrierInit("epbarrier", NumProcs + 1)
  BY DEF MainReinit, Goto, lifeVars, vars, stopVars
<1>3. /\ "epbarrier" \in Barriers /\ "srcbarrier" \in Barriers /\ "endbarrier" \in Barriers
  BY DEF Barriers
<1>4. /\ bar'["epbarrier"].count = NumProcs + 1 /\ bar'["epbarrier"].arrived = 0
      /\ bar'["epbarrier"].round = 0 /\ ticket' = ticket
      /\ bar'["srcbarrier"] = bar["srcbarrier"] /\ bar'["endbarrier"] = bar["endbarrier"]
  BY <1>1, <1>2, <1>3, InitBar
<1>5. SameParts
  BY <1>2 DEF SameParts, ReadyEps, GoneEps, ReadySrcs, GoneSrcs, GoneIdles
<1>6. GoneEps = {}
  BY <1>2, NobodyAhead DEF FirstRound
<1>7. EpBar'
  <2>1. /\ EpCount' = Cardinality(GoneEps) + 0
    BY <1>1, <1>2, <1>5 DEF EpCount, FirstRound, One, MainAtEps, EpsEnded, SameParts, MainInv
  <2>2. EpCount' = 0
    BY <1>6, <2>1, FS_EmptySet
  <2> QED
    BY <1>4, <2>2, Sizes DEF EpBar, BarIs
<1>8. SrcBar' /\ EndBar'
  <2>1. /\ SrcCount' = SrcCount /\ EndCount' = EndCount /\ SrcSize' = SrcSize /\ EndSize' = EndSize
    BY <1>2, <1>5 DEF SrcCount, EndCount, SrcSize, EndSize, One, MainStarted, MainAtAll, HasStart,
       HasEnd, NoIdleYet, NoSrcYet, NoInitYet, SameParts
  <2> QED
    BY <1>1, <1>4, <2>1 DEF CountInv, SrcBar, EndBar, BarIs
<1>9. TicketInv'
  <2>1. \A e \in Procs : ~EpOut(e)'
    BY <1>2, <1>6 DEF GoneEps, EpOut
  <2>2. ~MainFree("atReady")' /\ ~MainFree("atWait")'
    BY <1>2 DEF MainFree
  <2>3. \A s \in Sources : (SrcOff(s)' => SrcOff(s)) /\ (SrcOut(s)' => SrcOut(s))
    BY <1>2, <1>4 DEF SrcOff, SrcOut
  <2> QED
    BY <1>1, <1>4, <2>1, <2>2, <2>3 DEF TicketInv
<1>10. WaitedInv'
  BY <1>1, <1>2, <1>5 DEF WaitedInv, SameParts, EpsEnded
<1> QED
  BY <1>7, <1>8, <1>9, <1>10 DEF CountInv

LEMMA InitStartRun ==
  ASSUME RunInv, MainInitStart
  PROVE  CountInv' /\ TicketInv' /\ WaitedInv'
<1>1. BarTypeOK /\ MainInv /\ CountInv /\ TicketInv /\ WaitedInv /\ NumSources + 1 \in Nat
  BY TypesOf, Sizes DEF RunInv, LifeInv
<1>2. /\ UNCHANGED <<epAt, srcAt, idleAt, mainPc>> /\ stage = "initStart" /\ stage' = "startSrc"
      /\ BarrierInit("srcbarrier", NumSources + 1)
  BY DEF MainInitStart, Goto, lifeVars, vars, stopVars
<1>3. /\ "epbarrier" \in Barriers /\ "srcbarrier" \in Barriers /\ "endbarrier" \in Barriers
  BY DEF Barriers
<1>4. /\ bar'["srcbarrier"].count = NumSources + 1 /\ bar'["srcbarrier"].arrived = 0
      /\ bar'["srcbarrier"].round = 0 /\ ticket' = ticket
      /\ bar'["epbarrier"] = bar["epbarrier"] /\ bar'["endbarrier"] = bar["endbarrier"]
  BY <1>1, <1>2, <1>3, InitBar
<1>5. SameParts
  BY <1>2 DEF SameParts, ReadyEps, GoneEps, ReadySrcs, GoneSrcs, GoneIdles
<1>6. ReadySrcs = {} /\ \A s \in Sources : srcAt[s] = "none"
  BY <1>2, NobodyAhead DEF HasStart, NoSrcYet
<1>7. SrcBar'
  <2>1. /\ SrcCount' = Cardinality(ReadySrcs) + 0 /\ SrcSize' = NumSources + 1
    BY <1>2, <1>5 DEF SrcCount, SrcSize, One, MainStarted, HasStart, NoSrcYet, NoInitYet, SameParts
  <2>2. SrcCount' = 0
    BY <1>6, <2>1, FS_EmptySet
  <2> QED
    BY <1>4, <2>1, <2>2, Sizes DEF SrcBar, BarIs
<1>8. EpBar' /\ EndBar'
  <2>1. /\ EpCount' = EpCount /\ EndCount' = EndCount /\ EndSize' = EndSize
    BY <1>2, <1>5 DEF EpCount, EndCount, EndSize, One, FirstRound, MainAtEps, EpsEnded, MainAtAll,
       HasEnd, NoIdleYet, NoSrcYet, NoInitYet, SameParts
  <2> QED
    BY <1>1, <1>4, <2>1 DEF CountInv, EpBar, EndBar, BarIs
<1>9. TicketInv'
  <2>1. \A s \in Sources : ~SrcOff(s)' /\ ~SrcOut(s)'
    BY <1>2, <1>6 DEF SrcOff, SrcOut
  <2>2. ~MainFree("atReady")' /\ ~MainFree("atWait")'
    BY <1>2 DEF MainFree
  <2>3. \A e \in Procs : EpOut(e)' => EpOut(e)
    BY <1>2, <1>4 DEF EpOut
  <2> QED
    BY <1>1, <1>4, <2>1, <2>2, <2>3 DEF TicketInv
<1>10. WaitedInv'
  BY <1>1, <1>2, <1>5 DEF WaitedInv, SameParts, EpsEnded
<1> QED
  BY <1>7, <1>8, <1>9, <1>10 DEF CountInv

LEMMA InitEndRun ==
  ASSUME RunInv, MainInitEnd
  PROVE  CountInv' /\ TicketInv' /\ WaitedInv'
<1>1. /\ BarTypeOK /\ MainInv /\ CountInv /\ TicketInv /\ WaitedInv
      /\ NumIdle + NumSources + 1 \in Nat
  BY TypesOf, Sizes DEF RunInv, LifeInv
<1>2. /\ UNCHANGED <<epAt, srcAt, idleAt, mainPc>> /\ stage = "initEnd"
      /\ stage' \in {"startIdle", "start"}
  BY DEF MainInitEnd, Goto, lifeVars, vars, stopVars
<1>3. /\ "epbarrier" \in Barriers /\ "srcbarrier" \in Barriers /\ "endbarrier" \in Barriers
  BY DEF Barriers
<1>4. /\ IF NumIdle # 0
         THEN /\ bar'["endbarrier"].count = NumIdle + NumSources + 1
              /\ bar'["endbarrier"].arrived = 0 /\ bar'["endbarrier"].round = 0
         ELSE bar'["endbarrier"] = bar["endbarrier"]
      /\ bar'["epbarrier"] = bar["epbarrier"] /\ bar'["srcbarrier"] = bar["srcbarrier"]
      /\ ticket' = ticket
  <2>1. CASE NumIdle # 0
    <3>1. BarrierInit("endbarrier", NumIdle + NumSources + 1)
      BY <2>1 DEF MainInitEnd
    <3> QED
      BY <1>1, <1>3, <2>1, <3>1, InitBar
  <2>2. CASE NumIdle = 0
    BY <2>2 DEF MainInitEnd, barVars
  <2> QED
    BY <2>1, <2>2
<1>5. SameParts
  BY <1>2 DEF SameParts, ReadyEps, GoneEps, ReadySrcs, GoneSrcs, GoneIdles
<1>6. GoneSrcs = {} /\ GoneIdles = {}
  BY <1>2, NobodyAhead DEF MainStarted, NoIdleYet
<1>7. EndBar'
  <2>1. /\ EndCount' = Cardinality(GoneSrcs) + Cardinality(GoneIdles) + 0 /\ EndCount' = EndCount
        /\ EndSize' = (IF NumIdle # 0 THEN NumIdle + NumSources + 1 ELSE 0) /\ EndSize = 0
    BY <1>1, <1>2, <1>5 DEF EndCount, EndSize, One, MainAtAll, HasEnd, NoIdleYet, NoSrcYet, NoInitYet,
       SameParts, MainInv
  <2>2. EndCount' = 0
    BY <1>6, <2>1, FS_EmptySet
  <2> QED
    BY <1>1, <1>4, <2>1, <2>2, Sizes DEF CountInv, EndBar, BarIs
<1>8. EpBar' /\ SrcBar'
  <2>1. /\ EpCount' = EpCount /\ SrcCount' = SrcCount /\ SrcSize' = SrcSize
    BY <1>2, <1>5 DEF EpCount, SrcCount, SrcSize, One, FirstRound, MainAtEps, EpsEnded, MainStarted,
       HasStart, NoIdleYet, NoSrcYet, NoInitYet, SameParts
  <2> QED
    BY <1>1, <1>4, <2>1 DEF CountInv, EpBar, SrcBar, BarIs
<1>9. TicketInv'
  <2>1. \A s \in Sources : (SrcOff(s)' => SrcOff(s)) /\ ~SrcOut(s)'
    BY <1>2, <1>4, <1>6 DEF SrcOff, SrcOut, GoneSrcs
  <2>2. ~MainFree("atReady")' /\ ~MainFree("atWait")'
    BY <1>2 DEF MainFree
  <2>3. \A e \in Procs : EpOut(e)' => EpOut(e)
    BY <1>2, <1>4 DEF EpOut
  <2> QED
    BY <1>1, <1>4, <2>1, <2>2, <2>3 DEF TicketInv
<1>10. WaitedInv'
  BY <1>1, <1>2, <1>5 DEF WaitedInv, SameParts, EpsEnded
<1> QED
  BY <1>7, <1>8, <1>9, <1>10 DEF CountInv

------------------------------------------------------------------------------
(* The invariant of a run                                                   *)

LEMMA RunInit == BenchInit => RunInv
<1> SUFFICES ASSUME BenchInit PROVE RunInv
  OBVIOUS
<1>1. stage = "startEp" /\ mainPc = "usleep"
  BY DEF BenchInit, Start
<1>2. /\ ReadyEps = {} /\ GoneEps = {} /\ ReadySrcs = {} /\ GoneSrcs = {} /\ GoneIdles = {}
  BY DEF BenchInit, ReadyEps, GoneEps, ReadySrcs, GoneSrcs, GoneIdles
<1>3. EpCount = 0 /\ SrcCount = 0 /\ EndCount = 0 /\ SrcSize = 0 /\ EndSize = 0
  BY <1>1, <1>2, FS_EmptySet DEF EpCount, SrcCount, EndCount, SrcSize, EndSize, One, FirstRound,
     MainReadied, MainStarted, MainAtAll, HasStart, HasEnd, NoIdleYet, NoSrcYet, NoInitYet
<1>4. CountInv
  BY <1>3, Sizes DEF BenchInit, CountInv, EpBar, SrcBar, EndBar, BarIs, NoBarrier, Barriers
<1>5. TicketInv
  BY DEF BenchInit, TicketInv, MainFree, EpOut, SrcOff, SrcOut
<1>6. WaitedInv
  BY <1>1 DEF WaitedInv, EpsEnded
<1> QED
  BY <1>4, <1>5, <1>6, LifeInit DEF RunInv

LEMMA RunStep == RunInv /\ [BenchNext]_allVars => RunInv'
<1> SUFFICES ASSUME RunInv, [BenchNext]_allVars PROVE RunInv'
  OBVIOUS
<1>1. LifeInv'
  BY LifeStep DEF RunInv
<1>2. CASE UNCHANGED allVars
  <2>1. UNCHANGED <<bar, ticket, stage, epAt, srcAt, idleAt, mainPc>>
    BY <1>2 DEF allVars, benchVars, lifeVars, barVars, vars, stopVars
  <2>2. SameParts
    BY <2>1 DEF SameParts, ReadyEps, GoneEps, ReadySrcs, GoneSrcs, GoneIdles
  <2>3. CountInv'
    BY <2>1, <2>2, SameStage, StillCounts DEF RunInv
  <2>4. TicketInv' /\ WaitedInv'
    BY <2>1, <2>2 DEF RunInv, TicketInv, MainFree, WaitBarrier, EpOut, SrcOff, SrcOut, WaitedInv,
       EpsEnded, SameParts
  <2> QED
    BY <1>1, <2>3, <2>4 DEF RunInv
<1>3. CASE BenchNext
  <2>1. CountInv' /\ TicketInv' /\ WaitedInv'
    BY <1>3, NextCases, LoopRun, CreateRun, MainLeaveRun, EpLeaveRun, SrcLeaveRun, IdleLeaveRun,
       MainEnterRun, EpReadyRun, EpEndRun, SrcReadyRun, SrcEndRun, IdleEndRun,
       ReinitRun, InitStartRun, InitEndRun
  <2> QED
    BY <1>1, <2>1 DEF RunInv
<1> QED
  BY <1>2, <1>3

\* sourceThread "waits for all srcs to be ready then sends events" (wfey.c:493): with
\* any number of threads no source is let go before each is lined up and main, which
\* has started the idle threads, with them.
THEOREM AllStartTogether == BenchSpec => []StartTogether
<1>1. RunInv => StartTogether
  <2> SUFFICES ASSUME RunInv, NEW r \in Sources, srcAt[r] \in {"loop", "atEnd", "returned"}
               PROVE  /\ \A s \in Sources : srcAt[s] \notin {"none", "setup"}
                      /\ \A i \in Idles : idleAt[i] # "none"
                      /\ stage \in {"atStart", "run", "atWait", "exited"}
    BY DEF StartTogether
  <2>1. PlaceInv /\ CountInv /\ TicketInv
    BY TypesOf DEF RunInv, LifeInv
  <2>2. ReadySrcs = Sources /\ MainStarted
    BY <2>1, RoundFull DEF TicketInv, SrcOff
  <2>3. \A i \in Idles : idleAt[i] # "none"
    BY <2>1, <2>2 DEF PlaceInv, MainStarted, NoIdleYet, NoSrcYet, NoInitYet
  <2> QED
    BY <2>2, <2>3 DEF ReadySrcs, MainStarted
<1> QED
  BY <1>1, RunInit, RunStep, PTL DEF BenchSpec

\* main reads and frees the statistics after "wait for event processor to finish"
\* (wfey.c:731) and "wait for all source and idle threads" (wfey.c:743): none of these
\* threads is then on its loop, however many there are.
THEOREM QuietAtReport == BenchSpec => []ReportAfterQuiescence
<1>1. RunInv => ReportAfterQuiescence
  BY DEF RunInv, WaitedInv, ReportAfterQuiescence, GoneEps, GoneSrcs, GoneIdles, EpsEnded
<1> QED
  BY <1>1, RunInit, RunStep, PTL DEF BenchSpec

------------------------------------------------------------------------------
(* Signals                                                                  *)

LEMMA SignalStep ==
  ASSUME RunInv, BenchNext
  PROVE  /\ \A e \in Procs : epSig'[e] /\ ~epSig[e] => epAt[e] \notin {"none", "returned"}
         /\ \A s \in Sources : srcSig'[s] /\ ~srcSig[s] => srcAt[s] \notin {"none", "returned"}
<1>1. TypeOK /\ PlaceInv /\ CountInv /\ TicketInv
  BY TypesOf DEF RunInv, LifeInv
<1>2. ASSUME stage = "run", MainKillEp
      PROVE  /\ \A e \in Procs : epSig'[e] /\ ~epSig[e] => epAt[e] \notin {"none", "returned"}
             /\ srcSig' = srcSig
  <2>1. mainPc = "killEp" /\ srcSig' = srcSig
    BY <1>2 DEF MainKillEp, MainGoto
  <2>2. ~FirstRound /\ ~MainAtEps
    BY <1>2, <2>1 DEF FirstRound, MainAtEps, EpsEnded
  <2>3. \A e \in Procs : epAt[e] # "returned"
    BY <1>1, <2>2, RoundFull DEF TicketInv, EpOut
  <2>4. \A e \in Procs : epAt[e] # "none"
    BY <1>1, <1>2 DEF PlaceInv
  <2> QED
    BY <2>1, <2>3, <2>4
<1>3. ASSUME stage = "run", MainKillSrc
      PROVE  /\ \A s \in Sources : srcSig'[s] /\ ~srcSig[s] => srcAt[s] \notin {"none", "returned"}
             /\ epSig' = epSig
  <2>1. mainPc = "killSrc" /\ epSig' = epSig
    BY <1>3 DEF MainKillSrc, MainGoto
  <2>2. ~MainAtAll
    BY <1>3, <2>1 DEF MainAtAll
  <2>3. \A s \in Sources : srcAt[s] # "returned"
    BY <1>1, <2>2, RoundFull DEF TicketInv, SrcOut
  <2>4. \A s \in Sources : srcAt[s] # "none"
    BY <1>1, <1>3 DEF PlaceInv, NoSrcYet, NoInitYet
  <2> QED
    BY <2>1, <2>3, <2>4
<1>4. CASE LoopStep
  <2>1. CASE \E e \in Procs : EpStep(e) \/ ExternalEvent(e)
    BY <2>1 DEF EpStep, EpTest, EpWfe, EpArmMonitor, EpBell, EpScanIdle, EpScanActive, EpHandle,
       ExternalEvent, stopVars
  <2>2. CASE \E e \in Procs : EpSignal(e)
    BY <1>1, <2>2 DEF EpSignal, TypeOK
  <2>3. CASE \E s \in Sources : SrcStep(s)
    BY <2>3 DEF SrcStep, SrcTest, SrcNap, SrcWake, SrcActivate, SrcPress, SrcSev, stopVars
  <2>4. CASE \E s \in Sources : SrcSignal(s)
    BY <1>1, <2>4 DEF SrcSignal, TypeOK
  <2>5. CASE MainUsleep \/ MainFlagEp \/ MainFlagSrc
    BY <2>5 DEF MainUsleep, MainFlagEp, MainFlagSrc
  <2> QED
    BY <1>2, <1>3, <1>4, <2>1, <2>2, <2>3, <2>4, <2>5 DEF LoopStep
<1>5. CASE ~LoopStep
  <2>1. UNCHANGED <<epSig, srcSig>>
    <3>1. CASE MainStartEp \/ MainReady \/ MainPassReady \/ MainReinit \/ MainAlloc
               \/ MainInitSrc \/ MainInitStart \/ MainStartSrc \/ MainInitEnd \/ MainStartIdle
               \/ MainStart \/ MainPassStart \/ MainWait \/ MainPassWait \/ MainExit
      BY <3>1 DEF MainStartEp, MainReady, MainPassReady, MainReinit, MainAlloc, MainInitSrc,
         MainInitStart, MainStartSrc, MainInitEnd, MainStartIdle, MainStart, MainPassStart,
         MainWait, MainPassWait, MainExit, vars, stopVars
    <3>2. CASE \/ \E e \in Procs : \/ EpReady(e) \/ EpGo(e) \/ EpScanWild(e) \/ EpScanRaw(e)
                                   \/ EpEnd(e) \/ EpReturn(e)
               \/ \E s \in Sources : SrcReady(s) \/ SrcGo(s) \/ SrcEnd(s) \/ SrcReturn(s)
               \/ \E i \in Idles : IdleEnd(i) \/ IdleReturn(i)
      BY <3>2 DEF EpReady, EpGo, EpScanWild, EpScanRaw, EpEnd, EpReturn, SrcReady, SrcGo, SrcEnd,
         SrcReturn, IdleEnd, IdleReturn, vars, stopVars
    <3> QED
      BY <1>5, <3>1, <3>2, NextCases
  <2> QED
    BY <2>1
<1> QED
  BY <1>4, <1>5

\* "Individual flags sent because dont want to send a signal to an already cleaned up
\* source" (wfey.c:735): every pthread_kill of main finds its thread created and not
\* returned, because a thread returns only after a barrier that main enters later.
THEOREM SignalsFindThreads == BenchSpec => SignalsOnlyLive
<1>1. RunInv /\ [BenchNext]_allVars =>
        [ /\ \A e \in Procs : epSig'[e] /\ ~epSig[e] => epAt[e] \notin {"none", "returned"}
          /\ \A s \in Sources : srcSig'[s] /\ ~srcSig[s]
                                => srcAt[s] \notin {"none", "returned"} ]_allVars
  BY SignalStep
<1> QED
  BY <1>1, RunInit, RunStep, PTL DEF BenchSpec, SignalsOnlyLive

------------------------------------------------------------------------------
(* The whole run implements EventLoop                                       *)

\* The doorbells as EventLoop sees them.
Seen == [e \in Procs |-> IF epAt[e] \in {"none", "setup"} THEN "RESET" ELSE db[e]]

LEMMA SeenSet ==
  ASSUME TypeOK, NEW e \in Procs, epAt[e] \notin {"none", "setup"}, epAt' = epAt, NEW v,
         db' = [db EXCEPT ![e] = v]
  PROVE  Seen[e] = db[e] /\ Seen' = [Seen EXCEPT ![e] = v]
  BY DEF Seen, TypeOK

LEMMA SeenSame ==
  ASSUME db' = db, \A e \in Procs : epAt'[e] \in {"none", "setup"} <=> epAt[e] \in {"none", "setup"}
  PROVE  Seen' = Seen
  BY DEF Seen

LEMMA BenchBellUnused == RunInv /\ BellUnused /\ [BenchNext]_allVars => BellUnused'
<1> SUFFICES ASSUME RunInv, BellUnused, [BenchNext]_allVars PROVE BellUnused'
  OBVIOUS
<1>1. TypeOK
  BY TypesOf DEF RunInv, LifeInv
<1>2. CASE LoopStep
  BY <1>1, <1>2, BellUnusedStep DEF LoopStep, Next, MainStop
<1>3. CASE UNCHANGED <<setup, db, srcPc>>
  BY <1>3 DEF BellUnused, USE_DOORBELL
<1>4. ASSUME NEW e \in Procs, EpReady(e)
      PROVE  BellUnused'
  <2>1. UNCHANGED <<setup, srcPc>> /\ (USE_DOORBELL \/ db' = db)
    BY <1>4 DEF EpReady, fixed
  <2> QED
    BY <2>1 DEF BellUnused, USE_DOORBELL
<1>5. CASE MainStartEp \/ MainReady \/ MainPassReady \/ MainReinit \/ MainAlloc
           \/ MainInitSrc \/ MainInitStart \/ MainStartSrc \/ MainInitEnd \/ MainStartIdle
           \/ MainStart \/ MainPassStart \/ MainWait \/ MainPassWait \/ MainExit
  BY <1>3, <1>5 DEF MainStartEp, MainReady, MainPassReady, MainReinit, MainAlloc, MainInitSrc,
     MainInitStart, MainStartSrc, MainInitEnd, MainStartIdle, MainStart, MainPassStart,
     MainWait, MainPassWait, MainExit, vars, fixed
<1>6. CASE \/ \E e \in Procs : \/ EpGo(e) \/ EpScanWild(e) \/ EpScanRaw(e) \/ EpEnd(e) \/ EpReturn(e)
           \/ \E s \in Sources : SrcReady(s) \/ SrcGo(s) \/ SrcEnd(s) \/ SrcReturn(s)
           \/ \E i \in Idles : IdleEnd(i) \/ IdleReturn(i)
  BY <1>3, <1>6 DEF EpGo, EpScanWild, EpScanRaw, EpEnd, EpReturn, SrcReady, SrcGo, SrcEnd,
     SrcReturn, IdleEnd, IdleReturn, vars, fixed
<1>7. CASE UNCHANGED allVars
  BY <1>3, <1>7 DEF allVars, vars, fixed
<1> QED
  BY <1>2, <1>4, <1>5, <1>6, <1>7, NextCases

LEMMA IdealVars ==
  ASSUME UNCHANGED <<fixed, event, Seen, hwVars, epVars, srcPc, stopVars>>
  PROVE  UNCHANGED Ideal!vars
  BY DEF Seen, fixed, hwVars, epVars, stopVars, Ideal!vars, Ideal!fixed, Ideal!hwVars,
     Ideal!epVars, Ideal!stopVars

\* The steps of the loops are EventLoop's.
LEMMA LoopIdeal ==
  ASSUME RunInv, LoopStep
  PROVE  Ideal!Next
<1>1. TypeOK /\ PlaceInv /\ WaitedInv
  BY TypesOf DEF RunInv, LifeInv
<1>2. UNCHANGED <<stage, epAt, srcAt>>
  BY DEF LoopStep, benchVars, lifeVars
<1>3. db' = db => Seen' = Seen
  BY <1>2, SeenSame
<1> USE DEF Ideal!fixed, Ideal!hwVars, Ideal!epVars, Ideal!stopVars, fixed, hwVars, epVars, stopVars
<1>4. ASSUME NEW e \in Procs, epAt[e] = "loop", EpStep(e)
      PROVE  Ideal!EpStep(e)
  <2>1. CASE EpBell(e)
    <3>1. Seen[e] = db[e] /\ Seen' = [Seen EXCEPT ![e] = "RESET"]
      BY <1>1, <1>2, <1>4, <2>1, SeenSet DEF EpBell
    <3> QED
      BY <2>1, <3>1 DEF EpBell, EpGoto, Seen, Ideal!EpStep, Ideal!EpBell, Ideal!EpGoto
  <2>2. CASE EpTest(e) \/ EpWfe(e) \/ EpArmMonitor(e)
    <3>1. Seen' = Seen
      BY <1>3, <2>2 DEF EpTest, EpWfe, EpArmMonitor
    <3> QED
      BY <2>2, <3>1 DEF EpTest, EpWfe, EpArmMonitor, EpGoto, AfterWait, BUSY_POLL, USE_DOORBELL,
         USE_MONITOR, Seen, Ideal!EpStep, Ideal!EpTest, Ideal!EpWfe, Ideal!EpArmMonitor, Ideal!EpGoto,
         Ideal!AfterWait, Ideal!BUSY_POLL, Ideal!USE_DOORBELL, Ideal!USE_MONITOR
  <2>3. CASE EpScanIdle(e) \/ EpScanActive(e) \/ EpHandle(e)
    <3>1. Seen' = Seen
      BY <1>3, <2>3 DEF EpScanIdle, EpScanActive, EpHandle
    <3> QED
      BY <2>3, <3>1 DEF EpScanIdle, EpScanActive, EpHandle, EpGoto, NextSource, Seen, Ideal!EpStep,
         Ideal!EpScanIdle, Ideal!EpScanActive, Ideal!EpHandle, Ideal!EpGoto, Ideal!NextSource
  <2> QED
    BY <1>4, <2>1, <2>2, <2>3 DEF EpStep
<1>5. ASSUME NEW e \in Procs, EpSignal(e) \/ ExternalEvent(e)
      PROVE  Ideal!EpSignal(e) \/ Ideal!ExternalEvent(e)
  <2>1. Seen' = Seen
    BY <1>3, <1>5 DEF EpSignal, ExternalEvent
  <2> QED
    BY <1>5, <2>1 DEF EpSignal, ExternalEvent, Seen, Ideal!EpSignal, Ideal!ExternalEvent
<1>6. ASSUME NEW s \in Sources, srcAt[s] = "loop", SrcStep(s)
      PROVE  Ideal!SrcStep(s)
  <2>1. CASE SrcPress(s)
    <3>1. srcEp[s] \in Procs
      BY <1>1 DEF TypeOK
    <3>2. epAt[srcEp[s]] \notin {"none", "setup"}
      <4>1. stage \notin {"startEp", "ready", "atReady"}
        BY <1>1, <1>6 DEF PlaceInv, NoSrcYet, NoInitYet
      <4> QED
        BY <1>1, <3>1, <4>1 DEF WaitedInv, ReadyEps
    <3>3. Seen' = [Seen EXCEPT ![srcEp[s]] = "PRESSED"]
      BY <1>1, <1>2, <2>1, <3>1, <3>2, SeenSet DEF SrcPress
    <3> QED
      BY <2>1, <3>3 DEF SrcPress, SrcGoto, USE_MONITOR, MonitorSees, Seen, Ideal!SrcStep, Ideal!SrcPress,
         Ideal!SrcGoto, Ideal!USE_MONITOR, Ideal!MonitorSees
  <2>2. CASE SrcTest(s) \/ SrcNap(s) \/ SrcWake(s) \/ SrcActivate(s) \/ SrcSev(s)
    <3>1. Seen' = Seen
      BY <1>3, <2>2 DEF SrcTest, SrcNap, SrcWake, SrcActivate, SrcSev
    <3> QED
      BY <2>2, <3>1 DEF SrcTest, SrcNap, SrcWake, SrcActivate, SrcSev, SrcGoto, USE_MONITOR,
         USE_DOORBELL, Seen, Ideal!SrcStep, Ideal!SrcTest, Ideal!SrcNap, Ideal!SrcWake,
         Ideal!SrcActivate, Ideal!SrcSev, Ideal!SrcGoto, Ideal!USE_MONITOR, Ideal!USE_DOORBELL,
         Ideal!Procs, Procs
  <2> QED
    BY <1>6, <2>1, <2>2 DEF SrcStep
<1>7. ASSUME NEW s \in Sources, SrcSignal(s)
      PROVE  Ideal!SrcSignal(s)
  <2>1. Seen' = Seen
    BY <1>3, <1>7 DEF SrcSignal
  <2> QED
    BY <1>7, <2>1 DEF SrcSignal, Seen, Ideal!SrcSignal
<1>8. ASSUME MainUsleep \/ MainFlagEp \/ MainKillEp \/ MainFlagSrc \/ MainKillSrc
      PROVE  Ideal!MainUsleep \/ Ideal!MainStop
  <2>1. Seen' = Seen
    BY <1>3, <1>8 DEF MainUsleep, MainFlagEp, MainKillEp, MainFlagSrc, MainKillSrc
  <2> QED
    BY <1>8, <2>1 DEF MainUsleep, MainFlagEp, MainKillEp, MainFlagSrc, MainKillSrc, MainGoto, Seen,
       Ideal!MainStop, Ideal!MainUsleep, Ideal!MainFlagEp, Ideal!MainKillEp, Ideal!MainFlagSrc,
       Ideal!MainKillSrc, Ideal!MainGoto
<1>9. Ideal!Procs = Procs /\ Ideal!Sources = Sources
  BY DEF Ideal!Procs, Ideal!Sources, Procs, Sources
<1> QED
  BY <1>4, <1>5, <1>6, <1>7, <1>8, <1>9 DEF LoopStep, Ideal!Next

\* main leaves its last two barriers when EventLoop's ideal ones open.
LEMMA WaitIdeal ==
  ASSUME RunInv, RunInv', MainPassWait
  PROVE  Ideal!Next
<1>1. MainInv /\ PcInv
  BY TypesOf DEF RunInv, LifeInv
<1>2. /\ mainPc' = (IF mainPc = "waitEps" THEN "flagSrc" ELSE "done")
      /\ stage = "atWait" /\ mainPc \in {"waitEps", "waitSrcs"}
      /\ UNCHANGED <<setup, srcEp, event, db, eventReg, monitor, epPc, idx, srcPc, epEnd, srcEnd,
                     epSig, srcSig, mi, epAt, srcAt, idleAt>>
  BY <1>1 DEF MainPassWait, Goto, MainInv, fixed, hwVars, epVars, lifeVars
<1>3. Seen' = Seen
  BY <1>2, SeenSame
<1>4. WaitedInv'
  BY DEF RunInv
<1> USE DEF Ideal!fixed, Ideal!hwVars, Ideal!epVars, Ideal!stopVars
<1>5. CASE mainPc = "waitEps"
  <2>1. GoneEps' = Procs
    BY <1>2, <1>4, <1>5 DEF WaitedInv, EpsEnded
  <2>2. \A e \in Procs : epPc[e] = "out"
    BY <1>1, <1>2, <2>1 DEF GoneEps, PcInv
  <2>3. Ideal!MainWaitEps
    BY <1>2, <1>3, <1>5, <2>2 DEF Seen, Ideal!MainWaitEps, Ideal!MainGoto, Ideal!Procs, Procs
  <2> QED
    BY <2>3 DEF Ideal!Next, Ideal!MainStop
<1>6. CASE mainPc = "waitSrcs"
  <2>1. GoneSrcs' = Sources
    BY <1>2, <1>4, <1>6 DEF WaitedInv
  <2>2. \A s \in Sources : srcPc[s] = "out"
    BY <1>1, <1>2, <2>1 DEF GoneSrcs, PcInv
  <2>3. Ideal!MainWaitSrcs
    BY <1>2, <1>3, <1>6, <2>2 DEF Seen, Ideal!MainWaitSrcs, Ideal!MainGoto, Ideal!Sources, Sources
  <2> QED
    BY <2>3 DEF Ideal!Next, Ideal!MainStop
<1> QED
  BY <1>2, <1>5, <1>6

\* A scan of raw memory that happens not to look active is one of an idle source.
LEMMA RawIdeal ==
  ASSUME RunInv, NEW e \in Procs, EpScanRaw(e)
  PROVE  Ideal!Next
<1>1. TypeOK /\ MemInv /\ QuietInv
  BY TypesOf DEF RunInv, LifeInv
<1>2. idx[e] \in Sources /\ mem[idx[e]] = "raw" /\ epPc[e] = "scan"
  BY <1>1 DEF EpScanRaw, TypeOK
<1>3. event[idx[e]] # "ACTIVE"
  BY <1>1, <1>2 DEF MemInv, QuietInv, NoSrcYet
<1>4. db' = db /\ epAt' = epAt /\ NextSource(e) /\ UNCHANGED <<fixed, event, hwVars, srcPc, stopVars>>
  BY DEF EpScanRaw, benchVars, lifeVars
<1>5. Seen' = Seen
  BY <1>4, SeenSame
<1>6. Ideal!EpScanIdle(e)
  BY <1>2, <1>3, <1>4, <1>5 DEF NextSource, Seen, fixed, hwVars, stopVars, Ideal!EpScanIdle,
     Ideal!NextSource, Ideal!fixed, Ideal!hwVars, Ideal!stopVars
<1> QED
  BY <1>6 DEF Ideal!Next, Ideal!EpStep, Ideal!Procs, Procs

\* Creation, barriers and the end are no step of EventLoop.
LEMMA StartIdeal ==
  ASSUME RunInv, BellUnused,
         \/ MainStartEp \/ MainReady \/ MainPassReady \/ MainReinit \/ MainAlloc \/ MainInitSrc
         \/ MainInitStart \/ MainStartSrc \/ MainInitEnd \/ MainStartIdle \/ MainStart
         \/ MainPassStart \/ MainWait \/ MainExit
  PROVE  UNCHANGED Ideal!vars
<1>1. TypeOK /\ AtTypeOK /\ KTypeOK /\ PlaceInv /\ QuietInv
  BY TypesOf DEF RunInv, LifeInv
<1>2. CASE MainStartEp
  <2>1. k \in Procs /\ epAt[k] = "none" /\ epAt' = [epAt EXCEPT ![k] = "setup"]
    BY <1>1, <1>2 DEF MainStartEp, Loop, KTypeOK, PlaceInv, Procs
  <2>2. UNCHANGED <<fixed, event, db, hwVars, epVars, srcPc, stopVars>>
    BY <1>2 DEF MainStartEp, vars
  <2>3. Seen' = Seen
    BY <1>1, <2>1, <2>2, SeenSame DEF AtTypeOK
  <2> QED
    BY <2>2, <2>3, IdealVars
<1>3. CASE MainInitSrc
  <2>1. /\ UNCHANGED <<fixed, db, hwVars, epVars, srcPc, stopVars, epAt>>
        /\ event' = [event EXCEPT ![k] = "RESET"] /\ stage = "initSrc" /\ k \in Sources
    BY <1>1, <1>3 DEF MainInitSrc, lifeVars, Loop, KTypeOK
  <2>2. event' = event
    BY <1>1, <2>1 DEF QuietInv, NoSrcYet, NoInitYet, TypeOK
  <2> QED
    BY <2>1, <2>2, SeenSame, IdealVars
<1>4. CASE \/ MainReady \/ MainPassReady \/ MainReinit \/ MainAlloc
           \/ MainInitStart \/ MainStartSrc \/ MainInitEnd \/ MainStartIdle \/ MainStart
           \/ MainPassStart \/ MainWait \/ MainExit
  <2>1. UNCHANGED <<fixed, event, db, hwVars, epVars, srcPc, stopVars, epAt>>
    BY <1>4 DEF MainReady, MainPassReady, MainReinit, MainAlloc, MainInitStart, MainStartSrc,
       MainInitEnd, MainStartIdle, MainStart, MainPassStart, MainWait, MainExit, vars, lifeVars
  <2> QED
    BY <2>1, SeenSame, IdealVars
<1> QED
  BY <1>2, <1>3, <1>4

LEMMA PlaceIdeal ==
  ASSUME RunInv, BellUnused,
         \/ \E e \in Procs : EpReady(e) \/ EpGo(e) \/ EpScanWild(e) \/ EpEnd(e) \/ EpReturn(e)
         \/ \E s \in Sources : SrcReady(s) \/ SrcGo(s) \/ SrcEnd(s) \/ SrcReturn(s)
         \/ \E i \in Idles : IdleEnd(i) \/ IdleReturn(i)
  PROVE  UNCHANGED Ideal!vars
<1>1. TypeOK /\ AtTypeOK
  BY TypesOf DEF RunInv, LifeInv
<1>2. ASSUME NEW e \in Procs, EpReady(e)
      PROVE  UNCHANGED Ideal!vars
  <2>1. /\ UNCHANGED <<fixed, event, hwVars, epVars, srcPc, stopVars>>
        /\ epAt[e] = "setup" /\ epAt' = [epAt EXCEPT ![e] = "atReady"]
        /\ db' = IF USE_DOORBELL THEN [db EXCEPT ![e] = "RESET"] ELSE db
    BY <1>2 DEF EpReady, EpAt
  <2>2. db'[e] = "RESET" /\ \A d \in Procs : d # e => db'[d] = db[d]
    BY <1>1, <2>1 DEF BellUnused, TypeOK
  <2>3. epAt'[e] = "atReady" /\ \A d \in Procs : d # e => epAt'[d] = epAt[d]
    BY <1>1, <2>1 DEF AtTypeOK
  <2>4. Seen' = Seen
    BY <2>1, <2>2, <2>3 DEF Seen
  <2> QED
    BY <2>1, <2>4, IdealVars
<1>3. ASSUME NEW e \in Procs, EpGo(e) \/ EpScanWild(e) \/ EpEnd(e) \/ EpReturn(e)
      PROVE  UNCHANGED Ideal!vars
  <2>1. UNCHANGED <<fixed, event, db, hwVars, epVars, srcPc, stopVars>>
    BY <1>3 DEF EpGo, EpScanWild, EpEnd, EpReturn, vars
  <2>2. \A d \in Procs : epAt'[d] \in {"none", "setup"} <=> epAt[d] \in {"none", "setup"}
    BY <1>1, <1>3 DEF EpGo, EpScanWild, EpEnd, EpReturn, EpAt, AtTypeOK, lifeVars
  <2> QED
    BY <2>1, <2>2, SeenSame, IdealVars
<1>4. CASE \/ \E s \in Sources : SrcReady(s) \/ SrcGo(s) \/ SrcEnd(s) \/ SrcReturn(s)
           \/ \E i \in Idles : IdleEnd(i) \/ IdleReturn(i)
  <2>1. UNCHANGED <<fixed, event, db, hwVars, epVars, srcPc, stopVars, epAt>>
    BY <1>4 DEF SrcReady, SrcGo, SrcEnd, SrcReturn, IdleEnd, IdleReturn, vars
  <2> QED
    BY <2>1, SeenSame, IdealVars
<1> QED
  BY <1>2, <1>3, <1>4

\* With threads that are created one by one and real barriers, one of them initialised
\* anew between two rounds, the threads do what EventLoop says of them with ideal ones:
\* what is proved of the loop there holds in every run of the program.
THEOREM RunImplementsLoop == BenchSpec => ImplementsEventLoop
<1>1. BenchInit => RunInv /\ BellUnused /\ Ideal!Init
  <2> SUFFICES ASSUME BenchInit PROVE BellUnused /\ Ideal!Init
    BY RunInit
  <2>1. Start /\ Seen = [e \in Procs |-> "RESET"]
    BY DEF BenchInit, Seen
  <2>2. BellUnused
    BY DEF BenchInit, Start, BellUnused
  <2>3. Ideal!Start
    BY <2>1 DEF Start, Ideal!Start, Ideal!Procs, Ideal!Sources, Procs, Sources, USE_MONITOR, Ideal!USE_MONITOR
  <2>4. Ideal!Init
    BY <2>1, <2>3 DEF Seen, Ideal!Init, Ideal!Procs, Procs
  <2> QED
    BY <2>2, <2>4
<1>2. RunInv /\ BellUnused /\ [BenchNext]_allVars => RunInv' /\ BellUnused'
  BY RunStep, BenchBellUnused
<1>3. RunInv /\ RunInv' /\ BellUnused /\ [BenchNext]_allVars => [Ideal!Next]_Ideal!vars
  <2> SUFFICES ASSUME RunInv, RunInv', BellUnused, [BenchNext]_allVars
               PROVE  Ideal!Next \/ UNCHANGED Ideal!vars
    OBVIOUS
  <2>1. CASE UNCHANGED allVars
    BY <2>1, SeenSame, IdealVars DEF allVars, benchVars, lifeVars, vars
  <2>2. CASE BenchNext
    BY <2>2, NextCases, LoopIdeal, WaitIdeal, RawIdeal, StartIdeal, PlaceIdeal
  <2> QED
    BY <2>1, <2>2
<1> QED
  BY <1>1, <1>2, <1>3, PTL DEF BenchSpec, ImplementsEventLoop, Ideal!Spec

===============================================================================
