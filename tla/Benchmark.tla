------------------------------ MODULE Benchmark ------------------------------
(***************************************************************************)
(* A whole run of wfey.c, from the first pthread_create of main to exit:   *)
(* main starts the event processors, the sources and the idle threads one  *)
(* after the other, lines them up with three barriers, and ends the run.   *)
(* The threads' loops are those of EventLoop, which this module implements *)
(* with barriers that are real (Barrier) where EventLoop's are ideal.      *)
(***************************************************************************)
EXTENDS EventLoop, Barrier

CONSTANT NumIdle   \* num_idle, the cores left over

ASSUME IdleAssumption == NumIdle \in Nat

VARIABLES
  stage,    \* main: where it is, "run" standing for EventLoop's mainPc
  k,        \* main: its loop variable i
  epAt,     \* epThread, sourceThread and idleThread: where they are
  srcAt,
  idleAt,
  mem,      \* the memory of each Sources[s]
  crashed   \* a thread followed a pointer that is not one

lifeVars  == <<epAt, srcAt, idleAt>>
benchVars == <<bar, ticket, stage, k, lifeVars, mem, crashed>>
allVars   == <<vars, benchVars>>

Idles == 0 .. NumIdle - 1

Main     == <<"main", 0>>
Ep(e)    == <<"ep", e>>
Src(s)   == <<"src", s>>
Idle(i)  == <<"idle", i>>
Threads  == {Main} \cup {Ep(e) : e \in Procs} \cup {Src(s) : s \in Sources}
                   \cup {Idle(i) : i \in Idles}
Barriers == {"epbarrier", "srcbarrier", "endbarrier"}

Stages == {"startEp", "ready", "atReady", "reinit", "alloc", "initSrc",
           "initStart", "startSrc", "initEnd", "startIdle", "start", "atStart",
           "run", "atWait", "exited"}
EpAts  == {"none", "setup", "atReady", "loop", "atEnd", "returned"}
SrcAts == {"none", "setup", "atStart", "loop", "atEnd", "returned"}
IdleAts == {"none", "setup", "atEnd", "returned"}

BenchTypeOK ==
  /\ TypeOK
  /\ bar \in [Barriers -> [count : Nat, arrived : Nat, round : Nat]]
  /\ ticket \in [Threads -> Nat]
  /\ stage \in Stages
  /\ k \in CASE stage = "startEp" -> Procs
            [] stage \in {"initSrc", "startSrc"} -> Sources
            [] stage = "startIdle" -> Idles
            [] OTHER -> {0}
  /\ epAt \in [Procs -> EpAts]
  /\ srcAt \in [Sources -> SrcAts]
  /\ idleAt \in [Idles -> IdleAts]
  /\ mem \in [Sources -> {"null", "raw", "init"}]
  /\ crashed \in BOOLEAN

\* The processors are allocated, their memory with whatever it held, and
\* their barrier is initialised.
BenchInit ==
  /\ Start
  /\ db \in [Procs -> IF USE_DOORBELL THEN {"RESET", "PRESSED"} ELSE {"RESET"}]
  /\ bar = [b \in Barriers |->
              IF b = "epbarrier"
              THEN [NoBarrier EXCEPT !.count = NumProcs + 1] ELSE NoBarrier]
  /\ ticket = [t \in Threads |-> 0]
  /\ stage = "startEp" /\ k = 0
  /\ epAt = [e \in Procs |-> "none"]
  /\ srcAt = [s \in Sources |-> "none"]
  /\ idleAt = [i \in Idles |-> "none"]
  /\ mem = [s \in Sources |-> "null"]
  /\ crashed = FALSE

------------------------------------------------------------------------------
(* main, up to usleep *)

Goto(from, to) == stage = from /\ stage' = to

\* Mutant of Loop: "<=" for "<".
LoopTooFar(from, n, to) ==
  /\ stage = from
  /\ stage' = IF k < n THEN from ELSE to
  /\ k' = IF k < n THEN k + 1 ELSE 0

\* One round of "for (i=0; i<n; i++)", which leads to stage "to" at its end.
Loop(from, n, to) ==
  /\ stage = from
  /\ stage' = IF k + 1 < n THEN from ELSE to
  /\ k' = IF k + 1 < n THEN k + 1 ELSE 0

MainStartEp ==
  /\ Loop("startEp", NumProcs, "ready")
  /\ epAt' = [epAt EXCEPT ![k] = "setup"]
  /\ UNCHANGED <<vars, barVars, srcAt, idleAt, mem, crashed>>

MainReady ==
  /\ Goto("ready", "atReady")
  /\ Arrive(Main, "epbarrier")
  /\ UNCHANGED <<vars, k, lifeVars, mem, crashed>>

MainPassReady ==
  /\ Goto("atReady", "reinit")
  /\ Leave(Main, "epbarrier")
  /\ UNCHANGED <<vars, k, lifeVars, mem, crashed>>

\* Mutant of MainReinit: the barrier without main.
MainReinitShort ==
  /\ Goto("reinit", "alloc")
  /\ BarrierInit("epbarrier", NumProcs)
  /\ UNCHANGED <<vars, k, lifeVars, mem, crashed>>

\* "reset the barrier"
MainReinit ==
  /\ Goto("reinit", "alloc")
  /\ BarrierInit("epbarrier", NumProcs + 1)
  /\ UNCHANGED <<vars, k, lifeVars, mem, crashed>>

MainAlloc ==
  /\ Goto("alloc", "initSrc")
  /\ mem' = [s \in Sources |-> "raw"]
  /\ UNCHANGED <<vars, barVars, k, lifeVars, crashed>>

MainInitSrc ==
  /\ Loop("initSrc", NumSources, "initStart")
  /\ event' = [event EXCEPT ![k] = "RESET"]
  /\ mem' = [mem EXCEPT ![k] = "init"]
  /\ UNCHANGED <<fixed, db, hwVars, epVars, srcPc, stopVars, barVars, lifeVars,
                 crashed>>

\* Mutant of MainInitStart: the barrier without main.
MainInitStartShort ==
  /\ Goto("initStart", "startSrc")
  /\ BarrierInit("srcbarrier", NumSources)
  /\ UNCHANGED <<vars, k, lifeVars, mem, crashed>>

MainInitStart ==
  /\ Goto("initStart", "startSrc")
  /\ BarrierInit("srcbarrier", NumSources + 1)
  /\ UNCHANGED <<vars, k, lifeVars, mem, crashed>>

MainStartSrc ==
  /\ Loop("startSrc", NumSources, "initEnd")
  /\ srcAt' = [srcAt EXCEPT ![k] = "setup"]
  /\ UNCHANGED <<vars, barVars, epAt, idleAt, mem, crashed>>

\* Mutants of MainInitEnd: the barrier without main, and without the sources.
MainInitEndShort ==
  /\ Goto("initEnd", IF NumIdle # 0 THEN "startIdle" ELSE "start")
  /\ BarrierInit("endbarrier", NumIdle + NumSources)
  /\ UNCHANGED <<vars, k, lifeVars, mem, crashed>>

MainInitEndNoSources ==
  /\ Goto("initEnd", IF NumIdle # 0 THEN "startIdle" ELSE "start")
  /\ BarrierInit("endbarrier", NumIdle + 1)
  /\ UNCHANGED <<vars, k, lifeVars, mem, crashed>>

\* Mutant of MainInitEnd: the barrier with the processors, which never come.
MainInitEndAll ==
  /\ Goto("initEnd", IF NumIdle # 0 THEN "startIdle" ELSE "start")
  /\ BarrierInit("endbarrier", NumIdle + NumSources + NumProcs + 1)
  /\ UNCHANGED <<vars, k, lifeVars, mem, crashed>>

\* The end barrier is only initialised where there are idle cores.
MainInitEnd ==
  /\ Goto("initEnd", IF NumIdle # 0 THEN "startIdle" ELSE "start")
  /\ IF NumIdle # 0 THEN BarrierInit("endbarrier", NumIdle + NumSources + 1)
                    ELSE UNCHANGED barVars
  /\ UNCHANGED <<vars, k, lifeVars, mem, crashed>>

MainStartIdle ==
  /\ Loop("startIdle", NumIdle, "start")
  /\ idleAt' = [idleAt EXCEPT ![k] = "setup"]
  /\ UNCHANGED <<vars, barVars, epAt, srcAt, mem, crashed>>

MainStart ==
  /\ Goto("start", "atStart")
  /\ Arrive(Main, "srcbarrier")
  /\ UNCHANGED <<vars, k, lifeVars, mem, crashed>>

\* Mutant of MainPassStart: the sources are reset once they have started.
MainPassStartResets ==
  /\ Goto("atStart", "run")
  /\ Leave(Main, "srcbarrier")
  /\ event' = [s \in Sources |-> "RESET"]
  /\ UNCHANGED <<fixed, db, hwVars, epVars, srcPc, stopVars, k, lifeVars, mem,
                 crashed>>

MainPassStart ==
  /\ Goto("atStart", "run")
  /\ Leave(Main, "srcbarrier")
  /\ UNCHANGED <<vars, k, lifeVars, mem, crashed>>

------------------------------------------------------------------------------
(* main, from usleep on *)

MainRun ==
  /\ stage = "run"
  /\ MainUsleep \/ MainFlagEp \/ MainKillEp \/ MainFlagSrc \/ MainKillSrc
  /\ UNCHANGED benchVars

WaitBarrier == IF mainPc = "waitEps" THEN "epbarrier" ELSE "endbarrier"

MainWait ==
  /\ mainPc \in {"waitEps", "waitSrcs"}
  /\ Goto("run", "atWait")
  /\ Arrive(Main, WaitBarrier)
  /\ UNCHANGED <<vars, k, lifeVars, mem, crashed>>

MainPassWait ==
  /\ Goto("atWait", "run")
  /\ Leave(Main, WaitBarrier)
  /\ mainPc' = IF mainPc = "waitEps" THEN "flagSrc" ELSE "done"
  /\ UNCHANGED <<fixed, event, db, hwVars, epVars, srcPc, epEnd, srcEnd, epSig,
                 srcSig, mi, k, lifeVars, mem, crashed>>

\* The report, free and exit, which ends every other thread.
MainExit ==
  /\ mainPc = "done"
  /\ Goto("run", "exited")
  /\ UNCHANGED <<vars, barVars, k, lifeVars, mem, crashed>>

MainThread == \/ MainStartEp \/ MainReady \/ MainPassReady \/ MainReinit
              \/ MainAlloc \/ MainInitSrc \/ MainInitStart \/ MainStartSrc
              \/ MainInitEnd \/ MainStartIdle \/ MainStart \/ MainPassStart
              \/ MainRun \/ MainWait \/ MainPassWait \/ MainExit

------------------------------------------------------------------------------
(* epThread *)

EpAt(e, from, to) == epAt[e] = from /\ epAt' = [epAt EXCEPT ![e] = to]

\* Mutant of EpReady: the doorbell keeps what its memory held.
EpReadyRaw(e) ==
  /\ EpAt(e, "setup", "atReady")
  /\ Arrive(Ep(e), "epbarrier")
  /\ UNCHANGED <<vars, stage, k, srcAt, idleAt, mem, crashed>>

\* doorbell_reset(db), then the barrier: "ready to accept events".
EpReady(e) ==
  /\ EpAt(e, "setup", "atReady")
  /\ db' = IF USE_DOORBELL THEN [db EXCEPT ![e] = "RESET"] ELSE db
  /\ Arrive(Ep(e), "epbarrier")
  /\ UNCHANGED <<fixed, event, hwVars, epVars, srcPc, stopVars, stage, k, srcAt,
                 idleAt, mem, crashed>>

\* Mutant of EpGo: the doorbell is reset once more, behind the barrier.
EpGoResets(e) ==
  /\ EpAt(e, "atReady", "loop")
  /\ Leave(Ep(e), "epbarrier")
  /\ db' = [db EXCEPT ![e] = "RESET"]
  /\ UNCHANGED <<fixed, event, hwVars, epVars, srcPc, stopVars, stage, k, srcAt,
                 idleAt, mem, crashed>>

EpGo(e) ==
  /\ EpAt(e, "atReady", "loop")
  /\ Leave(Ep(e), "epbarrier")
  /\ UNCHANGED <<vars, stage, k, srcAt, idleAt, mem, crashed>>

EpRun(e) ==
  /\ epAt[e] = "loop"
  /\ epPc[e] = "scan" => mem[idx[e]] = "init"
  /\ EpStep(e)
  /\ UNCHANGED benchVars

\* A source that main has yet to allocate or initialise is scanned: NULL is
\* followed, or memory that happens to hold an active event and no work_func
\* one can call, or memory that happens not to.
EpScanWild(e) ==
  /\ epAt[e] = "loop" /\ epPc[e] = "scan" /\ mem[idx[e]] # "init"
  /\ crashed' = TRUE
  /\ UNCHANGED <<vars, barVars, stage, k, lifeVars, mem>>

EpScanRaw(e) ==
  /\ epAt[e] = "loop" /\ epPc[e] = "scan" /\ mem[idx[e]] = "raw"
  /\ NextSource(e)
  /\ UNCHANGED <<fixed, event, db, hwVars, srcPc, stopVars, benchVars>>

EpEnd(e) ==
  /\ epPc[e] = "out"
  /\ EpAt(e, "loop", "atEnd")
  /\ Arrive(Ep(e), "epbarrier")
  /\ UNCHANGED <<vars, stage, k, srcAt, idleAt, mem, crashed>>

EpReturn(e) ==
  /\ EpAt(e, "atEnd", "returned")
  /\ Leave(Ep(e), "epbarrier")
  /\ UNCHANGED <<vars, stage, k, srcAt, idleAt, mem, crashed>>

EpThread(e) == \/ EpReady(e) \/ EpGo(e) \/ EpRun(e) \/ EpScanWild(e)
               \/ EpScanRaw(e) \/ EpEnd(e) \/ EpReturn(e)

\* A signal to a thread that returned is never taken.
EpInterrupt(e) == /\ epAt[e] # "returned"
                  /\ EpSignal(e)
                  /\ UNCHANGED benchVars

CoreEvent(e) == ExternalEvent(e) /\ UNCHANGED benchVars

------------------------------------------------------------------------------
(* sourceThread and idleThread *)

SrcAt(s, from, to) == srcAt[s] = from /\ srcAt' = [srcAt EXCEPT ![s] = to]

SrcReady(s) ==
  /\ SrcAt(s, "setup", "atStart")
  /\ Arrive(Src(s), "srcbarrier")
  /\ UNCHANGED <<vars, stage, k, epAt, idleAt, mem, crashed>>

SrcGo(s) ==
  /\ SrcAt(s, "atStart", "loop")
  /\ Leave(Src(s), "srcbarrier")
  /\ UNCHANGED <<vars, stage, k, epAt, idleAt, mem, crashed>>

SrcRun(s) ==
  /\ srcAt[s] = "loop"
  /\ SrcStep(s)
  /\ UNCHANGED benchVars

SrcEnd(s) ==
  /\ srcPc[s] = "out"
  /\ SrcAt(s, "loop", "atEnd")
  /\ Arrive(Src(s), "endbarrier")
  /\ UNCHANGED <<vars, stage, k, epAt, idleAt, mem, crashed>>

SrcReturn(s) ==
  /\ SrcAt(s, "atEnd", "returned")
  /\ Leave(Src(s), "endbarrier")
  /\ UNCHANGED <<vars, stage, k, epAt, idleAt, mem, crashed>>

SrcThread(s) == \/ SrcReady(s) \/ SrcGo(s) \/ SrcRun(s) \/ SrcEnd(s) \/ SrcReturn(s)

SrcInterrupt(s) == /\ srcAt[s] # "returned"
                   /\ SrcSignal(s)
                   /\ UNCHANGED benchVars

IdleAt(i, from, to) == idleAt[i] = from /\ idleAt' = [idleAt EXCEPT ![i] = to]

IdleEnd(i) ==
  /\ IdleAt(i, "setup", "atEnd")
  /\ Arrive(Idle(i), "endbarrier")
  /\ UNCHANGED <<vars, stage, k, epAt, srcAt, mem, crashed>>

IdleReturn(i) ==
  /\ IdleAt(i, "atEnd", "returned")
  /\ Leave(Idle(i), "endbarrier")
  /\ UNCHANGED <<vars, stage, k, epAt, srcAt, mem, crashed>>

IdleThread(i) == IdleEnd(i) \/ IdleReturn(i)

------------------------------------------------------------------------------
\* exit and a crash end every thread.
Alive == stage # "exited" /\ ~crashed

BenchNext ==
  /\ Alive
  /\ \/ MainThread
     \/ \E e \in Procs : EpThread(e) \/ EpInterrupt(e) \/ CoreEvent(e)
     \/ \E s \in Sources : SrcThread(s) \/ SrcInterrupt(s)
     \/ \E i \in Idles : IdleThread(i)

\* As in EventLoop, and main keeps moving too: its usleep ends.
BenchFairness ==
  /\ WF_allVars(Alive /\ MainThread)
  /\ \A e \in Procs : /\ WF_allVars(Alive /\ EpThread(e))
                      /\ WF_allVars(Alive /\ EpInterrupt(e))
  /\ \A s \in Sources : /\ WF_allVars(Alive /\ SrcThread(s))
                        /\ WF_allVars(Alive /\ SrcInterrupt(s))
  /\ \A i \in Idles : WF_allVars(Alive /\ IdleThread(i))

BenchSpec     == BenchInit /\ [][BenchNext]_allVars
FairBenchSpec == BenchSpec /\ BenchFairness

------------------------------------------------------------------------------
(* Safety *)

\* epThread announces "we are now ready to accept events" (wfey.c:343) and
\* may scan the source list from then on; main fills that list only after
\* that announcement.
ScansReady ==
  \A e \in Procs : epPc[e] \in {"scan", "handle"} => mem[idx[e]] = "init"

\* ... which a doorbell that nobody can have pressed yet makes up for.
ScanAfterInit == USE_DOORBELL => ScansReady /\ ~crashed

\* "Individual flags sent because dont want to send a signal to an already
\* cleaned up source" (wfey.c:735): pthread_kill names only threads that
\* have been created and cannot have returned.
SignalsOnlyLive ==
  [][ /\ \A e \in Procs : epSig'[e] /\ ~epSig[e]
                          => epAt[e] \notin {"none", "returned"}
      /\ \A s \in Sources : srcSig'[s] /\ ~srcSig[s]
                            => srcAt[s] \notin {"none", "returned"} ]_allVars

\* "waits for all srcs to be ready then sends events" (wfey.c:493): no source
\* leaves the start barrier before every other thread is created.
StartTogether ==
  (\E s \in Sources : srcAt[s] \in {"loop", "atEnd", "returned"})
    => /\ \A s \in Sources : srcAt[s] \notin {"none", "setup"}
       /\ \A i \in Idles : idleAt[i] # "none"
       /\ stage \in {"atStart", "run", "atWait", "exited"}

\* When main reads the sources' statistics and frees them, no thread is left
\* that would touch them, or that the report does not count.
ReportAfterQuiescence ==
  mainPc = "done" => /\ \A e \in Procs : epAt[e] \in {"atEnd", "returned"}
                     /\ \A s \in Sources : srcAt[s] \in {"atEnd", "returned"}
                     /\ \A i \in Idles : idleAt[i] \in {"atEnd", "returned"}

\* The barrier main waits at, and whether it is held there.
MayLeave(t, b) == ticket[t] <= bar[b].round

MainBarrier == CASE stage = "atReady" -> "epbarrier"
                 [] stage = "atStart" -> "srcbarrier"
                 [] OTHER             -> WaitBarrier

MainHeld == /\ stage \in {"atReady", "atStart", "atWait"}
            /\ ~MayLeave(Main, MainBarrier)

\* The threads that have yet to reach the barrier at which main is held.
EpAwaited(e) == \/ stage = "atReady" /\ epAt[e] = "setup"
                \/ /\ stage = "atWait" /\ mainPc = "waitEps"
                   /\ epAt[e] \notin {"atEnd", "returned"}

SrcAwaited(s) == \/ stage = "atStart" /\ srcAt[s] = "setup"
                 \/ /\ stage = "atWait" /\ mainPc = "waitSrcs"
                    /\ srcAt[s] \notin {"atEnd", "returned"}

IdleAwaited(i) == /\ stage = "atWait" /\ mainPc = "waitSrcs"
                  /\ idleAt[i] \notin {"atEnd", "returned"}

\* The thread can take a step of its own or its signal: no barrier holds it, it
\* does not halt in WFE, its sleep ends.
EpMoves(e) == \/ epAt[e] = "setup"
              \/ epAt[e] = "atReady" /\ MayLeave(Ep(e), "epbarrier")
              \/ epAt[e] = "loop" /\ (epPc[e] = "wfe" => eventReg[e] \/ epSig[e])

SrcMoves(s) == \/ srcAt[s] = "setup"
               \/ srcAt[s] = "atStart" /\ MayLeave(Src(s), "srcbarrier")
               \/ srcAt[s] = "loop" /\ (srcPc[s] = "sleep" => ~setup.rateZero \/ srcSig[s])

\* The two ways a thread is lost to main: inside the barrier that main initialises
\* anew, or in the sleep of rate 0 with its signal used up before the sleep.
CaughtInside(e) == /\ stage = "atWait" /\ epAt[e] = "atReady"
                   /\ ~MayLeave(Ep(e), "epbarrier")

SleepsOn(s) == setup.rateZero /\ srcEnd[s] /\ srcPc[s] = "sleep" /\ ~srcSig[s]

\* main is never held at a barrier in vain: "wait for event processor to be ready"
\* (wfey.c:652), "wait for event processor to finish" (wfey.c:731) and "wait for
\* all source and idle threads" (wfey.c:743) wait for somebody who has yet to come,
\* and each of these can move.  But for the two above, and for the end barrier of
\* a machine without idle cores, no order of steps leads to a deadlock.
NoDeadlock ==
  Alive /\ MainHeld =>
    /\ \/ \E e \in Procs : EpAwaited(e)
       \/ \E s \in Sources : SrcAwaited(s)
       \/ \E i \in Idles : IdleAwaited(i)
       \/ NumIdle = 0 /\ mainPc = "waitSrcs"
    /\ \A e \in Procs : EpAwaited(e) => EpMoves(e) \/ CaughtInside(e)
    /\ \A s \in Sources : SrcAwaited(s) => SrcMoves(s) \/ SleepsOn(s)
    /\ \A i \in Idles : IdleAwaited(i) => idleAt[i] = "setup"

\* The real barriers do what the ideal ones of EventLoop do, and the startup
\* leaves EventLoop's initial state: the doorbell counts as reset until its
\* thread has reset it.
Ideal == INSTANCE EventLoop WITH
           db <- [e \in Procs |-> IF epAt[e] \in {"none", "setup"} THEN "RESET"
                                                                   ELSE db[e]]

ImplementsEventLoop == Ideal!Spec

------------------------------------------------------------------------------
(* Liveness *)

\* The run ends: main gets past "wait for event processor to finish"
\* (wfey.c:731) and "wait for all source and idle threads" (wfey.c:743).
RunEnds == <>(stage = "exited" \/ crashed)

\* pthread_barrier_init met nobody inside the barrier.
ReinitClean ==
  stage = "alloc" => \A e \in Procs : epAt[e] = "atReady" => ticket[Ep(e)] = 0

RunEndsIfClean == []ReinitClean => RunEnds
==============================================================================
