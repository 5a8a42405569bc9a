------------------------------ MODULE EventLoop ------------------------------
(***************************************************************************)
(* The measured part of wfey.c: between the two barriers that bracket a    *)
(* run, the event processors (epThread) wait for and handle the events the *)
(* sources (sourceThread) raise, until main sets the end flags and signals *)
(* every thread.  One module for the five builds of the Makefile: each is  *)
(* a choice of BUSY_POLL, USE_DOORBELL and USE_MONITOR.  A step of a       *)
(* thread is one access to state another thread or the hardware shares.    *)
(***************************************************************************)
EXTENDS Naturals

CONSTANTS NumSources,  \* Num_Sources
          NumProcs,    \* Num_Processors; the program accepts only 1
          Setups       \* the builds, rates and machines to consider

ASSUME SizeAssumption == NumSources \in Nat \ {0} /\ NumProcs \in Nat \ {0}

\* A build of the Makefile (poll: BUSY_POLL, bell: USE_DOORBELL, mon:
\* USE_MONITOR, which needs the doorbell and WFE), how it is run (rateZero:
\* -e 0, a delay that outlasts the benchmark) and where (stream: the timer
\* event stream is on; overtakes: an SEV may complete before an earlier
\* store of its core is seen, which nothing in SEV() prevents).
Setup == {c \in [poll : BOOLEAN, bell : BOOLEAN, mon : BOOLEAN,
                 rateZero : BOOLEAN, stream : BOOLEAN, overtakes : BOOLEAN] :
            c.mon => c.bell /\ ~c.poll}

ASSUME SetupAssumption == Setups \subseteq Setup

Sources == 0 .. NumSources - 1
Procs   == 0 .. NumProcs - 1

VARIABLES
  setup,     \* the build, the rate and the machine of this run
  srcEp,     \* Source.ep: the processor whose doorbell a source presses
  event,     \* Source.event.state
  db,        \* EventProcessor.eventSignal.db
  eventReg,  \* the event register of each processor's core
  monitor,   \* the address each processor's exclusive monitor watches
  epPc, idx, \* epThread: where it is, and its loop variable i
  srcPc,     \* sourceThread: where it is
  epEnd, srcEnd,  \* the end_flag of each processor and source
  epSig, srcSig,  \* a SIGUSR1 sent to the thread and not yet taken
  mainPc, mi      \* main: where it is, and its loop variable i

fixed    == <<setup, srcEp>>
epVars   == <<epPc, idx>>
hwVars   == <<eventReg, monitor>>
stopVars == <<epEnd, srcEnd, epSig, srcSig, mainPc, mi>>
vars == <<fixed, event, db, hwVars, epVars, srcPc, stopVars>>

BUSY_POLL    == setup.poll
USE_DOORBELL == setup.bell
USE_MONITOR  == setup.mon

EpPcs   == {"test", "wfe", "arm", "bell", "scan", "handle", "out"}
SrcPcs  == {"test", "nap", "sleep", "activate", "press", "latePress", "sev",
            "out"}
MainPcs == {"usleep", "flagEp", "killEp", "waitEps",
            "flagSrc", "killSrc", "waitSrcs", "done"}

TypeOK ==
  /\ setup \in Setups
  /\ srcEp \in [Sources -> Procs]
  /\ event \in [Sources -> {"RESET", "ACTIVE"}]
  /\ db \in [Procs -> {"RESET", "PRESSED"}]
  /\ eventReg \in [Procs -> BOOLEAN]
  /\ monitor \in [Procs -> {"open", "stackSlot", "doorbell"}]
  /\ epPc \in [Procs -> EpPcs] /\ idx \in [Procs -> Sources]
  /\ srcPc \in [Sources -> SrcPcs]
  /\ epEnd \in [Procs -> BOOLEAN] /\ srcEnd \in [Sources -> BOOLEAN]
  /\ epSig \in [Procs -> BOOLEAN] /\ srcSig \in [Sources -> BOOLEAN]
  /\ mainPc \in MainPcs
  /\ mi \in IF mainPc \in {"flagEp", "killEp"} THEN Procs
           ELSE IF mainPc \in {"flagSrc", "killSrc"} THEN Sources ELSE {0}

\* The state in which the barriers release the threads: every source reset
\* and given a processor at random by main, the monitor armed by epThread.
\* The event register holds anything ...
Start ==
  /\ setup \in Setups
  /\ srcEp \in [Sources -> Procs]
  /\ event = [s \in Sources |-> "RESET"]
  /\ eventReg \in [Procs -> BOOLEAN]
  /\ monitor = [e \in Procs |-> IF USE_MONITOR THEN "stackSlot" ELSE "open"]
  /\ epPc = [e \in Procs |-> "test"] /\ idx = [e \in Procs |-> 0]
  /\ srcPc = [s \in Sources |-> "test"]
  /\ epEnd = [e \in Procs |-> FALSE] /\ srcEnd = [s \in Sources |-> FALSE]
  /\ epSig = [e \in Procs |-> FALSE] /\ srcSig = [s \in Sources |-> FALSE]
  /\ mainPc = "usleep" /\ mi = 0

\* ... and the doorbell is reset by epThread.
Init == Start /\ db = [e \in Procs |-> "RESET"]

------------------------------------------------------------------------------
(* epThread *)

EpGoto(e, from, to) == epPc[e] = from /\ epPc' = [epPc EXCEPT ![e] = to]

\* Where a wake-up leads: to the doorbell, or at once to the source list.
AfterWait == IF USE_DOORBELL THEN "bell" ELSE "scan"

\* while ( !this->end_flag )
EpTest(e) ==
  /\ EpGoto(e, "test", IF epEnd[e] THEN "out"
                       ELSE IF BUSY_POLL THEN AfterWait ELSE "wfe")
  /\ UNCHANGED <<fixed, event, db, hwVars, idx, srcPc, stopVars>>

\* WFE(): halts until the event register is set, and clears it.
EpWfe(e) ==
  /\ eventReg[e]
  /\ eventReg' = [eventReg EXCEPT ![e] = FALSE]
  /\ EpGoto(e, "wfe", IF USE_MONITOR THEN "arm" ELSE AfterWait)
  /\ UNCHANGED <<fixed, event, db, monitor, idx, srcPc, stopVars>>

\* armMonitor(db): the load-exclusive reads "&addr", the stack slot of its
\* parameter, and not the doorbell the parameter points to.
EpArmMonitor(e) ==
  /\ EpGoto(e, "arm", AfterWait)
  /\ monitor' = [monitor EXCEPT ![e] = "stackSlot"]
  /\ UNCHANGED <<fixed, event, db, eventReg, idx, srcPc, stopVars>>

\* doorbell_isPressedAndReset(db): one atomic exchange.
EpBell(e) ==
  /\ EpGoto(e, "bell", IF db[e] = "PRESSED" THEN "scan" ELSE "test")
  /\ db' = [db EXCEPT ![e] = "RESET"]
  /\ UNCHANGED <<fixed, event, hwVars, idx, srcPc, stopVars>>

\* Mutant of NextSource: "<=" for "<".
NextSourceTooFar(e) ==
  IF idx[e] < NumSources
  THEN /\ epPc' = [epPc EXCEPT ![e] = "scan"]
       /\ idx' = [idx EXCEPT ![e] = @ + 1]
  ELSE /\ epPc' = [epPc EXCEPT ![e] = "test"]
       /\ idx' = [idx EXCEPT ![e] = 0]

\* i++ and the test i < Num_Sources; i is 0 whenever the loop is left.
NextSource(e) ==
  IF idx[e] + 1 < NumSources
  THEN /\ epPc' = [epPc EXCEPT ![e] = "scan"]
       /\ idx' = [idx EXCEPT ![e] = @ + 1]
  ELSE /\ epPc' = [epPc EXCEPT ![e] = "test"]
       /\ idx' = [idx EXCEPT ![e] = 0]

\* source_event_isActive(src): one atomic load.
EpScanIdle(e) ==
  /\ epPc[e] = "scan" /\ event[idx[e]] # "ACTIVE"
  /\ NextSource(e)
  /\ UNCHANGED <<fixed, event, db, hwVars, srcPc, stopVars>>

\* Mutant of EpScanActive: a test-and-clear, so that the work is done on an
\* event already reset.
EpScanTakes(e) ==
  /\ event[idx[e]] = "ACTIVE"
  /\ EpGoto(e, "scan", "handle")
  /\ event' = [event EXCEPT ![idx[e]] = "RESET"]
  /\ UNCHANGED <<fixed, db, hwVars, idx, srcPc, stopVars>>

EpScanActive(e) ==
  /\ event[idx[e]] = "ACTIVE"
  /\ EpGoto(e, "scan", "handle")
  /\ UNCHANGED <<fixed, event, db, hwVars, idx, srcPc, stopVars>>

\* Mutant of EpHandle: one event is handled at a wake-up.
EpHandleOnce(e) ==
  /\ EpGoto(e, "handle", "test")
  /\ event' = [event EXCEPT ![idx[e]] = "RESET"]
  /\ idx' = [idx EXCEPT ![e] = 0]
  /\ UNCHANGED <<fixed, db, hwVars, srcPc, stopVars>>

\* Mutant of EpHandle: the source is looked at again, "while" for "if".
EpHandleWhile(e) ==
  /\ EpGoto(e, "handle", "scan")
  /\ event' = [event EXCEPT ![idx[e]] = "RESET"]
  /\ UNCHANGED <<fixed, db, hwVars, idx, srcPc, stopVars>>

\* Mutant of EpHandle: the scan starts again behind each event.
EpHandleRestarts(e) ==
  /\ EpGoto(e, "handle", "scan")
  /\ event' = [event EXCEPT ![idx[e]] = "RESET"]
  /\ idx' = [idx EXCEPT ![e] = 0]
  /\ UNCHANGED <<fixed, db, hwVars, srcPc, stopVars>>

\* EP_handle_event: the work is the time spent at "handle"; its end resets
\* the event, whatever the source has done meanwhile.
EpHandle(e) ==
  /\ epPc[e] = "handle"
  /\ event' = [event EXCEPT ![idx[e]] = "RESET"]
  /\ NextSource(e)
  /\ UNCHANGED <<fixed, db, hwVars, srcPc, stopVars>>

EpStep(e) == \/ EpTest(e) \/ EpWfe(e) \/ EpArmMonitor(e) \/ EpBell(e)
             \/ EpScanIdle(e) \/ EpScanActive(e) \/ EpHandle(e)

------------------------------------------------------------------------------
(* The core of an event processor *)

\* Any event that is not ours: an interrupt, the timer event stream.
ExternalEvent(e) ==
  /\ ~eventReg[e]
  /\ eventReg' = [eventReg EXCEPT ![e] = TRUE]
  /\ UNCHANGED <<fixed, event, db, monitor, epVars, srcPc, stopVars>>

\* SIGUSR1 runs empty_handler; the return from the exception sets the event
\* register of the core and opens its monitor.
EpSignal(e) ==
  /\ epSig[e]
  /\ epSig' = [epSig EXCEPT ![e] = FALSE]
  /\ eventReg' = [eventReg EXCEPT ![e] = TRUE]
  /\ monitor' = [monitor EXCEPT ![e] = "open"]
  /\ UNCHANGED <<fixed, event, db, epVars, srcPc, epEnd, srcEnd, srcSig,
                 mainPc, mi>>

------------------------------------------------------------------------------
(* sourceThread *)

SrcGoto(s, from, to) == srcPc[s] = from /\ srcPc' = [srcPc EXCEPT ![s] = to]

\* while ( !this->end_flag )
SrcTest(s) ==
  /\ SrcGoto(s, "test", IF srcEnd[s] THEN "out" ELSE "nap")
  /\ UNCHANGED <<fixed, event, db, hwVars, epVars, stopVars>>

\* The call of nanosleep.
SrcNap(s) ==
  /\ SrcGoto(s, "nap", "sleep")
  /\ UNCHANGED <<fixed, event, db, hwVars, epVars, stopVars>>

\* nanosleep runs to its end; the delay of rate 0 never does in a run.
SrcWake(s) ==
  /\ ~setup.rateZero
  /\ SrcGoto(s, "sleep", "activate")
  /\ UNCHANGED <<fixed, event, db, hwVars, epVars, stopVars>>

\* Mutant of SrcSignal: an interrupted sleep is always resumed.
SrcSignalResumes(s) ==
  /\ srcSig[s]
  /\ srcSig' = [srcSig EXCEPT ![s] = FALSE]
  /\ UNCHANGED <<fixed, event, db, hwVars, epVars, srcPc, epEnd, srcEnd, epSig,
                 mainPc, mi>>

\* SIGUSR1 interrupts nanosleep; then the end flag is tested and the sleep
\* left (the event below is still sent) or resumed.  A signal that finds
\* the thread anywhere else is used up by empty_handler.
SrcSignal(s) ==
  /\ srcSig[s]
  /\ srcSig' = [srcSig EXCEPT ![s] = FALSE]
  /\ srcPc' = IF srcPc[s] = "sleep" /\ srcEnd[s]
              THEN [srcPc EXCEPT ![s] = "activate"] ELSE srcPc
  /\ UNCHANGED <<fixed, event, db, hwVars, epVars, epEnd, srcEnd, epSig,
                 mainPc, mi>>

\* source_event_activate(this): the state is stored without being looked at.
SrcActivate(s) ==
  /\ SrcGoto(s, "activate", IF USE_DOORBELL THEN "press" ELSE "test")
  /\ event' = [event EXCEPT ![s] = "ACTIVE"]
  /\ UNCHANGED <<fixed, db, hwVars, epVars, stopVars>>

\* What the store to a doorbell does to the other cores: the monitor that
\* watches the doorbell, if one does, is cleared, and that is an event.
MonitorSees(e) == monitor[e] = "doorbell"

\* doorbell_press(db), before the SEV of the builds that send one or, when
\* SEV overtook it, after.
SrcPress(s) ==
  LET e == srcEp[s] IN
  /\ \/ SrcGoto(s, "press", IF USE_MONITOR THEN "test" ELSE "sev")
     \/ SrcGoto(s, "latePress", "test")
  /\ db' = [db EXCEPT ![e] = "PRESSED"]
  /\ eventReg' = [eventReg EXCEPT ![e] = @ \/ MonitorSees(e)]
  /\ monitor' = [monitor EXCEPT ![e] = IF MonitorSees(e) THEN "open" ELSE @]
  /\ UNCHANGED <<fixed, event, epVars, stopVars>>

\* Mutant of SrcSev: WFE without the SEV that goes with it.
SrcSevSilent(s) ==
  /\ SrcGoto(s, "sev", "test")
  /\ UNCHANGED <<fixed, event, db, hwVars, epVars, stopVars>>

\* SEV() sets the event register of every core.
SrcSev(s) ==
  /\ \/ SrcGoto(s, "sev", "test")
     \/ setup.overtakes /\ ~USE_MONITOR /\ SrcGoto(s, "press", "latePress")
  /\ eventReg' = [e \in Procs |-> TRUE]
  /\ UNCHANGED <<fixed, event, db, monitor, epVars, stopVars>>

SrcStep(s) == \/ SrcTest(s) \/ SrcNap(s) \/ SrcWake(s) \/ SrcActivate(s)
              \/ SrcPress(s) \/ SrcSev(s)

------------------------------------------------------------------------------
(* main, from usleep on: the end flags and the signals.  The barriers it   *)
(* waits at are ideal here: it waits for the threads to be out.            *)

MainGoto(from, to) == mainPc = from /\ mainPc' = to

MainUsleep ==
  /\ MainGoto("usleep", "flagEp")
  /\ UNCHANGED <<fixed, event, db, hwVars, epVars, srcPc, epEnd, srcEnd,
                 epSig, srcSig, mi>>

MainFlagEp ==
  /\ MainGoto("flagEp", "killEp")
  /\ epEnd' = [epEnd EXCEPT ![mi] = TRUE]
  /\ UNCHANGED <<fixed, event, db, hwVars, epVars, srcPc, srcEnd, epSig,
                 srcSig, mi>>

\* Mutant of MainKillEp: the end flag alone.
MainKillEpNot ==
  /\ MainGoto("killEp", IF mi + 1 < NumProcs THEN "flagEp" ELSE "waitEps")
  /\ mi' = IF mi + 1 < NumProcs THEN mi + 1 ELSE 0
  /\ UNCHANGED <<fixed, event, db, hwVars, epVars, srcPc, epEnd, srcEnd, epSig,
                 srcSig>>

MainKillEp ==
  /\ MainGoto("killEp", IF mi + 1 < NumProcs THEN "flagEp" ELSE "waitEps")
  /\ epSig' = [epSig EXCEPT ![mi] = TRUE]
  /\ mi' = IF mi + 1 < NumProcs THEN mi + 1 ELSE 0
  /\ UNCHANGED <<fixed, event, db, hwVars, epVars, srcPc, epEnd, srcEnd,
                 srcSig>>

MainWaitEps ==
  /\ \A e \in Procs : epPc[e] = "out"
  /\ MainGoto("waitEps", "flagSrc")
  /\ UNCHANGED <<fixed, event, db, hwVars, epVars, srcPc, epEnd, srcEnd,
                 epSig, srcSig, mi>>

MainFlagSrc ==
  /\ MainGoto("flagSrc", "killSrc")
  /\ srcEnd' = [srcEnd EXCEPT ![mi] = TRUE]
  /\ UNCHANGED <<fixed, event, db, hwVars, epVars, srcPc, epEnd, epSig,
                 srcSig, mi>>

MainKillSrc ==
  /\ MainGoto("killSrc", IF mi + 1 < NumSources THEN "flagSrc" ELSE "waitSrcs")
  /\ srcSig' = [srcSig EXCEPT ![mi] = TRUE]
  /\ mi' = IF mi + 1 < NumSources THEN mi + 1 ELSE 0
  /\ UNCHANGED <<fixed, event, db, hwVars, epVars, srcPc, epEnd, srcEnd,
                 epSig>>

MainWaitSrcs ==
  /\ \A s \in Sources : srcPc[s] = "out"
  /\ MainGoto("waitSrcs", "done")
  /\ UNCHANGED <<fixed, event, db, hwVars, epVars, srcPc, epEnd, srcEnd,
                 epSig, srcSig, mi>>

MainStop == \/ MainFlagEp \/ MainKillEp \/ MainWaitEps
            \/ MainFlagSrc \/ MainKillSrc \/ MainWaitSrcs

------------------------------------------------------------------------------
Next == \/ \E e \in Procs : EpStep(e) \/ EpSignal(e) \/ ExternalEvent(e)
        \/ \E s \in Sources : SrcStep(s) \/ SrcSignal(s)
        \/ MainUsleep \/ MainStop

\* Every thread is pinned to a core of its own and every delay but that of
\* rate 0 ends, so each thread keeps moving and takes its signals.  Nothing
\* is assumed of usleep: what must happen, must happen in a run of any
\* length.  An external event is only to be counted on with the event stream.
Fairness ==
  /\ \A e \in Procs : /\ WF_vars(EpStep(e)) /\ WF_vars(EpSignal(e))
                      /\ WF_vars(setup.stream /\ ExternalEvent(e))
  /\ \A s \in Sources : WF_vars(SrcStep(s)) /\ WF_vars(SrcSignal(s))
  /\ WF_vars(MainStop)

Spec     == Init /\ [][Next]_vars
FairSpec == Spec /\ Fairness

------------------------------------------------------------------------------
(* Safety *)

\* The builds, on the machines, in which a SEV follows every press of a
\* doorbell in the order the other cores see.
SevOrdered == ~USE_MONITOR /\ ~setup.overtakes

\* Lost wake-up: a processor never halts in WFE beside a pressed doorbell
\* unless the wake-up of that press is still on its way.  wfey.c:379-381
\* says of the monitor that it "re-arms immediately to ensure do no loose
\* event signals".
NoLooseSignal ==
  \A e \in Procs : epPc[e] = "wfe" /\ db[e] = "PRESSED" /\ ~eventReg[e]
                 => \E s \in Sources : srcEp[s] = e /\ srcPc[s] = "sev"

\* ... which the code keeps where the SEV is ordered after the press.
NoLooseSev == SevOrdered => NoLooseSignal

\* The doorbell and the source list agree: an event that is raised is known
\* to a source still on its way to the doorbell, to the doorbell, or to a
\* scan that has yet to pass its source.  This is what allows the doorbell
\* to be reset before the scan, and no rescan after it.
NoStrandedEvent ==
  USE_DOORBELL => \A s \in Sources : event[s] = "ACTIVE" =>
    LET e == srcEp[s] IN
    \/ srcPc[s] \in {"press", "latePress"}
    \/ db[e] = "PRESSED"
    \/ epPc[e] \in {"scan", "handle"} /\ idx[e] <= s

\* The signal of main cannot be lost on a processor: one that passed its
\* test of the end flag before the flag was set and halts in WFE has its
\* wake-up, its signal, or main about to send it.
EpWokenToStop ==
  \A e \in Procs : epEnd[e] /\ epPc[e] = "wfe"
                 => eventReg[e] \/ epSig[e] \/ (mainPc = "killEp" /\ mi = e)

\* The same of a source and its sleep: wfey.c:734 calls the flag and signal
\* an "extra verification sources not stuck in sleep".
SrcWokenToStop ==
  \A s \in Sources : srcEnd[s] /\ srcPc[s] = "sleep"
                   => srcSig[s] \/ (mainPc = "killSrc" /\ mi = s)

\* The most steps of its own that a thread told to stop may still take: a
\* processor a scan in which every source is active, and what leads to it; a
\* source one event.
EpLeft(e) == CASE epPc[e] = "out"    -> 0
               [] epPc[e] = "test"   -> 1
               [] epPc[e] = "handle" -> 2 * (NumSources - idx[e])
               [] epPc[e] = "scan"   -> 2 * (NumSources - idx[e]) + 1
               [] epPc[e] = "bell"   -> 2 * NumSources + 2
               [] epPc[e] = "arm"    -> 2 * NumSources + 3
               [] epPc[e] = "wfe"    -> 2 * NumSources + 4

SrcLeft(s) == CASE srcPc[s] = "out"                  -> 0
                [] srcPc[s] = "test"                 -> 1
                [] srcPc[s] \in {"sev", "latePress"} -> 2
                [] srcPc[s] = "press"                -> 3
                [] srcPc[s] = "activate"             -> 4
                [] srcPc[s] = "sleep"                -> 5
                [] srcPc[s] = "nap"                  -> 6

\* A step that leaves those told to stop where they are, or closer to their end.
Closer ==
  /\ \A e \in Procs : epEnd[e] =>
       epEnd'[e] /\ (UNCHANGED <<epPc[e], idx[e]>> \/ EpLeft(e)' < EpLeft(e))
  /\ \A s \in Sources : srcEnd[s] =>
       srcEnd'[s] /\ (UNCHANGED srcPc[s] \/ SrcLeft(s)' < SrcLeft(s))

\* "while ( !this->end_flag )" is left in a bounded number of steps, however
\* fast the sources raise events and whatever the doorbell holds: each step of
\* a thread told to stop brings it closer to its end, and no step of another
\* thread or of a signal puts it back.
StopsSoon == [][Closer]_vars

\* An event is in the doorbell of its processor, or ahead of its scan; without
\* a doorbell nothing but the next scan is needed.
Noticed(s) == LET e == srcEp[s]
              IN \/ ~USE_DOORBELL \/ db[e] = "PRESSED"
                 \/ epPc[e] \in {"scan", "handle"} /\ idx[e] <= s

\* The most steps of its own that the processor of a source may take before the
\* source's event is handled: the rest of the scan under way, what leads to the
\* next, and that one up to the source, with every source before it active.
Away(s) ==
  LET e      == srcEp[s]
      behind == IF idx[e] <= s THEN 0 ELSE NumSources + 2
  IN CASE epPc[e] = "out"    -> 0
       [] epPc[e] = "handle" -> 2 * (behind + s - idx[e])
       [] epPc[e] = "scan"   -> 2 * (behind + s - idx[e]) + 1
       [] epPc[e] = "bell"   -> 2 * s + 2
       [] epPc[e] = "arm"    -> 2 * s + 3
       [] epPc[e] = "wfe"    -> 2 * s + 4
       [] epPc[e] = "test"   -> 2 * s + 5

\* A step that handles the events that are noticed, or leaves them noticed and
\* their processors where they are or nearer.
Nearer ==
  \A s \in Sources :
    LET e == srcEp[s]
    IN event[s] = "ACTIVE" /\ Noticed(s) /\ ~epEnd[e] =>
         \/ event'[s] = "RESET"
         \/ /\ event'[s] = "ACTIVE" /\ Noticed(s)'
            /\ UNCHANGED <<epPc[e], idx[e]>> \/ Away(s)' < Away(s)

\* No source is starved, however fast the others raise events: until its
\* processor is told to stop, each step the processor takes brings an event that
\* it has been rung for closer, and nothing that the others do puts it back.
\* (The doorbell reset before the scan, and the scan that goes on behind an
\* event.)
ServesSoon == [][Nearer]_vars

\* With one event processor the loop implements EventNotify: the work of an
\* event is done while the event is raised, an event is lowered only when
\* its work is done, and a processor that stops leaves no work half done.
Notify == INSTANCE EventNotify WITH
            NoSource <- NumSources,
            raised   <- {s \in Sources : event[s] = "ACTIVE"},
            serving  <- [e \in Procs |-> IF epPc[e] = "handle" THEN idx[e]
                                                           ELSE NumSources],
            quit     <- {e \in Procs : epPc[e] = "out"}

ImplementsNotify == Notify!Spec

------------------------------------------------------------------------------
(* Liveness *)

\* Where a processor can be counted on to look again after an event.
SeesEvents == \/ BUSY_POLL
              \/ setup.stream
              \/ USE_DOORBELL /\ SevOrdered

\* Every event raised is handled, unless its processor is told to stop:
\* "wfe w/ no doorbell" and the monitor have only the event stream to thank.
EventServiced ==
  \A s \in Sources : (event[s] = "ACTIVE" /\ SeesEvents)
                   ~> (event[s] = "RESET" \/ epEnd[srcEp[s]])

\* Once the time is over main gets every thread to stop, with any delay that
\* ends, and with rate 0 when the signals find the sources asleep.
StopTerminates ==
  /\ (mainPc # "usleep" /\ ~setup.rateZero) ~> (mainPc = "done")
  /\ (mainPc = "flagSrc" /\ mi = 0 /\ \A s \in Sources : srcPc[s] = "sleep")
       ~> (mainPc = "done")
==============================================================================
