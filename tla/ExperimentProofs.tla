--------------------------- MODULE ExperimentProofs ---------------------------
(***************************************************************************)
(* What holds of Config and Experiment for every machine, all arguments,   *)
(* and sweeps of any length.                                               *)
(***************************************************************************)
EXTENDS Experiment, FiniteSetTheorems, TLAPS

------------------------------------------------------------------------------
(* Arithmetic *)

\* A number that fits in 64 bits stays what it is.
LEMMA U64Fits ==
  ASSUME NEW x \in 0 .. W64 - 1
  PROVE  U64(x) = x
  BY ConfigAssumption DEF U64

\* A small negative one becomes large.
LEMMA U64Wraps ==
  ASSUME NEW x \in Int, x < 0, -W64 <= x
  PROVE  U64(x) = W64 + x
<1>1. W64 \in Nat \ {0}
  BY ConfigAssumption
<1> QED
  BY <1>1 DEF U64

LEMMA U64Type ==
  ASSUME NEW x \in Int, W64 # 0
  PROVE  U64(x) \in 0 .. W64 - 1
  BY ConfigAssumption DEF U64

\* A time is split into seconds and the rest.
LEMMA SplitTime ==
  ASSUME NEW ns \in Int, ns >= NSEC_IN_SECOND
  PROVE  /\ ns \div NSEC_IN_SECOND \in Nat
         /\ ns % NSEC_IN_SECOND \in 0 .. NSEC_IN_SECOND - 1
         /\ (ns \div NSEC_IN_SECOND) * NSEC_IN_SECOND + (ns % NSEC_IN_SECOND) = ns
  BY ConfigAssumption

------------------------------------------------------------------------------
(* Types *)

MainRecords   == [at : Places, options : 0 .. MaxOptions,
                  Num_Processors : Counts \cup {0}, Num_Sources : Counts \cup {0},
                  event_rate : {Unset, NaN, Infinity} \cup Nat, cpuid : Nat,
                  num_idle : 0 .. W64 - 1, end_count : Int, lost : SUBSET Nat]
ThreadRecords == [kind : {"processor", "source", "idle"}, cpu : Nat, core : Nat \cup {NoCpu},
                  sec : Nat, nsec : Int]

\* Arguments that were let through.
ArgInv == /\ main.Num_Processors <= 1
          /\ main.at \notin {"parse", "failed"} =>
               main.Num_Processors # 0 /\ main.Num_Sources # 0

CTypeOK == /\ total_cpu \in Machines
           /\ main \in MainRecords
           /\ threads \in Seq(ThreadRecords)
           /\ ArgInv

LEMMA CTypeIsType == CTypeOK => ConfigTypeOK
  BY DEF CTypeOK, ConfigTypeOK, MainRecords, ThreadRecords

LEMMA Arguments ==
  ASSUME CTypeOK
  PROVE  /\ total_cpu \in Nat \ {0} /\ total_cpu < W64
         /\ main.Num_Processors \in Int /\ main.Num_Sources \in Int
         /\ W64 \in Nat \ {0}
<1>1. total_cpu \in Nat \ {0}
  BY ConfigAssumption DEF CTypeOK
<1>2. Counts \cup {0} \subseteq Int
  BY ConfigAssumption
<1>3. total_cpu + 0 + 0 < W64 /\ W64 \in Nat
  BY ConfigAssumption DEF CTypeOK
<1>4. main.Num_Processors \in Counts \cup {0} /\ main.Num_Sources \in Counts \cup {0}
  BY DEF CTypeOK, MainRecords
<1> QED
  BY <1>1, <1>2, <1>3, <1>4

LEMMA BegunType ==
  ASSUME total_cpu \in Machines
  PROVE  Begun \in MainRecords /\ Begun.Num_Processors <= 1 /\ Begun.at = "parse"
<1>1. W64 \in Nat \ {0}
  BY ConfigAssumption
<1> QED
  BY <1>1, ConfigAssumption DEF Begun, MainRecords, Places

LEMMA InitConfigType == ConfigInit => CTypeOK
  BY BegunType DEF ConfigInit, CTypeOK, ArgInv

\* Sleeps, varied or not, are integers, and their parts fit nanosleep's argument.
LEMMA SleepType ==
  ASSUME CTypeOK, NEW ns \in UNION {Varied(m) : m \in SrcSleep}
  PROVE  ns \in Int
<1>1. main.event_rate \in {Unset, NaN, Infinity} \cup Nat /\ main.Num_Sources \in Int
  BY Arguments DEF CTypeOK, MainRecords
<1>2. NEVER * NSEC_IN_SECOND \in Int /\ main.Num_Sources * NEVER * NSEC_IN_SECOND \in Int
  BY <1>1, ConfigAssumption
<1>3. SrcSleep \subseteq Int
  <2>1. CASE main.event_rate = Unset
    BY <2>1, <1>2, ConfigAssumption DEF SrcSleep
  <2>2. CASE main.event_rate # Unset /\ main.event_rate = 0
    BY <2>2, <1>2 DEF SrcSleep
  <2>3. CASE main.event_rate # Unset /\ main.event_rate # 0 /\ main.event_rate \in {NaN, Infinity}
    BY <2>3 DEF SrcSleep
  <2>4. CASE main.event_rate # Unset /\ main.event_rate # 0 /\ main.event_rate \notin {NaN, Infinity}
    <3>1. main.Num_Sources * NSEC_IN_SECOND * SCALE \in Int /\ main.event_rate \in Nat \ {0}
      BY <2>4, <1>1, ConfigAssumption
    <3>2. \A a \in Int, b \in Nat \ {0} : a \div b \in Int
      OBVIOUS
    <3> QED
      BY <3>1, <3>2, <2>4 DEF SrcSleep
  <2> QED
    BY <2>1, <2>2, <2>3, <2>4
<1>4. PICK m \in SrcSleep : ns \in Varied(m)
  OBVIOUS
<1>5. m \in Int
  BY <1>3, <1>4
<1>6. PICK percent \in -DELAYADD .. DELAYADD : ns = (m * (100 + percent)) \div 100
  BY <1>4 DEF Varied
<1>7. m * (100 + percent) \in Int
  BY <1>5 DEF DELAYADD
<1> QED
  BY <1>6, <1>7

LEMMA DelayType ==
  ASSUME NEW ns \in Int
  PROVE  Delay(ns).sec \in Nat /\ Delay(ns).nsec \in Int
<1>1. NSEC_IN_SECOND \in Nat \ {0} /\ TIME_MAX \in Nat
  BY ConfigAssumption
<1>2. Delay(ns).sec \in Nat
  BY <1>1, SplitTime DEF Delay, Saturated
<1>3. ns - Delay(ns).sec * NSEC_IN_SECOND \in Int
  BY <1>1, <1>2
<1>4. Delay(ns).nsec = Saturated(ns - Delay(ns).sec * NSEC_IN_SECOND)
  BY DEF Delay
<1> QED
  BY <1>1, <1>2, <1>3, <1>4 DEF Saturated

LEMMA Another ==
  ASSUME CTypeOK, Parse
  PROVE  main.options + 1 \in 0 .. MaxOptions
<1>1. main.options \in 0 .. MaxOptions /\ main.options < MaxOptions /\ MaxOptions \in Nat
  BY ConfigAssumption DEF CTypeOK, MainRecords, Parse
<1> QED
  BY <1>1

LEMMA MainType ==
  ASSUME CTypeOK, Main
  PROVE  CTypeOK'
<1> USE DEF CTypeOK, ArgInv
<1>1. CASE ParseSources
  <2>1. PICK s \in Counts : main' = [main EXCEPT !.options = @ + 1, !.Num_Sources = s]
    BY <1>1 DEF ParseSources, Set
  <2>2. main' \in MainRecords
    <3>1. main.options + 1 \in 0 .. MaxOptions
      BY <1>1, Another DEF ParseSources
    <3>2. s \in Counts \cup {0}
      BY <2>1, ConfigAssumption
    <3> QED
      BY <2>1, <3>1, <3>2 DEF MainRecords
  <2> QED
    BY <2>1, <2>2, <1>1 DEF ParseSources, Parse, Set, MainRecords
<1>2. CASE ParseProcessors
  <2>1. PICK p \in Counts : p <= 1 /\ main' = [main EXCEPT !.options = @ + 1, !.Num_Processors = p]
    BY <1>2 DEF ParseProcessors, Set
  <2>2. main' \in MainRecords
    <3>1. main.options + 1 \in 0 .. MaxOptions
      BY <1>2, Another DEF ParseProcessors
    <3>2. p \in Counts \cup {0}
      BY <2>1, ConfigAssumption
    <3> QED
      BY <2>1, <3>1, <3>2 DEF MainRecords
  <2> QED
    BY <2>1, <2>2, <1>2 DEF ParseProcessors, Parse, Set, MainRecords
<1>3. CASE ParseRate
  <2>1. PICK e \in Rates \cap ({NaN, Infinity} \cup Nat) : main' = [main EXCEPT !.options = @ + 1, !.event_rate = e]
    BY <1>3 DEF ParseRate, Set
  <2>2. main' \in MainRecords
    <3>1. main.options + 1 \in 0 .. MaxOptions
      BY <1>3, Another DEF ParseRate
    <3>2. e \in {Unset, NaN, Infinity} \cup Nat
      BY <2>1
    <3> QED
      BY <2>1, <3>1, <3>2 DEF MainRecords
  <2> QED
    BY <2>1, <2>2, <1>3 DEF ParseRate, Parse, Set, MainRecords
<1>4. ASSUME NEW place \in Places, Goto(place),
             place \in {"parse", "failed"} \/ main.at \notin {"parse", "failed"}
             \/ (main.Num_Processors # 0 /\ main.Num_Sources # 0)
      PROVE  CTypeOK'
  BY <1>4 DEF Goto, MainRecords
<1>5. CASE ParseFails
  BY <1>4, <1>5 DEF ParseFails, Places
<1>6. CASE ParseEnds
  <2>1. PICK place \in {"failed", "processor"} :
          /\ main' = [main EXCEPT !.options = 0, !.at = place]
          /\ place = "processor" => main.Num_Processors # 0 /\ main.Num_Sources # 0
    BY <1>6 DEF ParseEnds
  <2>2. 0 \in 0 .. MaxOptions /\ place \in Places
    BY ConfigAssumption DEF Places
  <2>3. main' \in MainRecords
    BY <2>1, <2>2 DEF MainRecords
  <2> QED
    BY <1>6, <2>1, <2>3 DEF ParseEnds, MainRecords
<1>7. ASSUME NEW kind \in {"processor", "source", "idle"}, Create(kind)
      PROVE  CTypeOK'
  <2>1. main' \in MainRecords
    <3>1. main.cpuid + 1 \in Nat
      BY DEF MainRecords
    <3>2. main' = [main EXCEPT !.cpuid = @ + 1]
      BY <1>7 DEF Create
    <3> QED
      BY <3>1, <3>2 DEF MainRecords
  <2>2. threads' \in Seq(ThreadRecords)
    <3>1. [kind |-> kind, cpu |-> main.cpuid, core |-> NoCpu, sec |-> 0, nsec |-> 0]
            \in ThreadRecords
      BY DEF MainRecords, ThreadRecords
    <3> QED
      BY <3>1, <1>7 DEF Create
  <2> QED
    BY <2>1, <2>2, <1>7 DEF Create, MainRecords
<1>8. CASE CreateProcessor \/ CreateSource \/ CreateIdle
  BY <1>7, <1>8 DEF CreateProcessor, CreateSource, CreateIdle
<1>9. CASE PinMain \/ PassStart \/ TimeIsUp \/ PassEnd
  BY <1>4, <1>9 DEF PinMain, PassStart, TimeIsUp, PassEnd, Places
<1>11. CASE PassReady \/ PassStop
  <2>1. PICK lost \in SUBSET DOMAIN threads, place \in {"source", "end"} :
          main' = [main EXCEPT !.at = place, !.lost = lost] /\ UNCHANGED <<total_cpu, threads>>
    BY <1>11 DEF PassReady, PassStop, Threads, Sleepers
  <2>2. main.at \in {"processor", "stop"}
    BY <1>11 DEF PassReady, PassStop
  <2>3. lost \in SUBSET Nat /\ place \in Places
    BY DEF Places
  <2> QED
    BY <2>1, <2>2, <2>3 DEF MainRecords
<1>10. CASE Size
  <2>1. total_cpu - (main.Num_Processors + main.Num_Sources + META_THREAD) \in Int
    BY Arguments DEF META_THREAD
  <2>2. U64(total_cpu - (main.Num_Processors + main.Num_Sources + META_THREAD)) \in 0 .. W64 - 1
    BY <2>1, Arguments, U64Type
  <2> DEFINE num_idle == U64(total_cpu - (main.Num_Processors + main.Num_Sources + META_THREAD))
             place == IF U64(main.Num_Processors + main.Num_Sources) > U64(total_cpu - META_THREAD)
                      THEN "failed" ELSE "idle"
             end_count == IF num_idle # 0 THEN num_idle + main.Num_Sources + 1 ELSE 0
  <2>3. /\ main' = [main EXCEPT !.at = place, !.num_idle = num_idle, !.end_count = end_count]
        /\ main.at = "source"
    BY <1>10 DEF Size
  <2>4. main' \in MainRecords
    <3>1. place \in Places /\ num_idle \in 0 .. W64 - 1
      BY <2>2 DEF Places
    <3>2. end_count \in Int
      BY <2>2, Arguments
    <3> HIDE DEF place, num_idle, end_count
    <3> QED
      BY <2>3, <3>1, <3>2 DEF MainRecords
  <2> QED
    BY <2>3, <2>4, <1>10 DEF Size, MainRecords
<1> QED
  BY <1>1, <1>2, <1>3, <1>5, <1>6, <1>8, <1>9, <1>10, <1>11 DEF Main

LEMMA ThreadType ==
  ASSUME CTypeOK, NEW n \in DOMAIN threads, Thread(n)
  PROVE  CTypeOK'
<1> USE DEF CTypeOK, ArgInv
<1>1. CASE PinThread(n)
  <2>1. PICK ns \in IF threads[n].kind = "source" THEN UNION {Varied(m) : m \in SrcSleep} ELSE {0} :
          threads' = [threads EXCEPT ![n].core = threads[n].cpu,
                                     ![n].sec = Delay(ns).sec, ![n].nsec = Delay(ns).nsec]
    BY <1>1 DEF PinThread
  <2>2. ns \in Int
    BY <2>1, SleepType
  <2>3. threads' \in Seq(ThreadRecords)
    <3>1. threads' = [threads EXCEPT ![n] = [threads[n] EXCEPT !.core = threads[n].cpu,
                        !.sec = Delay(ns).sec, !.nsec = Delay(ns).nsec]]
      BY <2>1 DEF ThreadRecords
    <3>2. threads[n] \in ThreadRecords
      OBVIOUS
    <3>3. [threads[n] EXCEPT !.core = threads[n].cpu, !.sec = Delay(ns).sec,
                             !.nsec = Delay(ns).nsec] \in ThreadRecords
      BY <2>2, <3>2, DelayType DEF ThreadRecords
    <3> QED
      BY <3>1, <3>3
  <2> QED
    BY <1>1, <2>3 DEF PinThread
<1>2. CASE PinFails(n)
  BY <1>2 DEF PinFails, Goto, MainRecords, Places
<1> QED
  BY <1>1, <1>2 DEF Thread

LEMMA ConfigNextType ==
  ASSUME CTypeOK, ConfigNext
  PROVE  CTypeOK'
<1>1. CASE SourceFaults \/ PassRefused
  BY <1>1 DEF SourceFaults, PassRefused, Goto, CTypeOK, ArgInv, MainRecords, Places
<1> QED
  BY <1>1, MainType, ThreadType DEF ConfigNext

------------------------------------------------------------------------------
(* What a step of the sweep is to wfey: one of its own, its beginning, or   *)
(* none.                                                                    *)

Fresh == main' = Begun /\ threads' = <<>> /\ UNCHANGED total_cpu

LEMMA WfeySteps ==
  ASSUME [ExpNext]_expVars
  PROVE  ConfigNext \/ Fresh \/ UNCHANGED configVars
<1>1. CASE Scripts
  BY <1>1 DEF Scripts, SourceScript, SpawnTask, ExecWfey, WfeyReturns, Cleanup, NextRun, Fresh,
     configVars
<1>2. ASSUME NEW r \in 1 .. Runs, PowerLog(r)
      PROVE  UNCHANGED configVars
  BY <1>2 DEF PowerLog, TaskHeader, TaskSample
<1> QED
  BY <1>1, <1>2 DEF ExpNext, Wfey, expVars

LEMMA TypeStep ==
  ASSUME CTypeOK, [ExpNext]_expVars
  PROVE  CTypeOK'
<1>1. CASE Fresh
  BY <1>1, BegunType DEF Fresh, CTypeOK, ArgInv
<1>2. CASE UNCHANGED configVars
  BY <1>2 DEF configVars, CTypeOK, ArgInv
<1> QED
  BY <1>1, <1>2, ConfigNextType, WfeySteps

\* Sizes, cores and sleeps have their types, whatever the arguments.  (main, and
\* the threads as they pin themselves.)
THEOREM ConfigTyped == ExpSpec => []ConfigTypeOK
<1>1. ExpInit => CTypeOK
  BY InitConfigType DEF ExpInit
<1>2. CTypeOK /\ [ExpNext]_expVars => CTypeOK'
  BY TypeStep
<1>3. ExpSpec => []CTypeOK
  BY <1>1, <1>2, PTL DEF ExpSpec
<1> QED
  BY <1>3, CTypeIsType, PTL

------------------------------------------------------------------------------
(* A run that does not fit does not start.                                  *)

\* The check of main, as arithmetic of integers: the wrap-arounds of 64 bits cancel
\* out or are caught.
LEMMA SizeExact ==
  ASSUME CTypeOK,
         ~(U64(main.Num_Processors + main.Num_Sources) > U64(total_cpu - META_THREAD))
  PROVE  LET asked == main.Num_Processors + main.Num_Sources IN
         /\ asked \in 0 .. total_cpu - 1
         /\ U64(total_cpu - (asked + META_THREAD)) = total_cpu - (asked + META_THREAD)
<1> DEFINE asked == main.Num_Processors + main.Num_Sources
<1>1. /\ total_cpu \in Nat \ {0} /\ total_cpu < W64 /\ W64 \in Nat \ {0}
      /\ asked \in Int
  BY Arguments
<1>2. total_cpu - 1 < W64 + asked /\ total_cpu + asked < W64
  <2>1. /\ total_cpu \in Machines
        /\ main.Num_Processors \in Counts \cup {0} /\ main.Num_Sources \in Counts \cup {0}
    BY DEF CTypeOK, MainRecords
  <2>2. /\ total_cpu - 1 < W64 + (main.Num_Processors + main.Num_Sources)
        /\ total_cpu + main.Num_Processors + main.Num_Sources < W64
    BY <2>1, ConfigAssumption
  <2> QED
    BY <2>2, Arguments
<1>3. U64(total_cpu - META_THREAD) = total_cpu - 1
  BY <1>1, U64Fits DEF META_THREAD
<1> HIDE DEF asked
<1>4. CASE asked < 0
  <2>1. -W64 <= asked
    BY <1>1, <1>2
  <2>2. U64(asked) = W64 + asked
    BY <2>1, <1>1, <1>4, U64Wraps
  <2> QED
    BY <2>2, <1>1, <1>2, <1>3 DEF asked
<1>5. CASE asked >= 0
  <2>1. asked \in 0 .. W64 - 1
    BY <1>1, <1>2, <1>5
  <2>2. U64(asked) = asked
    BY <2>1, U64Fits
  <2>3. asked <= total_cpu - 1
    BY <2>2, <1>1, <1>3 DEF asked
  <2>4. total_cpu - (asked + 1) \in 0 .. W64 - 1
    BY <2>3, <1>1, <1>5
  <2>5. U64(total_cpu - (asked + 1)) = total_cpu - (asked + 1)
    BY <2>4, U64Fits
  <2> QED
    BY <2>3, <2>5, <1>1, <1>5 DEF asked, META_THREAD
<1> QED
  BY <1>1, <1>4, <1>5

Started == main.at \in {"idle", "start", "run", "stop", "end", "done"}

FitInv == Started =>
  /\ main.Num_Processors + main.Num_Sources \in 0 .. total_cpu - 1
  /\ main.num_idle = total_cpu - (main.Num_Processors + main.Num_Sources + META_THREAD)
  /\ main.end_count = IF main.num_idle # 0 THEN main.num_idle + main.Num_Sources + 1 ELSE 0

\* Steps that keep the sizes.
Same(f) == main'[f] = main[f]
KeepsSizes == /\ Same("Num_Processors") /\ Same("Num_Sources") /\ Same("num_idle")
              /\ Same("end_count") /\ Same("event_rate") /\ total_cpu' = total_cpu

LEMMA SizesKept ==
  ASSUME CTypeOK, ConfigNext
  PROVE  \/ main.at = "parse" /\ main'.at \in {"parse", "failed"} /\ total_cpu' = total_cpu
         \/ Size
         \/ KeepsSizes /\ (main'.at \in {"failed", main.at} \/ <<main.at, main'.at>> \in
              {<<"parse", "processor">>, <<"processor", "source">>, <<"idle", "start">>,
               <<"start", "run">>, <<"run", "stop">>, <<"stop", "end">>, <<"end", "done">>})
<1> USE DEF CTypeOK, MainRecords, KeepsSizes, Same
<1>1. CASE ParseSources \/ ParseProcessors \/ ParseRate
  BY <1>1 DEF ParseSources, ParseProcessors, ParseRate, Parse, Set
<1>2. CASE ParseFails \/ ParseEnds \/ PassReady \/ PinMain \/ PassStart \/ TimeIsUp
  BY <1>2 DEF ParseFails, Parse, ParseEnds, PassReady, PinMain, PassStart, TimeIsUp, Goto
<1>5. CASE PassStop \/ PassEnd \/ PassRefused \/ SourceFaults
  BY <1>5 DEF PassStop, PassEnd, PassRefused, SourceFaults, Goto
<1>3. CASE CreateProcessor \/ CreateSource \/ CreateIdle
  BY <1>3 DEF CreateProcessor, CreateSource, CreateIdle, Create
<1>4. ASSUME NEW n \in DOMAIN threads, Thread(n)
      PROVE  KeepsSizes /\ main'.at \in {"failed", main.at}
  BY <1>4 DEF Thread, PinThread, PinFails, Goto
<1> QED
  BY <1>1, <1>2, <1>3, <1>4, <1>5 DEF ConfigNext, Main

LEMMA FitStep ==
  ASSUME CTypeOK, FitInv, [ExpNext]_expVars
  PROVE  FitInv'
<1>1. CASE Fresh
  BY <1>1 DEF Fresh, Begun, FitInv, Started
<1>2. CASE UNCHANGED configVars
  BY <1>2 DEF configVars, FitInv, Started
<1>3. CASE Size
  <2> DEFINE num_idle == U64(total_cpu - (main.Num_Processors + main.Num_Sources + META_THREAD))
             TooMany == U64(main.Num_Processors + main.Num_Sources) > U64(total_cpu - META_THREAD)
  <2>1. /\ main' = [main EXCEPT !.at = IF TooMany THEN "failed" ELSE "idle",
                                !.num_idle = num_idle,
                                !.end_count = IF num_idle # 0
                                              THEN num_idle + main.Num_Sources + 1 ELSE 0]
        /\ total_cpu' = total_cpu
    BY <1>3 DEF Size
  <2>2. CASE TooMany
    BY <2>1, <2>2 DEF FitInv, Started, CTypeOK, MainRecords
  <2>3. CASE ~TooMany
    BY <2>1, <2>3, SizeExact DEF FitInv, Started, CTypeOK, MainRecords
  <2> QED
    BY <2>2, <2>3
<1>4. CASE ConfigNext /\ ~Size
  BY <1>4, SizesKept DEF FitInv, Started, KeepsSizes, Same
<1> QED
  BY <1>1, <1>2, <1>3, <1>4, WfeySteps

LEMMA SizesInvariant == ExpSpec => [](CTypeOK /\ FitInv)
<1>1. ExpInit => CTypeOK /\ FitInv
  BY InitConfigType DEF ExpInit, ConfigInit, Begun, FitInv, Started
<1>2. CTypeOK /\ FitInv /\ [ExpNext]_expVars => (CTypeOK /\ FitInv)'
  BY TypeStep, FitStep
<1> QED
  BY <1>1, <1>2, PTL DEF ExpSpec

\* Once main is past its check the machine is large enough, and the idle cores are
\* as many as are left, for every machine and all arguments that 64 bits hold.
\* (The check of main.)
THEOREM StartedFits == ExpSpec => []StartsIfFits
<1>1. FitInv => StartsIfFits
  BY DEF FitInv, StartsIfFits, Started, Running
<1> QED
  BY <1>1, SizesInvariant, PTL

------------------------------------------------------------------------------
(* Each thread on a core of its own.                                        *)

\* The n-th thread is to run on core n, and main waited for the processors before
\* it created sources, and for the sources before it let them go.
Pinned(kind) == \A n \in Threads(kind) : IsPinned(n)

PinInv ==
  /\ main.cpuid = Len(threads) + 1
  /\ \A n \in DOMAIN threads : /\ threads[n].cpu = n
                               /\ IsPinned(n) => threads[n].core = n /\ n < total_cpu
  /\ main.at = "parse" => threads = <<>>
  /\ Threads("processor") # {} => main.Num_Processors > 0
  /\ Threads("source") # {} => main.Num_Sources > 0
  /\ main.at = "source" \/ Started => Pinned("processor")
  /\ Running => Pinned("source")

\* What creating a thread and pinning one do to the list of them.
Grows(kind) ==
  /\ main' = [main EXCEPT !.cpuid = @ + 1] /\ total_cpu' = total_cpu
  /\ Len(threads') = Len(threads) + 1
  /\ DOMAIN threads' = DOMAIN threads \cup {Len(threads) + 1}
  /\ Len(threads) + 1 \notin DOMAIN threads
  /\ \A n \in DOMAIN threads : threads'[n] = threads[n]
  /\ LET new == threads'[Len(threads) + 1] IN
       new.cpu = main.cpuid /\ new.core = NoCpu /\ new.kind = kind

LEMMA CreateGrows ==
  ASSUME CTypeOK, NEW kind, Create(kind)
  PROVE  Grows(kind)
<1> DEFINE new == [kind |-> kind, cpu |-> main.cpuid, core |-> NoCpu, sec |-> 0, nsec |-> 0]
<1>1. /\ threads' = Append(threads, new)
      /\ main' = [main EXCEPT !.cpuid = @ + 1] /\ total_cpu' = total_cpu
  BY DEF Create
<1>2. new.cpu = main.cpuid /\ new.core = NoCpu /\ new.kind = kind
  OBVIOUS
<1> HIDE DEF new
<1>3. /\ Len(threads') = Len(threads) + 1
      /\ DOMAIN threads' = DOMAIN threads \cup {Len(threads) + 1}
      /\ threads'[Len(threads) + 1] = new
      /\ \A n \in DOMAIN threads : threads'[n] = threads[n]
      /\ Len(threads) + 1 \notin DOMAIN threads
  BY <1>1 DEF CTypeOK
<1> QED
  BY <1>1, <1>2, <1>3 DEF Grows

Pins(n, sec, nsec) ==
  /\ UNCHANGED <<main, total_cpu>> /\ Len(threads') = Len(threads)
  /\ DOMAIN threads' = DOMAIN threads
  /\ \A o \in DOMAIN threads : o # n => threads'[o] = threads[o]
  /\ threads[n].cpu < total_cpu /\ threads'[n].core = threads[n].cpu
  /\ threads'[n].kind = threads[n].kind /\ threads'[n].cpu = threads[n].cpu
  /\ threads'[n].sec = sec /\ threads'[n].nsec = nsec

LEMMA PinThreadPins ==
  ASSUME CTypeOK, NEW n \in DOMAIN threads, PinThread(n)
  PROVE  \E ns \in IF threads[n].kind = "source" THEN UNION {Varied(m) : m \in SrcSleep} ELSE {0} :
           Pins(n, Delay(ns).sec, Delay(ns).nsec)
<1>1. PICK ns \in IF threads[n].kind = "source" THEN UNION {Varied(m) : m \in SrcSleep} ELSE {0} :
        threads' = [threads EXCEPT ![n].core = threads[n].cpu,
                                   ![n].sec = Delay(ns).sec, ![n].nsec = Delay(ns).nsec]
  BY DEF PinThread
<1> DEFINE new == [threads[n] EXCEPT !.core = threads[n].cpu, !.sec = Delay(ns).sec,
                                     !.nsec = Delay(ns).nsec]
<1>2. threads' = [threads EXCEPT ![n] = new]
  BY <1>1 DEF CTypeOK, ThreadRecords
<1>3. threads[n] \in ThreadRecords
  BY DEF CTypeOK
<1>4. /\ new.core = threads[n].cpu /\ new.sec = Delay(ns).sec /\ new.nsec = Delay(ns).nsec
      /\ new.kind = threads[n].kind /\ new.cpu = threads[n].cpu
  BY <1>3 DEF ThreadRecords
<1> HIDE DEF new
<1>5. /\ Len(threads') = Len(threads) /\ DOMAIN threads' = DOMAIN threads
      /\ \A o \in DOMAIN threads : o # n => threads'[o] = threads[o]
      /\ threads'[n] = new
  BY <1>2 DEF CTypeOK
<1>6. Pins(n, Delay(ns).sec, Delay(ns).nsec)
  BY <1>4, <1>5 DEF PinThread, Pins
<1> QED
  BY <1>6

\* Each step of wfey but those of its threads.
MainSteps == Main \/ PassRefused \/ SourceFaults

\* A thread is created only where there is to be one.
LEMMA CreatesMeant ==
  ASSUME CTypeOK
  PROVE  /\ CreateProcessor => main.Num_Processors > 0
         /\ CreateSource => main.Num_Sources > 0
<1>1. DOMAIN threads = 1 .. Len(threads) /\ Len(threads) \in Nat
  BY DEF CTypeOK
<1>2. IsFiniteSet(1 .. Len(threads))
  BY <1>1, FS_Interval
<1>3. IsFiniteSet(Threads("source")) /\ IsFiniteSet(Threads("processor"))
  BY <1>1, <1>2, FS_Subset DEF Threads
<1>4. Cardinality(Threads("source")) \in Nat /\ Cardinality(Threads("processor")) \in Nat
  BY <1>3, FS_CardinalityType
<1> QED
  BY <1>4, Arguments DEF CreateSource, CreateProcessor

\* What choosing an option and moving on do.
Moves == /\ UNCHANGED <<threads, total_cpu>> /\ main'.cpuid = main.cpuid
         /\ main.at = "parse" => main'.at \in {"parse", "processor", "failed"}

LEMMA OthersMove ==
  ASSUME CTypeOK, MainSteps, ~(CreateProcessor \/ CreateSource \/ CreateIdle)
  PROVE  Moves
<1> USE DEF CTypeOK, MainRecords, Moves
<1>1. ASSUME NEW value, NEW option \in {"Num_Sources", "Num_Processors", "event_rate"},
             Set(option, value), main.at = "parse"
      PROVE  Moves
  BY <1>1 DEF Set
<1>2. CASE ParseSources \/ ParseProcessors \/ ParseRate
  BY <1>1, <1>2 DEF ParseSources, ParseProcessors, ParseRate, Parse
<1>3. CASE ParseFails \/ ParseEnds \/ PassReady \/ PinMain \/ PassStart \/ TimeIsUp
  BY <1>3 DEF ParseFails, Parse, ParseEnds, PassReady, PinMain, PassStart, TimeIsUp, Goto
<1>4. CASE PassStop \/ PassEnd \/ PassRefused \/ SourceFaults
  BY <1>4 DEF PassStop, PassEnd, PassRefused, SourceFaults, Goto
<1>5. CASE Size
  BY <1>5 DEF Size
<1> QED
  BY <1>2, <1>3, <1>4, <1>5 DEF MainSteps, Main

LEMMA PinMainStep ==
  ASSUME CTypeOK, PinInv, MainSteps
  PROVE  PinInv'
<1> USE DEF PinInv, Pinned, Threads, IsPinned, Started, Running
<1>1. ASSUME NEW kind \in {"processor", "source", "idle"}, Grows(kind),
             main.at \in {"processor", "source", "idle"},
             main.at # "processor" => kind # "processor",
             kind = "processor" => main.Num_Processors > 0,
             kind = "source" => main.Num_Sources > 0
      PROVE  PinInv'
  <2>1. /\ main'.cpuid = Len(threads') + 1 /\ main'.at = main.at
        /\ main'.Num_Processors = main.Num_Processors /\ main'.Num_Sources = main.Num_Sources
    BY <1>1 DEF Grows, CTypeOK, MainRecords
  <2>2. Threads("processor") # {} => main.Num_Processors > 0
    OBVIOUS
  <2>3. Threads("source") # {} => main.Num_Sources > 0
    OBVIOUS
  <2>4. Threads("processor")' # {} => main'.Num_Processors > 0
    BY <1>1, <2>1, <2>2 DEF Grows
  <2>5. Threads("source")' # {} => main'.Num_Sources > 0
    BY <1>1, <2>1, <2>3 DEF Grows
  <2> QED
    BY <1>1, <2>1, <2>4, <2>5 DEF Grows
<1>2. CASE CreateProcessor \/ CreateSource \/ CreateIdle
  BY <1>1, <1>2, CreateGrows, CreatesMeant DEF CreateProcessor, CreateSource, CreateIdle
<1>3. CASE PinMain \/ PassStart \/ TimeIsUp \/ PassEnd \/ SourceFaults
  BY <1>3 DEF PinMain, PassStart, TimeIsUp, PassEnd, SourceFaults, Goto, CTypeOK, MainRecords
<1>4. CASE PassReady \/ PassStop
  <2>1. /\ \/ main.at = "processor" /\ main'.at = "source"
           \/ main.at = "stop" /\ main'.at = "end"
        /\ main'.cpuid = main.cpuid /\ main'.Num_Processors = main.Num_Processors
        /\ main'.Num_Sources = main.Num_Sources /\ UNCHANGED <<total_cpu, threads>>
    BY <1>4 DEF PassReady, PassStop, CTypeOK, MainRecords
  <2>2. Pinned("processor")
    BY <1>4 DEF PassReady, PassStop
  <2>3. Threads("processor")' = Threads("processor") /\ Threads("source")' = Threads("source")
    BY <2>1
  <2>4. Pinned("processor")' /\ (Pinned("source") => Pinned("source")')
    BY <2>1, <2>2, <2>3
  <2> HIDE DEF Pinned, Threads
  <2>5. Running' => Pinned("source")'
    BY <2>1, <2>4
  <2> QED
    BY <2>1, <2>3, <2>4, <2>5
<1>5. CASE PassRefused
  <2>1. main.Num_Processors < 0 => Threads("processor") = {}
    BY Arguments
  <2>2. main.Num_Sources < 0 => Threads("source") = {}
    BY Arguments
  <2> QED
    BY <1>5, <2>1, <2>2 DEF PassRefused, Goto, CTypeOK, MainRecords
<1>6. CASE main.at = "parse" /\ ~(CreateProcessor \/ CreateSource \/ CreateIdle)
  BY <1>6, OthersMove DEF Moves
<1>7. CASE Size
  BY <1>7 DEF Size, CTypeOK, MainRecords
<1> QED
  BY <1>2, <1>3, <1>4, <1>5, <1>6, <1>7 DEF MainSteps, Main, ParseSources, ParseProcessors,
     ParseRate, ParseFails, ParseEnds, Parse

LEMMA PinThreadStep ==
  ASSUME CTypeOK, PinInv, NEW n \in DOMAIN threads, Thread(n)
  PROVE  PinInv'
<1> USE DEF PinInv, Pinned, Threads, IsPinned, Started, Running
<1>1. CASE PinThread(n)
  <2>1. PICK sec, nsec : Pins(n, sec, nsec)
    BY <1>1, PinThreadPins
  <2>2. n \in Nat \ {0}
    BY DEF CTypeOK
  <2> QED
    BY <2>1, <2>2 DEF NoCpu, Pins
<1>2. CASE PinFails(n)
  BY <1>2 DEF PinFails, Goto, CTypeOK, MainRecords
<1> QED
  BY <1>1, <1>2 DEF Thread

LEMMA PinStep ==
  ASSUME CTypeOK, PinInv, [ExpNext]_expVars
  PROVE  PinInv'
<1>1. CASE Fresh
  BY <1>1 DEF Fresh, Begun, PinInv, Pinned, Threads, Started, Running
<1>2. CASE UNCHANGED configVars
  BY <1>2 DEF configVars, PinInv, Pinned, Threads, IsPinned, Started, Running
<1> QED
  BY <1>1, <1>2, WfeySteps, PinMainStep, PinThreadStep DEF ConfigNext, MainSteps

\* When the sources are let go, they and the processor each have a core to
\* themselves, for every number of cores and threads.  (cpuid, pinCpu, barriers.)
THEOREM CoresDistinct == ExpSpec => []PinnedAtStart
<1>1. ExpInit => CTypeOK /\ PinInv
  BY InitConfigType DEF ExpInit, ConfigInit, Begun, PinInv, Pinned, Threads,
     Started, Running
<1>2. CTypeOK /\ PinInv /\ [ExpNext]_expVars => (CTypeOK /\ PinInv)'
  BY TypeStep, PinStep
<1>3. CTypeOK /\ PinInv => PinnedAtStart
  <2> SUFFICES ASSUME CTypeOK, PinInv, Running,
                      NEW n \in Threads("processor") \cup Threads("source")
               PROVE  /\ threads[n].core \in (0 .. total_cpu - 1) \ {RUNNER_CPU}
                      /\ \A o \in DOMAIN threads : o # n => threads[o].core # threads[n].core
    BY DEF PinnedAtStart
  <2>1. /\ n \in DOMAIN threads /\ n \in Nat \ {0}
        /\ threads[n].core = n /\ n < total_cpu /\ total_cpu \in Nat
    BY Arguments DEF PinInv, Pinned, Threads, CTypeOK, Started, Running
  <2>2. \A o \in DOMAIN threads : threads[o].core \in {o, NoCpu}
    BY DEF PinInv, IsPinned
  <2> QED
    BY <2>1, <2>2 DEF RUNNER_CPU, NoCpu
<1> QED
  BY <1>1, <1>2, <1>3, PTL DEF ExpSpec

------------------------------------------------------------------------------
(* What a source sleeps.                                                    *)

Fits(sec, nsec) ==
  LET slept == sec * NSEC_IN_SECOND + nsec IN
  \A ns \in SrcSleep :
    11 * ns < 10 * (TIME_MAX + 1) * NSEC_IN_SECOND =>
      /\ nsec \in 0 .. NSEC_IN_SECOND - 1
      /\ 10 * slept \in 9 * ns - 10 .. 11 * ns

HasRate == main.event_rate \notin {Unset, NaN}

DelayInv == \A n \in Threads("source") :
  /\ main.at \notin {"parse", "processor"} /\ main.Num_Sources > 0
  /\ IsPinned(n) /\ HasRate => Fits(threads[n].sec, threads[n].nsec)

\* With a rate there is one sleep on average, and it is none of a negative time.
LEMMA SleepPositive ==
  ASSUME CTypeOK, main.Num_Sources > 0, HasRate
  PROVE  \E m \in Nat : SrcSleep = {m}
<1>1. /\ main.event_rate \in {Infinity} \cup Nat /\ main.Num_Sources \in Nat
      /\ main.event_rate # Unset
  BY Arguments DEF CTypeOK, MainRecords, HasRate
<1>2. CASE main.event_rate = 0
  <2>1. SrcSleep = {main.Num_Sources * NEVER * NSEC_IN_SECOND}
    BY <1>1, <1>2, ConfigAssumption DEF SrcSleep
  <2>2. main.Num_Sources * NEVER * NSEC_IN_SECOND \in Nat
    BY <1>1, ConfigAssumption
  <2> QED
    BY <2>1, <2>2
<1>3. CASE main.event_rate # 0 /\ main.event_rate \in {NaN, Infinity}
  BY <1>1, <1>3 DEF SrcSleep
<1>4. CASE main.event_rate # 0 /\ main.event_rate \notin {NaN, Infinity}
  <2>1. SrcSleep = {(main.Num_Sources * NSEC_IN_SECOND * SCALE) \div main.event_rate}
    BY <1>1, <1>4 DEF SrcSleep
  <2>2. main.Num_Sources * NSEC_IN_SECOND * SCALE \in Nat /\ main.event_rate \in Nat \ {0}
    BY <1>1, <1>4, ConfigAssumption
  <2>3. \A a \in Nat, b \in Nat \ {0} : a \div b \in Nat
    OBVIOUS
  <2> QED
    BY <2>1, <2>2, <2>3
<1> QED
  BY <1>2, <1>3, <1>4

\* A tenth of a product, and no more, whatever the percent.
LEMMA VariedFits ==
  ASSUME NEW m \in Nat, NEW ns \in Varied(m)
  PROVE  ns \in Nat /\ 10 * ns \in 9 * m - 10 .. 11 * m
<1>1. PICK percent \in -DELAYADD .. DELAYADD : ns = (m * (100 + percent)) \div 100
  BY DEF Varied
<1>2. PICK share \in 90 .. 110 : share = 100 + percent
  BY DEF DELAYADD
<1>3. m * 90 <= m * share /\ m * share <= m * 110 /\ m * share \in Nat
  <2>1. \A a, b, c \in Nat : b <= c => a * b <= a * c
    BY SMTT(30)
  <2> QED
    BY <2>1
<1>4. PICK p \in Nat : p = m * share
  BY <1>3
<1>5. ns = p \div 100 /\ 90 * m <= p /\ p <= 110 * m
  BY <1>1, <1>2, <1>3, <1>4
<1> QED
  BY <1>5

LEMMA DelayFits ==
  ASSUME NEW ns \in Nat, ns < (TIME_MAX + 1) * NSEC_IN_SECOND
  PROVE  /\ Delay(ns).nsec \in 0 .. NSEC_IN_SECOND - 1
         /\ Delay(ns).sec * NSEC_IN_SECOND + Delay(ns).nsec = ns
<1>1. NSEC_IN_SECOND \in Nat \ {0} /\ TIME_MAX \in Nat /\ NSEC_IN_SECOND <= TIME_MAX
  BY ConfigAssumption
<1>2. CASE ns >= NSEC_IN_SECOND
  <2>1. PICK sec \in Nat, rest \in 0 .. NSEC_IN_SECOND - 1 :
          sec = ns \div NSEC_IN_SECOND /\ sec * NSEC_IN_SECOND + rest = ns
    BY <1>2, SplitTime
  <2>2. sec <= TIME_MAX
    <3>1. \A a, b, c \in Nat : a > b => a * c >= (b + 1) * c
      BY SMTT(30)
    <3> QED
      BY <3>1, <2>1, <1>1
  <2>3. Delay(ns).sec = sec
    BY <1>2, <2>1, <2>2, <1>1 DEF Delay, Saturated
  <2>4. ns - sec * NSEC_IN_SECOND = rest
    BY <2>1, <1>1
  <2>5. Delay(ns).nsec = Saturated(ns - Delay(ns).sec * NSEC_IN_SECOND)
    BY DEF Delay
  <2>6. Delay(ns).nsec = rest
    BY <2>3, <2>4, <2>5, <1>1 DEF Saturated
  <2> QED
    BY <2>1, <2>3, <2>6
<1>3. CASE ns < NSEC_IN_SECOND
  <2>1. Delay(ns) = [sec |-> 0, nsec |-> ns]
    BY <1>1, <1>3 DEF Delay, Saturated
  <2> QED
    BY <2>1, <1>1, <1>3
<1> QED
  BY <1>1, <1>2, <1>3

LEMMA DelayThreadStep ==
  ASSUME CTypeOK, DelayInv, NEW n \in DOMAIN threads, Thread(n)
  PROVE  DelayInv'
<1> USE DEF DelayInv, Threads, IsPinned, Fits, SrcSleep, HasRate
<1>1. CASE PinThread(n)
  <2>1. PICK ns \in IF threads[n].kind = "source" THEN UNION {Varied(m) : m \in SrcSleep} ELSE {0} :
          Pins(n, Delay(ns).sec, Delay(ns).nsec)
    BY <1>1, PinThreadPins
  <2>2. ASSUME threads[n].kind = "source", HasRate
        PROVE  Fits(Delay(ns).sec, Delay(ns).nsec)
    <3>1. main.Num_Sources > 0
      BY <2>2
    <3>2. PICK m \in Nat : SrcSleep = {m}
      BY <2>2, <3>1, SleepPositive
    <3>3. ns \in Varied(m)
      BY <2>2, <3>2
    <3>4. ns \in Nat /\ 10 * ns \in 9 * m - 10 .. 11 * m
      BY <3>3, VariedFits
    <3>5. PICK fit \in Nat : fit = (TIME_MAX + 1) * NSEC_IN_SECOND
      BY ConfigAssumption
    <3>6. 10 * (TIME_MAX + 1) * NSEC_IN_SECOND = 10 * fit
      BY <3>5, ConfigAssumption
    <3>7. 11 * m < 10 * fit => ns < fit
      BY <3>4
    <3> HIDE DEF SrcSleep
    <3> QED
      BY <3>2, <3>4, <3>5, <3>6, <3>7, DelayFits
  <2>3. main' = main
    BY <2>1 DEF Pins
  <2>4. \A sec, nsec : Fits(sec, nsec)' <=> Fits(sec, nsec)
    BY <2>3
  <2> HIDE DEF Fits, SrcSleep
  <2> QED
    BY <2>1, <2>2, <2>3, <2>4 DEF Pins
<1>2. CASE PinFails(n)
  BY <1>2 DEF PinFails, Goto, CTypeOK, MainRecords
<1> QED
  BY <1>1, <1>2 DEF Thread

LEMMA DelayMainStep ==
  ASSUME CTypeOK, DelayInv, MainSteps
  PROVE  DelayInv'
<1>1. CASE main.at = "parse" /\ ~(CreateProcessor \/ CreateSource \/ CreateIdle)
  <2>1. threads' = threads
    BY <1>1, OthersMove DEF Moves
  <2> QED
    BY <2>1, <1>1 DEF DelayInv, Threads
<1>2. CASE CreateProcessor \/ CreateSource \/ CreateIdle
  <2>1. PICK kind : Grows(kind) /\ (kind = "source" => CreateSource)
    BY <1>2, CreateGrows DEF CreateProcessor, CreateSource, CreateIdle
  <2>2. CreateSource => main.at = "source" /\ main.Num_Sources > 0
    BY CreatesMeant DEF CreateSource
  <2>3. /\ main'.at = main.at /\ main'.Num_Sources = main.Num_Sources
        /\ main'.event_rate = main.event_rate
    BY <2>1 DEF Grows, CTypeOK, MainRecords
  <2>4. \A sec, nsec : Fits(sec, nsec)' <=> Fits(sec, nsec)
    BY <2>3 DEF Fits, SrcSleep
  <2> QED
    BY <2>1, <2>2, <2>3, <2>4 DEF Grows, DelayInv, Threads, IsPinned, HasRate
<1>3. CASE main.at # "parse" /\ ~(CreateProcessor \/ CreateSource \/ CreateIdle)
  <2>1. /\ main'.Num_Sources = main.Num_Sources /\ main'.event_rate = main.event_rate
        /\ threads' = threads
        /\ main.at \notin {"parse", "processor"} => main'.at \notin {"parse", "processor"}
    <3>1. CASE PassReady \/ PassStop \/ Size
      BY <3>1 DEF PassReady, PassStop, Size, CTypeOK, MainRecords
    <3>2. CASE PinMain \/ PassStart \/ TimeIsUp \/ PassEnd \/ PassRefused \/ SourceFaults
      BY <3>2 DEF PinMain, PassStart, TimeIsUp, PassEnd, PassRefused, SourceFaults, Goto,
         CTypeOK, MainRecords
    <3> QED
      BY <1>3, <3>1, <3>2 DEF MainSteps, Main, ParseSources, ParseProcessors, ParseRate,
         ParseFails, ParseEnds, Parse
  <2>2. \A sec, nsec : Fits(sec, nsec)' <=> Fits(sec, nsec)
    BY <2>1 DEF Fits, SrcSleep
  <2> QED
    BY <2>1, <2>2 DEF DelayInv, Threads, IsPinned, HasRate
<1> QED
  BY <1>1, <1>2, <1>3

LEMMA DelayStep ==
  ASSUME CTypeOK, DelayInv, [ExpNext]_expVars
  PROVE  DelayInv'
<1>1. CASE Fresh
  BY <1>1 DEF Fresh, DelayInv, Threads
<1>2. CASE UNCHANGED configVars
  BY <1>2 DEF configVars, DelayInv, Threads, IsPinned, Fits, SrcSleep, HasRate
<1> QED
  BY <1>1, <1>2, WfeySteps, DelayMainStep, DelayThreadStep DEF ConfigNext, MainSteps

\* With -e and a number, the delay of every source is a time nanosleep accepts and
\* within a tenth of its share, for every rate that is a double, every variation, and
\* any number of sources, unless its seconds are more than time_t holds.  (srcsleep
\* in main, thedelay in sourceThread.)
THEOREM DelaysRight == ExpSpec => []DelayRight
<1>1. ExpInit => CTypeOK /\ DelayInv
  BY InitConfigType DEF ExpInit, ConfigInit, DelayInv, Threads
<1>2. CTypeOK /\ DelayInv /\ [ExpNext]_expVars => (CTypeOK /\ DelayInv)'
  BY TypeStep, DelayStep
<1>3. DelayInv => DelayRight
  BY DEF DelayInv, DelayRight, Fits, HasRate
<1> QED
  BY <1>1, <1>2, <1>3, PTL DEF ExpSpec

------------------------------------------------------------------------------
(* The count of the end barrier.                                            *)

AtLeast0(x) == IF x > 0 THEN x ELSE 0

\* With a processor it is the first thread, the sources follow, and then the idle
\* threads, up to the last core.
KindInv ==
  /\ main.at = "parse" => Len(threads) = 0
  /\ main.Num_Processors > 0 =>
       /\ main.at = "processor" => /\ Len(threads) <= 1
                                   /\ \A n \in DOMAIN threads : threads[n].kind = "processor"
       /\ main.at = "source" \/ Started =>
            /\ Len(threads) >= 1
            /\ \A n \in DOMAIN threads : threads[n].kind = "processor" <=> n = 1
       /\ main.at = "source" =>
            /\ Len(threads) <= 1 + AtLeast0(main.Num_Sources)
            /\ \A n \in DOMAIN threads : n > 1 => threads[n].kind = "source"
       /\ Started => \/ Len(threads) < total_cpu
                     \/ Len(threads) <= 1 + AtLeast0(main.Num_Sources)
       /\ Started /\ main.at # "idle" => Len(threads) >= total_cpu - 1

LEMMA UpTo ==
  ASSUME NEW n \in Nat
  PROVE  /\ Cardinality(1 .. n) = n
         /\ n >= 1 => Cardinality(2 .. n) = n - 1
  BY FS_Interval

LEMMA ThreadDomain ==
  ASSUME CTypeOK
  PROVE  DOMAIN threads = 1 .. Len(threads) /\ Len(threads) \in Nat
  BY DEF CTypeOK

LEMMA KindCreateStep ==
  ASSUME CTypeOK, PinInv, KindInv, CreateProcessor \/ CreateSource \/ CreateIdle
  PROVE  KindInv'
<1> USE ThreadDomain
<1>1. ASSUME NEW kind, Grows(kind)
      PROVE  /\ main'.at = main.at /\ main'.Num_Processors = main.Num_Processors
             /\ main'.Num_Sources = main.Num_Sources
             /\ DOMAIN threads' = 1 .. Len(threads) + 1 /\ Len(threads') = Len(threads) + 1
             /\ \A n \in 1 .. Len(threads) : threads'[n] = threads[n]
             /\ threads'[Len(threads) + 1].kind = kind
  BY <1>1 DEF Grows, CTypeOK, MainRecords
<1>2. CASE CreateProcessor
  <2>1. main.at = "processor" /\ Grows("processor")
    BY <1>2, CreateGrows DEF CreateProcessor
  <2>2. ASSUME main.Num_Processors > 0
        PROVE  Len(threads) = 0
    <3>1. main.Num_Processors = 1
      BY <2>2, Arguments DEF CTypeOK, ArgInv
    <3>2. Threads("processor") = 1 .. Len(threads)
      BY <2>1, <2>2 DEF KindInv, Threads
    <3> QED
      BY <1>2, <3>1, <3>2, UpTo DEF CreateProcessor
  <2> QED
    BY <1>1, <2>1, <2>2 DEF KindInv, Started
<1>3. CASE CreateSource
  <2>1. main.at = "source" /\ Grows("source")
    BY <1>3, CreateGrows DEF CreateSource
  <2>2. ASSUME main.Num_Processors > 0
        PROVE  Len(threads) <= main.Num_Sources
    <3>1. Threads("source") = 2 .. Len(threads)
      BY <2>1, <2>2 DEF KindInv, Threads
    <3>2. Cardinality(Threads("source")) = Len(threads) - 1
      BY <3>1, <2>1, <2>2, UpTo DEF KindInv
    <3> QED
      BY <1>3, <3>2, Arguments DEF CreateSource
  <2>3. main.Num_Processors > 0 => Len(threads) + 1 <= 1 + AtLeast0(main.Num_Sources)
    BY <2>2, Arguments DEF AtLeast0
  <2>4. main'.at = "source" /\ ~Started' /\ AtLeast0(main'.Num_Sources) = AtLeast0(main.Num_Sources)
    BY <1>1, <2>1 DEF Started
  <2> QED
    BY <1>1, <2>1, <2>3, <2>4 DEF KindInv
<1>4. CASE CreateIdle
  <2>1. main.at = "idle" /\ Grows("idle") /\ main.cpuid < total_cpu
    BY <1>4, CreateGrows DEF CreateIdle, MoreIdle
  <2>2. Len(threads) + 1 < total_cpu /\ total_cpu' = total_cpu
    BY <2>1 DEF PinInv, Grows
  <2> QED
    BY <1>1, <2>1, <2>2, Arguments DEF KindInv, Started
<1> QED
  BY <1>2, <1>3, <1>4

LEMMA KindMainStep ==
  ASSUME CTypeOK, PinInv, KindInv, MainSteps
  PROVE  KindInv'
<1> USE ThreadDomain
<1>1. CASE CreateProcessor \/ CreateSource \/ CreateIdle
  BY <1>1, KindCreateStep
<1>2. CASE main.at = "parse" /\ ~(CreateProcessor \/ CreateSource \/ CreateIdle)
  BY <1>2, OthersMove DEF Moves, KindInv, Started
<1>3. CASE PassReady
  <2>1. /\ main.at = "processor" /\ main'.at = "source"
        /\ main'.Num_Processors = main.Num_Processors /\ main'.Num_Sources = main.Num_Sources
        /\ UNCHANGED <<total_cpu, threads>>
    BY <1>3 DEF PassReady, CTypeOK, MainRecords
  <2>2. ASSUME main.Num_Processors > 0
        PROVE  Len(threads) = 1
    <3>1. Threads("processor") = 1 .. Len(threads) /\ Len(threads) <= 1
      BY <2>1, <2>2 DEF KindInv, Threads
    <3>2. Cardinality(Threads("processor")) = Len(threads)
      BY <3>1, UpTo
    <3> QED
      BY <1>3, <2>2, <3>1, <3>2, Arguments DEF PassReady
  <2>3. ~Started'
    BY <2>1 DEF Started
  <2>4. 1 <= 1 + AtLeast0(main.Num_Sources)
    BY Arguments DEF AtLeast0
  <2> QED
    BY <2>1, <2>2, <2>3, <2>4 DEF KindInv
<1>4. CASE Size
  <2>1. /\ main.at = "source" /\ main'.at \in {"failed", "idle"}
        /\ main'.Num_Processors = main.Num_Processors /\ main'.Num_Sources = main.Num_Sources
        /\ UNCHANGED <<total_cpu, threads>>
    BY <1>4 DEF Size, CTypeOK, MainRecords
  <2> QED
    BY <2>1 DEF KindInv, Started
<1>5. CASE PinMain
  <2>1. /\ main.at = "idle" /\ main' = [main EXCEPT !.at = "start"]
        /\ UNCHANGED <<total_cpu, threads>> /\ ~(main.cpuid < total_cpu)
    BY <1>5 DEF PinMain, Goto, MoreIdle
  <2> QED
    BY <2>1, Arguments DEF PinInv, KindInv, Started, CTypeOK, MainRecords
<1>6. CASE PassStart \/ TimeIsUp \/ PassEnd \/ PassRefused \/ SourceFaults
  <2>1. /\ main'.Num_Processors = main.Num_Processors /\ main'.Num_Sources = main.Num_Sources
        /\ UNCHANGED <<total_cpu, threads>>
        /\ \/ main.Num_Processors < 0
           \/ main.at \in {"start", "run", "stop", "end"} /\ main'.at \in {"run", "stop", "end", "done"}
    BY <1>6 DEF PassStart, TimeIsUp, PassEnd, PassRefused, SourceFaults, Goto, CTypeOK, MainRecords
  <2>2. main'.at # "parse"
    BY <1>6 DEF PassStart, TimeIsUp, PassEnd, PassRefused, SourceFaults, Goto, CTypeOK, MainRecords
  <2> QED
    BY <2>1, <2>2, Arguments DEF KindInv, Started
<1>7. CASE PassStop
  BY <1>7 DEF PassStop, KindInv, Started, CTypeOK, MainRecords
<1> QED
  BY <1>1, <1>2, <1>3, <1>4, <1>5, <1>6, <1>7 DEF MainSteps, Main, ParseSources, ParseProcessors, ParseRate,
     ParseFails, ParseEnds, Parse

LEMMA KindThreadStep ==
  ASSUME CTypeOK, KindInv, NEW n \in DOMAIN threads, Thread(n)
  PROVE  KindInv'
<1>1. CASE PinThread(n)
  <2>1. PICK sec, nsec : Pins(n, sec, nsec)
    BY <1>1, PinThreadPins
  <2> QED
    BY <2>1 DEF Pins, KindInv, Started
<1>2. CASE PinFails(n)
  BY <1>2 DEF PinFails, Goto, KindInv, Started, CTypeOK, MainRecords
<1> QED
  BY <1>1, <1>2 DEF Thread

LEMMA KindStep ==
  ASSUME CTypeOK, PinInv, KindInv, [ExpNext]_expVars
  PROVE  KindInv'
<1>1. CASE Fresh
  BY <1>1 DEF Fresh, Begun, KindInv, Started
<1>2. CASE UNCHANGED configVars
  BY <1>2 DEF configVars, KindInv, Started
<1> QED
  BY <1>1, <1>2, WfeySteps, KindMainStep, KindThreadStep DEF ConfigNext, MainSteps

LEMMA CountFollows ==
  ASSUME CTypeOK, FitInv, KindInv
  PROVE  EndCountRight
<1> SUFFICES ASSUME main.at = "start" \/ Running, main.Num_Processors > 0,
                    main.end_count # 0
             PROVE  main.end_count = Cardinality(Threads("source") \cup Threads("idle")) + 1
  BY DEF EndCountRight
<1>1. main.Num_Processors = 1
  BY Arguments DEF CTypeOK, ArgInv
<1>2. /\ Len(threads) \in Nat /\ total_cpu \in Nat /\ main.Num_Sources \in Int
      /\ main.num_idle \in Nat
  BY Arguments, ThreadDomain DEF CTypeOK, MainRecords
<1>3. /\ 1 + main.Num_Sources >= 0
      /\ main.num_idle = total_cpu - (1 + main.Num_Sources + 1)
      /\ main.end_count = main.num_idle + main.Num_Sources + 1 /\ main.num_idle # 0
  BY <1>1, <1>2 DEF FitInv, Started, Running, META_THREAD
<1>4. /\ Len(threads) >= 1 /\ Len(threads) >= total_cpu - 1
      /\ Len(threads) < total_cpu \/ Len(threads) <= 1 + AtLeast0(main.Num_Sources)
  BY <1>2 DEF KindInv, Started, Running
<1>5. Len(threads) = total_cpu - 1
  BY <1>2, <1>3, <1>4 DEF AtLeast0
<1>6. Threads("source") \cup Threads("idle") = 2 .. Len(threads)
  <2>1. \A n \in DOMAIN threads : threads[n].kind \in {"processor", "source", "idle"}
    <3>1. \A n \in DOMAIN threads : threads[n] \in ThreadRecords
      BY DEF CTypeOK
    <3> QED
      BY <3>1 DEF ThreadRecords
  <2>2. \A n \in DOMAIN threads : threads[n].kind = "processor" <=> n = 1
    BY DEF KindInv, Started, Running
  <2>3. Threads("source") \cup Threads("idle") = {n \in DOMAIN threads : n # 1}
    BY <2>1, <2>2 DEF Threads
  <2>4. {n \in 1 .. Len(threads) : n # 1} = 2 .. Len(threads)
    BY <1>2
  <2> QED
    BY <2>3, <2>4, ThreadDomain
<1>7. Cardinality(Threads("source") \cup Threads("idle")) = Len(threads) - 1
  BY <1>2, <1>4, <1>6, UpTo
<1> QED
  BY <1>2, <1>3, <1>5, <1>7

\* The end barrier is told as many threads as will wait at it, or nothing, for every
\* machine, whatever the number of sources.  (num_idle against the loop that creates
\* the idle threads.)
THEOREM EndCounted == ExpSpec => []EndCountRight
<1> DEFINE Inv == CTypeOK /\ FitInv /\ PinInv /\ KindInv
<1>1. ExpInit => Inv
  BY InitConfigType DEF ExpInit, ConfigInit, Begun, FitInv, PinInv, KindInv, Pinned, Threads,
     Started, Running
<1>2. Inv /\ [ExpNext]_expVars => Inv'
  BY TypeStep, FitStep, PinStep, KindStep
<1>3. Inv => EndCountRight
  BY CountFollows
<1> QED
  BY <1>1, <1>2, <1>3, PTL DEF ExpSpec

------------------------------------------------------------------------------
(* The scripts, and the order of the samples.                               *)

Samples == [kind : {"header", "first", "last"}, when : {"before", "during", "after", "past"}]

STypeOK ==
  /\ energytype \in {"WMOD", "NOMOD", "none"}
  /\ script \in [at : {"begin", "sourcing", "spawn", "exec", "wfey", "cleanup", "reset",
                        "finished"}, run : 1 .. Runs]
  /\ task \in [1 .. Runs -> {"none", "header", "sample", "done"}]
  /\ log \in [1 .. Runs -> Seq(Samples)]

LEMMA SampleType ==
  ASSUME NEW r, NEW kind \in {"header", "first", "last"}
  PROVE  Sample(r, kind) \in Samples
<1>1. When(r) \in {"before", "during", "after", "past"}
  BY DEF When
<1> QED
  BY <1>1 DEF Samples, Sample

LEMMA ScriptTypeStep ==
  ASSUME STypeOK, [ExpNext]_expVars
  PROVE  STypeOK'
<1>1. CASE SourceScript \/ SpawnTask \/ ExecWfey \/ WfeyReturns
  BY <1>1 DEF STypeOK, SourceScript, SpawnTask, ExecWfey, WfeyReturns, ScriptGoto
<1>2. CASE Cleanup
  <2>1. log'[script.run] \in Seq(Samples) /\ log' = [log EXCEPT ![script.run] = log'[script.run]]
    <3>1. Append(log[script.run], Sample(script.run, "last")) \in Seq(Samples)
      BY SampleType DEF STypeOK
    <3> QED
      BY <3>1, <1>2 DEF Cleanup, STypeOK
  <2> QED
    BY <1>2, <2>1 DEF STypeOK, Cleanup, ScriptGoto
<1>3. CASE NextRun
  BY <1>3, RunsAssumption DEF STypeOK, NextRun
<1>4. ASSUME NEW r \in 1 .. Runs, PowerLog(r)
      PROVE  STypeOK'
  <2>1. CASE TaskHeader(r)
    <3>1. <<Sample(r, "header")>> \in Seq(Samples)
      BY SampleType
    <3> QED
      BY <2>1, <3>1 DEF TaskHeader, STypeOK
  <2>2. CASE TaskSample(r)
    <3>1. Append(log[r], Sample(r, "first")) \in Seq(Samples)
      BY SampleType DEF STypeOK
    <3> QED
      BY <2>2, <3>1 DEF TaskSample, STypeOK
  <2> QED
    BY <1>4, <2>1, <2>2 DEF PowerLog
<1>5. CASE UNCHANGED scriptVars
  BY <1>5 DEF STypeOK, scriptVars
<1> QED
  BY <1>1, <1>2, <1>3, <1>4, <1>5 DEF ExpNext, Scripts, Wfey, expVars

LEMMA InitScriptType == ExpInit => STypeOK
  BY RunsAssumption DEF ExpInit, STypeOK

\* The scripts stay in their sweep, whatever its length.  (full_run.sh.)
THEOREM ScriptsTyped == ExpSpec => []ScriptTypeOK
<1>1. STypeOK => ScriptTypeOK
  BY DEF STypeOK, ScriptTypeOK, Samples
<1> QED
  BY <1>1, InitScriptType, ScriptTypeStep, PTL DEF ExpSpec

------------------------------------------------------------------------------

Early(r)   == \/ r > script.run
              \/ r = script.run /\ script.at \in {"begin", "sourcing", "spawn"}
Current(r) == r = script.run /\ script.at \in {"exec", "wfey", "cleanup"}
Passed(r)  == script.run > r \/ (r = script.run /\ script.at \in {"reset", "finished"})

Timely    == {"before", "during", "after"}
Header(w) == [kind |-> "header", when |-> w]
First(w)  == [kind |-> "first", when |-> w]
Last      == [kind |-> "last", when |-> "after"]

\* The files that a run and its task can leave: the task was done in time, it sampled
\* after the script had done so, or it even made the file after that.
InTime(r)     == \E h, f \in Timely :
                   (f = "before" => h = "before") /\ log[r] = <<Header(h), First(f), Last>>
SampleLate(r) == \E h \in Timely : log[r] = <<Header(h), Last, First("past")>>
TaskLate(r)   == log[r] = <<Header("past"), First("past")>>

\* The file of each run before its task, during the run, and afterwards.
LogShape(r) ==
  /\ Early(r) => task[r] = "none" /\ log[r] = <<>>
  /\ Current(r) =>
       /\ task[r] \in {"none", "header"} => log[r] = <<>>
       /\ task[r] = "sample" =>
            \E h \in Timely : (script.at = "exec" => h = "before") /\ log[r] = <<Header(h)>>
       /\ task[r] = "done" =>
            \E h, f \in Timely : (f = "before" => h = "before") /\ log[r] = <<Header(h), First(f)>>
  /\ Passed(r) =>
       /\ task[r] = "sample" =>
            log[r] = <<Header("past")>> \/ \E h \in Timely : log[r] = <<Header(h), Last>>
       /\ task[r] = "done" => InTime(r) \/ SampleLate(r) \/ TaskLate(r)

LogInv == /\ script.at = "cleanup" => Over
          /\ energytype = "none" => /\ script.at # "spawn"
                                    /\ \A r \in 1 .. Runs : task[r] = "none"
          /\ \A r \in 1 .. Runs : LogShape(r)

LEMMA OverStep ==
  ASSUME STypeOK, LogInv, [ExpNext]_expVars
  PROVE  script'.at = "cleanup" => Over'
<1>1. CASE Scripts
  BY <1>1 DEF Scripts, SourceScript, SpawnTask, ExecWfey, WfeyReturns, Cleanup, NextRun, ScriptGoto,
     LogInv, Over, configVars, STypeOK
<1>2. CASE \E r \in 1 .. Runs : PowerLog(r)
  BY <1>2 DEF PowerLog, TaskHeader, TaskSample, LogInv, Over, configVars
<1>3. CASE Wfey(ConfigNext)
  BY <1>3 DEF Wfey, scriptVars
<1>4. CASE UNCHANGED expVars
  BY <1>4 DEF expVars, configVars, scriptVars, LogInv, Over
<1> QED
  BY <1>1, <1>2, <1>3, <1>4 DEF ExpNext

\* When a sample is taken, by what the scripts are doing.
LEMMA WhenCurrent ==
  ASSUME STypeOK, NEW r \in 1 .. Runs, Current(r)
  PROVE  /\ When(r) \in Timely
         /\ script.at = "exec" => When(r) = "before"
         /\ script.at # "exec" => When(r) # "before"
         /\ script.at = "cleanup" /\ Over => When(r) = "after"
  BY DEF STypeOK, Current, When, Timely

LEMMA WhenPassed ==
  ASSUME STypeOK, NEW r \in 1 .. Runs, Passed(r)
  PROVE  When(r) = "past"
  BY DEF Passed, When

LEMMA ShapeKept ==
  ASSUME STypeOK, LogInv, NEW r \in 1 .. Runs, task'[r] = task[r], log'[r] = log[r],
         Early(r)' => Early(r), Current(r)' => Current(r), Passed(r)' => Passed(r),
         script'.at = "exec" => script.at = "exec" \/ r # script'.run
  PROVE  LogShape(r)'
<1>1. LogShape(r)
  BY DEF LogInv
<1>2. InTime(r) \/ SampleLate(r) \/ TaskLate(r) => (InTime(r) \/ SampleLate(r) \/ TaskLate(r))'
  BY DEF InTime, SampleLate, TaskLate
<1>3. Current(r)' => r = script'.run
  BY DEF Current
<1> QED
  BY <1>1, <1>2, <1>3 DEF LogShape

\* Sequences are equal when their elements are.
LEMMA SeqEqual ==
  ASSUME NEW S, NEW s \in Seq(S), NEW t \in Seq(S), Len(s) = Len(t),
         \A n \in 1 .. Len(s) : s[n] = t[n]
  PROVE  s = t
  OBVIOUS

\* What a sequence of one or two lines becomes with another.
LEMMA AppendToOne ==
  ASSUME NEW a, NEW b
  PROVE  Append(<<a>>, b) = <<a, b>>
<1> DEFINE S == {a, b}
<1>1. <<a>> \in Seq(S) /\ <<a, b>> \in Seq(S) /\ b \in S
  OBVIOUS
<1>2. Append(<<a>>, b) \in Seq(S)
  BY <1>1
<1>3. Len(Append(<<a>>, b)) = 2 /\ Len(<<a, b>>) = 2
  BY <1>1
<1>4. \A n \in 1 .. 2 : Append(<<a>>, b)[n] = <<a, b>>[n]
  BY <1>1
<1> QED
  BY <1>1, <1>2, <1>3, <1>4, SeqEqual

LEMMA AppendToTwo ==
  ASSUME NEW a, NEW b, NEW c
  PROVE  Append(<<a, b>>, c) = <<a, b, c>>
<1> DEFINE S == {a, b, c}
<1>1. <<a, b>> \in Seq(S) /\ <<a, b, c>> \in Seq(S) /\ c \in S
  OBVIOUS
<1>2. Append(<<a, b>>, c) \in Seq(S)
  BY <1>1
<1>3. Len(Append(<<a, b>>, c)) = 3 /\ Len(<<a, b, c>>) = 3
  BY <1>1
<1>4. \A n \in 1 .. 3 : Append(<<a, b>>, c)[n] = <<a, b, c>>[n]
  BY <1>1
<1> QED
  BY <1>1, <1>2, <1>3, <1>4, SeqEqual

LEMMA LogScriptStep ==
  ASSUME STypeOK, LogInv, Scripts, NEW r \in 1 .. Runs
  PROVE  LogShape(r)'
<1> USE DEF STypeOK
<1>1. CASE SourceScript
  BY <1>1, ShapeKept DEF SourceScript, ScriptGoto, Early, Current, Passed
<1>2. CASE SpawnTask
  <2>1. CASE r = script.run
    BY <1>2, <2>1 DEF SpawnTask, ScriptGoto, LogInv, LogShape, Early, Current, Passed
  <2>2. CASE r # script.run
    BY <1>2, <2>2, ShapeKept DEF SpawnTask, ScriptGoto, Early, Current, Passed
  <2> QED
    BY <2>1, <2>2
<1>3. CASE ExecWfey
  <2>1. CASE script.at = "exec" \/ r # script.run
    BY <1>3, <2>1, ShapeKept DEF ExecWfey, ScriptGoto, Early, Current, Passed
  <2>2. CASE script.at = "begin" /\ r = script.run
    <3>1. task[r] = "none" /\ log[r] = <<>>
      BY <2>2 DEF LogInv, LogShape, Early
    <3>2. task'[r] = "none" /\ log'[r] = <<>> /\ script'.at = "wfey" /\ script'.run = r
      BY <1>3, <2>2, <3>1 DEF ExecWfey, ScriptGoto
    <3>3. ~Early(r)' /\ ~Passed(r)'
      BY <3>2 DEF Early, Passed
    <3> QED
      BY <3>2, <3>3 DEF LogShape
  <2> QED
    BY <1>3, <2>1, <2>2 DEF ExecWfey
<1>4. CASE WfeyReturns
  <2>1. CASE r # script.run \/ energytype # "none"
    BY <1>4, <2>1, ShapeKept DEF WfeyReturns, ScriptGoto, Early, Current, Passed
  <2>2. CASE r = script.run /\ energytype = "none"
    <3>1. task[r] = "none" /\ log[r] = <<>>
      BY <1>4, <2>2 DEF WfeyReturns, LogInv, LogShape, Current
    <3>2. log'[r] = <<>> /\ task'[r] = "none" /\ script' = [script EXCEPT !.at = "reset"]
      BY <1>4, <2>2, <3>1 DEF WfeyReturns, ScriptGoto
    <3>3. ~Early(r)' /\ ~Current(r)'
      BY <2>2, <3>2 DEF Early, Current
    <3> QED
      BY <3>2, <3>3 DEF LogShape
  <2> QED
    BY <2>1, <2>2
<1>5. CASE Cleanup
  <2>1. CASE r # script.run
    BY <1>5, <2>1, ShapeKept DEF Cleanup, ScriptGoto, Early, Current, Passed
  <2>2. CASE r = script.run
    <3>1. Current(r) /\ LogShape(r) /\ Over /\ script.at = "cleanup"
      BY <1>5, <2>2 DEF Cleanup, LogInv, Current
    <3>2. Sample(r, "last") = Last
      BY <3>1, WhenCurrent DEF Sample, Last
    <3>3. /\ log'[r] = Append(log[r], Last) /\ task'[r] = task[r]
          /\ script' = [script EXCEPT !.at = "reset"]
      BY <1>5, <2>2, <3>2 DEF Cleanup, ScriptGoto
    <3>4. ~Early(r)' /\ ~Current(r)'
      BY <2>2, <3>3 DEF Early, Current
    <3>5. CASE task[r] = "done"
      <4>1. PICK h \in Timely, f \in Timely :
              (f = "before" => h = "before") /\ log[r] = <<Header(h), First(f)>>
        BY <3>1, <3>5 DEF LogShape
      <4>2. Append(<<Header(h), First(f)>>, Last) = <<Header(h), First(f), Last>>
        BY AppendToTwo
      <4>3. InTime(r)'
        BY <3>3, <4>1, <4>2 DEF InTime
      <4> QED
        BY <3>3, <3>4, <3>5, <4>3 DEF LogShape
    <3>6. CASE task[r] = "sample"
      <4>1. PICK h \in Timely : log[r] = <<Header(h)>>
        BY <3>1, <3>6 DEF LogShape
      <4>2. Append(<<Header(h)>>, Last) = <<Header(h), Last>>
        BY AppendToOne
      <4> QED
        BY <3>3, <3>4, <3>6, <4>1, <4>2 DEF LogShape
    <3>7. CASE task[r] \notin {"sample", "done"}
      BY <3>3, <3>4, <3>7 DEF LogShape
    <3> QED
      BY <3>5, <3>6, <3>7
  <2> QED
    BY <2>1, <2>2
<1>6. CASE NextRun
  <2>1. /\ Early(r)' => Early(r)
        /\ ~Current(r)'
        /\ Passed(r)' => Passed(r)
        /\ task'[r] = task[r] /\ log'[r] = log[r] /\ script'.at # "exec"
    BY <1>6 DEF NextRun, Early, Current, Passed
  <2> QED
    BY <2>1, ShapeKept
<1> QED
  BY <1>1, <1>2, <1>3, <1>4, <1>5, <1>6 DEF Scripts

LEMMA LogTaskStep ==
  ASSUME STypeOK, LogInv, NEW r \in 1 .. Runs, NEW q \in 1 .. Runs, PowerLog(q)
  PROVE  LogShape(r)'
<1>1. script' = script
  BY DEF PowerLog, TaskHeader, TaskSample
<1>2. CASE r # q
  BY <1>1, <1>2, ShapeKept DEF PowerLog, TaskHeader, TaskSample, Early, Current, Passed, STypeOK
<1>3. LogShape(r)
  BY DEF LogInv
<1>4. /\ Early(r)' <=> Early(r)
      /\ Current(r)' <=> Current(r)
      /\ Passed(r)' <=> Passed(r)
  BY <1>1 DEF Early, Current, Passed
<1>5. Early(r) \/ Current(r) \/ Passed(r)
  BY DEF STypeOK, Early, Current, Passed
<1>6. (Current(r) => ~Passed(r)) /\ (Passed(r) => ~Current(r))
  BY DEF STypeOK, Current, Passed
<1>7. CASE r = q /\ TaskHeader(r)
  <2>1. log'[r] = <<Header(When(r))>> /\ task'[r] = "sample" /\ task[r] = "header"
    BY <1>7 DEF TaskHeader, STypeOK, Sample, Header
  <2>2. ~Early(r)
    BY <1>3, <2>1 DEF LogShape
  <2>3. CASE Current(r)
    <3>1. When(r) \in Timely /\ (script'.at = "exec" => When(r) = "before")
      BY <1>1, <2>3, WhenCurrent
    <3> QED
      BY <1>4, <1>6, <2>1, <2>2, <2>3, <3>1 DEF LogShape
  <2>4. CASE Passed(r)
    BY <1>4, <1>6, <2>1, <2>2, <2>4, WhenPassed DEF LogShape
  <2> QED
    BY <1>5, <2>2, <2>3, <2>4
<1>8. CASE r = q /\ TaskSample(r)
  <2>1. log'[r] = Append(log[r], First(When(r))) /\ task'[r] = "done" /\ task[r] = "sample"
    BY <1>8 DEF TaskSample, STypeOK, Sample, First
  <2>2. ~Early(r)
    BY <1>3, <2>1 DEF LogShape
  <2>3. CASE Current(r)
    <3>1. PICK h \in Timely : (script.at = "exec" => h = "before") /\ log[r] = <<Header(h)>>
      BY <1>3, <2>1, <2>3 DEF LogShape
    <3>2. When(r) \in Timely /\ (When(r) = "before" => h = "before")
      BY <2>3, <3>1, WhenCurrent
    <3>3. Append(<<Header(h)>>, First(When(r))) = <<Header(h), First(When(r))>>
      BY AppendToOne
    <3> QED
      BY <1>4, <1>6, <2>1, <2>2, <2>3, <3>1, <3>2, <3>3 DEF LogShape
  <2>4. CASE Passed(r)
    <3>1. log'[r] = Append(log[r], First("past"))
      BY <2>1, <2>4, WhenPassed
    <3>2. CASE log[r] = <<Header("past")>>
      <4>1. Append(<<Header("past")>>, First("past")) = <<Header("past"), First("past")>>
        BY AppendToOne
      <4>2. TaskLate(r)'
        BY <3>1, <3>2, <4>1 DEF TaskLate
      <4> QED
        BY <1>4, <1>6, <2>1, <2>2, <2>4, <4>2 DEF LogShape
    <3>3. ASSUME NEW h \in Timely, log[r] = <<Header(h), Last>>
          PROVE  LogShape(r)'
      <4>1. Append(<<Header(h), Last>>, First("past")) = <<Header(h), Last, First("past")>>
        BY AppendToTwo
      <4>2. SampleLate(r)'
        BY <3>1, <3>3, <4>1 DEF SampleLate
      <4> QED
        BY <1>4, <1>6, <2>1, <2>2, <2>4, <4>2 DEF LogShape
    <3> QED
      BY <1>3, <2>1, <2>4, <3>2, <3>3 DEF LogShape
  <2> QED
    BY <1>5, <2>2, <2>3, <2>4
<1> QED
  BY <1>2, <1>7, <1>8 DEF PowerLog

LEMMA LogStep ==
  ASSUME STypeOK, LogInv, [ExpNext]_expVars
  PROVE  LogInv'
<1>1. energytype' = "none" => script'.at # "spawn" /\ \A r \in 1 .. Runs : task'[r] = "none"
  <2>1. energytype' = energytype
    BY DEF ExpNext, Scripts, SourceScript, SpawnTask, ExecWfey, WfeyReturns, Cleanup, NextRun,
       PowerLog, TaskHeader, TaskSample, Wfey, scriptVars, expVars
  <2>2. CASE Scripts
    <3>1. CASE SpawnTask \/ SourceScript
      BY <2>1, <3>1 DEF SpawnTask, SourceScript, LogInv
    <3>2. CASE ExecWfey \/ WfeyReturns \/ Cleanup
      BY <2>1, <3>2 DEF ExecWfey, WfeyReturns, Cleanup, ScriptGoto, LogInv, STypeOK
    <3>3. CASE NextRun
      BY <2>1, <3>3 DEF NextRun, LogInv, STypeOK
    <3> QED
      BY <2>2, <3>1, <3>2, <3>3 DEF Scripts
  <2>3. ASSUME NEW r \in 1 .. Runs, PowerLog(r)
        PROVE  energytype # "none"
    BY <2>3 DEF PowerLog, TaskHeader, TaskSample, LogInv
  <2>4. CASE UNCHANGED scriptVars
    BY <2>4 DEF scriptVars, LogInv
  <2> QED
    BY <2>1, <2>2, <2>3, <2>4 DEF ExpNext, Wfey, expVars
<1>2. \A r \in 1 .. Runs : LogShape(r)'
  <2> TAKE r \in 1 .. Runs
  <2>1. CASE UNCHANGED scriptVars
    BY <2>1, ShapeKept DEF scriptVars, Early, Current, Passed
  <2> QED
    BY <2>1, LogScriptStep, LogTaskStep DEF ExpNext, Wfey, expVars
<1> QED
  BY <1>1, <1>2, OverStep DEF LogInv

LEMMA LogFollows ==
  ASSUME STypeOK, LogInv
  PROVE  LogBrackets
<1> SUFFICES ASSUME NEW r \in 1 .. Runs, task[r] = "done",
                    script.run > r \/ script.at \in {"reset", "finished"}
             PROVE  LET Line(n) == log[r][n]
                        first   == CHOOSE n \in DOMAIN log[r] : Line(n).kind = "first"
                        inOrder == [n \in DOMAIN log[r] |-> Line(n).kind] = <<"header", "first", "last">>
                    IN /\ inOrder <=> Line(first).when # "past"
                       /\ inOrder => Line(3).when = "after"
                       /\ ~(\E n \in DOMAIN log[r] : Line(n).kind = "last") => Line(1).when = "past"
                       /\ Line(first).when = "before" =>
                            log[r] = <<[kind |-> "header", when |-> "before"],
                                       [kind |-> "first", when |-> "before"],
                                       [kind |-> "last", when |-> "after"]>>
  BY DEF LogBrackets
<1> DEFINE first == CHOOSE n \in DOMAIN log[r] : log[r][n].kind = "first"
           kinds == [n \in DOMAIN log[r] |-> log[r][n].kind]
<1>1. Passed(r) /\ LogShape(r)
  BY DEF LogInv, LogShape, STypeOK, Early, Passed
<1>2. ASSUME NEW k \in DOMAIN log[r], log[r][k].kind = "first",
             \A n \in DOMAIN log[r] : n # k => log[r][n].kind # "first"
      PROVE  first = k
  BY <1>2
<1>3. DOMAIN kinds = DOMAIN log[r] /\ \A n \in DOMAIN log[r] : kinds[n] = log[r][n].kind
  OBVIOUS
<1> HIDE DEF first, kinds
<1>4. CASE InTime(r)
  <2>1. PICK h \in Timely, f \in Timely :
          (f = "before" => h = "before") /\ log[r] = <<Header(h), First(f), Last>>
    BY <1>4 DEF InTime
  <2>2. /\ DOMAIN log[r] = 1 .. 3
        /\ log[r][1] = Header(h) /\ log[r][2] = First(f) /\ log[r][3] = Last
    BY <2>1
  <2>3. first = 2
    BY <1>2, <2>2 DEF Header, First, Last
  <2>4. kinds = <<"header", "first", "last">>
    <3>1. /\ kinds[1] = "header" /\ kinds[2] = "first" /\ kinds[3] = "last"
          /\ DOMAIN kinds = 1 .. 3
      BY <1>3, <2>2 DEF Header, First, Last
    <3> QED
      BY <3>1 DEF kinds
  <2>5. log[r][first].when = f /\ log[r][3].when = "after" /\ log[r][3].kind = "last"
    BY <2>2, <2>3 DEF First, Last
  <2>6. f # "past"
    BY DEF Timely
  <2>7. f = "before" => log[r] = <<[kind |-> "header", when |-> "before"],
                                   [kind |-> "first", when |-> "before"],
                                   [kind |-> "last", when |-> "after"]>>
    BY <2>1 DEF Header, First, Last
  <2> QED
    BY <2>2, <2>4, <2>5, <2>6, <2>7 DEF first, kinds
<1>5. CASE SampleLate(r)
  <2>1. PICK h \in Timely : log[r] = <<Header(h), Last, First("past")>>
    BY <1>5 DEF SampleLate
  <2>2. /\ DOMAIN log[r] = 1 .. 3
        /\ log[r][1] = Header(h) /\ log[r][2] = Last /\ log[r][3] = First("past")
    BY <2>1
  <2>3. first = 3
    BY <1>2, <2>2 DEF Header, First, Last
  <2>4. kinds # <<"header", "first", "last">>
    <3>1. kinds[2] = "last"
      BY <1>3, <2>2 DEF Last
    <3> QED
      BY <3>1
  <2>5. log[r][first].when = "past" /\ log[r][2].kind = "last"
    BY <2>2, <2>3 DEF First, Last
  <2> QED
    BY <2>2, <2>4, <2>5 DEF first, kinds
<1>6. CASE TaskLate(r)
  <2>1. /\ DOMAIN log[r] = 1 .. 2
        /\ log[r][1] = Header("past") /\ log[r][2] = First("past")
    BY <1>6 DEF TaskLate
  <2>2. first = 2
    BY <1>2, <2>1 DEF Header, First
  <2>3. kinds # <<"header", "first", "last">>
    <3>1. 3 \notin DOMAIN kinds
      BY <1>3, <2>1
    <3>2. 3 \in DOMAIN <<"header", "first", "last">>
      OBVIOUS
    <3> QED
      BY <3>1, <3>2
  <2>4. log[r][first].when = "past" /\ log[r][1].when = "past"
    BY <2>1, <2>2 DEF Header, First
  <2> QED
    BY <2>3, <2>4 DEF first, kinds
<1> QED
  BY <1>1, <1>4, <1>5, <1>6 DEF LogShape

\* The file of a run that is over tells by its order whether the task was in time; one
\* whose first sample is from before wfey has it bracketed, and one that was made late
\* shows it.  In sweeps of any length, however late each task is.  (run_wfey.sh,
\* powerLog and cleanup.)
THEOREM SamplesBracket == ExpSpec => []LogBrackets
<1>1. ExpInit => STypeOK /\ LogInv
  <2>1. ExpInit => LogInv
    BY RunsAssumption DEF ExpInit, LogInv, LogShape, Early, Current, Passed
  <2> QED
    BY <2>1, InitScriptType
<1>2. STypeOK /\ LogInv /\ [ExpNext]_expVars => (STypeOK /\ LogInv)'
  BY ScriptTypeStep, LogStep
<1> QED
  BY <1>1, <1>2, LogFollows, PTL DEF ExpSpec
==============================================================================
