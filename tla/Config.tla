------------------------------- MODULE Config -------------------------------
(* What main of src/wfey.c makes of its arguments: the sizes of the run,    *)
(* the core of each thread, and the time each source sleeps.  Threads are   *)
(* created, and pin themselves, before main knows whether all of them fit.  *)
(* Of the barriers and of the shutdown, which Benchmark and EventLoop have  *)
(* in full, only who never arrives is kept.  On the stack, a barrier that   *)
(* is refused its count of 0 or less may let main through or not; the end   *)
(* barrier, in memory of zeros, then lets nobody through.                   *)
EXTENDS Integers, Sequences, FiniteSets

CONSTANTS
  Machines,       \* how many cpus a machine has
  Counts,         \* arguments of -p and -s
  Rates,          \* arguments of -e, as multiples of 1 / SCALE
  SCALE,          \* 2^1074: each double is such a multiple, but for the next two
  NaN, Infinity,
  MaxOptions,     \* bound: options on the command line
  W64,            \* 2^64
  NSEC_IN_SECOND,
  TIME_MAX,       \* 2^63 - 1
  NEVER,          \* seconds to an event at rate 0: 1 / 0.00000001
  Unset           \* event_rate, on the stack, without -e

RUNNER_CPU  == 0
META_THREAD == 1
DELAYADD    == 10                  \* percent
NoCpu       == -1

ASSUME ConfigAssumption ==
  /\ Machines \subseteq Nat \ {0} /\ Counts \subseteq Int
  /\ Rates \subseteq Int \cup {NaN, Infinity} /\ SCALE \in Nat \ {0}
  /\ {NaN, Infinity, Unset} \cap Int = {} /\ Unset \notin {NaN, Infinity}
  /\ MaxOptions \in Nat /\ NEVER \in Nat \ {0} /\ W64 \in Nat
  /\ NSEC_IN_SECOND \in Nat \ {0} /\ TIME_MAX \in Nat /\ NSEC_IN_SECOND <= TIME_MAX
  /\ \A t \in Machines, p, s \in Counts \cup {0} : t - 1 < W64 + (p + s) /\ t + p + s < W64

VARIABLES
  total_cpu,      \* the cpus of the machine
  main,           \* place and locals of main, and in lost the threads it waits for
                  \* that will not come
  threads         \* those main created, in order

configVars == <<total_cpu, main, threads>>

U64(x) == x % W64

Begun == [at |-> "parse", options |-> 0, Num_Processors |-> 0, Num_Sources |-> 0,
          event_rate |-> Unset, cpuid |-> 1, num_idle |-> 0, end_count |-> 0, lost |-> {}]

ConfigInit ==
  /\ total_cpu \in Machines
  /\ main = Begun
  /\ threads = <<>>

Goto(place)   == main' = [main EXCEPT !.at = place] /\ UNCHANGED <<total_cpu, threads>>
Over          == main.at \in {"failed", "done"}
Threads(kind) == {n \in DOMAIN threads : threads[n].kind = kind}
IsPinned(n)   == threads[n].core # NoCpu

------------------------------------------------------------------------------
(* The options, in any order and number.                                    *)

Parse == main.at = "parse" /\ main.options < MaxOptions

Set(option, value) ==
  /\ main' = [main EXCEPT !.options = @ + 1, ![option] = value]
  /\ UNCHANGED <<total_cpu, threads>>

ParseSources    == Parse /\ \E s \in Counts : Set("Num_Sources", s)
ParseProcessors == Parse /\ \E p \in Counts : p <= 1 /\ Set("Num_Processors", p)

\* Mutant of ParseRate: a negative rate is let through.
ParseRateAny == Parse /\ \E e \in Rates : Set("event_rate", e)

\* A nan is not less than 0.
ParseRate ==
  Parse /\ \E e \in Rates \cap ({NaN, Infinity} \cup Nat) : Set("event_rate", e)

\* -h, an unknown option, or one out of range.
ParseFails == Parse /\ Goto("failed")

\* The options are no longer counted.
ParseEnds ==
  /\ main.at = "parse"
  /\ main' = [main EXCEPT !.options = 0,
                 !.at = IF main.Num_Processors = 0 \/ main.Num_Sources = 0 THEN "failed"
                        ELSE "processor"]
  /\ UNCHANGED <<total_cpu, threads>>

------------------------------------------------------------------------------
(* main creates the threads.  Each takes the next cpu.                      *)

Create(kind) ==
  /\ threads' = Append(threads, [kind |-> kind, cpu |-> main.cpuid, core |-> NoCpu,
                                 sec |-> 0, nsec |-> 0])
  /\ main' = [main EXCEPT !.cpuid = @ + 1]
  /\ UNCHANGED total_cpu

CreateProcessor ==
  /\ main.at = "processor" /\ Cardinality(Threads("processor")) < main.Num_Processors
  /\ Create("processor")

\* The barrier at which processors wait once they are pinned.  It is initialised
\* anew at once, and catches those who have not left it yet.
PassReady ==
  /\ main.at = "processor" /\ main.Num_Processors > 0
  /\ Cardinality(Threads("processor")) >= main.Num_Processors
  /\ \A n \in Threads("processor") : IsPinned(n)
  /\ \E caught \in SUBSET Threads("processor") :
       main' = [main EXCEPT !.at = "source", !.lost = caught]
  /\ UNCHANGED <<total_cpu, threads>>

CreateSource ==
  /\ main.at = "source" /\ Cardinality(Threads("source")) < main.Num_Sources
  /\ Create("source")

\* Mutant of Size: no core is kept for main.
SizeNoMeta ==
  LET num_idle == U64(total_cpu - (main.Num_Processors + main.Num_Sources + META_THREAD))
      TooMany  == U64(main.Num_Processors + main.Num_Sources) > U64(total_cpu)
  IN
  /\ main.at = "source" /\ Cardinality(Threads("source")) >= main.Num_Sources
  /\ main' = [main EXCEPT !.at = IF TooMany THEN "failed" ELSE "idle", !.num_idle = num_idle,
                          !.end_count = IF num_idle # 0 THEN num_idle + main.Num_Sources + 1
                                        ELSE 0]
  /\ UNCHANGED <<total_cpu, threads>>

\* Mutant of Size: main is not counted among those at the end barrier.
SizeShort ==
  LET num_idle == U64(total_cpu - (main.Num_Processors + main.Num_Sources + META_THREAD))
      TooMany  == U64(main.Num_Processors + main.Num_Sources) > U64(total_cpu - META_THREAD)
  IN
  /\ main.at = "source" /\ Cardinality(Threads("source")) >= main.Num_Sources
  /\ main' = [main EXCEPT !.at = IF TooMany THEN "failed" ELSE "idle", !.num_idle = num_idle,
                          !.end_count = IF num_idle # 0 THEN num_idle + main.Num_Sources ELSE 0]
  /\ UNCHANGED <<total_cpu, threads>>

\* The sizes, in uint64_t but for the sum of the arguments, and the check.
Size ==
  LET num_idle == U64(total_cpu - (main.Num_Processors + main.Num_Sources + META_THREAD))
      TooMany  == U64(main.Num_Processors + main.Num_Sources) > U64(total_cpu - META_THREAD)
  IN
  /\ main.at = "source" /\ Cardinality(Threads("source")) >= main.Num_Sources
  /\ main' = [main EXCEPT !.at = IF TooMany THEN "failed" ELSE "idle", !.num_idle = num_idle,
                          !.end_count = IF num_idle # 0 THEN num_idle + main.Num_Sources + 1
                                        ELSE 0]
  /\ UNCHANGED <<total_cpu, threads>>

\* Mutant of MoreIdle: source_end is one too high.
MoreIdleHigh == main.cpuid + 1 < total_cpu

MoreIdle == main.cpuid < total_cpu

CreateIdle == main.at = "idle" /\ MoreIdle /\ Create("idle")

PinMain == main.at = "idle" /\ ~MoreIdle /\ Goto("start")

\* Mutant of PassStart: main does not wait.
PassStartAlone == main.at = "start" /\ Goto("run")

\* The barrier at which sources wait once they are pinned.
PassStart ==
  /\ main.at = "start" /\ main.Num_Sources > 0
  /\ Cardinality(Threads("source")) >= main.Num_Sources
  /\ \A n \in Threads("source") : IsPinned(n)
  /\ Goto("run")

\* main sleeps, and tells the processors to end.
TimeIsUp == main.at = "run" /\ Goto("stop")

\* Sources whose sleep nobody lives to see the end of.
Sleepers == {n \in Threads("source") : 2 * threads[n].sec >= NEVER /\ threads[n].nsec < NSEC_IN_SECOND}

\* The second wait for the processors.  The sources are then told to end, which
\* those miss that are about to sleep.
PassStop ==
  /\ main.at = "stop" /\ main.Num_Processors > 0 /\ main.lost = {}
  /\ \E asleep \in SUBSET Sleepers : main' = [main EXCEPT !.at = "end", !.lost = asleep]
  /\ UNCHANGED <<total_cpu, threads>>

\* The end barrier, at which sources, idle threads and main wait.
PassEnd ==
  LET coming == (Threads("source") \ main.lost) \cup Threads("idle") IN
  /\ main.at = "end"
  /\ \A n \in Threads("idle") : IsPinned(n)
  /\ main.end_count \in 1 .. Cardinality(coming) + 1
  /\ Goto("done")

Main == \/ ParseSources \/ ParseProcessors \/ ParseRate \/ ParseFails \/ ParseEnds
        \/ CreateProcessor \/ PassReady \/ CreateSource \/ Size \/ CreateIdle
        \/ PinMain \/ PassStart \/ TimeIsUp \/ PassStop \/ PassEnd

\* A barrier on the stack that was refused lets main through, which it need not do.
PassRefused ==
  \/ main.at = "processor" /\ main.Num_Processors < 0 /\ Goto("source")
  \/ main.at = "start" /\ main.Num_Sources < 0 /\ Goto("run")
  \/ main.at = "stop" /\ main.Num_Processors < 0 /\ Goto("end")

\* choose_ep: without processors a source has none, and in the builds with a
\* doorbell presses one at a null pointer.
SourceFaults ==
  /\ main.at \in {"run", "stop", "end"} /\ main.Num_Processors < 0 /\ Threads("source") # {}
  /\ Goto("failed")

------------------------------------------------------------------------------
(* The threads, up to the barrier they wait at.                             *)

\* Nanoseconds a source sleeps on average; the rate is shared by all sources.
\* Without -e, they follow from what the stack holds.
SrcSleep ==
  CASE main.event_rate = Unset -> {-NSEC_IN_SECOND, 0, NEVER * NSEC_IN_SECOND}
    [] main.event_rate = 0     -> {main.Num_Sources * NEVER * NSEC_IN_SECOND}
    [] main.event_rate \in {NaN, Infinity} -> {0}
    [] OTHER -> {(main.Num_Sources * NSEC_IN_SECOND * SCALE) \div main.event_rate}

\* A tenth at most is added or taken off, at random.
Varied(ns) == {(ns * (100 + percent)) \div 100 : percent \in -DELAYADD .. DELAYADD}

\* Mutant of Delay: the seconds stay in the nanoseconds.
DelayTwice(ns) == [sec |-> ns \div NSEC_IN_SECOND, nsec |-> ns]

\* From a double to 64 bits; out of range this is undefined in C.  Arm saturates,
\* and turns a nan into 0.
Saturated(x) == IF x > TIME_MAX THEN TIME_MAX ELSE x

\* Whole seconds are split off, but not from less than one.
Delay(ns) == LET sec == IF ns >= NSEC_IN_SECOND THEN Saturated(ns \div NSEC_IN_SECOND) ELSE 0
             IN  [sec |-> sec, nsec |-> Saturated(ns - sec * NSEC_IN_SECOND)]

PinThread(n) ==
  /\ ~Over /\ n \in DOMAIN threads /\ ~IsPinned(n) /\ threads[n].cpu < total_cpu
  /\ \E ns \in IF threads[n].kind = "source" THEN UNION {Varied(m) : m \in SrcSleep} ELSE {0} :
       threads' = [threads EXCEPT ![n].core = threads[n].cpu,
                                  ![n].sec = Delay(ns).sec, ![n].nsec = Delay(ns).nsec]
  /\ UNCHANGED <<total_cpu, main>>

\* A thread that cannot be pinned ends the program.
PinFails(n) ==
  /\ ~Over /\ n \in DOMAIN threads /\ ~IsPinned(n) /\ threads[n].cpu >= total_cpu
  /\ Goto("failed")

Thread(n) == PinThread(n) \/ PinFails(n)

ConfigNext == Main \/ PassRefused \/ SourceFaults \/ \E n \in DOMAIN threads : Thread(n)

------------------------------------------------------------------------------
(* Properties                                                               *)

Places == {"parse", "processor", "source", "idle", "start", "run", "stop", "end", "failed",
           "done"}
Running == main.at \in {"run", "stop", "end", "done"}

ConfigTypeOK ==
  /\ total_cpu \in Machines
  /\ main \in [at : Places, options : 0 .. MaxOptions,
               Num_Processors : Counts \cup {0}, Num_Sources : Counts \cup {0},
               event_rate : {Unset, NaN, Infinity} \cup Nat, cpuid : Nat,
               num_idle : 0 .. W64 - 1, end_count : Int, lost : SUBSET Nat]
  /\ threads \in Seq([kind : {"processor", "source", "idle"}, cpu : Nat, core : Nat \cup {NoCpu},
                      sec : Nat, nsec : Int])

\* When the sources are let go, the processor and each of them is on a core of
\* its own, none on that of main.  (cpuid in main, pinCpu in the threads, and the
\* barriers main waits at.)
PinnedAtStart ==
  Running =>
    \A n \in Threads("processor") \cup Threads("source") :
      /\ threads[n].core \in (0 .. total_cpu - 1) \ {RUNNER_CPU}
      /\ \A o \in DOMAIN threads : o # n => threads[o].core # threads[n].core

\* A run for which the machine is too small does not start, although its threads
\* exist by then, and the subtraction of num_idle did not wrap around in one that
\* does.  (The check behind the creation of the sources.)
StartsIfFits ==
  main.at \in {"idle", "start"} \/ Running =>
    main.num_idle = total_cpu - (main.Num_Processors + main.Num_Sources + META_THREAD)

\* With a processor, the end barrier is told the number of threads that will wait
\* at it, unless it is not initialised at all.  (num_idle against the loop that
\* creates them.)
EndCountRight ==
  (main.at = "start" \/ Running) /\ main.Num_Processors > 0 =>
    main.end_count \in {0, Cardinality(Threads("source") \cup Threads("idle")) + 1}

\* With -e and a number, what a source gives to nanosleep is a valid time, within a
\* tenth of its share of the rate, unless its seconds are more than time_t holds.
\* (srcsleep in main, thedelay in sourceThread.)
DelayRight ==
  \A n \in Threads("source") : IsPinned(n) /\ main.event_rate \notin {Unset, NaN} =>
    LET slept == threads[n].sec * NSEC_IN_SECOND + threads[n].nsec IN
    \A ns \in SrcSleep :
      11 * ns < 10 * (TIME_MAX + 1) * NSEC_IN_SECOND =>
        /\ threads[n].nsec \in 0 .. NSEC_IN_SECOND - 1
        /\ 10 * slept \in 9 * ns - 10 .. 11 * ns
==============================================================================
