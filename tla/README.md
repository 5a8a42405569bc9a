# Verification of wfey

wfey measures ways of waiting for events on ARM: *sources* raise events, an
*event processor* (EP) waits for them by polling or with the `WFE` instruction,
with or without a *doorbell* in between, and the time and energy this takes are
reported. This directory holds TLA+ models of the program, their TLC instances,
and TLAPS proofs. File and line references are to the repository's sources.

## 1. Inventory

| Component | State | Operations | Interacts with | What is hard | What makes it correct |
|---|---|---|---|---|---|
| **Event loop** (`wfey.c` `epThread`, `sourceThread`, `source_event_*`; `include/wfey.h` doorbell, `WFE`, `SEV`, `armMonitor`) | event state per source, doorbell per EP, event register and exclusive monitor of the EP's core, end flags | poll / halt, test-and-reset the doorbell, scan, handle; sleep, activate, press, SEV | sources → EP by memory and SEV; main → all by flag and SIGUSR1 | lost wake-ups, events raised behind a scan, weak ordering of SEV, the end racing a halt or a sleep | no wake-up lost, no event stranded, every event serviced, everyone stops |
| **Lifecycle** (`main`, `idleThread`, three `pthread_barrier_t`) | which threads exist, barrier rounds, memory of `Sources` | create, line up, time, stop, report | creates all threads, waits for them at barriers | order of initialisation, barrier counts, a barrier initialised anew while in use | nothing used before it is initialised, nobody signalled or counted who is gone, the run ends |
| **Latency accounting** (`source_event_activate/reset`, `ts_*`, report) | time stamps, total, count, min, max | stamp, subtract, accumulate, report | source and EP share the stamps without a lock | torn or rewritten stamps, counters after the reset store | min ≤ mean ≤ max, latencies belong to one event |
| **Configuration** (`getopt` loop, rates, `choose_*`, `work_translate`, cpu assignment) | parameters, cpu ids | parse, check, assign | fixes the sizes the rest runs with | order of checks, unsigned arithmetic, uninitialised rate | what is accepted can run |
| **wfey_hwmon** | cached path per core | look up, read | EP (on `BEAST`) and sysfs | first read against later reads | the energy of the core asked for |
| **altra-hwmon** (kernel module) | sensor lists per type, labels | walk the metrics table, create sensors, read | firmware table; hwmon core | two passes over live registers, sizes, label numbers | every listed sensor is a valid one, none beyond the arrays |
| **Run scripts** | background task, logs | start sampling, run, stop | programs above | concurrency of samples and run | a log tells whether its samples bracket the run |
| work functions, perf counters, pdu scripts, energyBM, basic_tests | – | straight-line computation and I/O | – | – | not modelled: no state another part reads |

`PROJECT.json` lists these components with their status, and every hazard at the
line where it bites.

## 2. Plan

In order of importance; all of it is done.

1. `EventNotify` (what is promised), `EventLoop` (what is done), `EventLoopProofs`;
   `Barrier` and `Benchmark` (the whole run, implementing `EventLoop`),
   `BenchmarkProofs`, and `WholeRunProofs` (what follows for whole runs, and that they do
   not deadlock).
2. `Latency`, `LatencyProofs`: the accounting with its races, implementing
   `EventNotify`; min ≤ mean ≤ max, count against handled events, which event a
   latency is of.
3. `AltraHwmon` and `Hwmon`: the kernel module's sensor table and the path cache that
   reads it, checked together; `HwmonProofs`, `SensorProofs`.
4. `Config`: from arguments to the sizes the run has, with the width of each integer.
5. `Experiment`: the scripts that run wfey again and again and sample its energy,
   around `Config`; `ExperimentProofs`.

Every invariant and action property a run checks, and every refinement, is a theorem as
well. Liveness is model-checked; for the loop and the whole run its safety halves (the
steps left only get fewer, nobody waits for nobody) are theorems.

## 3. Modules

| Module | Models | |
|---|---|---|
| `EventNotify` | the promise: a raised event is taken, worked on while raised, lowered only at the end of its work | abstract |
| `EventLoop` | the loops of EP and sources and main's shutdown, all five builds of the `Makefile` | implements `EventNotify` |
| `Barrier` | the C library's barrier: numbered arrivals, published rounds | external, used by `Benchmark` |
| `Benchmark` | the whole run, EXTENDS `EventLoop` and `Barrier` | implements `EventLoop` |
| `Latency` | stamps and counters, word by word | implements `EventNotify` |
| `AltraHwmon` | the kernel module: the walk over the firmware's table in two passes, its faults, load and removal | |
| `Hwmon` | the reader of the energy files and its cache of paths, EXTENDS `AltraHwmon` | |
| `Config` | main from its arguments to its report: options, checks, cores, barrier counts, delays | |
| `Experiment` | `full_run.sh` over `run_wfey.sh`, the energy scripts and their background task, EXTENDS `Config` | |
| `MCEventLoop`, `MCBenchmark`, `MCLatency`, `MCHwmon`, `MCExperiment` | the instances TLC checks | |
| `EventLoopProofs`, `BenchmarkProofs`, `WholeRunProofs`, `LatencyProofs`, `HwmonProofs`, `SensorProofs`, `ExperimentProofs` | theorems | TLAPS |

**EventLoop.** The variable `setup`, chosen at the start and never changed, is the
build (`poll` = `BUSY_POLL`, `bell` = `USE_DOORBELL`, `mon` = `USE_MONITOR`), whether
the delay outlasts any run (`rateZero`, `-e 0`), and the machine: whether the timer
event stream is on and whether a `SEV` may overtake an earlier store. One step is
one access to shared state. `epPc` follows `epThread`: `test` (the loop condition),
`wfe`, `arm`, `bell` (the atomic exchange), `scan` and `handle` with the loop
variable `idx`, `out`. `srcPc` follows `sourceThread`: `test`, `nap` (about to call
nanosleep), `sleep`, `activate`, `press`, `sev`, `out`; `latePress` is the store of
a doorbell whose SEV came first. `eventReg` is the event register WFE waits for: set
by SEV, by the return from a signal (`EpSignal`), by a monitor that is cleared, and
by events that are not ours (`ExternalEvent`). `monitor` is the address the
exclusive monitor watches; `armMonitor` passes `&addr`, so this is the stack slot of
its parameter. A signal (`epSig`, `srcSig`) may be taken at any step; its only
effect on a source is to end a `sleep`. `mainPc` and `mi` are main from `usleep` on,
with ideal barriers.

**Benchmark.** `stage` and `k` are main up to the start barrier (`stage = "run"`
hands over to EventLoop's `mainPc`), `epAt`, `srcAt` and `idleAt` where each thread
is between its creation and its return, `mem` what the memory of a source holds:
nothing (`null`), what malloc found (`raw`), or a source. Scanning anything but a
source is undefined: NULL is followed (`crashed`), raw memory may look active (and a
wild `work_func` is called) or not. `Arrive` and `Leave` are the two halves of
`pthread_barrier_wait`; a barrier nobody initialised never completes a round, which
is the outcome on the machines wfey is for.

**Latency.** `now` is the monotonic clock, in units of which `SECOND` make a second.
`src` is a source inside `source_event_activate`: it has read the clock (`t`), stores
the words of `start_ts` in any order (`todo`), and then activates the event, which
the stores before it cannot pass. `ep` is the processor: `scan` (it may take any
active event; how it finds one is `EventLoop`), `work`, and `reset`, in which the
release store of the event state and the plain loads of the two words of `start_ts`
after it may happen in any order (`todo`); `EpAccount` is the rest of
`source_event_reset`, up to its return. `ts_diff` is in integers: the program
computes it in `uint64_t` and casts it back to compare with 0, which is the same as
long as times fit in 63 bits. `begun` and `serves` are history: when the event was
stamped, and whether its stamp was written again since.

**AltraHwmon.** `table` is what the firmware offers: a size, and metrics with a type, a
label, a number of registers and their size, any byte, none of which the module may
trust: a register of any size but 4 is read as 8 bytes (`Width`).
`data` is the energy behind each register, which grows at any time (`Charge`), also
between and during the passes; what is read of a register narrower than the read is
partly of what is behind it, and changes as it likes. `walk` is the place and the locals of the probe: `m` the
metric, `hw_reg` its offset, `i` and `total` the loop variable and the result of the
count, `j` the sensors stored. `ctx` is `altra_hwmon_context`: the list of sensors per
type, the `room` its allocation has, and the infos given to the hwmon core. A store
outside its memory (`StoreFaults`) is an oops or goes unnoticed; an array of size 0 is
an address that faults when it is read for its end (`Hollow`). That the config arrays
are ended by a word nobody writes is modelled by `MaxBeyond`: the hwmon core may find
more channels than there are sensors. `loads` counts the loads of the module and
`counted` remembers what the first pass found (history).

**Hwmon.** `core` is the core whose energy is read, `paths` what is cached for it:
nothing (`NoArray`), a null path (`NoPath`), or a path, of which only the load in which
it was looked up is kept. `call` is a call of `wfey_hwmon_joules_read`: where it is
(`find`, `label`: in `wfey_hwmon_joules_cache_path`; `load`, `open`, `scan`), where it goes on
after the look-up (`back`), its local `path`, and the load its file is of. `readings`
is the history of what was returned: `garbage` is the uninitialised variable that is
returned when `fscanf` finds no number. The kernel module may be removed or loaded again
between any two steps of a call.

**Config.** `main` is place and locals of main, `threads` the threads in the order they
were created, each with the cpu it was given, the core it pinned itself to and the time
a source sleeps. The options come in any order; `U64` is the wrap-around of `uint64_t`.
Each exit is a step to `failed`; it ends the threads too. Main goes through all its
waits: `PassReady` (the processors are pinned; the barrier is then initialised anew and
may catch some of them), `PassStart`, `PassStop` (the second wait for the processors,
which those who were caught never end; the sources about to sleep miss their end) and
`PassEnd` (the end barrier, with the count it was told against those who come). Of
barriers and shutdown this keeps only who never arrives, in `lost`: their steps are
`Benchmark` and `EventLoop`. A barrier on the stack that is refused its count of 0 or
less lets main through or not (`PassRefused`). Rates are multiples of 1 / `SCALE`, as
every double is, or infinity, or nan, and `Unset` is the uninitialised one. The delays
follow the code's arithmetic in nanoseconds, with each of the 21 random percentages as a
choice; a conversion to 64 bits that is out of range, which C leaves undefined, saturates
as it does on Arm, and a nan becomes 0.

**Experiment.** `script` is the place of `run_wfey.sh` and the number of the run,
`energytype` what is sourced, `task` the background task of each run (it writes the
header and the first sample, in this order, whenever it comes to it), `log` the file of
each run with, for each sample, when it was taken (history): before wfey has begun,
during it, after its end, or past the whole run. `Wfey` composes with `Config`: its
steps happen while the script is at `wfey`.

Mutated actions (`...Silent`, `...Short`, `...TooFar` and so on, each marked "Mutant
of") stand beside the ones they change: `PROJECT.json` pairs each property with a
mutant that violates it. No specification uses them.

## 4. Runs

| Run | Bounds | Shows |
|---|---|---|
| `event_loop_safety` | 3 sources, 1 EP, 5 builds + the build whose SEV may overtake; 1.8 M states | types; no wake-up lost where SEV is ordered (`NoLooseSev`); no event stranded by the reset of the doorbell before the scan (`NoStrandedEvent`); the stop reaches a halting EP (`EpWokenToStop`); an event that is noticed, and the end, only get nearer (`ServesSoon`, `StopsSoon`); implementation of `EventNotify` |
| `event_loop_live` | 2 sources, 9 setups; 128 k states | which builds service every event (polling always, SEV where ordered, anything with the event stream), and that all of them stop |
| `monitor_loses_signals` | 2 sources, `wfe_db_mon` | **violated**: the EP halts beside a pressed doorbell |
| `source_sleeps_on` | 2 sources, `busypoll_nodb` | **violated**: a signal between the test of the flag and nanosleep is lost |
| `benchmark_safety` | 2 sources, 1 EP, 1 idle core, 5 builds + `wfe_db_nomon` at rate 0; 1.3 M states | initialisation order, barrier counts, live signal targets, quiescence at the report; where main can be held for ever (`NoDeadlock`); no event stranded, startup included; implementation of `EventLoop` and `EventNotify` |
| `benchmark_live` | same, `wfe_db_nomon`; 272 k states | the run ends if the reset of `epbarrier` met nobody |
| `barrier_reinit_hangs` | 1 source | **violated**: that reset can meet the EP, and then the run hangs |
| `scan_before_init` | 1 source, builds without doorbell | **violated**: `Sources` is scanned before it exists |
| `full_machine_hangs` | 1 source, no idle core | **violated**: `endbarrier` is waited at uninitialised |
| `latency` | 2 sources, 3 ticks of which 2 make a second, 2 events; 4.2 M states up to symmetry | counters and report in order (`StatsConsistent`), latencies of one event exact (`LatencyExact`), the others too long by less than a second (`LatencyBounded`), implementation of `EventNotify` |
| `hwmon` | 7 tables of up to 3 metrics, registers of 0, 1, 4, 8 and 16 bytes, cores 0 and 1, 2 loads, 3 calls, energy up to 2 with `WORD` = 2; 2.1 M states | a list outgrows its memory only by registers that turned valid behind the count (`StoresInBounds`), nothing else faults (`FaultsExplained`); what is read is in the mapped table, or beyond it by no more than a read is wider than its register (`SensorsInRange`); whose energy is read (`ReadsItsCore`), when garbage is returned (`NoGarbage`), and that after one undisturbed call all further ones work and energies do not decrease (`WarmReads`) |
| `experiment` | machines of 3 and 5 cpus, counts −1..2, rates −1, 0, 2/5, 4, infinity and nan, 3 options, 2 runs, `W64` = 16, `TIME_MAX` = 4; 1.4 M states | each thread alone on its core (`PinnedAtStart`), what starts fits (`StartsIfFits`), the count of the end barrier (`EndCountRight`), the delays (`DelayRight`), what the order of the energy log of a run tells of when it was sampled (`LogBrackets`), and that the sweep ends but for the waits of `Hangs` (`SweepEnds`) |

The number of EPs is 1 because the program refuses more (`wfey.c:581`). Three
sources give a scan a first, a middle and a last source, so that events can be
raised before, at and behind it; two are enough where only "this and another" matters.
One idle core is the least with which the end barrier is initialised. Rate 0 is there
because a sleep without end is where a lost signal holds up main. In
`latency` the clock must pass a full second between two stamps for words of both to
differ, and an event must be counted after another for minimum and maximum to part;
`MaxTime` and `MaxEvents` bound nothing else, and the proofs do without their values.
In `hwmon`, `WORD` = 2 is the least word for which a value of 8 bytes may be 0 in its low
word and not be 0; the tables put the cores' metric first, behind one of the same and
behind one of another type, and hold each kind of malformed metric; two loads let a
path outlive its module, and three calls are those wfey makes. In `experiment` the
machines and counts reach both sides of each check, 0 idle cores, and sums that wrap
around; the rates give delays below and above a second, none, and, with 2/5 and two
sources, seconds beyond `TIME_MAX`; three options set all three arguments, or one twice; two runs are the least in
which a late task meets the next one.
Elsewhere no counter grows. Deadlock is not checked because the program stops, and
`latency` and `hwmon` at their bounds, and `experiment` also where it waits for ever.

**Fairness.** Every thread is pinned to a core of its own (`pinCpu`), so each thread's
steps and the delivery of its signals are weakly fair, sleeps with a finite delay
end, and work ends. An external event is fair only where `setup.stream` says the
event stream is on. In `EventLoop` nothing is assumed of `usleep`, so that liveness
holds for runs of any length; in `Benchmark` it ends, as in the code. In `Experiment`
the shell, the task of each run, main and each thread are weakly fair: they are
processes and threads of their own, on cores nobody else is pinned to.

**What is excused.** Where a `SEV` may overtake the press before it, a wake-up can be
lost: `NoLooseSev` promises nothing of a machine on which it may, and `EventServiced`
only if the event stream is on. `ReadsItsCore` and `WarmReads` speak of paths
looked up in the load they are used in; `NoDeadlock` and `SweepEnds` name the waits that
can last for ever, and exclude no others.

## 5. Findings

1. `wfe_db_mon` does not wake on a doorbell: `armMonitor` arms its own stack slot
   (`wfey.h:145`). With the event stream off, events wait for the next interrupt.
2. Without a doorbell, the EP scans `Sources` before main has made it (`wfey.c:395`
   against `wfey.c:658`).
3. `pthread_barrier_init` on a barrier in use (`wfey.c:654`) can hang the run.
4. With as many EPs and sources as `wfey.c:701` allows, `endbarrier` is never
   initialised (`wfey.c:708`).
5. The end signal of a source can be lost between flag test and nanosleep
   (`wfey.c:496-498`); the run then takes up to one more delay.

Seen while modelling, but stated nowhere in the repository as something else, and
therefore without a run:

* The sourced energy scripts of NOMOD (`beast_hwmon.sh`, `allegro_hwmon.sh`) call
  `powerLog` in the foreground at their end, so that `source` does not return; the branch
  of `run_wfey.sh:61-63` that kills a task is not reached.
* A label's number counts the sensors stored before (`altra-hwmon.c:273`), so that a
  register that reads 0 at load shifts all cores behind it. `ReadsItsCore` says by how
  many.
* The first read of a core that finds an array but no path returns an error even if its
  look-up succeeds, as `path` is not read again (`wfey_hwmon.h`). `WarmReads` says that
  it is the first only.
* Counts below 0 pass the checks of main, and `-p` below 0 with sources makes it wait
  at a barrier of no size, or fail later. `SweepEnds` names the waits in which a sweep is
  stuck: these, and, with sensible arguments, those of 3, 4 and 5.
* A rate of nan passes the test for a negative one (`wfey.c:568`); the sources then do not
  sleep at all on Arm. A rate so low that its seconds are more than `time_t` holds makes
  nanosleep fail, and as `nrem` is 0 then (`wfey.c:498-503`) events are raised without a
  pause, where rate 0 gives none.
* The size of a register is a byte of the firmware's that nobody tests (the walk checks
  `size * count` against the mapping, `altra-hwmon.c:328-331`), and every size but 4 is
  read as 8 bytes: one of 1 byte at the end of the mapping is read 7 bytes beyond it.
* Nobody waits for the sample that `README.md:139-140` expects before the run: the task may
  take it in mid-run, and the file is then in order all the same; where wfey fails at
  once, it can lose a sample or write it behind the last one. Only a first sample of
  which it is known that it was taken before wfey began, `LogBrackets` says, is half of a
  pair around the run.
* `README.md:58` speaks of a rate per source; the code divides the rate by the number
  of sources.

## 6. Proofs

`EventLoopProofs` proves, for every number of sources and (but for the last)
processors, every subset of the setups, from `SizeAssumption` and `SetupAssumption`:

* `TypeCorrect`: `TypeOK` is inductive by itself; it includes that `mi` is in the list
  main walks and 0 between walks.
* `EventsNotStranded`: `NoStrandedEvent`. Not inductive alone, as a scan could start
  in the middle; `ScanFromZero` (outside a scan `idx` is 0) closes the gap. Each
  step either keeps the witness (source, doorbell or scan) or hands it on: activate
  gives it to the source, press to the doorbell, the exchange to the scan.
* `NoWakeupLost`: `NoLooseSev` speaks of an EP already halted, so it needs to hold
  one step earlier, and one before that: `WakeFollows` says it wherever the EP is
  except between the end of WFE and the exchange, where the wake-up is spent and the
  doorbell about to be read. `BellUnused` says that builds without a doorbell never
  press one.
* `StopNotLost`: `EpWokenToStop` is inductive with `TypeOK`.
* `ServiceIsBounded`: `ServesSoon`. `Away` counts the steps an EP may still take before
  it handles an event: the rest of this scan, the way to the next, and that one up to the
  source, with each source before it active. The invariant needed is `ServeInv`: scans
  start at 0 (`ScanFromZero`), and builds without a doorbell never look at it
  (`BellIsUsed`). A step of the event's own EP lowers `Away` and keeps the event noticed:
  the exchange finds the doorbell pressed, as else the event would be ahead of the scan,
  and a scan that has passed the source leaves the doorbell as it is (`OwnStepServes`).
  Other threads do not move the EP and can only press the doorbell, or, with more EPs,
  handle the event (`OthersServe`).
* `StopIsBounded`: `StopsSoon`, with `EpLeft` and `SrcLeft` for the steps left. `TypeOK` is
  enough; end flags are never taken back (`FlagsStayStep`), each step of a thread told to
  stop lowers its count (`EpCloserStep`, `SrcCloserStep`), and other threads leave it where
  it is (`OthersStay`).
* `LoopImplementsNotify` (one EP): with `HandledIsActive` (the event being handled is
  still raised: only this EP lowers it) each step is a step of `EventNotify` or a
  stutter. With two EPs the invariant is false: both may find the same event.

`BenchmarkProofs` proves, for every number of sources, processors and idle cores and
every subset of the setups, from `SizeAssumption`, `SetupAssumption` and
`IdleAssumption`:

* `BenchTyped`: needs `PlaceInv` (a thread is not there exactly while main has yet to
  create it) and `MainInv`.
* `NothingScannedRaw`: `ScanAfterInit`. `MemInv` says which sources are initialised at
  which round of main's loop, `QuietInv` that before there are source threads no event
  is raised, no doorbell that its thread has reset is pressed and nobody scans.
* `AllStartTogether` and `QuietAtReport`: `CountInv` relates the counters the C library
  keeps to the places of the threads: `arrived` is the number of threads that have
  entered in this use of the barrier, and `round` is nonzero exactly when that is
  everyone. `TicketInv` says that a thread that may leave a barrier, or has, tells of
  such a round; `WaitedInv` is what main knows after each of its waits. At each of the
  three initialisations nobody is counted inside (`NobodyAhead`): a processor still
  waiting for the first round of `epbarrier` is not, and does not spoil safety, only
  the end of the run (the run `barrier_reinit_hangs`).
* `SignalsFindThreads`: a thread that has returned tells of a round main has entered,
  and main enters it after its signals.
* `RunImplementsLoop`: `EventLoop` sees a doorbell as reset until its thread has reset
  it; each loop step is its own, leaving one of the last two barriers is the step of
  the ideal one by `WaitedInv` and `PcInv`, and the rest is stuttering.

`WholeRunProofs` draws the conclusions, from the same assumptions. `TheLoop` is
`EventLoopProofs` with the doorbells as a whole run sees them, and `RunIsLoop` makes each
of its theorems one about whole runs:

* `RunStrandsNoEvent`, `RunLosesNoWakeup`, `RunStopNotLost`, `RunServiceIsBounded`,
  `RunStopIsBounded` and (one EP) `RunImplementsNotify`. What is left to show is that the
  difference between a doorbell and what is seen of it does not matter: a processor that
  has yet to reset it is not in its loop (`PcInv`), and nothing is raised before all of
  them have (`SeenIfRaised`).
* `RunNeverDeadlocks`: `NoDeadlock`. Where main is held at a barrier, `CountInv` says that
  fewer have arrived than it was told of, so somebody has yet to come; the others are where
  `PcInv` and `PlaceInv` say. A processor that has yet to come is not at its first barrier
  but for the one caught in the initialisation (`CaughtInside`), and in WFE it has its
  wake-up or its signal: main has flagged everybody it waits for (`FlaggedInv`: main goes
  through its two lists in order), so `EpWokenToStop` speaks of it. A source is past the
  start barrier, because main is and a complete round lets go of each that arrived in it
  (`PassInv`: no ticket is above the arrivals), and in its sleep, unless that ends, only a
  used-up signal holds it (`SleepsOn`, the finding of `source_sleeps_on`). Idle threads go
  straight to the end barrier.

`LatencyProofs` proves, for every set of sources, clock, `SECOND` and number of
events, from `LatencyAssumption`:

* `TypeCorrect`: needs `EpPlace` (a processor that resets has a source) and `CountInv`
  (no source counts more often than events were handled).
* `StatsSound`: `StatsConsistent`, by `AddConsistent`: a latency more raises minimum ×
  count by at most itself, and maximum × count by at least itself.
* `LatencyOfItsEvent`: `LatencyExact`, an action property, from the invariants along
  the way of the stamp: what a source has stored (`SrcInv`), what is in memory while
  the event is active (`EventInv`), what the processor has loaded (`EpExact`).
* `RaceIsBounded`: `LatencyBounded`, from `SecInv`: seconds never decrease from the
  activation to memory to the clock, so that a torn stamp is wrong by its fraction
  only, and `DiffTorn` about the difference of such stamps.
* `AccountingImplementsNotify`: `EventNotify`, with `EpPlace`.

`ExperimentProofs` proves, for every machine, all arguments that together stay below
2^64, any number of sources, options and runs, from `ConfigAssumption` and
`RunsAssumption`:

* `ConfigTyped`, `ScriptsTyped`: types, and that main's counts are arguments.
* `StartedFits`: by `SizeExact`, the wrap-arounds of the subtraction in `uint64_t` either
  cancel or are caught by the check; then the sizes main went on with are kept
  (`FitInv`).
* `CoresDistinct`: `PinInv`. The n-th thread gets cpu n and pins itself to it if the
  machine has it; main waited for the processors before it created sources, and for the
  sources before it lets them go.
* `DelaysRight`: `DelayInv` says of each source that pinned itself, wherever main is by
  then, that it sleeps a valid time within a tenth of its share, for every rate and
  `SCALE`; by `VariedFits` for the random percentage, and by cases on whether the share
  is a second or more.
* `EndCounted`: `KindInv`. With a processor, it is the first thread, the sources follow,
  and then idle threads up to the last core; so the threads that wait at the end are
  counted by the length of the list.
* `SamplesBracket`: `LogShape` gives the form of the file of each run at each place of
  the script and of its task, with when its samples were taken; at the end these are
  `InTime`, `SampleLate` and `TaskLate`, and the theorem is read off each (`LogFollows`).

All of it goes through `WfeySteps`: a step of the sweep is a step of wfey, the start of
a new one, or leaves it alone.

`HwmonProofs` proves, for every table the firmware may offer, every core, any number of
loads and energies, from `TableAssumption` and `CoreAssumption`:

* `HwmonTyped`: needs that a metric being counted or stored was in range (`WalkInv`), and
  that a call past its first look-up has an array (`CallInv`).
* `SensorsMapped`: `SensorsInRange`, for registers of any size; by `ItemInRange` the bytes
  of a register of a metric in range are in range, the next one of the probe included, and
  the list only ever grows by such (`ListsStep`). What is read beyond them is the
  difference of `Width` and size.
* `GarbageExplained`: `NoGarbage`, from `PathInv`: a path looked up in the load that is
  there has the core's label, and the file read through it was opened in that load.
  `Fresh` is what makes it inductive: nothing noted of a load is of the one a probe is
  at work for.
* `WarmAlways`: `WarmReads`, from `WarmInv`: behind a warm call the cache holds a path, so
  that no further call looks for one, and each reading of this load is of the core's
  sensor and not above what its register holds now.

`SensorProofs`, from the same assumptions, is about the numbers of registers. Its
invariant `PassInv` says what each pass of `altra_create_sensor` has gone over
(`OnceInv`), that `total` and `j` are the numbers of the registers noted there, and that
during the second pass the room still free in the list is `total - j` (`TotalInv`).

* `StoresBounded`: `StoresInBounds`. Of one metric, more registers are stored than were
  counted only by those not counted (`StoredOfCounted`), and these are never forgotten
  while the lists are there (`LateGrows`).
* `OopsExplained`: `FaultsExplained`. If all registers stored were counted, and so was the
  one at hand, then there is space for it.
* `CoreRead`: `ReadsItsCore`. `LabelInv` says that the number in a label and the registers
  left out below the sensor add up to the index of its register (`SkippedCount`, by a
  bijection); `ReadInv`, that what was read through a path of this load has the core's
  label.

Model-checked only: liveness (`EventServiced`, `StopTerminates`, `RunEndsIfClean`,
`SweepEnds`), as fairness is defined by ENABLED, which the prover cannot expand. What
liveness rests on besides fairness is proved for all but the sweep: an event that is raised
is noticed or its source is about to ring (`NoStrandedEvent`), its EP does not halt beside
it where SEV is ordered (`NoLooseSev`), and each of the EP's steps is one fewer
(`ServesSoon`); the same for the end with `NoDeadlock`, `EpWokenToStop` and `StopsSoon`.

## 7. Not modelled

* `choose_work` and `work_translate`: `-w` only names the function a source's work is, and
  appears in `Config` as an option that may fail. The work functions only take time here.
  That a signal may interrupt `memwork` in its read (`wfey.c:117`) depends on the kernel.
* Failing system calls other than those named above, which end the program on the spot.
* The text of labels (`altra-hwmon.c:219` copies 16 characters and one is left for the
  end) and of paths; more than one `altra` device; a `hwmonN` whose number changes when
  the module is loaded again; the channels the hwmon core numbers when two metrics have
  the same type, beyond their number.
* What `fprintf` makes of the statistics, perf counters and VERBOSE output: formatting of
  what the kernel counted, with no state another part reads.
* pdu scripts (a task as in `Experiment`, with two files per run), energyBM, the basic
  tests, notebooks and logs: straight-line measurements.
