----------------------------- MODULE MCEventLoop -----------------------------
(* The instances of EventLoop that TLC checks: the five builds of the       *)
(* Makefile, with the rates and the machines a run is about.                *)
EXTENDS EventLoop

Build(poll, bell, mon) ==
  [poll |-> poll, bell |-> bell, mon |-> mon,
   rateZero |-> FALSE, stream |-> FALSE, overtakes |-> FALSE]

BusypollNodb == Build(TRUE, FALSE, FALSE)
BusypollDb   == Build(TRUE, TRUE, FALSE)
WfeNodb      == Build(FALSE, FALSE, FALSE)
WfeDbNomon   == Build(FALSE, TRUE, FALSE)
WfeDbMon     == Build(FALSE, TRUE, TRUE)

Builds == {BusypollNodb, BusypollDb, WfeNodb, WfeDbNomon, WfeDbMon}

\* The safety of every build, on machines where SEV may overtake a store too.
SafetySetups == Builds \cup {[WfeDbNomon EXCEPT !.overtakes = TRUE]}

\* Each way an event processor can be woken, and the delay without end.
LiveSetups ==
  Builds \cup {[WfeNodb EXCEPT !.stream = TRUE],
               [WfeDbMon EXCEPT !.stream = TRUE],
               [WfeDbNomon EXCEPT !.stream = TRUE, !.overtakes = TRUE],
               [WfeDbNomon EXCEPT !.rateZero = TRUE]}

MonitorSetups == {WfeDbMon}
SleepSetups   == {BusypollNodb}
==============================================================================
