----------------------------- MODULE MCBenchmark -----------------------------
(* The instances of Benchmark that TLC checks.                              *)
EXTENDS Benchmark

Build(poll, bell, mon) ==
  [poll |-> poll, bell |-> bell, mon |-> mon,
   rateZero |-> FALSE, stream |-> FALSE, overtakes |-> FALSE]

NodbSetups == {Build(TRUE, FALSE, FALSE), Build(FALSE, FALSE, FALSE)}
DbSetups   == {Build(TRUE, TRUE, FALSE), Build(FALSE, TRUE, FALSE),
               Build(FALSE, TRUE, TRUE)}
AllSetups  == NodbSetups \cup DbSetups
\* ... and the delay without end, from which only a signal wakes a source.
SafetySetups == AllSetups \cup {[Build(FALSE, TRUE, FALSE) EXCEPT !.rateZero = TRUE]}
WfeSetups  == {Build(FALSE, TRUE, FALSE)}
==============================================================================
