---------------------------- MODULE MCExperiment ----------------------------
(* The instance of Experiment that TLC checks.  The rates: one refused,     *)
(* none, one too low for time_t with two sources, an ordinary one, and the  *)
(* doubles that are no numbers.                                             *)
EXTENDS Experiment

SmallCounts == {-1, 0, 1, 2}
SmallRates  == {-1, 0, 2, 20, NaN, Infinity}
=============================================================================
