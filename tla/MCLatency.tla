------------------------------ MODULE MCLatency ------------------------------
(* The instance of Latency that TLC checks.  The sources run one code and   *)
(* nothing orders them, and no property is a liveness property: symmetry    *)
(* is sound.                                                                *)
EXTENDS Latency, TLC

CONSTANTS s1, s2

TwoSources == {s1, s2}
Symmetry   == Permutations(TwoSources)
==============================================================================
