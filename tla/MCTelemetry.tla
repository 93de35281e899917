----------------------------- MODULE MCTelemetry -----------------------------
(* Instances of Telemetry for TLC.                                         *)
EXTENDS Telemetry, TLC

CONSTANTS w1, w2, s1, s2

TwoWorkers    == {w1, w2}
TwoSubmitters == {s1, s2}

ThreadSymmetry == Permutations(TwoWorkers) \cup Permutations(TwoSubmitters)
=============================================================================
