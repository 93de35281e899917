---------------------------- MODULE MCResultCache ----------------------------
(* An instance of ResultCache for TLC.                                     *)
EXTENDS ResultCache, TLC

CONSTANTS w1, w2, f1

TwoWorkers == {w1, w2}
OneFile    == {f1}
TwoEngines == {"v1", "v2"}

\* Bound: states with more than two rows in the database are not explored further.
SmallDatabase == Cardinality(DOMAIN db) <= 2

WorkerSymmetry == Permutations(TwoWorkers)
=============================================================================
