---------------------------- MODULE MCJobManager ----------------------------
(* Instances of JobManager for TLC.                                        *)
EXTENDS JobManager

CONSTANTS w1, w2, s1

TwoWorkers   == {w1, w2}
OneSubmitter  == {s1}

NormalAndHigh == {1, 2}
OnlyNormal    == {1}

\* The fair behaviours in which the first job is Normal and the second High.
NormalThenHigh == \A j \in Jobs : state'[j] # "Absent" => priority'[j] = j
NormalThenHighSpec == Init /\ [][Next /\ NormalThenHigh]_vars /\ Fairness
=============================================================================
