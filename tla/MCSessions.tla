----------------------------- MODULE MCSessions -----------------------------
(* The two connections of the instances are model values: with two, one of *)
(* them resumes a session while the threads of the other, which streamed   *)
(* it, are still leaving, or both try to resume the same one.              *)
EXTENDS Sessions
=============================================================================
