--------------------------- MODULE MCEventDelivery ---------------------------
(* A queue of two, a history of three and four job events: enough for       *)
(* evictions, replays longer than the queue and a history that is trimmed.  *)
EXTENDS EventDelivery
=============================================================================
