--------------------------- MODULE CriticalStream ---------------------------
(***************************************************************************)
(* What a session promises to its client about the events that matter (the *)
(* end of each job, and FLOW_CONTROL): they are received one after the     *)
(* other in the order in which they were generated, none twice, and none   *)
(* is skipped, whatever happens to the pipe in between.                    *)
(*                                                                         *)
(* Events are named by increasing numbers.                                 *)
(***************************************************************************)
EXTENDS Integers

VARIABLES
  generated,   \* the critical events the session has generated
  delivered    \* those the client has received

Init == generated = {} /\ delivered = {}

\* One step may generate several events; they come after all earlier ones.
Generate ==
  /\ generated # generated' /\ generated \subseteq generated'
  /\ \A m \in generated, n \in generated' \ generated : m < n
  /\ UNCHANGED delivered

\* The client receives the oldest event it does not have.
Deliver ==
  /\ \E n \in generated \ delivered :
       /\ \A m \in generated \ delivered : n <= m
       /\ delivered' = delivered \cup {n}
  /\ UNCHANGED generated

Next == Generate \/ Deliver

Spec == Init /\ [][Next]_<<generated, delivered>>
=============================================================================
