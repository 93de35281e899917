------------------------------ MODULE Telemetry ------------------------------
(***************************************************************************)
(* The counters of Telemetry and the threads that update them: sessions in *)
(* JobManager::Submit and workers in WorkerLoop.  Snapshot only reads.     *)
(* Jobs are anonymous here; of the scheduling only the order of the        *)
(* telemetry calls relative to queue_.push and queue_.pop is kept (module  *)
(* JobManager has the rest).                                               *)
(*                                                                         *)
(* Every counter is an unsigned atomic.  PendingDecrement and              *)
(* RunningDecrement test and decrement in two atomic steps.                *)
(***************************************************************************)
EXTENDS Integers, FiniteSets

CONSTANTS
  Workers, Submitters,
  MaxJobs,         \* bound: Submit is called at most MaxJobs times
  CounterModulus,  \* counters are unsigned: 2^64 in the code
  SampleCap,       \* durations_ is trimmed at this length (4096) ...
  SampleDrop       \* ... by dropping this many of the oldest (1024)

ASSUME TelemetryAssumption ==
  /\ IsFiniteSet(Workers) /\ IsFiniteSet(Submitters)
  /\ MaxJobs \in Nat \ {0}
  /\ CounterModulus \in Nat \ {0}
  /\ 2 * (MaxJobs + Cardinality(Workers) + Cardinality(Submitters)) < CounterModulus
  /\ SampleCap \in Nat /\ SampleDrop \in 1..SampleCap

VARIABLES
  counter,   \* the counters, by name
  samples,   \* the length of durations_
  calls,     \* how often Submit was called
  queued,    \* the length of queue_
  sstep,     \* each submitter: idle, or between the push and the counting
  wstep      \* each worker: its place between two telemetry calls

vars == <<counter, samples, calls, queued, sstep, wstep>>

CounterNames == {"received", "succeeded", "failed", "cancelled", "pending", "running"}

WorkerSteps == {"idle", "popped", "pendingDec", "taken", "recount", "running",
                "runningDec", "ended", "neverRan"}

Plus(c, d) == (c + d) % CounterModulus

At(steps) == Cardinality({w \in Workers : wstep[w] \in steps})
Uncounted == Cardinality({s \in Submitters : sstep[s] = "count"})

-----------------------------------------------------------------------------

Init ==
  /\ counter = [n \in CounterNames |-> 0]
  /\ samples = 0
  /\ calls = 0
  /\ queued = 0
  /\ sstep = [s \in Submitters |-> "idle"]
  /\ wstep = [w \in Workers |-> "idle"]

\* Submit() pushes the job ...
Push(s) ==
  /\ sstep[s] = "idle" /\ calls < MaxJobs
  /\ calls' = calls + 1
  /\ queued' = queued + 1
  /\ sstep' = [sstep EXCEPT ![s] = "count"]
  /\ UNCHANGED <<counter, samples, wstep>>

\* ... and only then calls JobReceived and PendingIncrement.
CountJob(s) ==
  /\ sstep[s] = "count"
  /\ counter' = [counter EXCEPT !["received"] = Plus(@, 1), !["pending"] = Plus(@, 1)]
  /\ sstep' = [sstep EXCEPT ![s] = "idle"]
  /\ UNCHANGED <<samples, calls, queued, wstep>>

Goto(w, step) == wstep' = [wstep EXCEPT ![w] = step]

Pop(w) ==
  /\ wstep[w] = "idle" /\ queued > 0
  /\ queued' = queued - 1
  /\ Goto(w, "popped")
  /\ UNCHANGED <<counter, samples, calls, sstep>>

\* PendingDecrement: the test ...
PendingRead(w) ==
  /\ wstep[w] = "popped"
  /\ Goto(w, IF counter["pending"] > 0 THEN "pendingDec" ELSE "taken")
  /\ UNCHANGED <<counter, samples, calls, queued, sstep>>

\* ... and the decrement.
PendingDec(w) ==
  /\ wstep[w] = "pendingDec"
  /\ counter' = [counter EXCEPT !["pending"] = Plus(@, -1)]
  /\ Goto(w, "taken")
  /\ UNCHANGED <<samples, calls, queued, sstep>>

\* Mutant: FinishCancelled decrements "running" for a job that never ran.
NeverRunsDecrementing(w) ==
  /\ wstep[w] = "taken"
  /\ Goto(w, "running")
  /\ UNCHANGED <<counter, samples, calls, queued, sstep>>

\* The job was cancelled while it waited.
NeverRuns(w) ==
  /\ wstep[w] = "taken"
  /\ Goto(w, "neverRan")
  /\ UNCHANGED <<counter, samples, calls, queued, sstep>>

\* The machine is overloaded: push back, then PendingIncrement.
Requeue(w) ==
  /\ wstep[w] = "taken"
  /\ queued' = queued + 1
  /\ Goto(w, "recount")
  /\ UNCHANGED <<counter, samples, calls, sstep>>

\* Mutant: a delayed job is not counted as pending again.
RecountForgotten(w) ==
  /\ wstep[w] = "recount"
  /\ Goto(w, "idle")
  /\ UNCHANGED <<counter, samples, calls, queued, sstep>>

Recount(w) ==
  /\ wstep[w] = "recount"
  /\ counter' = [counter EXCEPT !["pending"] = Plus(@, 1)]
  /\ Goto(w, "idle")
  /\ UNCHANGED <<samples, calls, queued, sstep>>

RunningIncrement(w) ==
  /\ wstep[w] = "taken"
  /\ counter' = [counter EXCEPT !["running"] = Plus(@, 1)]
  /\ Goto(w, "running")
  /\ UNCHANGED <<samples, calls, queued, sstep>>

\* RunningDecrement after the cache hit or the scan: the test ...
RunningRead(w) ==
  /\ wstep[w] = "running"
  /\ Goto(w, IF counter["running"] > 0 THEN "runningDec" ELSE "ended")
  /\ UNCHANGED <<counter, samples, calls, queued, sstep>>

\* ... and the decrement.
RunningDec(w) ==
  /\ wstep[w] = "runningDec"
  /\ counter' = [counter EXCEPT !["running"] = Plus(@, -1)]
  /\ Goto(w, "ended")
  /\ UNCHANGED <<samples, calls, queued, sstep>>

\* Mutant: a cancelled job is counted as failed as well, and durations_ grows.
RecordTwice(w) ==
  /\ wstep[w] \in {"ended", "neverRan"}
  /\ counter' = [counter EXCEPT !["failed"] = Plus(@, 1), !["cancelled"] = Plus(@, 1)]
  /\ samples' = samples + 1
  /\ Goto(w, "idle")
  /\ UNCHANGED <<calls, queued, sstep>>

\* RecordSucceeded, RecordFailed or RecordCancelled, with AddDuration.
Record(w) ==
  /\ \/ /\ wstep[w] = "ended"
        /\ \E n \in {"succeeded", "failed", "cancelled"} :
             counter' = [counter EXCEPT ![n] = Plus(@, 1)]
     \/ /\ wstep[w] = "neverRan"
        /\ counter' = [counter EXCEPT !["cancelled"] = Plus(@, 1)]
  /\ samples' = IF samples >= SampleCap THEN samples - SampleDrop + 1 ELSE samples + 1
  /\ Goto(w, "idle")
  /\ UNCHANGED <<calls, queued, sstep>>

WorkerStep(w) ==
  \/ Pop(w) \/ PendingRead(w) \/ PendingDec(w) \/ NeverRuns(w) \/ Requeue(w)
  \/ Recount(w) \/ RunningIncrement(w) \/ RunningRead(w) \/ RunningDec(w) \/ Record(w)

Next ==
  \/ \E s \in Submitters : Push(s) \/ CountJob(s)
  \/ \E w \in Workers : WorkerStep(w)

Spec == Init /\ [][Next]_vars

-----------------------------------------------------------------------------
(* Properties.                                                             *)

TypeOK ==
  /\ counter \in [CounterNames -> 0..(CounterModulus - 1)]
  /\ samples \in 0..SampleCap
  /\ calls \in 0..MaxJobs
  /\ queued \in 0..MaxJobs
  /\ sstep \in [Submitters -> {"idle", "count"}]
  /\ wstep \in [Workers -> WorkerSteps]

\* "running" is the number of workers between RunningIncrement and
\* RunningDecrement: although two workers may both pass the test before either
\* decrements, no decrement is lost and none wraps below zero.
RunningExact == counter["running"] = At({"running", "runningDec"})

Ended == counter["succeeded"] + counter["failed"] + counter["cancelled"]

\* The totals add up: every job Submit pushed is received or about to be counted,
\* and is waiting, in the hands of a worker, or recorded under one outcome.
CountsBalance ==
  counter["received"] + Uncounted = Ended + queued + At(WorkerSteps \ {"idle", "recount"})

\* Jobs that are to be counted as pending: in the queue, or popped a moment ago.
Waiting == queued + At({"popped", "pendingDec"})

\* Jobs pushed by a thread that has yet to call PendingIncrement.
Outstanding == Uncounted + At({"recount"})

People == Cardinality(Workers) + Cardinality(Submitters)

\* What a snapshot shows as pending.  It is right up to one job too many for each thread:
\* the decrement that finds zero is left out, while the increment it waited for still
\* comes.  Only while increments are outstanding it may lack as many, and then, as two
\* workers can pass the same test, even wrap: it shows a number just below 2^64.
PendingShown ==
  \/ counter["pending"] \in (Waiting - Outstanding)..(Waiting + People)
  \/ counter["pending"] >= CounterModulus - Outstanding
=============================================================================
