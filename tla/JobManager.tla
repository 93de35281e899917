----------------------------- MODULE JobManager -----------------------------
(***************************************************************************)
(* The scheduler of the scan service: the job table, the priority queue    *)
(* guarded by queueMutex_ and queueCv_, and the fixed pool of worker       *)
(* threads.  The telemetry counters these threads also update feed nothing *)
(* back into scheduling; module Telemetry models them.                     *)
(*                                                                         *)
(* One action is one atomic step of one thread: the code between two       *)
(* accesses to state that another thread may change.  A worker holds       *)
(* queueMutex_ across a step only at "block", between evaluating the wait  *)
(* predicate and joining the condition variable's waiters.                 *)
(*                                                                         *)
(* A job is named by its sequence number.  Paths, messages, stages and     *)
(* durations are left out; progress is abstracted to 0..MaxProgress, where *)
(* MaxProgress stands for 100 percent.                                     *)
(***************************************************************************)
EXTENDS Integers

CONSTANTS
  Workers,      \* the worker threads (2..8 of them, ServiceApp::Start)
  Submitters,   \* the client session threads that call Submit
  MaxJobs,      \* bound: Submit is called at most MaxJobs times
  MaxProgress,  \* the abstract progress scale
  Priorities    \* the priorities clients ask for, of 0 (Low) .. 2 (High)

High == 2

ASSUME JobManagerAssumption ==
  /\ MaxJobs \in Nat \ {0}
  /\ MaxProgress \in Nat \ {0}
  /\ Priorities \subseteq 0..High

Jobs  == 1..MaxJobs
NoJob == 0

Terminal  == {"Completed", "Failed", "Cancelled"}
JobStates == {"Absent", "Pending", "Delayed", "Running"} \cup Terminal

WorkerSteps == {"loop", "block", "waiting", "woken", "popped", "dispatch",
                "requeue", "lookup", "scan", "decide", "done"}

\* The EngineStatus a worker's scan returned, as far as WorkerLoop tells apart.
Statuses == {"none", "success", "error", "cancelled"}

VARIABLES
  priority, state, progress, hasResult,  \* ScanJob
  cancelRequested,                       \* ScanJob::cancelRequested
  delayedBefore,                         \* ScanJob::lastDelayedEventTick # 0
  terminalEvents,                        \* terminal snapshots given to Notify
  nextJob,                               \* nextJobId_ and nextSequence_
  queue,                                 \* queue_
  sstep, sjob,                           \* each submitter: step, job
  wstep, wjob, status,                   \* each worker: step, job, scan status
  cached,                                \* jobs whose result was Put in the cache
  overloaded,                            \* throttle_.State() = Overloaded
  running,                               \* running_
  stop                                   \* how far the thread in Stop() is

jobVars    == <<priority, state, progress, hasResult, delayedBefore, terminalEvents>>
clientVars == <<nextJob, sstep, sjob>>
workerVars == <<wstep, wjob, status>>
envVars    == <<overloaded, running, stop>>
vars == <<jobVars, cancelRequested, clientVars, queue, workerVars, cached, envVars>>

-----------------------------------------------------------------------------

\* QueueCompare: the higher priority first, then the smaller sequence.
Before(j, k) ==
  \/ priority[j] > priority[k]
  \/ (priority[j] = priority[k] /\ j < k)

Top(j) == j \in queue /\ \A k \in queue \ {j} : Before(j, k)

\* queueMutex_ can be taken: no worker is between its predicate and its wait.
QueueMutexFree == \A w \in Workers : wstep[w] # "block"

\* An update of the job under its mutex followed by Notify.  Only the worker
\* that holds the job writes these fields, so the snapshot Notify takes is the
\* one just written.
SetState(j, s, p) ==
  /\ state' = [state EXCEPT ![j] = s]
  /\ progress' = [progress EXCEPT ![j] = p]
  /\ terminalEvents' =
       [terminalEvents EXCEPT ![j] = IF s \in Terminal THEN @ + 1 ELSE @]

Goto(w, step) == wstep' = [wstep EXCEPT ![w] = step]

\* The end of an iteration of WorkerLoop: the worker lets go of its job.
Release(w) ==
  /\ wjob' = [wjob EXCEPT ![w] = NoJob]
  /\ status' = [status EXCEPT ![w] = "none"]
  /\ Goto(w, "loop")

-----------------------------------------------------------------------------

\* The state after Start(): every worker of the pool enters WorkerLoop.
Init ==
  /\ priority = [j \in Jobs |-> 0]
  /\ state = [j \in Jobs |-> "Absent"]
  /\ progress = [j \in Jobs |-> 0]
  /\ hasResult = [j \in Jobs |-> FALSE]
  /\ cancelRequested = [j \in Jobs |-> FALSE]
  /\ delayedBefore = [j \in Jobs |-> FALSE]
  /\ terminalEvents = [j \in Jobs |-> 0]
  /\ nextJob = 1
  /\ queue = {}
  /\ sstep = [s \in Submitters |-> "idle"]
  /\ sjob = [s \in Submitters |-> NoJob]
  /\ wstep = [w \in Workers |-> "loop"]
  /\ wjob = [w \in Workers |-> NoJob]
  /\ status = [w \in Workers |-> "none"]
  /\ cached = {}
  /\ overloaded = FALSE
  /\ running = TRUE
  /\ stop = "no"

-----------------------------------------------------------------------------
(* Submit(), on a client session thread.                                   *)

\* The job gets its id and sequence and enters jobs_.
Register(s, p) ==
  /\ sstep[s] = "idle" /\ stop = "no"
  /\ nextJob \in Jobs
  /\ nextJob' = nextJob + 1
  /\ priority' = [priority EXCEPT ![nextJob] = p]
  /\ state' = [state EXCEPT ![nextJob] = "Pending"]
  /\ sstep' = [sstep EXCEPT ![s] = "push"]
  /\ sjob' = [sjob EXCEPT ![s] = nextJob]
  /\ UNCHANGED <<progress, hasResult, cancelRequested, delayedBefore, terminalEvents,
                 queue, workerVars, cached, envVars>>

Push(s) ==
  /\ sstep[s] = "push" /\ QueueMutexFree
  /\ queue' = queue \cup {sjob[s]}
  /\ sstep' = [sstep EXCEPT ![s] = "notify"]
  /\ UNCHANGED <<jobVars, cancelRequested, nextJob, sjob, workerVars, cached, envVars>>

\* Mutant: Submit forgets to notify.
NotifyNobody(s) ==
  /\ sstep[s] = "notify"
  /\ sstep' = [sstep EXCEPT ![s] = "idle"]
  /\ sjob' = [sjob EXCEPT ![s] = NoJob]
  /\ UNCHANGED <<jobVars, cancelRequested, nextJob, queue, workerVars, cached, envVars>>

\* notify_one wakes some waiter, if there is one; then Submit returns the id.
NotifyOne(s) ==
  /\ sstep[s] = "notify"
  /\ IF \E w \in Workers : wstep[w] = "waiting"
       THEN \E w \in Workers : wstep[w] = "waiting" /\ Goto(w, "woken")
       ELSE UNCHANGED wstep
  /\ sstep' = [sstep EXCEPT ![s] = "idle"]
  /\ sjob' = [sjob EXCEPT ![s] = NoJob]
  /\ UNCHANGED <<jobVars, cancelRequested, nextJob, queue, wjob, status, cached, envVars>>

-----------------------------------------------------------------------------
(* Cancel(), on any client session thread; notify_all as well.             *)

NotifyAll ==
  wstep' = [w \in Workers |-> IF wstep[w] = "waiting" THEN "woken" ELSE wstep[w]]

Cancel(j) ==
  /\ state[j] # "Absent" /\ stop = "no"
  /\ cancelRequested' = [cancelRequested EXCEPT ![j] = TRUE]
  /\ NotifyAll
  /\ UNCHANGED <<jobVars, clientVars, queue, wjob, status, cached, envVars>>

-----------------------------------------------------------------------------
(* WorkerLoop(): waiting for the queue.                                    *)

\* Mutant: the loop does not look at running_, only the wait does.
LeaveAfterWait(w) ==
  /\ wstep[w] = "woken" /\ ~running /\ QueueMutexFree
  /\ Goto(w, "done")
  /\ UNCHANGED <<jobVars, cancelRequested, clientVars, queue, wjob, status, cached, envVars>>

\* The loop condition, or the return after the wait, sees running_ = false.
Leave(w) ==
  /\ wstep[w] \in {"loop", "woken"} /\ ~running
  /\ wstep[w] = "woken" => QueueMutexFree
  /\ Goto(w, "done")
  /\ UNCHANGED <<jobVars, cancelRequested, clientVars, queue, wjob, status, cached, envVars>>

\* Mutant: top() without pop().
PopKeeping(w) ==
  /\ wstep[w] \in {"loop", "woken"} /\ running /\ QueueMutexFree
  /\ \E j \in Jobs : Top(j) /\ wjob' = [wjob EXCEPT ![w] = j]
  /\ Goto(w, "popped")
  /\ UNCHANGED <<jobVars, cancelRequested, clientVars, queue, status, cached, envVars>>

\* The predicate holds: take the top job and release queueMutex_.
Pop(w) ==
  /\ wstep[w] \in {"loop", "woken"} /\ running /\ QueueMutexFree
  /\ \E j \in Jobs :
       /\ Top(j)
       /\ queue' = queue \ {j}
       /\ wjob' = [wjob EXCEPT ![w] = j]
  /\ Goto(w, "popped")
  /\ UNCHANGED <<jobVars, cancelRequested, clientVars, status, cached, envVars>>

\* The predicate is false: the worker still holds queueMutex_ ...
FindEmpty(w) ==
  /\ wstep[w] \in {"loop", "woken"} /\ running /\ QueueMutexFree
  /\ queue = {}
  /\ Goto(w, "block")
  /\ UNCHANGED <<jobVars, cancelRequested, clientVars, queue, wjob, status, cached, envVars>>

\* ... and gives it up as it joins the waiters.
Block(w) ==
  /\ wstep[w] = "block"
  /\ Goto(w, "waiting")
  /\ UNCHANGED <<jobVars, cancelRequested, clientVars, queue, wjob, status, cached, envVars>>

\* A condition variable may wake a waiter without a notification.
SpuriousWake(w) ==
  /\ wstep[w] = "waiting"
  /\ Goto(w, "woken")
  /\ UNCHANGED <<jobVars, cancelRequested, clientVars, queue, wjob, status, cached, envVars>>

-----------------------------------------------------------------------------
(* WorkerLoop(): the popped job, up to the start of the scan.              *)

\* FinishCancelled for a job that was cancelled before it ran.
CancelBeforeRun(w) ==
  /\ wstep[w] = "popped" /\ cancelRequested[wjob[w]]
  /\ SetState(wjob[w], "Cancelled", progress[wjob[w]])
  /\ Release(w)
  /\ UNCHANGED <<priority, hasResult, delayedBefore, cancelRequested, clientVars,
                 queue, cached, envVars>>

\* Mutant: a popped job may run without the cancel check.
CancelUnchecked(w) ==
  /\ wstep[w] = "popped"
  /\ Goto(w, "dispatch")
  /\ UNCHANGED <<jobVars, cancelRequested, clientVars, queue, wjob, status, cached, envVars>>

NotCancelled(w) ==
  /\ wstep[w] = "popped" /\ ~cancelRequested[wjob[w]]
  /\ Goto(w, "dispatch")
  /\ UNCHANGED <<jobVars, cancelRequested, clientVars, queue, wjob, status, cached, envVars>>

\* Mutant: every priority is delayed.
DelayAny(w) ==
  /\ wstep[w] = "dispatch" /\ overloaded
  /\ SetState(wjob[w], "Delayed", progress[wjob[w]])
  /\ delayedBefore' = [delayedBefore EXCEPT ![wjob[w]] = TRUE]
  /\ Goto(w, "requeue")
  /\ UNCHANGED <<priority, hasResult, cancelRequested, clientVars, queue, wjob,
                 status, cached, envVars>>

\* Overloaded: a job that is not High goes back.  The Delayed event is sent the
\* first time, and again only when two seconds have passed since the last one.
Delay(w) ==
  LET j == wjob[w] IN
  /\ wstep[w] = "dispatch"
  /\ overloaded /\ priority[j] # High
  /\ \/ /\ SetState(j, "Delayed", progress[j])
        /\ delayedBefore' = [delayedBefore EXCEPT ![j] = TRUE]
     \/ /\ delayedBefore[j]
        /\ UNCHANGED <<state, progress, terminalEvents, delayedBefore>>
  /\ Goto(w, "requeue")
  /\ UNCHANGED <<priority, hasResult, cancelRequested, clientVars, queue, wjob,
                 status, cached, envVars>>

\* Mutant: the delayed job is not pushed back.
RequeueDropping(w) ==
  /\ wstep[w] = "requeue"
  /\ Release(w)
  /\ UNCHANGED <<jobVars, cancelRequested, clientVars, queue, cached, envVars>>

\* The job is pushed back, without notifying anybody; then half a second of sleep.
Requeue(w) ==
  /\ wstep[w] = "requeue" /\ QueueMutexFree
  /\ queue' = queue \cup {wjob[w]}
  /\ Release(w)
  /\ UNCHANGED <<jobVars, cancelRequested, clientVars, cached, envVars>>

StartRun(w) ==
  /\ wstep[w] = "dispatch"
  /\ ~overloaded \/ priority[wjob[w]] = High
  /\ SetState(wjob[w], "Running", 0)
  /\ Goto(w, "lookup")
  /\ UNCHANGED <<priority, hasResult, delayedBefore, cancelRequested, clientVars,
                 queue, wjob, status, cached, envVars>>

-----------------------------------------------------------------------------
(* WorkerLoop(): the fast path and the engine.                             *)

\* The cache holds a result for the file: the job completes without the engine,
\* and without another look at cancelRequested.
CacheHit(w) ==
  /\ wstep[w] = "lookup"
  /\ SetState(wjob[w], "Completed", MaxProgress)
  /\ hasResult' = [hasResult EXCEPT ![wjob[w]] = TRUE]
  /\ Release(w)
  /\ UNCHANGED <<priority, delayedBefore, cancelRequested, clientVars, queue, cached, envVars>>

CacheMiss(w) ==
  /\ wstep[w] = "lookup"
  /\ Goto(w, "scan")
  /\ UNCHANGED <<jobVars, cancelRequested, clientVars, queue, wjob, status, cached, envVars>>

\* EngineCallback with a progress event; the engine's reports never go back.
EngineProgress(w) ==
  LET j == wjob[w] IN
  /\ wstep[w] = "scan" /\ ~cancelRequested[j]
  /\ \E p \in progress[j] .. (MaxProgress - 1) : SetState(j, "Running", p)
  /\ UNCHANGED <<priority, hasResult, delayedBefore, cancelRequested, clientVars, queue,
                 workerVars, cached, envVars>>

EngineReturns(w, s) ==
  /\ wstep[w] = "scan"
  /\ status' = [status EXCEPT ![w] = s]
  /\ Goto(w, "decide")
  /\ UNCHANGED <<priority, delayedBefore, cancelRequested, clientVars, queue, wjob,
                 cached, envVars>>

\* EngineCallback with the Result event, after which EngineScanFile returns.
EngineResult(w) ==
  LET j == wjob[w] IN
  /\ EngineReturns(w, "success")
  /\ ~cancelRequested[j]
  /\ SetState(j, "Running", MaxProgress)
  /\ hasResult' = [hasResult EXCEPT ![j] = TRUE]

\* Mutant: the callback turns an Error event into the Failed state at once.
EngineFailureTerminal(w) ==
  /\ EngineReturns(w, "error")
  /\ SetState(wjob[w], "Failed", MaxProgress)
  /\ UNCHANGED hasResult

\* The scan fails.  FinishWithError reports 100 percent first, unless the failure
\* precedes the first report or the callback refuses because of a cancel.
EngineFailure(w) ==
  LET j == wjob[w] IN
  /\ EngineReturns(w, "error")
  /\ \/ ~cancelRequested[j] /\ SetState(j, "Running", MaxProgress)
     \/ /\ cancelRequested[j] \/ progress[j] = 0
        /\ UNCHANGED <<state, progress, terminalEvents>>
  /\ UNCHANGED hasResult

\* Mutant: the callback may return FALSE although nobody cancelled.
EngineStopsAnyway(w) ==
  /\ EngineReturns(w, "cancelled")
  /\ UNCHANGED <<state, progress, terminalEvents, hasResult>>

\* The callback returned FALSE: EngineScanFile returns Cancelled.
EngineStops(w) ==
  /\ EngineReturns(w, "cancelled")
  /\ cancelRequested[wjob[w]]
  /\ UNCHANGED <<state, progress, terminalEvents, hasResult>>

-----------------------------------------------------------------------------
(* WorkerLoop(): the end of the job.                                       *)

\* A cancel that arrived in time wins over the engine's status.
DecideCancelled(w) ==
  /\ wstep[w] = "decide"
  /\ cancelRequested[wjob[w]] \/ status[w] = "cancelled"
  /\ SetState(wjob[w], "Cancelled", progress[wjob[w]])
  /\ Release(w)
  /\ UNCHANGED <<priority, hasResult, delayedBefore, cancelRequested, clientVars,
                 queue, cached, envVars>>

\* The result goes to the cache before the Completed event goes out.
DecideCompleted(w) ==
  LET j == wjob[w] IN
  /\ wstep[w] = "decide"
  /\ ~cancelRequested[j] /\ status[w] = "success"
  /\ SetState(j, "Completed", MaxProgress)
  /\ cached' = IF hasResult[j] THEN cached \cup {j} ELSE cached
  /\ Release(w)
  /\ UNCHANGED <<priority, hasResult, delayedBefore, cancelRequested, clientVars,
                 queue, envVars>>

\* Mutant: the Failed event carries progress 0.
DecideFailedResetting(w) ==
  /\ wstep[w] = "decide"
  /\ ~cancelRequested[wjob[w]] /\ status[w] = "error"
  /\ SetState(wjob[w], "Failed", 0)
  /\ Release(w)
  /\ UNCHANGED <<priority, hasResult, delayedBefore, cancelRequested, clientVars,
                 queue, cached, envVars>>

DecideFailed(w) ==
  /\ wstep[w] = "decide"
  /\ ~cancelRequested[wjob[w]] /\ status[w] = "error"
  /\ SetState(wjob[w], "Failed", progress[wjob[w]])
  /\ Release(w)
  /\ UNCHANGED <<priority, hasResult, delayedBefore, cancelRequested, clientVars,
                 queue, cached, envVars>>

-----------------------------------------------------------------------------
(* The throttle monitor, and Stop().                                       *)

\* ThrottleMonitor publishes a new machine state.
ThrottleChange ==
  /\ overloaded' = ~overloaded
  /\ UNCHANGED <<jobVars, cancelRequested, clientVars, queue, workerVars, cached,
                 running, stop>>

\* ServiceApp::Stop has joined every session thread before it calls Stop().
StopCancelAll ==
  /\ stop = "no" /\ \A s \in Submitters : sstep[s] = "idle"
  /\ cancelRequested' = [j \in Jobs |-> state[j] # "Absent"]
  /\ stop' = "cancelled"
  /\ UNCHANGED <<jobVars, clientVars, queue, workerVars, cached, overloaded, running>>

\* running_ is cleared without taking queueMutex_ ...
StopFlag ==
  /\ stop = "cancelled"
  /\ running' = FALSE
  /\ stop' = "flagged"
  /\ UNCHANGED <<jobVars, cancelRequested, clientVars, queue, workerVars, cached, overloaded>>

\* ... and so is the notification sent.
StopNotify ==
  /\ stop = "flagged"
  /\ NotifyAll
  /\ stop' = "joining"
  /\ UNCHANGED <<jobVars, cancelRequested, clientVars, queue, wjob, status, cached,
                 overloaded, running>>

StopJoined ==
  /\ stop = "joining" /\ \A w \in Workers : wstep[w] = "done"
  /\ stop' = "stopped"
  /\ UNCHANGED <<jobVars, cancelRequested, clientVars, queue, workerVars, cached,
                 overloaded, running>>

\* Nothing is left to happen after Stop() has returned.
Stopped == stop = "stopped" /\ UNCHANGED vars

-----------------------------------------------------------------------------

SubmitStep(s) == Push(s) \/ NotifyOne(s)

\* The steps of a worker that must take queueMutex_.
QueueStep(w) == Leave(w) \/ Pop(w) \/ FindEmpty(w) \/ Requeue(w)

JobStep(w) ==
  \/ Block(w)
  \/ CancelBeforeRun(w) \/ NotCancelled(w) \/ Delay(w) \/ StartRun(w)
  \/ CacheHit(w) \/ CacheMiss(w)
  \/ EngineResult(w) \/ EngineFailure(w) \/ EngineStops(w)
  \/ DecideCancelled(w) \/ DecideCompleted(w) \/ DecideFailed(w)

Next ==
  \/ \E s \in Submitters : SubmitStep(s) \/ \E p \in Priorities : Register(s, p)
  \/ \E j \in Jobs : Cancel(j)
  \/ \E w \in Workers : QueueStep(w) \/ JobStep(w) \/ EngineProgress(w) \/ SpuriousWake(w)
  \/ ThrottleChange
  \/ StopCancelAll \/ StopFlag \/ StopNotify \/ StopJoined
  \/ Stopped

Spec == Init /\ [][Next]_vars

\* A running thread keeps running, the engine returns, and a thread that asks for
\* queueMutex_ again and again gets it (strong fairness).  Clients, spurious
\* wake-ups, the throttle and the decision to stop owe nothing.
Fairness ==
  /\ \A s \in Submitters : SF_vars(SubmitStep(s))
  /\ \A w \in Workers : SF_vars(QueueStep(w)) /\ WF_vars(JobStep(w))
  /\ WF_vars(StopFlag) /\ WF_vars(StopNotify) /\ WF_vars(StopJoined)

FairSpec == Spec /\ Fairness

-----------------------------------------------------------------------------
(* Properties.                                                             *)

TypeOK ==
  /\ priority \in [Jobs -> 0..High]
  /\ state \in [Jobs -> JobStates]
  /\ progress \in [Jobs -> 0..MaxProgress]
  /\ hasResult \in [Jobs -> BOOLEAN]
  /\ cancelRequested \in [Jobs -> BOOLEAN]
  /\ delayedBefore \in [Jobs -> BOOLEAN]
  /\ terminalEvents \in [Jobs -> Nat]
  /\ nextJob \in 1..(MaxJobs + 1)
  /\ queue \in SUBSET Jobs
  /\ sstep \in [Submitters -> {"idle", "push", "notify"}]
  /\ sjob \in [Submitters -> Jobs \cup {NoJob}]
  /\ wstep \in [Workers -> WorkerSteps]
  /\ wjob \in [Workers -> Jobs \cup {NoJob}]
  /\ status \in [Workers -> Statuses]
  /\ cached \in SUBSET Jobs
  /\ overloaded \in BOOLEAN
  /\ running \in BOOLEAN
  /\ stop \in {"no", "cancelled", "flagged", "joining", "stopped"}

Pushing(s, j) == sstep[s] = "push" /\ sjob[s] = j

\* A job is worked on by one thread: two workers never hold the same job, a job
\* in queue_ or still being pushed by Submit is held by no worker, and a job is
\* not pushed by Submit a second time (WorkerLoop pops and pushes back by hand).
NoSharedJob ==
  /\ \A v, w \in Workers : v # w /\ wjob[v] # NoJob => wjob[v] # wjob[w]
  /\ \A j \in queue : \A w \in Workers : wjob[w] # j
  /\ \A s \in Submitters, j \in Jobs : Pushing(s, j) =>
       /\ j \notin queue
       /\ \A w \in Workers : wjob[w] # j
       /\ \A t \in Submitters \ {s} : ~Pushing(t, j)

\* No accepted job is forgotten: until it is terminal it waits in queue_, is in
\* the hands of a worker, or is about to be pushed; once terminal it is never
\* queued again (the Delayed path pushes a popped job back).
NoLostJob ==
  \A j \in Jobs :
    /\ state[j] \in {"Pending", "Delayed", "Running"} =>
         \/ j \in queue
         \/ \E w \in Workers : wjob[w] = j
         \/ \E s \in Submitters : Pushing(s, j)
    /\ state[j] \in Terminal => j \notin queue

\* A client sees the end of a job once: exactly one terminal snapshot is given
\* to Notify per terminal job, none before (four exits of WorkerLoop send one).
OneTerminalEvent ==
  \A j \in Jobs : terminalEvents[j] = IF state[j] \in Terminal THEN 1 ELSE 0

\* What a terminal state claims is true: a completed job carries a result, only
\* results of completed jobs enter the cache, and a job is reported cancelled
\* only if somebody asked for that.
TerminalJustified ==
  /\ \A j \in Jobs : state[j] = "Completed" => hasResult[j]
  /\ \A j \in cached : state[j] = "Completed"
  /\ \A j \in Jobs : state[j] = "Cancelled" => cancelRequested[j]

\* A terminal state is final: no later step of any thread changes a job that has
\* completed, failed or been cancelled (a late callback or cancel could).
TerminalIsFinal ==
  [][\A j \in Jobs : state[j] \in Terminal =>
       state'[j] = state[j] /\ progress'[j] = progress[j]]_vars

\* The progress a client is shown never goes back, over delays, the restart of
\* the job by another worker, engine reports and the terminal event.
ProgressNeverRegresses ==
  [][\A j \in Jobs : progress'[j] >= progress[j]]_vars

\* A High job always ends, however long the machine stays overloaded and however
\* many other jobs circle through the Delayed path (unless the service stops).
HighNeverStarves ==
  \A j \in Jobs :
    (state[j] # "Absent" /\ priority[j] = High) ~> (state[j] \in Terminal \/ stop # "no")

\* Once the overload has passed for good every accepted job ends.
JobsEndAfterOverload ==
  <>[](~overloaded) =>
    \A j \in Jobs : (state[j] # "Absent") ~> (state[j] \in Terminal \/ stop # "no")

\* A job cancelled while it waits in queue_ is never run: once the overload has
\* passed for good it ends as Cancelled, and in no other way.  (While the machine
\* stays overloaded it may wait for ever: the workers that are awake keep popping
\* and pushing back the jobs in front of it, and Requeue wakes nobody.)
QueuedCancelHonoured ==
  <>[](~overloaded) =>
    \A j \in Jobs :
      (j \in queue /\ cancelRequested[j]) ~> (state[j] = "Cancelled" \/ stop # "no")

\* Stop() joins every worker that was not caught between testing the wait
\* predicate and waiting when running_ was cleared.
StopJoinsAwakeWorkers ==
  (stop = "joining" /\ \A w \in Workers : wstep[w] \notin {"block", "waiting"})
    ~> (stop = "stopped")

\* JobManager.cpp:46 says that Stop() wakes the workers waiting for the queue and
\* joins each of them.
StopJoinsWorkers == (stop = "cancelled") ~> (stop = "stopped")
=============================================================================
