-------------------------- MODULE JobManagerProofs --------------------------
(***************************************************************************)
(* Proofs about JobManager, for any number of workers, sessions and jobs.  *)
(*                                                                         *)
(* Inv strengthens the safety properties with what the code keeps true     *)
(* between them: which steps of a worker hold a job, which states a job    *)
(* can be in at each of these places, and what the engine status of a      *)
(* worker about to decide implies.                                         *)
(***************************************************************************)
EXTENDS JobManager, TLAPS

Holding == {"popped", "dispatch", "requeue", "lookup", "scan", "decide"}
Started == {"lookup", "scan", "decide"}
Waiting == {"Pending", "Delayed"}

\* A worker has a job exactly while it processes one; the job has not ended, and
\* is Running exactly from the start of the scan on.
WorkerInv ==
  \A w \in Workers :
    /\ wstep[w] \in Holding <=> wjob[w] # NoJob
    /\ wstep[w] \in Holding \ Started => state[wjob[w]] \in Waiting
    /\ wstep[w] \in Started => state[wjob[w]] = "Running"

\* What a worker knows once the engine has returned.
StatusInv ==
  \A w \in Workers : wstep[w] = "decide" =>
    /\ status[w] # "none"
    /\ status[w] = "success" => hasResult[wjob[w]]
    /\ status[w] = "cancelled" => cancelRequested[wjob[w]]

\* Jobs are handed out in order, and one that has not run yet is as it was created.
JobInv ==
  /\ \A j \in Jobs : state[j] = "Absent" <=> j >= nextJob
  /\ \A j \in queue : state[j] \in Waiting
  /\ \A j \in Jobs : state[j] \in Waiting \cup {"Absent"} => progress[j] = 0

SubmitInv ==
  \A s \in Submitters : sstep[s] = "push" => sjob[s] \in Jobs /\ state[sjob[s]] = "Pending"

Inv ==
  /\ TypeOK
  /\ WorkerInv /\ StatusInv /\ JobInv /\ SubmitInv
  /\ NoSharedJob /\ NoLostJob
  /\ OneTerminalEvent /\ TerminalJustified

-----------------------------------------------------------------------------
(* Three kinds of steps: those that leave the jobs alone, those by which a *)
(* worker moves its job on, and those by which a worker ends its job.      *)

\* Threads move, cancels may be requested, but no job changes or changes hands.
KeepsJobs ==
  /\ UNCHANGED <<jobVars, nextJob, queue, wjob, cached>>
  /\ \A j \in Jobs : state[j] # "Absent" /\ cancelRequested[j] => cancelRequested'[j]
  /\ \A w \in Workers :
       /\ wstep'[w] \in Holding <=> wstep[w] \in Holding
       /\ wstep'[w] \in Started <=> wstep[w] \in Started
       /\ wstep'[w] = "decide" => wstep[w] = "decide" /\ status'[w] = status[w]
  /\ \A s \in Submitters : sstep'[s] = "push" <=> sstep[s] = "push"
  /\ \A s \in Submitters : sstep[s] = "push" => sjob'[s] = sjob[s]

\* Worker w, which holds a job, puts it (or leaves it) in state s and keeps it.
MovesJob(w, s, p) ==
  /\ wstep[w] \in Holding
  /\ state' = [state EXCEPT ![wjob[w]] = s]
  /\ progress' = [progress EXCEPT ![wjob[w]] = p]
  /\ UNCHANGED terminalEvents
  /\ UNCHANGED <<priority, cancelRequested, clientVars, queue, wjob, cached, envVars>>
  /\ \A v \in Workers \ {w} : wstep'[v] = wstep[v] /\ status'[v] = status[v]
  /\ \/ s = "Delayed" /\ p = 0 /\ wstep'[w] = "requeue" /\ UNCHANGED hasResult
     \/ /\ s = "Running" /\ wstep'[w] \in Started
        /\ hasResult' \in {hasResult, [hasResult EXCEPT ![wjob[w]] = TRUE]}
        /\ wstep'[w] = "decide" =>
             /\ status'[w] # "none"
             /\ status'[w] = "success" => hasResult'[wjob[w]]
             /\ status'[w] = "cancelled" => cancelRequested[wjob[w]]

\* Worker w ends its job in the terminal state s, which it can justify.
EndsJob(w, s, p) ==
  /\ wstep[w] \in Holding
  /\ s \in Terminal /\ p \in 0..MaxProgress
  /\ SetState(wjob[w], s, p)
  /\ Release(w)
  /\ UNCHANGED <<priority, delayedBefore, cancelRequested, clientVars, queue, envVars>>
  /\ hasResult' \in {hasResult, [hasResult EXCEPT ![wjob[w]] = TRUE]}
  /\ cached' \in {cached, cached \cup {wjob[w]}}
  /\ s = "Completed" => hasResult'[wjob[w]]
  /\ s = "Cancelled" => cancelRequested[wjob[w]]
  /\ s # "Completed" => cached' = cached

\* The job of a worker at a step of Holding is a job, held by that worker alone,
\* not queued, not being pushed, and not over.
LEMMA HeldJob ==
  ASSUME Inv, NEW w \in Workers, wstep[w] \in Holding
  PROVE  /\ wjob[w] \in Jobs
         /\ wjob[w] \notin queue
         /\ \A v \in Workers \ {w} : wjob[v] # wjob[w]
         /\ \A s \in Submitters : ~Pushing(s, wjob[w])
         /\ state[wjob[w]] \in {"Pending", "Delayed", "Running"}
BY DEF Inv, TypeOK, WorkerInv, NoSharedJob, Jobs, NoJob, Holding, Started, Waiting

\* SetState keeps the types of what it writes.
LEMMA SetStateType ==
  ASSUME TypeOK, NEW j \in Jobs, NEW s \in JobStates, NEW p \in 0..MaxProgress,
         SetState(j, s, p)
  PROVE  /\ state' \in [Jobs -> JobStates]
         /\ progress' \in [Jobs -> 0..MaxProgress]
         /\ terminalEvents' \in [Jobs -> Nat]
BY DEF TypeOK, SetState

\* Steps that keep the jobs preserve every conjunct of Inv.
LEMMA KeepsJobsInv ==
  ASSUME Inv, KeepsJobs, TypeOK'
  PROVE  Inv'
<1> USE DEF Inv, KeepsJobs, jobVars
<1>1. WorkerInv' /\ StatusInv'
  BY DEF TypeOK, WorkerInv, StatusInv, Holding, Started, NoJob, Jobs
<1>2. JobInv'
  BY DEF JobInv
<1>3. \A s \in Submitters, j \in Jobs : Pushing(s, j)' <=> Pushing(s, j)
  BY DEF Pushing
<1>4. SubmitInv' /\ NoSharedJob'
  BY <1>3 DEF SubmitInv, NoSharedJob
<1>5. NoLostJob'
  BY <1>3 DEF NoLostJob
<1>6. OneTerminalEvent' /\ TerminalJustified'
  BY DEF TypeOK, OneTerminalEvent, TerminalJustified
<1> QED BY <1>1, <1>2, <1>4, <1>5, <1>6

\* So do the steps that move a job on.
LEMMA MovesJobInv ==
  ASSUME Inv, NEW w \in Workers, NEW s, NEW p, MovesJob(w, s, p), TypeOK'
  PROVE  Inv'
<1> DEFINE j == wjob[w]
<1>1. /\ j \in Jobs /\ j \notin queue
      /\ \A v \in Workers \ {w} : wjob[v] # j
      /\ \A t \in Submitters : ~Pushing(t, j)
      /\ state[j] \in {"Pending", "Delayed", "Running"}
  BY HeldJob DEF MovesJob
<1>2. /\ state' = [state EXCEPT ![j] = s] /\ s \in {"Delayed", "Running"}
      /\ progress' = [progress EXCEPT ![j] = p]
      /\ terminalEvents' = terminalEvents
  BY DEF MovesJob, j
<1> HIDE DEF j
<1> USE DEF Inv, clientVars
<1>3. WorkerInv'
  BY <1>1, <1>2 DEF MovesJob, TypeOK, WorkerInv, Holding, Started, Waiting, j
<1>4. StatusInv'
  BY <1>1, <1>2 DEF MovesJob, TypeOK, StatusInv, WorkerInv, Holding, NoJob, Jobs, j
<1>5. JobInv'
  BY <1>1, <1>2 DEF MovesJob, TypeOK, JobInv, Waiting, j
<1>6. SubmitInv' /\ NoSharedJob'
  BY <1>1, <1>2 DEF MovesJob, TypeOK, SubmitInv, NoSharedJob, Pushing
<1>7. NoLostJob'
  <2> SUFFICES ASSUME NEW k \in Jobs
               PROVE  /\ state'[k] \in {"Pending", "Delayed", "Running"} =>
                           \/ k \in queue'
                           \/ \E v \in Workers : wjob'[v] = k
                           \/ \E t \in Submitters : Pushing(t, k)'
                      /\ state'[k] \in Terminal => k \notin queue'
    BY DEF NoLostJob
  <2>1. CASE k = j
    BY <2>1, <1>1, <1>2 DEF MovesJob, TypeOK, Terminal, j
  <2>2. CASE k # j
    <3>1. state'[k] = state[k] /\ queue' = queue /\ wjob' = wjob
      BY <2>2, <1>1, <1>2 DEF MovesJob, TypeOK
    <3>2. \A t \in Submitters : Pushing(t, k)' <=> Pushing(t, k)
      BY DEF MovesJob, Pushing
    <3> QED BY <3>1, <3>2 DEF NoLostJob
  <2> QED BY <2>1, <2>2
<1>8. OneTerminalEvent'
  BY <1>1, <1>2 DEF TypeOK, OneTerminalEvent, Terminal
<1>9. TerminalJustified'
  BY <1>1, <1>2 DEF MovesJob, TypeOK, TerminalJustified, j
<1> QED BY <1>3, <1>4, <1>5, <1>6, <1>7, <1>8, <1>9

\* So do the steps that end a job.
LEMMA EndsJobInv ==
  ASSUME Inv, NEW w \in Workers, NEW s, NEW p, EndsJob(w, s, p)
  PROVE  Inv'
<1> DEFINE j == wjob[w]
<1>1. /\ j \in Jobs /\ j \notin queue
      /\ \A v \in Workers \ {w} : wjob[v] # j
      /\ \A t \in Submitters : ~Pushing(t, j)
      /\ state[j] \in {"Pending", "Delayed", "Running"}
  BY HeldJob DEF EndsJob
<1>2. /\ state' = [state EXCEPT ![j] = s] /\ s \in Terminal
      /\ progress' = [progress EXCEPT ![j] = p]
      /\ terminalEvents' = [terminalEvents EXCEPT ![j] = @ + 1]
      /\ wstep' = [wstep EXCEPT ![w] = "loop"]
      /\ wjob' = [wjob EXCEPT ![w] = NoJob]
      /\ status' = [status EXCEPT ![w] = "none"]
  BY <1>1 DEF EndsJob, SetState, Release, Goto, Inv, TypeOK
<1> HIDE DEF j
<1> USE DEF Inv, clientVars, envVars
<1>3. TypeOK'
  <2>1. /\ state' \in [Jobs -> JobStates]
        /\ progress' \in [Jobs -> 0..MaxProgress]
        /\ terminalEvents' \in [Jobs -> Nat]
    BY SetStateType, <1>1 DEF EndsJob, JobStates, j
  <2>2. /\ hasResult' \in [Jobs -> BOOLEAN] /\ cached' \in SUBSET Jobs
    BY <1>1 DEF EndsJob, TypeOK, j
  <2>3. /\ wstep' \in [Workers -> WorkerSteps] /\ wjob' \in [Workers -> Jobs \cup {NoJob}]
        /\ status' \in [Workers -> Statuses]
    BY <1>2 DEF TypeOK, WorkerSteps, Statuses
  <2> QED BY <2>1, <2>2, <2>3 DEF EndsJob, TypeOK
<1>4. WorkerInv'
  BY <1>1, <1>2 DEF TypeOK, WorkerInv, Holding, Started, Waiting, NoJob, Jobs
<1>5. StatusInv'
  <2> SUFFICES ASSUME NEW v \in Workers, wstep'[v] = "decide"
               PROVE  /\ status'[v] # "none"
                      /\ status'[v] = "success" => hasResult'[wjob'[v]]
                      /\ status'[v] = "cancelled" => cancelRequested'[wjob'[v]]
    BY DEF StatusInv
  <2>1. /\ v # w /\ wstep[v] = "decide" /\ wjob'[v] = wjob[v] /\ status'[v] = status[v]
        /\ cancelRequested' = cancelRequested
    BY <1>2 DEF EndsJob, TypeOK
  <2>2. wjob[v] \in Jobs
    BY <2>1 DEF TypeOK, WorkerInv, Holding
  <2>3. hasResult[wjob[v]] => hasResult'[wjob[v]]
    BY <2>2 DEF EndsJob, TypeOK
  <2> QED BY <2>1, <2>3 DEF StatusInv
<1>6. JobInv'
  BY <1>1, <1>2 DEF EndsJob, TypeOK, JobInv, Waiting, Terminal
<1>7. SubmitInv' /\ NoSharedJob'
  BY <1>1, <1>2 DEF EndsJob, TypeOK, SubmitInv, NoSharedJob, Pushing, NoJob, Jobs
<1>8. NoLostJob'
  <2> SUFFICES ASSUME NEW k \in Jobs
               PROVE  /\ state'[k] \in {"Pending", "Delayed", "Running"} =>
                           \/ k \in queue'
                           \/ \E v \in Workers : wjob'[v] = k
                           \/ \E t \in Submitters : Pushing(t, k)'
                      /\ state'[k] \in Terminal => k \notin queue'
    BY DEF NoLostJob
  <2>1. CASE k = j
    BY <2>1, <1>1, <1>2 DEF EndsJob, TypeOK, Terminal
  <2>2. CASE k # j
    <3>1. state'[k] = state[k] /\ queue' = queue
      BY <2>2, <1>1, <1>2 DEF EndsJob, TypeOK
    <3>2. \A v \in Workers : wjob[v] = k => wjob'[v] = k
      BY <2>2, <1>2 DEF TypeOK, j
    <3>3. \A t \in Submitters : Pushing(t, k)' <=> Pushing(t, k)
      BY DEF EndsJob, Pushing
    <3> QED BY <3>1, <3>2, <3>3 DEF NoLostJob
  <2> QED BY <2>1, <2>2
<1>9. OneTerminalEvent'
  BY <1>1, <1>2 DEF TypeOK, OneTerminalEvent, Terminal
<1>10. TerminalJustified'
  BY <1>1, <1>2 DEF EndsJob, TypeOK, TerminalJustified, Terminal, j
<1> QED BY <1>3, <1>4, <1>5, <1>6, <1>7, <1>8, <1>9, <1>10

-----------------------------------------------------------------------------
(* Each action is a step of one of the three kinds, or one of the four that *)
(* hand a job over: Register, Push, Pop and Requeue.                        *)

LEMMA InitInv == Init => Inv
<1> SUFFICES ASSUME Init PROVE Inv
  OBVIOUS
<1> USE JobManagerAssumption DEF Init, Jobs, NoJob
<1>1. TypeOK
  <2>1. 0 \in 0..High /\ 0 \in 0..MaxProgress /\ 1 \in 1..(MaxJobs + 1)
    BY DEF High
  <2> QED BY <2>1 DEF TypeOK, JobStates, WorkerSteps, Statuses
<1>2. WorkerInv /\ StatusInv /\ JobInv /\ SubmitInv
  BY DEF WorkerInv, StatusInv, JobInv, SubmitInv, Holding, Started, Waiting
<1>3. NoSharedJob /\ NoLostJob /\ OneTerminalEvent /\ TerminalJustified
  BY DEF NoSharedJob, NoLostJob, OneTerminalEvent, TerminalJustified, Pushing, Terminal
<1> QED BY <1>1, <1>2, <1>3 DEF Inv

\* The steps of a worker that do not touch its job.
LEMMA WorkerKeeps ==
  ASSUME Inv, NEW w \in Workers,
         \/ Leave(w) \/ FindEmpty(w) \/ Block(w) \/ SpuriousWake(w)
         \/ NotCancelled(w) \/ CacheMiss(w)
         \/ Delay(w) /\ UNCHANGED jobVars
  PROVE  Inv'
<1> USE DEF Inv, clientVars, workerVars, envVars, jobVars
<1>1. PICK step \in WorkerSteps :
        /\ wstep' = [wstep EXCEPT ![w] = step]
        /\ wstep[w] \in Holding <=> step \in Holding
        /\ wstep[w] \in Started <=> step \in Started
        /\ step # "decide"
  BY DEF Leave, FindEmpty, Block, SpuriousWake, NotCancelled, CacheMiss, Delay, Goto,
         WorkerSteps, Holding, Started
<1>2. UNCHANGED <<jobVars, cancelRequested, clientVars, queue, wjob, status, cached, envVars>>
  BY DEF Leave, FindEmpty, Block, SpuriousWake, NotCancelled, CacheMiss, Delay
<1>3. TypeOK'
  BY <1>1, <1>2 DEF TypeOK
<1>4. KeepsJobs
  BY <1>1, <1>2 DEF TypeOK, KeepsJobs
<1> QED BY <1>3, <1>4, KeepsJobsInv

\* The steps of other threads that do not touch a job.
LEMMA OthersKeep ==
  ASSUME Inv,
         \/ \E s \in Submitters : NotifyOne(s)
         \/ \E j \in Jobs : Cancel(j)
         \/ ThrottleChange
         \/ StopCancelAll \/ StopFlag \/ StopNotify \/ StopJoined
  PROVE  Inv'
<1> USE DEF Inv, clientVars, workerVars, envVars, jobVars
<1>1. CASE \E s \in Submitters : NotifyOne(s)
  <2>1. PICK s \in Submitters : NotifyOne(s)
    BY <1>1
  <2>2. \/ UNCHANGED wstep
        \/ \E w \in Workers : wstep[w] = "waiting" /\ wstep' = [wstep EXCEPT ![w] = "woken"]
    BY <2>1 DEF NotifyOne, Goto
  <2>3. TypeOK'
    BY <2>1, <2>2 DEF NotifyOne, TypeOK, WorkerSteps
  <2>4. KeepsJobs
    BY <2>1, <2>2 DEF NotifyOne, TypeOK, KeepsJobs, Holding, Started
  <2> QED BY <2>3, <2>4, KeepsJobsInv
<1>2. CASE \E j \in Jobs : Cancel(j)
  <2>1. PICK j \in Jobs : Cancel(j)
    BY <1>2
  <2>2. TypeOK'
    BY <2>1 DEF Cancel, NotifyAll, TypeOK, WorkerSteps
  <2>3. KeepsJobs
    BY <2>1 DEF Cancel, NotifyAll, TypeOK, KeepsJobs, Holding, Started
  <2> QED BY <2>2, <2>3, KeepsJobsInv
<1>3. CASE ThrottleChange \/ StopFlag \/ StopJoined
  <2>1. TypeOK'
    BY <1>3 DEF ThrottleChange, StopFlag, StopJoined, TypeOK
  <2>2. KeepsJobs
    BY <1>3 DEF ThrottleChange, StopFlag, StopJoined, KeepsJobs
  <2> QED BY <2>1, <2>2, KeepsJobsInv
<1>4. CASE StopCancelAll
  <2>1. TypeOK'
    BY <1>4 DEF StopCancelAll, TypeOK
  <2>2. KeepsJobs
    BY <1>4 DEF StopCancelAll, KeepsJobs
  <2> QED BY <2>1, <2>2, KeepsJobsInv
<1>5. CASE StopNotify
  <2>1. TypeOK'
    BY <1>5 DEF StopNotify, NotifyAll, TypeOK, WorkerSteps
  <2>2. KeepsJobs
    BY <1>5 DEF StopNotify, NotifyAll, TypeOK, KeepsJobs, Holding, Started
  <2> QED BY <2>1, <2>2, KeepsJobsInv
<1> QED BY <1>1, <1>2, <1>3, <1>4, <1>5

\* The steps by which a worker moves its job on.
LEMMA WorkerMoves ==
  ASSUME Inv, NEW w \in Workers,
         \/ Delay(w) \/ StartRun(w) \/ EngineProgress(w)
         \/ EngineResult(w) \/ EngineFailure(w) \/ EngineStops(w)
  PROVE  Inv'
<1> DEFINE j == wjob[w]
<1> USE JobManagerAssumption DEF Inv, clientVars, workerVars, envVars, jobVars
<1>1. wstep[w] \in Holding /\ j \in Jobs
  <2>1. wstep[w] \in Holding
    BY DEF Delay, StartRun, EngineProgress, EngineResult, EngineFailure, EngineStops,
           EngineReturns, Holding
  <2> QED BY <2>1, HeldJob
<1>2. CASE Delay(w)
  <2>1. CASE UNCHANGED jobVars
    BY <1>2, <2>1, WorkerKeeps
  <2>2. CASE /\ SetState(j, "Delayed", progress[j])
             /\ delayedBefore' = [delayedBefore EXCEPT ![j] = TRUE]
    <3>1. progress[j] = 0
      BY <1>1, <1>2 DEF Delay, WorkerInv, JobInv, Holding, Started
    <3>2. TypeOK'
      <4>1. /\ state' \in [Jobs -> JobStates]
            /\ progress' \in [Jobs -> 0..MaxProgress]
            /\ terminalEvents' \in [Jobs -> Nat]
        BY <1>1, <2>2, <3>1, SetStateType DEF JobStates
      <4> QED BY <1>1, <1>2, <2>2, <4>1 DEF Delay, Goto, TypeOK, WorkerSteps
    <3>3. MovesJob(w, "Delayed", 0)
      BY <1>1, <1>2, <2>2, <3>1
         DEF Delay, Goto, MovesJob, SetState, Terminal, TypeOK
    <3> QED BY <3>2, <3>3, MovesJobInv
  <2> QED BY <1>2, <2>1, <2>2 DEF Delay
<1>3. ASSUME NEW p \in 0..MaxProgress, SetState(j, "Running", p)
      PROVE  /\ state' = [state EXCEPT ![j] = "Running"]
             /\ progress' = [progress EXCEPT ![j] = p]
             /\ UNCHANGED terminalEvents
             /\ state' \in [Jobs -> JobStates]
             /\ progress' \in [Jobs -> 0..MaxProgress]
             /\ terminalEvents' \in [Jobs -> Nat]
  <2>1. /\ state' \in [Jobs -> JobStates]
        /\ progress' \in [Jobs -> 0..MaxProgress]
        /\ terminalEvents' \in [Jobs -> Nat]
    BY <1>1, <1>3, SetStateType DEF JobStates
  <2> QED BY <1>1, <1>3, <2>1 DEF SetState, Terminal, TypeOK
<1>4. CASE StartRun(w)
  <2>1. SetState(j, "Running", 0) /\ 0 \in 0..MaxProgress
    BY <1>4 DEF StartRun
  <2>2. TypeOK'
    BY <1>3, <1>4, <2>1 DEF StartRun, Goto, TypeOK, WorkerSteps
  <2>3. MovesJob(w, "Running", 0)
    BY <1>1, <1>3, <1>4, <2>1 DEF StartRun, Goto, MovesJob, TypeOK, Started
  <2> QED BY <2>2, <2>3, MovesJobInv
<1>5. CASE EngineProgress(w)
  <2>1. PICK p \in progress[j] .. (MaxProgress - 1) : SetState(j, "Running", p)
    BY <1>5 DEF EngineProgress
  <2>2. p \in 0..MaxProgress
    BY <1>1, <2>1 DEF TypeOK
  <2>3. TypeOK'
    BY <1>3, <1>5, <2>1, <2>2 DEF EngineProgress, TypeOK
  <2>4. MovesJob(w, "Running", p)
    BY <1>1, <1>3, <1>5, <2>1, <2>2 DEF EngineProgress, MovesJob, TypeOK, Started
  <2> QED BY <2>3, <2>4, MovesJobInv
<1>6. CASE EngineResult(w)
  <2>1. SetState(j, "Running", MaxProgress) /\ MaxProgress \in 0..MaxProgress
    BY <1>6 DEF EngineResult
  <2>2. TypeOK'
    BY <1>1, <1>3, <1>6, <2>1 DEF EngineResult, EngineReturns, Goto, TypeOK, WorkerSteps, Statuses
  <2>3. MovesJob(w, "Running", MaxProgress)
    BY <1>1, <1>3, <1>6, <2>1 DEF EngineResult, EngineReturns, Goto, MovesJob, TypeOK, Started
  <2> QED BY <2>2, <2>3, MovesJobInv
<1>7. CASE EngineFailure(w) \/ EngineStops(w)
  <2>1. wstep[w] = "scan" /\ state[j] = "Running"
    BY <1>7 DEF EngineFailure, EngineStops, EngineReturns, WorkerInv, Started
  <2>2. PICK p \in 0..MaxProgress :
          /\ state' = [state EXCEPT ![j] = "Running"]
          /\ progress' = [progress EXCEPT ![j] = p]
          /\ UNCHANGED terminalEvents
          /\ state' \in [Jobs -> JobStates]
          /\ progress' \in [Jobs -> 0..MaxProgress]
          /\ terminalEvents' \in [Jobs -> Nat]
    <3>1. CASE SetState(j, "Running", MaxProgress)
      <4>1. MaxProgress \in 0..MaxProgress
        OBVIOUS
      <4> QED BY <1>3, <3>1, <4>1
    <3>2. CASE UNCHANGED <<state, progress, terminalEvents>>
      <4>1. progress[j] \in 0..MaxProgress
        BY <1>1 DEF TypeOK
      <4> QED BY <1>1, <2>1, <3>2, <4>1 DEF TypeOK
    <3> QED BY <1>7, <3>1, <3>2 DEF EngineFailure, EngineStops
  <2>3. TypeOK'
    BY <1>7, <2>2 DEF EngineFailure, EngineStops, EngineReturns, Goto, TypeOK,
                      WorkerSteps, Statuses
  <2>4. MovesJob(w, "Running", p)
    BY <1>1, <1>7, <2>1, <2>2 DEF EngineFailure, EngineStops, EngineReturns, Goto,
                                  MovesJob, TypeOK, Started
  <2> QED BY <2>3, <2>4, MovesJobInv
<1> QED BY <1>2, <1>4, <1>5, <1>6, <1>7

\* The steps by which a worker ends its job.
LEMMA WorkerEnds ==
  ASSUME Inv, NEW w \in Workers,
         \/ CancelBeforeRun(w) \/ CacheHit(w)
         \/ DecideCancelled(w) \/ DecideCompleted(w) \/ DecideFailed(w)
  PROVE  Inv'
<1> DEFINE j == wjob[w]
<1> USE JobManagerAssumption DEF Inv
<1>1. wstep[w] \in Holding /\ j \in Jobs
  <2>1. wstep[w] \in Holding
    BY DEF CancelBeforeRun, CacheHit, DecideCancelled, DecideCompleted, DecideFailed, Holding
  <2> QED BY <2>1, HeldJob
<1>2. progress[j] \in 0..MaxProgress /\ MaxProgress \in 0..MaxProgress
  BY <1>1 DEF TypeOK
<1>3. CASE CancelBeforeRun(w)
  <2>1. EndsJob(w, "Cancelled", progress[j])
    BY <1>1, <1>2, <1>3 DEF CancelBeforeRun, EndsJob, Terminal
  <2> QED BY <2>1, EndsJobInv
<1>4. CASE CacheHit(w)
  <2>1. EndsJob(w, "Completed", MaxProgress)
    BY <1>1, <1>2, <1>4 DEF CacheHit, EndsJob, Terminal, TypeOK
  <2> QED BY <2>1, EndsJobInv
<1>5. CASE DecideCancelled(w)
  <2>1. cancelRequested[j]
    BY <1>5 DEF DecideCancelled, StatusInv
  <2>2. EndsJob(w, "Cancelled", progress[j])
    BY <1>1, <1>2, <1>5, <2>1 DEF DecideCancelled, EndsJob, Terminal
  <2> QED BY <2>2, EndsJobInv
<1>6. CASE DecideCompleted(w)
  <2>1. hasResult[j]
    BY <1>6 DEF DecideCompleted, StatusInv
  <2>2. EndsJob(w, "Completed", MaxProgress)
    BY <1>1, <1>2, <1>6, <2>1 DEF DecideCompleted, EndsJob, Terminal
  <2> QED BY <2>2, EndsJobInv
<1>7. CASE DecideFailed(w)
  <2>1. EndsJob(w, "Failed", progress[j])
    BY <1>1, <1>2, <1>7 DEF DecideFailed, EndsJob, Terminal
  <2> QED BY <2>1, EndsJobInv
<1> QED BY <1>3, <1>4, <1>5, <1>6, <1>7

\* Submit creates a job that nobody has seen before.
LEMMA RegisterInv ==
  ASSUME Inv, NEW s \in Submitters, NEW p \in Priorities, Register(s, p)
  PROVE  Inv'
<1> DEFINE j == nextJob
<1>1. /\ j \in Jobs /\ state[j] = "Absent" /\ j \notin queue
      /\ \A w \in Workers : wjob[w] # j
      /\ \A t \in Submitters : ~Pushing(t, j)
  <2>1. j \in Jobs /\ state[j] = "Absent" /\ j \notin queue
    BY DEF Register, Inv, TypeOK, JobInv, Waiting
  <2>2. \A w \in Workers : wjob[w] # j
    <3> SUFFICES ASSUME NEW w \in Workers, wjob[w] = j PROVE FALSE
      OBVIOUS
    <3>1. wstep[w] \in Holding
      BY <2>1 DEF Inv, WorkerInv, NoJob, Jobs
    <3> QED BY <2>1, <3>1, HeldJob
  <2> QED BY <2>1, <2>2 DEF Inv, SubmitInv, Pushing
<1>2. /\ state' = [state EXCEPT ![j] = "Pending"]
      /\ sstep' = [sstep EXCEPT ![s] = "push"]
      /\ sjob' = [sjob EXCEPT ![s] = j]
      /\ nextJob' = j + 1
      /\ priority' = [priority EXCEPT ![j] = p]
      /\ UNCHANGED <<progress, hasResult, cancelRequested, delayedBefore, terminalEvents,
                     queue, wstep, wjob, status, cached, overloaded, running, stop>>
  BY DEF Register, workerVars, envVars
<1> HIDE DEF j
<1> USE JobManagerAssumption DEF Inv
<1>3. TypeOK'
  <2>1. p \in 0..High /\ j + 1 \in 1..(MaxJobs + 1) /\ "Pending" \in JobStates
    BY <1>1 DEF Jobs, JobStates
  <2> QED BY <1>1, <1>2, <2>1 DEF TypeOK
<1>4. \A w \in Workers : wstep[w] \in Holding => wjob[w] \in Jobs /\ state'[wjob[w]] = state[wjob[w]]
  BY <1>1, <1>2 DEF TypeOK, WorkerInv
<1>5. WorkerInv' /\ StatusInv'
  BY <1>2, <1>4 DEF WorkerInv, StatusInv, Holding, Started
<1>6. JobInv'
  BY <1>1, <1>2 DEF TypeOK, JobInv, Waiting, Jobs, j
<1>7. SubmitInv' /\ NoSharedJob'
  BY <1>1, <1>2 DEF TypeOK, SubmitInv, NoSharedJob, Pushing
<1>8. NoLostJob'
  <2> SUFFICES ASSUME NEW k \in Jobs
               PROVE  /\ state'[k] \in {"Pending", "Delayed", "Running"} =>
                           \/ k \in queue
                           \/ \E w \in Workers : wjob[w] = k
                           \/ \E t \in Submitters : Pushing(t, k)'
                      /\ state'[k] \in Terminal => k \notin queue
    BY <1>2 DEF NoLostJob
  <2>1. CASE k = j
    BY <2>1, <1>1, <1>2 DEF TypeOK, Pushing
  <2>2. CASE k # j
    <3>1. state'[k] = state[k]
      BY <2>2, <1>1, <1>2 DEF TypeOK
    <3>2. \A t \in Submitters : Pushing(t, k) => Pushing(t, k)'
      BY <1>2 DEF TypeOK, Pushing, Register
    <3> QED BY <3>1, <3>2 DEF NoLostJob
  <2> QED BY <2>1, <2>2
<1>9. OneTerminalEvent' /\ TerminalJustified'
  BY <1>1, <1>2 DEF TypeOK, OneTerminalEvent, TerminalJustified, Terminal
<1> QED BY <1>3, <1>5, <1>6, <1>7, <1>8, <1>9

\* Submit hands the job to the queue.
LEMMA PushInv ==
  ASSUME Inv, NEW s \in Submitters, Push(s)
  PROVE  Inv'
<1> DEFINE j == sjob[s]
<1>1. j \in Jobs /\ state[j] = "Pending" /\ Pushing(s, j)
  BY DEF Push, Inv, SubmitInv, Pushing
<1>2. /\ queue' = queue \cup {j}
      /\ sstep' = [sstep EXCEPT ![s] = "notify"]
      /\ UNCHANGED <<jobVars, cancelRequested, nextJob, sjob, workerVars, cached, envVars>>
  BY DEF Push
<1> USE DEF Inv, jobVars, workerVars, envVars
<1>3. \A t \in Submitters, k \in Jobs : Pushing(t, k)' <=> Pushing(t, k) /\ k # j
  BY <1>1, <1>2 DEF TypeOK, Pushing, NoSharedJob
<1> HIDE DEF j
<1>4. TypeOK'
  BY <1>1, <1>2 DEF TypeOK
<1>5. WorkerInv' /\ StatusInv' /\ JobInv'
  BY <1>1, <1>2 DEF WorkerInv, StatusInv, JobInv, Waiting
<1>6. SubmitInv'
  BY <1>2 DEF TypeOK, SubmitInv
<1>7. NoSharedJob'
  BY <1>1, <1>2, <1>3 DEF NoSharedJob
<1>8. NoLostJob'
  BY <1>1, <1>2, <1>3 DEF NoLostJob, Terminal
<1>9. OneTerminalEvent' /\ TerminalJustified'
  BY <1>2 DEF OneTerminalEvent, TerminalJustified
<1> QED BY <1>4, <1>5, <1>6, <1>7, <1>8, <1>9

\* A worker takes a job from the queue.
LEMMA PopInv ==
  ASSUME Inv, NEW w \in Workers, Pop(w)
  PROVE  Inv'
<1>1. PICK j \in Jobs : Top(j) /\ queue' = queue \ {j} /\ wjob' = [wjob EXCEPT ![w] = j]
  BY DEF Pop
<1>2. /\ wstep[w] \in {"loop", "woken"} /\ wstep' = [wstep EXCEPT ![w] = "popped"]
      /\ UNCHANGED <<jobVars, cancelRequested, clientVars, status, cached, envVars>>
  BY DEF Pop, Goto
<1> USE DEF Inv, jobVars, clientVars, envVars
<1>3. j \in queue /\ state[j] \in Waiting /\ wjob[w] = NoJob /\ j # NoJob
  BY <1>1, <1>2 DEF Top, JobInv, WorkerInv, Holding, Jobs, NoJob
<1>4. TypeOK'
  BY <1>1, <1>2 DEF TypeOK, WorkerSteps
<1>5. WorkerInv' /\ StatusInv' /\ JobInv' /\ SubmitInv'
  BY <1>1, <1>2, <1>3 DEF TypeOK, WorkerInv, StatusInv, JobInv, SubmitInv, Holding, Started
<1>6. \A t \in Submitters, k \in Jobs : Pushing(t, k)' <=> Pushing(t, k)
  BY <1>2 DEF Pushing
<1>7. NoSharedJob'
  BY <1>1, <1>2, <1>3, <1>6 DEF TypeOK, NoSharedJob
<1>8. NoLostJob'
  <2>1. wjob'[w] = j /\ \A v \in Workers \ {w} : wjob'[v] = wjob[v]
    BY <1>1 DEF TypeOK
  <2>2. \A k \in Jobs, v \in Workers : wjob[v] = k => wjob'[v] = k
    BY <1>3, <2>1 DEF Jobs, NoJob
  <2> QED BY <1>1, <1>2, <1>6, <2>1, <2>2 DEF NoLostJob
<1>9. OneTerminalEvent' /\ TerminalJustified'
  BY <1>2 DEF OneTerminalEvent, TerminalJustified
<1> QED BY <1>4, <1>5, <1>7, <1>8, <1>9

\* A worker puts its delayed job back.
LEMMA RequeueInv ==
  ASSUME Inv, NEW w \in Workers, Requeue(w)
  PROVE  Inv'
<1> DEFINE j == wjob[w]
<1>1. /\ wstep[w] = "requeue" /\ queue' = queue \cup {j}
      /\ wjob' = [wjob EXCEPT ![w] = NoJob] /\ wstep' = [wstep EXCEPT ![w] = "loop"]
      /\ status' = [status EXCEPT ![w] = "none"]
      /\ UNCHANGED <<jobVars, cancelRequested, clientVars, cached, envVars>>
  BY DEF Requeue, Release, Goto
<1>2. /\ j \in Jobs /\ j \notin queue
      /\ \A v \in Workers \ {w} : wjob[v] # j
      /\ \A s \in Submitters : ~Pushing(s, j)
      /\ state[j] \in Waiting
  BY <1>1, HeldJob DEF Holding, Started, Inv, WorkerInv
<1> HIDE DEF j
<1> USE DEF Inv, jobVars, clientVars, envVars
<1>3. TypeOK'
  BY <1>1, <1>2 DEF TypeOK, WorkerSteps, Statuses
<1>4. WorkerInv' /\ StatusInv' /\ JobInv' /\ SubmitInv'
  BY <1>1, <1>2 DEF TypeOK, WorkerInv, StatusInv, JobInv, SubmitInv, Holding, Started
<1>5. \A t \in Submitters, k \in Jobs : Pushing(t, k)' <=> Pushing(t, k)
  BY <1>1 DEF Pushing
<1>6. NoSharedJob'
  BY <1>1, <1>2, <1>5 DEF TypeOK, NoSharedJob, NoJob, Jobs
<1>7. NoLostJob'
  <2>1. \A k \in Jobs, v \in Workers : wjob[v] = k /\ k # j => wjob'[v] = k
    BY <1>1 DEF TypeOK, j
  <2> QED BY <1>1, <1>2, <1>5, <2>1 DEF NoLostJob, Waiting, Terminal
<1>8. OneTerminalEvent' /\ TerminalJustified'
  BY <1>1 DEF OneTerminalEvent, TerminalJustified
<1> QED BY <1>3, <1>4, <1>6, <1>7, <1>8

-----------------------------------------------------------------------------

THEOREM NextInv == Inv /\ [Next]_vars => Inv'
<1> SUFFICES ASSUME Inv, [Next]_vars PROVE Inv'
  OBVIOUS
<1>1. CASE \E s \in Submitters : SubmitStep(s) \/ \E p \in Priorities : Register(s, p)
  BY <1>1, RegisterInv, PushInv, OthersKeep DEF SubmitStep
<1>2. CASE \E w \in Workers : QueueStep(w) \/ JobStep(w) \/ EngineProgress(w) \/ SpuriousWake(w)
  <2>1. PICK w \in Workers : QueueStep(w) \/ JobStep(w) \/ EngineProgress(w) \/ SpuriousWake(w)
    BY <1>2
  <2> QED BY <2>1, WorkerKeeps, WorkerMoves, WorkerEnds, PopInv, RequeueInv
             DEF QueueStep, JobStep
<1>3. CASE \/ \E j \in Jobs : Cancel(j)
           \/ ThrottleChange
           \/ StopCancelAll \/ StopFlag \/ StopNotify \/ StopJoined
  BY <1>3, OthersKeep
<1>4. CASE UNCHANGED vars
  BY <1>4 DEF vars, jobVars, clientVars, workerVars, envVars, Inv, TypeOK, WorkerInv,
              StatusInv, JobInv, SubmitInv, NoSharedJob, NoLostJob, Pushing,
              OneTerminalEvent, TerminalJustified
<1> QED BY <1>1, <1>2, <1>3, <1>4 DEF Next, Stopped

\* The invariant holds of every execution of the scheduler.
THEOREM Invariance == Spec => []Inv
<1> QED BY InitInv, NextInv, PTL DEF Spec

\* The types of the variables.
THEOREM TypeCorrect == Spec => []TypeOK
<1>1. Inv => TypeOK
  BY DEF Inv
<1> QED BY <1>1, Invariance, PTL

\* No two threads ever work on the same job, with any number of workers.
THEOREM JobsNotShared == Spec => []NoSharedJob
<1>1. Inv => NoSharedJob
  BY DEF Inv
<1> QED BY <1>1, Invariance, PTL

\* Every accepted job is in the queue, in a worker's hands or over.
THEOREM JobsNotLost == Spec => []NoLostJob
<1>1. Inv => NoLostJob
  BY DEF Inv
<1> QED BY <1>1, Invariance, PTL

\* Exactly one terminal snapshot per ended job.
THEOREM TerminalOnce == Spec => []OneTerminalEvent
<1>1. Inv => OneTerminalEvent
  BY DEF Inv
<1> QED BY <1>1, Invariance, PTL

\* Completed means a result, Cancelled means somebody asked.
THEOREM TerminalTrue == Spec => []TerminalJustified
<1>1. Inv => TerminalJustified
  BY DEF Inv
<1> QED BY <1>1, Invariance, PTL

-----------------------------------------------------------------------------
(* The action properties.  A step changes at most one job, one that is not *)
(* over, and its progress does not shrink.                                 *)

OneJobChanges ==
  \/ UNCHANGED <<state, progress>>
  \/ \E j \in Jobs, s \in JobStates, p \in 0..MaxProgress :
       /\ state[j] \notin Terminal /\ p >= progress[j]
       /\ state' = [state EXCEPT ![j] = s]
       /\ progress' = [progress EXCEPT ![j] = p]

LEMMA WorkerChanges ==
  ASSUME Inv, NEW w \in Workers, JobStep(w) \/ EngineProgress(w)
  PROVE  OneJobChanges
<1> DEFINE j == wjob[w]
<1>1. CASE \E s \in JobStates, p \in 0..MaxProgress :
             SetState(j, s, p) /\ wstep[w] \in Holding /\ p >= progress[j]
  <2>1. j \in Jobs /\ state[j] \notin Terminal
    BY <1>1, HeldJob DEF Terminal
  <2> QED BY <1>1, <2>1 DEF SetState, OneJobChanges
<1>2. CASE wstep[w] \notin Holding
  BY <1>2 DEF JobStep, Block, CancelBeforeRun, NotCancelled, Delay, StartRun, CacheHit,
              CacheMiss, EngineResult, EngineFailure, EngineStops, EngineReturns,
              DecideCancelled, DecideCompleted, DecideFailed, EngineProgress,
              Holding, jobVars, OneJobChanges
<1>3. CASE wstep[w] \in Holding
  <2> j \in Jobs /\ progress[j] \in 0..MaxProgress /\ MaxProgress \in 0..MaxProgress
    BY <1>3, HeldJob, JobManagerAssumption DEF Inv, TypeOK
  <2>1. CASE UNCHANGED <<state, progress>>
    BY <2>1 DEF OneJobChanges
  <2>2. CASE StartRun(w)
    <3>1. progress[j] = 0
      BY <2>2 DEF StartRun, Inv, WorkerInv, JobInv, Holding, Started
    <3> QED BY <1>1, <1>3, <2>2, <3>1 DEF StartRun, JobStates
  <2>3. CASE EngineProgress(w)
    <3>1. PICK p \in progress[j] .. (MaxProgress - 1) : SetState(j, "Running", p)
      BY <2>3 DEF EngineProgress
    <3>2. p \in 0..MaxProgress /\ p >= progress[j]
      BY <3>1
    <3> QED BY <1>1, <1>3, <3>1, <3>2 DEF JobStates
  <2>4. CASE \/ CancelBeforeRun(w) \/ DecideCancelled(w) \/ DecideFailed(w)
             \/ SetState(j, "Delayed", progress[j])
    <3>1. \E s \in JobStates : SetState(j, s, progress[j])
      BY <2>4 DEF CancelBeforeRun, DecideCancelled, DecideFailed, JobStates, Terminal
    <3> QED BY <1>1, <1>3, <3>1
  <2>5. CASE \/ CacheHit(w) \/ EngineResult(w) \/ DecideCompleted(w)
             \/ SetState(j, "Running", MaxProgress)
    <3>1. \E s \in JobStates : SetState(j, s, MaxProgress)
      BY <2>5 DEF CacheHit, EngineResult, DecideCompleted, JobStates, Terminal
    <3> QED BY <1>1, <1>3, <3>1
  <2>6. CASE \/ Block(w) \/ NotCancelled(w) \/ Delay(w) \/ CacheMiss(w)
             \/ EngineFailure(w) \/ EngineStops(w)
    BY <2>1, <2>4, <2>5, <2>6
       DEF Block, NotCancelled, Delay, CacheMiss, EngineFailure, EngineStops, jobVars
  <2> QED BY <2>2, <2>3, <2>4, <2>5, <2>6 DEF JobStep
<1> QED BY <1>2, <1>3

LEMMA StepChanges ==
  ASSUME Inv, [Next]_vars
  PROVE  OneJobChanges
<1>1. CASE \E w \in Workers : JobStep(w) \/ EngineProgress(w)
  BY <1>1, WorkerChanges
<1>2. CASE \E s \in Submitters, p \in Priorities : Register(s, p)
  <2>1. /\ nextJob \in Jobs /\ state[nextJob] = "Absent" /\ progress' = progress
        /\ state' = [state EXCEPT ![nextJob] = "Pending"]
    BY <1>2 DEF Register, Inv, TypeOK, JobInv
  <2>2. /\ progress' = [progress EXCEPT ![nextJob] = progress[nextJob]]
        /\ progress[nextJob] \in 0..MaxProgress /\ progress[nextJob] >= progress[nextJob]
    BY <2>1 DEF Inv, TypeOK
  <2>3. "Pending" \in JobStates /\ state[nextJob] \notin Terminal
    BY <2>1 DEF JobStates, Terminal
  <2> QED BY <2>1, <2>2, <2>3, Zenon DEF OneJobChanges
<1>3. CASE UNCHANGED jobVars
  BY <1>3 DEF jobVars, OneJobChanges
<1> QED BY <1>1, <1>2, <1>3
        DEF Next, SubmitStep, QueueStep, Push, NotifyOne, Cancel, Leave, Pop, FindEmpty,
            Requeue, SpuriousWake, ThrottleChange, StopCancelAll, StopFlag, StopNotify,
            StopJoined, Stopped, vars

\* A terminal state and the progress shown with it are final.
THEOREM TerminalFinal == Spec => TerminalIsFinal
<1>1. Inv /\ [Next]_vars => [\A j \in Jobs : state[j] \in Terminal =>
                              state'[j] = state[j] /\ progress'[j] = progress[j]]_vars
  BY StepChanges DEF OneJobChanges, Inv, TypeOK
<1> QED BY <1>1, Invariance, PTL DEF Spec, TerminalIsFinal

\* The progress shown for a job never goes back.
THEOREM ProgressMonotone == Spec => ProgressNeverRegresses
<1>1. Inv /\ [Next]_vars => [\A j \in Jobs : progress'[j] >= progress[j]]_vars
  BY StepChanges DEF OneJobChanges, Inv, TypeOK
<1> QED BY <1>1, Invariance, PTL DEF Spec, ProgressNeverRegresses
=============================================================================
