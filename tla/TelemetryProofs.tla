--------------------------- MODULE TelemetryProofs ---------------------------
(***************************************************************************)
(* Proofs about Telemetry for any number of workers, submitters and jobs:  *)
(* the counters add up although they are updated one after the other and   *)
(* "pending" and "running" are tested and decremented in two steps.        *)
(*                                                                         *)
(* "pending" may show too much, but by a bounded amount: it only drifts    *)
(* when a decrement finds the counter at zero, and then at most the        *)
(* increments still to come separate it from the truth.  That bound keeps  *)
(* the counter from wrapping the wrong way.                                *)
(***************************************************************************)
EXTENDS Telemetry, FiniteSetTheorems, TLAPS

Bit(b) == IF b THEN 1 ELSE 0

BusySteps == WorkerSteps \ {"idle", "recount"}
Busy    == At(BusySteps)
Running == At({"running", "runningDec"})
Due     == At({"popped", "pendingDec"})
Recounting == At({"recount"})

\* The value of an unsigned counter read as a signed number.
Signed(c) == IF 2 * c >= CounterModulus THEN c - CounterModulus ELSE c

\* By how much "pending" is too high.
Drift == Signed(counter["pending"]) + Uncounted + Recounting - queued - Due

Types ==
  /\ counter \in [CounterNames -> 0..(CounterModulus - 1)]
  /\ samples \in 0..SampleCap
  /\ calls \in 0..MaxJobs
  /\ queued \in Nat
  /\ sstep \in [Submitters -> {"idle", "count"}]
  /\ wstep \in [Workers -> WorkerSteps]

AllCounted == counter["received"] + Uncounted = calls

IInv ==
  /\ Types
  /\ AllCounted /\ CountsBalance /\ RunningExact
  /\ Drift \in 0..People

-----------------------------------------------------------------------------
(* Counting threads.                                                       *)

\* Two sets of threads that differ in one thread at most.
LEMMA CountMoves ==
  ASSUME NEW T, IsFiniteSet(T), NEW t \in T, NEW F \in SUBSET T, NEW G \in SUBSET T,
         F \ {t} = G \ {t}
  PROVE  /\ Cardinality(F) \in Nat /\ Cardinality(G) \in Nat
         /\ Cardinality(G) = Cardinality(F) + Bit(t \in G) - Bit(t \in F)
<1> DEFINE H == F \ {t}
<1>1. IsFiniteSet(F) /\ IsFiniteSet(G) /\ IsFiniteSet(H)
  BY FS_Subset
<1>2. Cardinality(F) \in Nat /\ Cardinality(G) \in Nat /\ Cardinality(H) \in Nat
  BY <1>1, FS_CardinalityType
<1>3. t \notin H /\ Cardinality(H \cup {t}) = Cardinality(H) + 1
  BY <1>1, FS_AddElement
<1>4. Cardinality(F) = Cardinality(H) + Bit(t \in F)
  <2>1. CASE t \in F
    <3>1. F = H \cup {t}
      BY <2>1
    <3> QED BY <1>3, <2>1, <3>1 DEF Bit
  <2>2. CASE t \notin F
    <3>1. F = H
      BY <2>2
    <3> QED BY <1>2, <2>2, <3>1 DEF Bit
  <2> QED BY <2>1, <2>2
<1>5. Cardinality(G) = Cardinality(H) + Bit(t \in G)
  <2>1. CASE t \in G
    <3>1. G = H \cup {t}
      BY <2>1
    <3> QED BY <1>3, <2>1, <3>1 DEF Bit
  <2>2. CASE t \notin G
    <3>1. G = H
      BY <2>2
    <3> QED BY <1>2, <2>2, <3>1 DEF Bit
  <2> QED BY <2>1, <2>2
<1>6. Bit(t \in F) \in {0, 1} /\ Bit(t \in G) \in {0, 1}
  BY DEF Bit
<1> QED BY <1>2, <1>4, <1>5, <1>6

\* Unsigned counters, read as signed numbers, count up and down correctly as long as
\* the signed value stays in its range.
LEMMA Counting ==
  ASSUME NEW c \in 0..(CounterModulus - 1)
  PROVE  /\ Plus(c, 1) \in 0..(CounterModulus - 1) /\ Plus(c, -1) \in 0..(CounterModulus - 1)
         /\ c + 1 < CounterModulus => Plus(c, 1) = c + 1
         /\ c > 0 => Plus(c, -1) = c - 1
         /\ Signed(c) \in Int /\ (c = 0 <=> Signed(c) = 0)
         /\ 2 * (Signed(c) + 1) < CounterModulus => Signed(Plus(c, 1)) = Signed(c) + 1
         /\ 2 * (Signed(c) - 1) >= -CounterModulus => Signed(Plus(c, -1)) = Signed(c) - 1
<1> DEFINE M == CounterModulus
<1>1. M \in Nat /\ M > 0 /\ c \in Int
  BY TelemetryAssumption
<1>2. Plus(c, 1) = IF c + 1 = M THEN 0 ELSE c + 1
  <2>1. \A x \in 0..(M - 1) : x % M = x
    BY <1>1
  <2>2. M % M = 0
    BY <1>1
  <2> QED BY <1>1, <2>1, <2>2 DEF Plus
<1>3. Plus(c, -1) = IF c = 0 THEN M - 1 ELSE c - 1
  <2>1. \A x \in 0..(M - 1) : x % M = x
    BY <1>1
  <2>2. (0 + (-1)) % M = M - 1
    BY <1>1
  <2> QED BY <1>1, <2>1, <2>2 DEF Plus
<1>4. M >= 2
  <2>1. Cardinality(Workers) \in Nat /\ Cardinality(Submitters) \in Nat
    BY TelemetryAssumption, FS_CardinalityType
  <2> QED BY <2>1, TelemetryAssumption
<1> QED BY <1>1, <1>2, <1>3, <1>4 DEF Signed

\* What a worker at place p adds to each count.
BusyAt(p)    == Bit(p \in BusySteps)
RunsAt(p)    == Bit(p \in {"running", "runningDec"})
DueAt(p)     == Bit(p \in {"popped", "pendingDec"})
RecountAt(p) == Bit(p \in {"recount"})

\* The change of each count of workers when worker w goes from one place to another.
LEMMA WorkerMoves ==
  ASSUME Types, NEW w \in Workers, NEW to \in WorkerSteps, Goto(w, to)
  PROVE  /\ wstep' \in [Workers -> WorkerSteps]
         /\ Busy' \in Nat /\ Running' \in Nat /\ Due' \in Nat /\ Recounting' \in Nat
         /\ Busy' = Busy + BusyAt(to) - BusyAt(wstep[w])
         /\ Running' = Running + RunsAt(to)
                               - RunsAt(wstep[w])
         /\ Due' = Due + DueAt(to)
                       - DueAt(wstep[w])
         /\ Recounting' = Recounting + RecountAt(to) - RecountAt(wstep[w])
<1>1. wstep' \in [Workers -> WorkerSteps] /\ wstep'[w] = to
  BY DEF Goto, Types
<1>2. \A u \in Workers \ {w} : wstep'[u] = wstep[u]
  BY DEF Goto, Types
<1>3. ASSUME NEW S
      PROVE  At(S)' \in Nat /\ At(S)' = At(S) + Bit(to \in S) - Bit(wstep[w] \in S)
  <2> DEFINE F == {u \in Workers : wstep[u] \in S}
             G == {u \in Workers : wstep'[u] \in S}
  <2>1. F \in SUBSET Workers /\ G \in SUBSET Workers /\ F \ {w} = G \ {w}
    BY <1>2
  <2>2. (w \in F <=> wstep[w] \in S) /\ (w \in G <=> to \in S)
    BY <1>1
  <2>3. Cardinality(G) \in Nat /\ Cardinality(G) = Cardinality(F) + Bit(w \in G) - Bit(w \in F)
    <3> HIDE DEF F, G
    <3> QED BY <2>1, CountMoves, TelemetryAssumption
  <2> QED BY <2>2, <2>3 DEF At, Bit
<1> QED BY <1>1, <1>3
        DEF Busy, Running, Due, Recounting, BusyAt, RunsAt, DueAt, RecountAt

LEMMA SubmitterMoves ==
  ASSUME Types, NEW s \in Submitters, NEW to \in {"idle", "count"},
         sstep' = [sstep EXCEPT ![s] = to]
  PROVE  /\ sstep' \in [Submitters -> {"idle", "count"}]
         /\ Uncounted' \in Nat
         /\ Uncounted' = Uncounted + Bit(to = "count") - Bit(sstep[s] = "count")
<1>1. sstep' \in [Submitters -> {"idle", "count"}] /\ sstep'[s] = to
  BY DEF Types
<1>2. \A u \in Submitters \ {s} : sstep'[u] = sstep[u]
  BY DEF Types
<1> DEFINE F == {u \in Submitters : sstep[u] = "count"}
           G == {u \in Submitters : sstep'[u] = "count"}
<1>3. F \in SUBSET Submitters /\ G \in SUBSET Submitters /\ F \ {s} = G \ {s}
  BY <1>2
<1>4. (s \in F <=> sstep[s] = "count") /\ (s \in G <=> to = "count")
  BY <1>1
<1>5. Cardinality(G) \in Nat /\ Cardinality(G) = Cardinality(F) + Bit(s \in G) - Bit(s \in F)
  <2> HIDE DEF F, G
  <2> QED BY <1>3, CountMoves, TelemetryAssumption
<1> QED BY <1>1, <1>4, <1>5 DEF Uncounted, Bit

LEMMA Sizes ==
  ASSUME Types
  PROVE  /\ Busy \in 0..Cardinality(Workers) /\ Running \in 0..Cardinality(Workers)
         /\ Due \in 0..Busy /\ Recounting \in 0..Cardinality(Workers)
         /\ Uncounted \in 0..Cardinality(Submitters)
         /\ Cardinality(Workers) \in Nat /\ Cardinality(Submitters) \in Nat
<1>1. Cardinality(Workers) \in Nat /\ Cardinality(Submitters) \in Nat
  BY TelemetryAssumption, FS_CardinalityType
<1>2. ASSUME NEW S
      PROVE  /\ At(S) \in 0..Cardinality(Workers)
             /\ IsFiniteSet({w \in Workers : wstep[w] \in S})
  <2>1. /\ IsFiniteSet({w \in Workers : wstep[w] \in S})
        /\ Cardinality({w \in Workers : wstep[w] \in S}) <= Cardinality(Workers)
    BY FS_Subset, TelemetryAssumption
  <2>2. Cardinality({w \in Workers : wstep[w] \in S}) \in Nat
    BY <2>1, FS_CardinalityType
  <2> QED BY <1>1, <2>1, <2>2 DEF At
<1>3. Due <= Busy
  <2>1. {w \in Workers : wstep[w] \in {"popped", "pendingDec"}}
          \subseteq {w \in Workers : wstep[w] \in BusySteps}
    BY DEF BusySteps, WorkerSteps
  <2> QED BY <1>2, <2>1, FS_Subset DEF Due, Busy, At
<1>4. Uncounted \in 0..Cardinality(Submitters)
  <2>1. /\ IsFiniteSet({s \in Submitters : sstep[s] = "count"})
        /\ Cardinality({s \in Submitters : sstep[s] = "count"}) <= Cardinality(Submitters)
    BY FS_Subset, TelemetryAssumption
  <2>2. Cardinality({s \in Submitters : sstep[s] = "count"}) \in Nat
    BY <2>1, FS_CardinalityType
  <2> QED BY <1>1, <2>1, <2>2 DEF Uncounted
<1>5. /\ Busy \in 0..Cardinality(Workers) /\ Running \in 0..Cardinality(Workers)
      /\ Due \in 0..Cardinality(Workers) /\ Recounting \in 0..Cardinality(Workers)
  BY <1>2 DEF Busy, Running, Due, Recounting
<1> QED BY <1>1, <1>3, <1>4, <1>5

-----------------------------------------------------------------------------
(* The invariant.                                                          *)

LEMMA InitIInv == Init => IInv
<1> SUFFICES ASSUME Init PROVE IInv
  OBVIOUS
<1>1. Types
  BY TelemetryAssumption DEF Init, Types, WorkerSteps
<1>2. \A S : "idle" \notin S => At(S) = 0
  <2>1. \A S : "idle" \notin S => {w \in Workers : wstep[w] \in S} = {}
    BY DEF Init
  <2> QED BY <2>1, FS_EmptySet DEF At
<1>3. Busy = 0 /\ Running = 0 /\ Due = 0 /\ Recounting = 0
  BY <1>2 DEF Busy, BusySteps, Running, Due, Recounting
<1>4. Uncounted = 0
  <2>1. {s \in Submitters : sstep[s] = "count"} = {}
    BY DEF Init
  <2> QED BY <2>1, FS_EmptySet DEF Uncounted
<1>5. \A n \in CounterNames : counter[n] = 0
  BY DEF Init
<1>6. Signed(counter["pending"]) = 0 /\ CounterModulus \in Nat \ {0}
  BY <1>5, TelemetryAssumption DEF Signed, CounterNames
<1>7. People \in Nat
  BY <1>1, Sizes DEF People
<1>8. AllCounted /\ CountsBalance
  BY <1>3, <1>4, <1>5
     DEF Init, AllCounted, CountsBalance, Ended, Busy, BusySteps, CounterNames
<1>9. RunningExact
  BY <1>3, <1>5 DEF RunningExact, Running, CounterNames
<1>10. Drift \in 0..People
  BY <1>3, <1>4, <1>6, <1>7 DEF Init, Drift
<1> QED BY <1>1, <1>8, <1>9, <1>10 DEF IInv

\* What the invariant says about the numbers.
LEMMA Bounds ==
  ASSUME IInv
  PROVE  /\ \A n \in CounterNames : counter[n] \in 0..(CounterModulus - 1)
         /\ counter["received"] = calls - Uncounted
         /\ counter["succeeded"] + counter["failed"] + counter["cancelled"]
              = calls - queued - Busy
         /\ counter["running"] = Running
         /\ Signed(counter["pending"]) \in Int
         /\ Signed(counter["pending"]) = Drift - Uncounted - Recounting + queued + Due
         /\ calls \in 0..MaxJobs /\ queued \in Nat /\ People \in Nat
         /\ 2 * (MaxJobs + People) < CounterModulus /\ MaxJobs \in Nat \ {0}
         /\ CounterModulus \in Nat
<1>1. /\ \A n \in CounterNames : counter[n] \in 0..(CounterModulus - 1)
      /\ calls \in 0..MaxJobs /\ queued \in Nat
  BY DEF IInv, Types
<1>2. /\ MaxJobs \in Nat \ {0} /\ CounterModulus \in Nat
      /\ People \in Nat /\ 2 * (MaxJobs + People) < CounterModulus
  BY Sizes, TelemetryAssumption DEF People, IInv
<1>3. Signed(counter["pending"]) \in Int
  BY <1>1, Counting DEF CounterNames
<1>4. counter["received"] \in Int /\ counter["succeeded"] \in Int /\ counter["failed"] \in Int
        /\ counter["cancelled"] \in Int
  BY <1>1, <1>2 DEF CounterNames
<1>5. Busy \in Nat /\ Due \in Int /\ Recounting \in Int /\ Uncounted \in Int
  BY Sizes DEF IInv
<1>6. counter["received"] = calls - Uncounted
  BY <1>1, <1>2, <1>4, <1>5 DEF IInv, AllCounted
<1>7. counter["received"] + Uncounted
        = counter["succeeded"] + counter["failed"] + counter["cancelled"] + queued + Busy
  BY DEF IInv, CountsBalance, Ended, Busy, BusySteps
<1>8. counter["succeeded"] + counter["failed"] + counter["cancelled"] = calls - queued - Busy
  BY <1>1, <1>4, <1>5, <1>6, <1>7
<1>9. counter["running"] = Running
  BY DEF IInv, RunningExact, Running
<1>10. Signed(counter["pending"]) = Drift - Uncounted - Recounting + queued + Due
  BY <1>1, <1>3, <1>5 DEF Drift
<1> QED BY <1>1, <1>2, <1>3, <1>6, <1>8, <1>9, <1>10

\* A step of worker w from one place to another that keeps the sums: what leaves the
\* queue or the outcomes is in the worker's hands, and the other way round.
LEMMA WorkerActs ==
  ASSUME IInv, NEW w \in Workers, NEW to \in WorkerSteps, Goto(w, to),
         UNCHANGED <<calls, sstep>>,
         counter' \in [CounterNames -> 0..(CounterModulus - 1)],
         samples' \in 0..SampleCap, queued' \in Nat,
         counter'["received"] = counter["received"],
         counter'["succeeded"] + counter'["failed"] + counter'["cancelled"]
             + queued' + BusyAt(to)
           = counter["succeeded"] + counter["failed"] + counter["cancelled"]
             + queued + BusyAt(wstep[w]),
         counter'["running"] - RunsAt(to)
           = counter["running"] - RunsAt(wstep[w]),
         \/ Drift' \in 0..People
         \/ Signed(counter["pending"])' + RecountAt(to) - queued'
                 - DueAt(to)
              = Signed(counter["pending"]) + RecountAt(wstep[w]) - queued
                 - DueAt(wstep[w])
  PROVE  IInv'
<1>t. Types
  BY DEF IInv
<1>1. Types'
  BY <1>t, WorkerMoves DEF Types
<1>2. /\ Busy \in Nat /\ Running \in Nat /\ Due \in Nat /\ Recounting \in Nat
      /\ Uncounted \in Nat /\ Uncounted' = Uncounted
  BY <1>t, Sizes DEF Uncounted
<1>3. /\ Busy' \in Nat /\ Running' \in Nat /\ Due' \in Nat /\ Recounting' \in Nat
      /\ Busy' = Busy + BusyAt(to) - BusyAt(wstep[w])
      /\ Running' = Running + RunsAt(to)
                            - RunsAt(wstep[w])
      /\ Due' = Due + DueAt(to)
                    - DueAt(wstep[w])
      /\ Recounting' = Recounting + RecountAt(to) - RecountAt(wstep[w])
  BY <1>t, WorkerMoves
<1>4. /\ BusyAt(to) \in Int /\ BusyAt(wstep[w]) \in Int
      /\ RunsAt(to) \in Int
      /\ RunsAt(wstep[w]) \in Int
      /\ DueAt(to) \in Int
      /\ DueAt(wstep[w]) \in Int
      /\ RecountAt(to) \in Int /\ RecountAt(wstep[w]) \in Int
  BY DEF BusyAt, RunsAt, DueAt, RecountAt, Bit
<1>5. /\ \A n \in CounterNames : counter[n] \in Int /\ counter'[n] \in Int
      /\ queued \in Int /\ calls \in Int
  BY <1>t, Bounds, TelemetryAssumption DEF Types
<1>6. /\ "received" \in CounterNames /\ "succeeded" \in CounterNames /\ "failed" \in CounterNames
      /\ "cancelled" \in CounterNames /\ "running" \in CounterNames /\ "pending" \in CounterNames
  BY DEF CounterNames
<1>7. AllCounted'
  BY <1>2 DEF IInv, AllCounted
<1>8. CountsBalance'
  <2>1. counter'["received"] + Uncounted'
          = counter'["succeeded"] + counter'["failed"] + counter'["cancelled"] + queued' + Busy'
    <3>1. counter["received"] + Uncounted
            = counter["succeeded"] + counter["failed"] + counter["cancelled"] + queued + Busy
      BY DEF IInv, CountsBalance, Ended, Busy, BusySteps
    <3>2. /\ counter["received"] \in Int /\ counter["succeeded"] \in Int
          /\ counter["failed"] \in Int /\ counter["cancelled"] \in Int
          /\ counter'["received"] \in Int /\ counter'["succeeded"] \in Int
          /\ counter'["failed"] \in Int /\ counter'["cancelled"] \in Int
      BY <1>5, <1>6
    <3>3. Busy' = Busy + BusyAt(to) - BusyAt(wstep[w])
      BY <1>3
    <3>4. counter["succeeded"] + counter["failed"] + counter["cancelled"]
            = counter'["succeeded"] + counter'["failed"] + counter'["cancelled"]
                + queued' + BusyAt(to) - queued - BusyAt(wstep[w])
      BY <3>2, <1>4, <1>5
    <3> QED BY <3>1, <3>2, <3>3, <3>4, <1>2, <1>3, <1>4, <1>5
  <2> QED BY <2>1 DEF CountsBalance, Ended, Busy, BusySteps
<1>9. RunningExact'
  <2>1. counter'["running"] = Running'
    BY <1>2, <1>3, <1>4, <1>5, <1>6, Bounds
  <2> QED BY <2>1 DEF RunningExact, Running
<1>10. Drift' \in 0..People
  <2>1. Signed(counter["pending"]) \in Int /\ Signed(counter["pending"])' \in Int
    BY <1>6, Counting, <1>t DEF Types
  <2>2. ASSUME Signed(counter["pending"])' + RecountAt(to) - queued'
                 - DueAt(to)
              = Signed(counter["pending"]) + RecountAt(wstep[w]) - queued
                 - DueAt(wstep[w])
        PROVE  Drift' = Drift
    BY <2>1, <2>2, <1>2, <1>3, <1>4, <1>5 DEF Drift
  <2> QED BY <2>2 DEF IInv
<1> QED BY <1>1, <1>7, <1>8, <1>9, <1>10 DEF IInv

\* The same for a submitter.
LEMMA SubmitterActs ==
  ASSUME IInv, NEW s \in Submitters, Push(s) \/ CountJob(s)
  PROVE  IInv'
<1>t. Types
  BY DEF IInv
<1>u. UNCHANGED <<Busy, Running, Due, Recounting>>
  BY DEF Push, CountJob, Busy, Running, Due, Recounting, At
<1>s. /\ Busy \in Nat /\ Running \in Nat /\ Due \in Nat /\ Recounting \in Nat
      /\ Uncounted \in Nat
  BY <1>t, Sizes
<1>n. /\ "received" \in CounterNames /\ "succeeded" \in CounterNames /\ "failed" \in CounterNames
      /\ "cancelled" \in CounterNames /\ "running" \in CounterNames /\ "pending" \in CounterNames
  BY DEF CounterNames
<1>i. \A n \in CounterNames : counter[n] \in Nat
  BY Bounds
<1>1. CASE Push(s)
  <2>1. /\ sstep' \in [Submitters -> {"idle", "count"}] /\ Uncounted' = Uncounted + 1
    <3>1. "count" \in {"idle", "count"} /\ sstep[s] = "idle"
            /\ sstep' = [sstep EXCEPT ![s] = "count"]
      BY <1>1 DEF Push
    <3>2. /\ sstep' \in [Submitters -> {"idle", "count"}]
          /\ Uncounted' = Uncounted + Bit("count" = "count") - Bit(sstep[s] = "count")
      BY <3>1, <1>t, SubmitterMoves, Zenon
    <3> QED BY <3>1, <3>2, <1>s DEF Bit
  <2>2. /\ calls' = calls + 1 /\ calls < MaxJobs /\ queued' = queued + 1 /\ counter' = counter
        /\ samples' = samples /\ wstep' = wstep
    BY <1>1 DEF Push
  <2>3. Types'
    BY <2>1, <2>2, <1>t, TelemetryAssumption DEF Types
  <2>4. AllCounted'
    BY <2>1, <2>2, <1>s, <1>i, <1>n, Bounds DEF AllCounted
  <2>5. CountsBalance'
    <3>1. counter["received"] + Uncounted
            = counter["succeeded"] + counter["failed"] + counter["cancelled"] + queued + Busy
      BY DEF IInv, CountsBalance, Ended, Busy, BusySteps
    <3>2. counter'["received"] + Uncounted' = counter'["succeeded"] + counter'["failed"]
             + counter'["cancelled"] + queued' + Busy'
      BY <3>1, <2>1, <2>2, <1>s, <1>u, <1>i, <1>n, Bounds
    <3> QED BY <3>2 DEF CountsBalance, Ended, Busy, BusySteps
  <2>6. RunningExact'
    BY <2>2 DEF IInv, RunningExact, At
  <2>7. Drift' = Drift
    BY <2>1, <2>2, <1>s, <1>u, Bounds DEF Drift, Signed
  <2> QED BY <2>3, <2>4, <2>5, <2>6, <2>7 DEF IInv, People
<1>2. CASE CountJob(s)
  <2>1. /\ sstep' \in [Submitters -> {"idle", "count"}] /\ Uncounted' \in Nat
        /\ Uncounted' = Uncounted - 1
    <3>1. "idle" \in {"idle", "count"} /\ sstep[s] = "count"
            /\ sstep' = [sstep EXCEPT ![s] = "idle"]
      BY <1>2 DEF CountJob
    <3>2. /\ sstep' \in [Submitters -> {"idle", "count"}] /\ Uncounted' \in Nat
          /\ Uncounted' = Uncounted + Bit("idle" = "count") - Bit(sstep[s] = "count")
      BY <3>1, <1>t, SubmitterMoves, Zenon
    <3> QED BY <3>1, <3>2, <1>s DEF Bit
  <2>2. /\ calls' = calls /\ queued' = queued /\ samples' = samples /\ wstep' = wstep
        /\ counter' = [counter EXCEPT !["received"] = Plus(@, 1), !["pending"] = Plus(@, 1)]
    BY <1>2 DEF CountJob
  <2>3. counter'["received"] = counter["received"] + 1
    <3>1. counter["received"] + 1 < CounterModulus
      BY Bounds, <2>1, <1>s, <1>n
    <3>2. counter'["received"] = Plus(counter["received"], 1)
      BY <2>2, <1>t, <1>n DEF Types
    <3> QED BY <3>1, <3>2, Counting, Bounds, <1>n
  <2>4. Signed(counter["pending"])' = Signed(counter["pending"]) + 1
    <3>1. 2 * (Signed(counter["pending"]) + 1) < CounterModulus
      <4>1. Drift \in 0..People /\ Due <= Busy /\ Busy + queued <= calls
        BY Bounds, Sizes, <1>t, <1>s, <1>i, <1>n DEF IInv
      <4> QED BY <4>1, Bounds, <2>1, <1>s
    <3>2. counter'["pending"] = Plus(counter["pending"], 1)
      BY <2>2, <1>t, <1>n DEF Types
    <3> QED BY <3>1, <3>2, Counting, Bounds, <1>n
  <2>5. \A n \in CounterNames \ {"received", "pending"} : counter'[n] = counter[n]
    BY <2>2, <1>t DEF Types
  <2>6. Types'
    <3>1. /\ Plus(counter["received"], 1) \in 0..(CounterModulus - 1)
          /\ Plus(counter["pending"], 1) \in 0..(CounterModulus - 1)
      BY Counting, Bounds, <1>n
    <3> QED BY <3>1, <2>1, <2>2, <1>t DEF Types
  <2>7. AllCounted'
    BY <2>1, <2>2, <2>3, <1>s, <1>i, <1>n, Bounds DEF AllCounted
  <2>8. CountsBalance'
    <3>1. counter["received"] + Uncounted
            = counter["succeeded"] + counter["failed"] + counter["cancelled"] + queued + Busy
      BY DEF IInv, CountsBalance, Ended, Busy, BusySteps
    <3>2. counter'["received"] + Uncounted' = counter'["succeeded"] + counter'["failed"]
             + counter'["cancelled"] + queued' + Busy'
      <4>1. /\ counter'["succeeded"] = counter["succeeded"] /\ counter'["failed"] = counter["failed"]
            /\ counter'["cancelled"] = counter["cancelled"]
        BY <2>5 DEF CounterNames
      <4> QED BY <3>1, <4>1, <2>1, <2>2, <2>3, <1>s, <1>u, <1>i, <1>n, Bounds
    <3> QED BY <3>2 DEF CountsBalance, Ended, Busy, BusySteps
  <2>9. RunningExact'
    <3>1. counter'["running"] = counter["running"]
      BY <2>5 DEF CounterNames
    <3> QED BY <3>1, <2>2 DEF IInv, RunningExact, At
  <2>10. Drift' = Drift
    BY <2>1, <2>2, <2>4, <1>s, <1>u, Bounds DEF Drift
  <2> QED BY <2>6, <2>7, <2>8, <2>9, <2>10 DEF IInv, People
<1> QED BY <1>1, <1>2

\* What a worker adds to each count, place by place.
LEMMA Places ==
  /\ \A p \in {"idle", "recount"} : BusyAt(p) = 0
  /\ \A p \in WorkerSteps \ {"idle", "recount"} : BusyAt(p) = 1
  /\ \A p \in {"running", "runningDec"} : RunsAt(p) = 1
  /\ \A p \in WorkerSteps \ {"running", "runningDec"} : RunsAt(p) = 0
  /\ \A p \in {"popped", "pendingDec"} : DueAt(p) = 1
  /\ \A p \in WorkerSteps \ {"popped", "pendingDec"} : DueAt(p) = 0
  /\ RecountAt("recount") = 1
  /\ \A p \in WorkerSteps \ {"recount"} : RecountAt(p) = 0
BY DEF BusyAt, RunsAt, DueAt, RecountAt, Bit, BusySteps, WorkerSteps

\* A worker's own place is counted.
LEMMA OwnPlace ==
  ASSUME IInv, NEW w \in Workers
  PROVE  /\ Busy >= BusyAt(wstep[w]) /\ Running >= RunsAt(wstep[w]) /\ Due >= DueAt(wstep[w])
         /\ Recounting >= RecountAt(wstep[w])
         /\ Cardinality(Workers) - Running >= 1 - RunsAt(wstep[w])
<1> DEFINE Here(S) == {u \in Workers : wstep[u] \in S}
<1>f. IsFiniteSet(Workers) /\ Cardinality(Workers) \in Nat
  BY TelemetryAssumption, FS_CardinalityType
<1>1. ASSUME NEW S
      PROVE  At(S) \in Nat /\ At(S) >= Bit(wstep[w] \in S)
  <2> DEFINE G == Here(S) \ {w}
  <2>1. Here(S) \in SUBSET Workers /\ G \in SUBSET Workers /\ Here(S) \ {w} = G \ {w}
        /\ w \notin G /\ (w \in Here(S) <=> wstep[w] \in S)
    OBVIOUS
  <2>2. /\ Cardinality(G) \in Nat /\ Cardinality(Here(S)) \in Nat
        /\ Cardinality(Here(S)) = Cardinality(G) + Bit(w \in Here(S)) - Bit(w \in G)
    <3> HIDE DEF Here, G
    <3> QED BY <2>1, <1>f, CountMoves
  <2> QED BY <2>1, <2>2 DEF At, Bit
<1>2. Cardinality(Workers) - Running >= 1 - RunsAt(wstep[w])
  <2> DEFINE R == Here({"running", "runningDec"})
             G == R \cup {w}
  <2>1. R \in SUBSET Workers /\ G \in SUBSET Workers /\ R \ {w} = G \ {w} /\ w \in G
        /\ (w \in R <=> wstep[w] \in {"running", "runningDec"})
    OBVIOUS
  <2>2. /\ Cardinality(G) \in Nat /\ Cardinality(R) \in Nat
        /\ Cardinality(G) = Cardinality(R) + Bit(w \in G) - Bit(w \in R)
        /\ Cardinality(G) <= Cardinality(Workers)
    <3> HIDE DEF R, G
    <3> QED BY <2>1, <1>f, CountMoves, FS_Subset
  <2>3. Running = Cardinality(R)
    BY DEF Running, At
  <2> QED BY <2>1, <2>2, <2>3, <1>f DEF RunsAt, Bit
<1> QED BY <1>1, <1>2 DEF Busy, Running, Due, Recounting, BusyAt, RunsAt, DueAt, RecountAt

LEMMA WorkerInv ==
  ASSUME IInv, NEW w \in Workers, WorkerStep(w)
  PROVE  IInv'
<1>t. Types
  BY DEF IInv
<1>n. /\ "received" \in CounterNames /\ "succeeded" \in CounterNames /\ "failed" \in CounterNames
      /\ "cancelled" \in CounterNames /\ "running" \in CounterNames /\ "pending" \in CounterNames
  BY DEF CounterNames
<1>i. /\ counter["received"] \in Nat /\ counter["succeeded"] \in Nat /\ counter["failed"] \in Nat
      /\ counter["cancelled"] \in Nat /\ counter["running"] \in Nat /\ counter["pending"] \in Nat
  BY Bounds, <1>n
<1>s. /\ Busy \in Nat /\ Running \in Nat /\ Due \in Nat /\ Recounting \in Nat
      /\ Uncounted \in Nat /\ Signed(counter["pending"]) \in Int /\ queued \in Nat
      /\ samples \in 0..SampleCap
  BY <1>t, Sizes, Bounds DEF Types
<1>p. "idle" \in WorkerSteps /\ "popped" \in WorkerSteps /\ "pendingDec" \in WorkerSteps
      /\ "taken" \in WorkerSteps /\ "recount" \in WorkerSteps /\ "running" \in WorkerSteps
      /\ "runningDec" \in WorkerSteps /\ "ended" \in WorkerSteps /\ "neverRan" \in WorkerSteps
  BY DEF WorkerSteps
<1>c. counter \in [CounterNames -> 0..(CounterModulus - 1)]
  BY <1>t DEF Types
<1>1. CASE Pop(w)
  BY <1>1, <1>s, <1>i, <1>p, <1>c, Places, WorkerActs DEF Pop
<1>2. CASE PendingRead(w) /\ counter["pending"] > 0
  BY <1>2, <1>s, <1>i, <1>p, <1>c, Places, WorkerActs DEF PendingRead
<1>3. CASE PendingRead(w) /\ counter["pending"] = 0
  <2>1. /\ wstep[w] = "popped" /\ Goto(w, "taken")
        /\ UNCHANGED <<counter, samples, calls, queued, sstep>>
    BY <1>3 DEF PendingRead
  <2>2. Due' = Due - 1 /\ Due' \in Nat /\ Recounting' = Recounting /\ Uncounted' = Uncounted
    BY <2>1, <1>t, <1>s, <1>p, WorkerMoves, Places DEF Uncounted
  <2>3. Signed(counter["pending"]) = 0
    BY <1>3, Counting, <1>c, <1>n
  <2>4. Drift' = Drift + 1 /\ Drift' = Uncounted + Recounting - queued - Due'
    BY <2>1, <2>2, <2>3, <1>s DEF Drift
  <2>5. Drift' \in 0..People
    <3>1. Drift \in 0..People /\ Uncounted + Recounting <= People /\ People \in Nat
      BY Sizes, Bounds, <1>t DEF IInv, People
    <3> QED BY <2>2, <2>4, <3>1, <1>s
  <2> QED BY <2>1, <2>5, <1>s, <1>i, <1>p, <1>c, Places, WorkerActs
<1>4. CASE PendingDec(w)
  <2>1. Signed(counter["pending"])' = Signed(counter["pending"]) - 1
    <3>1. 2 * (Signed(counter["pending"]) - 1) >= -CounterModulus
      <4>1. Drift \in 0..People /\ Uncounted + Recounting <= People /\ Due >= 1
        BY <1>4, <1>p, Sizes, OwnPlace, Places, <1>t DEF PendingDec, IInv, People
      <4> QED BY <4>1, Bounds, <1>s
    <3>2. counter'["pending"] = Plus(counter["pending"], -1)
      BY <1>4, <1>c, <1>n DEF PendingDec
    <3> QED BY <3>1, <3>2, <1>c, <1>n, Counting
  <2>2. /\ wstep[w] = "pendingDec" /\ Goto(w, "taken")
        /\ UNCHANGED <<samples, calls, queued, sstep>>
        /\ counter' = [counter EXCEPT !["pending"] = Plus(@, -1)]
    BY <1>4 DEF PendingDec
  <2>3. /\ counter' \in [CounterNames -> 0..(CounterModulus - 1)]
        /\ \A n \in CounterNames \ {"pending"} : counter'[n] = counter[n]
    BY <2>2, <1>c, <1>n, Counting
  <2> QED BY <2>1, <2>2, <2>3, <1>s, <1>i, <1>n, <1>p, Places, WorkerActs
<1>5. CASE NeverRuns(w)
  BY <1>5, <1>s, <1>i, <1>p, <1>c, Places, WorkerActs DEF NeverRuns
<1>6. CASE Requeue(w)
  <2>1. /\ wstep[w] = "taken" /\ Goto(w, "recount") /\ queued' = queued + 1
        /\ UNCHANGED <<counter, samples, calls, sstep>>
    BY <1>6 DEF Requeue
  <2>2. /\ BusyAt("taken") = 1 /\ RunsAt("taken") = 0 /\ DueAt("taken") = 0
        /\ RecountAt("taken") = 0
        /\ BusyAt("recount") = 0 /\ RunsAt("recount") = 0 /\ DueAt("recount") = 0
        /\ RecountAt("recount") = 1
    BY <1>p, Places
  <2> QED BY <2>1, <2>2, <1>s, <1>i, <1>p, <1>c, WorkerActs
<1>7. CASE Recount(w)
  <2>1. Signed(counter["pending"])' = Signed(counter["pending"]) + 1
    <3>1. 2 * (Signed(counter["pending"]) + 1) < CounterModulus
      <4>1. Drift \in 0..People /\ Due <= Busy /\ Busy + queued <= calls /\ Recounting >= 1
        BY <1>7, <1>p, Bounds, Sizes, OwnPlace, Places, <1>t, <1>s, <1>i DEF Recount, IInv
      <4> QED BY <4>1, Bounds, <1>s
    <3>2. counter'["pending"] = Plus(counter["pending"], 1)
      BY <1>7, <1>c, <1>n DEF Recount
    <3> QED BY <3>1, <3>2, <1>c, <1>n, Counting
  <2>2. /\ wstep[w] = "recount" /\ Goto(w, "idle")
        /\ UNCHANGED <<samples, calls, queued, sstep>>
        /\ counter' = [counter EXCEPT !["pending"] = Plus(@, 1)]
    BY <1>7 DEF Recount
  <2>3. /\ counter' \in [CounterNames -> 0..(CounterModulus - 1)]
        /\ \A n \in CounterNames \ {"pending"} : counter'[n] = counter[n]
    BY <2>2, <1>c, <1>n, Counting
  <2> QED BY <2>1, <2>2, <2>3, <1>s, <1>i, <1>n, <1>p, Places, WorkerActs
<1>8. CASE RunningIncrement(w)
  <2>1. counter'["running"] = counter["running"] + 1
    <3>1. counter["running"] + 1 < CounterModulus
      <4>1. counter["running"] <= People
        BY <1>t, <1>s, Sizes, Bounds DEF People
      <4>2. People \in Nat /\ MaxJobs \in Nat \ {0} /\ CounterModulus \in Nat
              /\ 2 * (MaxJobs + People) < CounterModulus
        BY Bounds
      <4> QED BY <4>1, <4>2, <1>i
    <3>2. counter'["running"] = Plus(counter["running"], 1)
      BY <1>8, <1>c, <1>n DEF RunningIncrement
    <3> QED BY <3>1, <3>2, <1>c, <1>n, Counting
  <2>2. /\ wstep[w] = "taken" /\ Goto(w, "running")
        /\ UNCHANGED <<samples, calls, queued, sstep>>
        /\ counter' = [counter EXCEPT !["running"] = Plus(@, 1)]
    BY <1>8 DEF RunningIncrement
  <2>3. /\ counter' \in [CounterNames -> 0..(CounterModulus - 1)]
        /\ \A n \in CounterNames \ {"running"} : counter'[n] = counter[n]
    BY <2>2, <1>c, <1>n, Counting
  <2> QED BY <2>1, <2>2, <2>3, <1>s, <1>i, <1>n, <1>p, Places, WorkerActs
<1>9. CASE RunningRead(w)
  <2>1. wstep[w] = "running" /\ counter["running"] > 0
    BY <1>9, <1>p, <1>s, OwnPlace, Places, Bounds DEF RunningRead
  <2> QED BY <1>9, <2>1, <1>s, <1>i, <1>p, <1>c, Places, WorkerActs DEF RunningRead
<1>10. CASE RunningDec(w)
  <2>1. counter'["running"] = counter["running"] - 1
    <3>1. counter["running"] > 0
      BY <1>10, <1>p, <1>s, OwnPlace, Places, Bounds DEF RunningDec
    <3>2. counter'["running"] = Plus(counter["running"], -1)
      BY <1>10, <1>c, <1>n DEF RunningDec
    <3> QED BY <3>1, <3>2, <1>c, <1>n, Counting
  <2>2. /\ wstep[w] = "runningDec" /\ Goto(w, "ended")
        /\ UNCHANGED <<samples, calls, queued, sstep>>
        /\ counter' = [counter EXCEPT !["running"] = Plus(@, -1)]
    BY <1>10 DEF RunningDec
  <2>3. /\ counter' \in [CounterNames -> 0..(CounterModulus - 1)]
        /\ \A n \in CounterNames \ {"running"} : counter'[n] = counter[n]
    BY <2>2, <1>c, <1>n, Counting
  <2> QED BY <2>1, <2>2, <2>3, <1>s, <1>i, <1>n, <1>p, Places, WorkerActs
<1>11. CASE Record(w)
  <2>1. PICK n \in {"succeeded", "failed", "cancelled"} :
          counter' = [counter EXCEPT ![n] = Plus(@, 1)]
    BY <1>11 DEF Record
  <2>2. /\ wstep[w] \in {"ended", "neverRan"} /\ Goto(w, "idle")
        /\ UNCHANGED <<calls, queued, sstep>>
    BY <1>11 DEF Record
  <2>3. counter'[n] = counter[n] + 1
    <3>1. counter[n] + 1 < CounterModulus
      <4>1. counter[n] <= calls
        BY <2>1, Bounds, <1>i, <1>s
      <4> QED BY <4>1, Bounds, <1>i, <2>1
    <3> QED BY <3>1, <2>1, <1>c, <1>n, Counting
  <2>4. /\ counter' \in [CounterNames -> 0..(CounterModulus - 1)]
        /\ \A m \in CounterNames \ {n} : counter'[m] = counter[m]
    BY <2>1, <1>c, <1>n, Counting
  <2>5. counter'["succeeded"] + counter'["failed"] + counter'["cancelled"]
          = counter["succeeded"] + counter["failed"] + counter["cancelled"] + 1
    BY <2>1, <2>3, <2>4, <1>i, <1>n
  <2>6. samples' \in 0..SampleCap
    BY <1>11, <1>s, TelemetryAssumption DEF Record
  <2>7. /\ counter'["received"] = counter["received"] /\ counter'["running"] = counter["running"]
        /\ counter'["pending"] = counter["pending"]
    BY <2>1, <2>4, <1>n
  <2>8. /\ BusyAt(wstep[w]) = 1 /\ RunsAt(wstep[w]) = 0 /\ DueAt(wstep[w]) = 0
        /\ RecountAt(wstep[w]) = 0
    BY <2>2, <1>p, Places
  <2>9. BusyAt("idle") = 0 /\ RunsAt("idle") = 0 /\ DueAt("idle") = 0 /\ RecountAt("idle") = 0
    BY <1>p, Places
  <2> QED BY <2>2, <2>4, <2>5, <2>6, <2>7, <2>8, <2>9, <1>s, <1>i, <1>p, WorkerActs
<1> QED BY <1>1, <1>2, <1>3, <1>4, <1>5, <1>6, <1>7, <1>8, <1>9, <1>10, <1>11, <1>i
        DEF WorkerStep

-----------------------------------------------------------------------------

THEOREM Invariance == Spec => []IInv
<1>1. Init => IInv
  BY InitIInv
<1>2. IInv /\ [Next]_vars => IInv'
  <2> SUFFICES ASSUME IInv, [Next]_vars PROVE IInv'
    OBVIOUS
  <2>1. CASE UNCHANGED vars
    BY <2>1
       DEF vars, IInv, Types, AllCounted, CountsBalance, RunningExact, Ended, Drift, Uncounted,
           Recounting, Due, At
  <2>2. ASSUME NEW s \in Submitters, Push(s) \/ CountJob(s)
        PROVE  IInv'
    BY <2>2, SubmitterActs
  <2>3. ASSUME NEW w \in Workers, WorkerStep(w)
        PROVE  IInv'
    BY <2>3, WorkerInv
  <2> QED BY <2>1, <2>2, <2>3 DEF Next
<1> QED BY <1>1, <1>2, PTL DEF Spec

\* The types of the variables; no counter ever leaves its width.
THEOREM TypeCorrect == Spec => []TypeOK
<1>1. IInv => TypeOK
  <2> SUFFICES ASSUME IInv PROVE TypeOK
    OBVIOUS
  <2>1. queued \in 0..MaxJobs
    <3>1. \A n \in CounterNames : counter[n] \in Nat
      BY Bounds
    <3>2. Busy \in Nat
      BY Sizes DEF IInv
    <3> QED BY <3>1, <3>2, Bounds DEF CounterNames
  <2> QED BY <2>1 DEF IInv, Types, TypeOK
<1> QED BY <1>1, Invariance, PTL

\* "running" is exact, whatever two workers read before they decrement.
THEOREM RunningIsExact == Spec => []RunningExact
<1>1. IInv => RunningExact
  BY DEF IInv
<1> QED BY <1>1, Invariance, PTL

\* The totals add up.
THEOREM TotalsAddUp == Spec => []CountsBalance
<1>1. IInv => CountsBalance
  BY DEF IInv
<1> QED BY <1>1, Invariance, PTL

\* The unsigned "pending" that a snapshot shows, wrapped or not, is off by at most one job
\* per thread above, and by the outstanding increments below (Telemetry.cpp:12-13).
THEOREM PendingBounded == Spec => []PendingShown
<1>1. IInv => PendingShown
  <2> SUFFICES ASSUME IInv PROVE PendingShown
    OBVIOUS
  <2> DEFINE c == counter["pending"]
  <2>1. Drift \in 0..People /\ People \in Nat
    BY Bounds DEF IInv
  <2>2. /\ Uncounted \in Nat /\ Recounting \in Nat /\ Due \in Nat /\ queued \in Nat
        /\ c \in Nat /\ CounterModulus \in Nat
    <3>1. Uncounted \in Nat /\ Recounting \in Nat /\ Due \in Nat
      BY Sizes DEF IInv
    <3> QED BY <3>1, Bounds DEF CounterNames
  <2>3. /\ Waiting = queued + Due /\ Outstanding = Uncounted + Recounting
        /\ Waiting \in Nat /\ Outstanding \in Nat
    BY <2>2 DEF Waiting, Outstanding, Recounting, Due
  <2>4. Signed(c) = Waiting - Outstanding + Drift
    BY <2>1, <2>2, <2>3, Bounds
  <2>5. Signed(c) = c \/ Signed(c) = c - CounterModulus
    BY DEF Signed
  <2>6. CASE Signed(c) = c
    <3>1. c \in (Waiting - Outstanding)..(Waiting + People)
      BY <2>1, <2>2, <2>3, <2>4, <2>6
    <3> QED BY <3>1 DEF PendingShown
  <2>7. CASE Signed(c) = c - CounterModulus
    <3>1. c >= CounterModulus - Outstanding
      BY <2>1, <2>2, <2>3, <2>4, <2>7
    <3> QED BY <3>1 DEF PendingShown
  <2> QED BY <2>5, <2>6, <2>7
<1> QED BY <1>1, Invariance, PTL
=============================================================================
