----------------------- MODULE DirectoryScannerProofs -----------------------
(***************************************************************************)
(* Proofs about DirectoryScanner for any tree, any number of threads and   *)
(* any limits.  The slots of the semaphore balance, and the end of a scan  *)
(* is announced once, by the last thread, after everything else.  No file  *)
(* is listed twice, and a scan that nobody stopped misses none that it     *)
(* could have found.                                                       *)
(*                                                                         *)
(* The argument for the end is that g_activeThreadCount is exact: it       *)
(* counts the threads that have not decremented it yet and those that are  *)
(* announced but not created.  So a thread that takes it to zero is alone. *)
(*                                                                         *)
(* The argument for the list looks at the paths that the threads have yet  *)
(* to look at: the one a thread has in hand and those that its calls still *)
(* have to go through.  No path is in two of these places, none lies below *)
(* another, and no file among them or below them has been reported: each   *)
(* step hands a path on, replaces a directory by its entries, reports a    *)
(* file, or drops a path that is too deep or could not be opened.          *)
(***************************************************************************)
EXTENDS DirectoryScanner, FiniteSetTheorems, SequenceTheorems, TLAPS

Types ==
  /\ step \in [Tids -> Steps]
  /\ owns \in [Tids -> BOOLEAN]
  /\ freeSlots \in Int /\ activeThreads \in Int
  /\ queue \in Seq(Files \cup {Complete})
  /\ isScanning \in BOOLEAN

CountExact == Cardinality(Counted) + Cardinality(Announced) - activeThreads = 0

\* Threads run during a scan only, and the one that posts the end is alone.
LastAlone ==
  /\ \A t \in Tids : Alive(t) => isScanning
  /\ \A t \in Tids : step[t] = "post" => \A u \in Tids \ {t} : ~Alive(u)

IInv == Types /\ SlotsConserved /\ CountExact /\ LastAlone /\ CompletionIsLast

-----------------------------------------------------------------------------
(* Counting threads.                                                       *)

LEMMA Finite ==
  ASSUME NEW F \in SUBSET Tids
  PROVE  IsFiniteSet(F) /\ Cardinality(F) \in Nat
<1>1. IsFiniteSet(F)
  BY LimitsAssumption, FS_Subset
<1> QED BY <1>1, FS_CardinalityType

LEMMA Gain ==
  ASSUME NEW F \in SUBSET Tids, NEW t \in Tids, t \notin F
  PROVE  Cardinality(F \cup {t}) = Cardinality(F) + 1
BY Finite, FS_AddElement

LEMMA Lose ==
  ASSUME NEW F \in SUBSET Tids, NEW t \in Tids, t \in F
  PROVE  Cardinality(F \ {t}) = Cardinality(F) - 1
<1> DEFINE G == F \ {t}
<1>1. G \in SUBSET Tids /\ t \notin G /\ G \cup {t} = F
  OBVIOUS
<1> HIDE DEF G
<1>2. Cardinality(F) = Cardinality(G) + 1 /\ Cardinality(G) \in Nat
  BY <1>1, Gain, Finite
<1>3. Cardinality(G) = Cardinality(F) - 1
  BY <1>2
<1> QED BY <1>3 DEF G

LEMMA Counts ==
  /\ Cardinality(Holders) \in Nat /\ Cardinality(Creators) \in Nat
  /\ Cardinality(Counted) \in Nat /\ Cardinality(Announced) \in Nat
  /\ Holders \in SUBSET Tids /\ Creators \in SUBSET Tids
  /\ Counted \in SUBSET Tids /\ Announced \in SUBSET Tids
<1>1. /\ Holders \in SUBSET Tids /\ Creators \in SUBSET Tids
      /\ Counted \in SUBSET Tids /\ Announced \in SUBSET Tids
  BY DEF Holders, Creators, Counted, Announced
<1> QED BY <1>1, Finite

LEMMA InitIInv == Init => IInv
<1> SUFFICES ASSUME Init PROVE IInv
  OBVIOUS
<1>1. Types
  <2>1. step \in [Tids -> Steps] /\ owns \in [Tids -> BOOLEAN] /\ isScanning \in BOOLEAN
    BY DEF Init, Steps
  <2>2. freeSlots \in Int /\ activeThreads \in Int /\ queue \in Seq(Files \cup {Complete})
    BY LimitsAssumption DEF Init
  <2> QED BY <2>1, <2>2 DEF Types
<1>2. Holders = {} /\ Creators = {} /\ Counted = {} /\ Announced = {}
  BY DEF Init, Holders, Creators, Counted, Announced
<1>3. SlotsConserved /\ CountExact
  BY <1>2, FS_EmptySet, LimitsAssumption DEF Init, SlotsConserved, CountExact
<1>4. LastAlone /\ CompletionIsLast
  BY DEF Init, LastAlone, CompletionIsLast, Alive
<1> QED BY <1>1, <1>3, <1>4 DEF IInv

-----------------------------------------------------------------------------
(* Steps of one thread that neither starts nor ends one.                   *)

\* The counters follow the threads.
LEMMA Balances ==
  ASSUME IInv, freeSlots' \in Int, activeThreads' \in Int,
         Cardinality(Holders)' + Cardinality(Creators)' + freeSlots'
           = Cardinality(Holders) + Cardinality(Creators) + freeSlots,
         Cardinality(Counted)' + Cardinality(Announced)' - activeThreads'
           = Cardinality(Counted) + Cardinality(Announced) - activeThreads
  PROVE  SlotsConserved' /\ CountExact'
<1>1. /\ Cardinality(Holders)' \in Nat /\ Cardinality(Creators)' \in Nat
      /\ Cardinality(Counted)' \in Nat /\ Cardinality(Announced)' \in Nat
  <2>1. /\ Holders' \in SUBSET Tids /\ Creators' \in SUBSET Tids
        /\ Counted' \in SUBSET Tids /\ Announced' \in SUBSET Tids
    BY DEF Holders, Creators, Counted, Announced
  <2> QED BY <2>1, Finite
<1>2. freeSlots \in Int /\ activeThreads \in Int /\ MaxThreads \in Nat
  BY LimitsAssumption DEF IInv, Types
<1>3. /\ Cardinality(Holders) \in Nat /\ Cardinality(Creators) \in Nat
      /\ Cardinality(Counted) \in Nat /\ Cardinality(Announced) \in Nat
  BY Counts
<1>4. SlotsConserved'
  <2>1. freeSlots + Cardinality(Holders) + Cardinality(Creators) = MaxThreads
    BY DEF IInv, SlotsConserved
  <2>2. freeSlots' + Cardinality(Holders)' + Cardinality(Creators)' = MaxThreads
    BY <1>1, <1>2, <1>3, <2>1
  <2> QED BY <2>2 DEF SlotsConserved
<1>5. CountExact'
  <2>1. Cardinality(Counted) + Cardinality(Announced) - activeThreads = 0
    BY DEF IInv, CountExact
  <2>2. Cardinality(Counted)' + Cardinality(Announced)' - activeThreads' = 0
    BY <2>1
  <2> QED BY <2>2 DEF CountExact
<1> QED BY <1>4, <1>5

\* A living thread goes on; the counters follow.
LEMMA GoesOn ==
  ASSUME IInv, NEW t \in Tids, NEW to \in Steps \ {"none", "post"},
         step[t] \notin {"none", "post"},
         step' = [step EXCEPT ![t] = to], UNCHANGED <<owns, isScanning>>,
         \/ UNCHANGED queue
         \/ \E f \in Files : queue' = Append(queue, f),
         freeSlots' \in Int, activeThreads' \in Int,
         Cardinality(Holders)' + Cardinality(Creators)' + freeSlots'
           = Cardinality(Holders) + Cardinality(Creators) + freeSlots,
         Cardinality(Counted)' + Cardinality(Announced)' - activeThreads'
           = Cardinality(Counted) + Cardinality(Announced) - activeThreads
  PROVE  IInv'
<1>1. Types'
  BY DEF IInv, Types
<1>2. SlotsConserved' /\ CountExact'
  BY Balances
<1>3. \A u \in Tids : Alive(u)' <=> Alive(u)
  BY DEF IInv, Types, Alive
<1>4. LastAlone'
  <2>1. \A u \in Tids : (step[u] = "post")' => step[u] = "post"
    BY DEF IInv, Types
  <2> QED BY <1>3, <2>1 DEF IInv, LastAlone
<1>5. CompletionIsLast'
  <2>1. Alive(t) /\ isScanning /\ \A i \in DOMAIN queue : queue[i] # Complete
    BY DEF IInv, LastAlone, CompletionIsLast, Alive
  <2>2. \A i \in DOMAIN queue' : queue'[i] # Complete
    BY <2>1, TreeAssumption DEF IInv, Types
  <2> QED BY <2>1, <2>2 DEF CompletionIsLast
<1> QED BY <1>1, <1>2, <1>4, <1>5 DEF IInv

Weight(b) == IF b THEN 1 ELSE 0

\* What a thread at place p adds to each count.
HoldsAt(o, p)  == Weight(o /\ p \notin {"none", "finish", "post"})
CreatesAt(p)   == Weight(p \in {"count", "create", "giveback"})
CountedAt(p)   == Weight(p \notin {"none", "post"})
AnnouncedAt(p) == Weight(p \in {"create", "giveback", "uncount"})

LEMMA WeightType ==
  \A o, p : /\ HoldsAt(o, p) \in {0, 1} /\ CreatesAt(p) \in {0, 1}
            /\ CountedAt(p) \in {0, 1} /\ AnnouncedAt(p) \in {0, 1}
BY DEF HoldsAt, CreatesAt, CountedAt, AnnouncedAt, Weight

\* A set that differs in t at most.
LEMMA CountChange ==
  ASSUME NEW F \in SUBSET Tids, NEW G \in SUBSET Tids, NEW t \in Tids, F \ {t} = G \ {t}
  PROVE  Cardinality(G) = Cardinality(F) + Weight(t \in G) - Weight(t \in F)
<1>1. Cardinality(F) \in Nat
  BY Finite
<1>2. CASE t \in F <=> t \in G
  <2>1. G = F
    BY <1>2
  <2> QED BY <1>1, <2>1 DEF Weight
<1>3. CASE t \in G /\ t \notin F
  <2>1. G = F \cup {t}
    BY <1>3
  <2> QED BY <1>1, <1>3, <2>1, Gain DEF Weight
<1>4. CASE t \notin G /\ t \in F
  <2>1. G = F \ {t}
    BY <1>4
  <2> QED BY <1>1, <1>4, <2>1, Lose DEF Weight
<1> QED BY <1>2, <1>3, <1>4

\* The change of the counts when thread t goes from one place to another and keeps
\* what it owns.
LEMMA CountChanges ==
  ASSUME Types, NEW t \in Tids, NEW to \in Steps, step' = [step EXCEPT ![t] = to],
         UNCHANGED owns
  PROVE  /\ Cardinality(Holders)' = Cardinality(Holders)
              + HoldsAt(owns[t], to) - HoldsAt(owns[t], step[t])
         /\ Cardinality(Creators)' = Cardinality(Creators) + CreatesAt(to) - CreatesAt(step[t])
         /\ Cardinality(Counted)' = Cardinality(Counted) + CountedAt(to) - CountedAt(step[t])
         /\ Cardinality(Announced)' = Cardinality(Announced)
              + AnnouncedAt(to) - AnnouncedAt(step[t])
<1>1. step'[t] = to /\ \A u \in Tids \ {t} : step'[u] = step[u]
  BY DEF Types
<1>2. /\ Holders \in SUBSET Tids /\ Creators \in SUBSET Tids /\ Counted \in SUBSET Tids
      /\ Announced \in SUBSET Tids /\ Holders' \in SUBSET Tids /\ Creators' \in SUBSET Tids
      /\ Counted' \in SUBSET Tids /\ Announced' \in SUBSET Tids
  BY DEF Holders, Creators, Counted, Announced
<1>3. /\ Holders \ {t} = Holders' \ {t} /\ Creators \ {t} = Creators' \ {t}
      /\ Counted \ {t} = Counted' \ {t} /\ Announced \ {t} = Announced' \ {t}
  BY <1>1 DEF Holders, Creators, Counted, Announced
<1>4. /\ t \in Holders' <=> owns[t] /\ to \notin {"none", "finish", "post"}
      /\ t \in Creators' <=> to \in {"count", "create", "giveback"}
      /\ t \in Counted' <=> to \notin {"none", "post"}
      /\ t \in Announced' <=> to \in {"create", "giveback", "uncount"}
  BY <1>1 DEF Holders, Creators, Counted, Announced
<1>5. /\ t \in Holders <=> owns[t] /\ step[t] \notin {"none", "finish", "post"}
      /\ t \in Creators <=> step[t] \in {"count", "create", "giveback"}
      /\ t \in Counted <=> step[t] \notin {"none", "post"}
      /\ t \in Announced <=> step[t] \in {"create", "giveback", "uncount"}
  BY DEF Holders, Creators, Counted, Announced
<1>6. /\ Cardinality(Holders') = Cardinality(Holders) + Weight(t \in Holders') - Weight(t \in Holders)
      /\ Cardinality(Creators')
            = Cardinality(Creators) + Weight(t \in Creators') - Weight(t \in Creators)
      /\ Cardinality(Counted') = Cardinality(Counted) + Weight(t \in Counted') - Weight(t \in Counted)
      /\ Cardinality(Announced')
            = Cardinality(Announced) + Weight(t \in Announced') - Weight(t \in Announced)
  BY <1>2, <1>3, CountChange
<1>7. /\ Weight(t \in Holders') = HoldsAt(owns[t], to)
      /\ Weight(t \in Holders) = HoldsAt(owns[t], step[t])
  BY <1>4, <1>5 DEF HoldsAt, Weight
<1>8. /\ Weight(t \in Creators') = CreatesAt(to) /\ Weight(t \in Creators) = CreatesAt(step[t])
      /\ Weight(t \in Counted') = CountedAt(to) /\ Weight(t \in Counted) = CountedAt(step[t])
      /\ Weight(t \in Announced') = AnnouncedAt(to)
      /\ Weight(t \in Announced) = AnnouncedAt(step[t])
  BY <1>4, <1>5 DEF CreatesAt, CountedAt, AnnouncedAt, Weight
<1> QED BY <1>6, <1>7, <1>8

\* The places, one by one.
LEMMA Places ==
  /\ \A o : \A p \in {"none", "finish", "post"} : HoldsAt(o, p) = 0
  /\ \A p \in Steps \ {"none", "finish", "post"} : HoldsAt(TRUE, p) = 1 /\ HoldsAt(FALSE, p) = 0
  /\ \A p, q \in Steps \ {"none", "finish", "post"} : \A o : HoldsAt(o, p) = HoldsAt(o, q)
  /\ \A p \in {"count", "create", "giveback"} : CreatesAt(p) = 1
  /\ \A p \in Steps \ {"count", "create", "giveback"} : CreatesAt(p) = 0
  /\ \A p \in {"none", "post"} : CountedAt(p) = 0
  /\ \A p \in Steps \ {"none", "post"} : CountedAt(p) = 1
  /\ \A p \in {"create", "giveback", "uncount"} : AnnouncedAt(p) = 1
  /\ \A p \in Steps \ {"create", "giveback", "uncount"} : AnnouncedAt(p) = 0
BY DEF HoldsAt, CreatesAt, CountedAt, AnnouncedAt, Weight

\* When semaphore and counter change as the place of t says, the sums stay.
LEMMA Ledger ==
  ASSUME Types, NEW t \in Tids, NEW to,
         freeSlots' = freeSlots + HoldsAt(owns[t], step[t]) + CreatesAt(step[t])
                        - HoldsAt(owns[t], to) - CreatesAt(to),
         activeThreads' = activeThreads + AnnouncedAt(to) - AnnouncedAt(step[t]),
         CountedAt(to) = CountedAt(step[t]),
         Cardinality(Holders)' = Cardinality(Holders)
              + HoldsAt(owns[t], to) - HoldsAt(owns[t], step[t]),
         Cardinality(Creators)' = Cardinality(Creators) + CreatesAt(to) - CreatesAt(step[t]),
         Cardinality(Counted)' = Cardinality(Counted) + CountedAt(to) - CountedAt(step[t]),
         Cardinality(Announced)' = Cardinality(Announced)
              + AnnouncedAt(to) - AnnouncedAt(step[t])
  PROVE  /\ freeSlots' \in Int /\ activeThreads' \in Int
         /\ Cardinality(Holders)' + Cardinality(Creators)' + freeSlots'
              = Cardinality(Holders) + Cardinality(Creators) + freeSlots
         /\ Cardinality(Counted)' + Cardinality(Announced)' - activeThreads'
              = Cardinality(Counted) + Cardinality(Announced) - activeThreads
<1>1. freeSlots \in Int /\ activeThreads \in Int
  BY DEF Types
<1>2. /\ HoldsAt(owns[t], to) \in Int /\ HoldsAt(owns[t], step[t]) \in Int
      /\ CreatesAt(to) \in Int /\ CreatesAt(step[t]) \in Int
      /\ CountedAt(to) \in Int /\ CountedAt(step[t]) \in Int
      /\ AnnouncedAt(to) \in Int /\ AnnouncedAt(step[t]) \in Int
  BY WeightType
<1>3. /\ Cardinality(Holders) \in Int /\ Cardinality(Creators) \in Int
      /\ Cardinality(Counted) \in Int /\ Cardinality(Announced) \in Int
  BY Counts
<1>4. freeSlots' \in Int /\ activeThreads' \in Int
  BY <1>1, <1>2
<1>5. Cardinality(Holders)' + Cardinality(Creators)' + freeSlots'
        = Cardinality(Holders) + Cardinality(Creators) + freeSlots
  BY <1>1, <1>2, <1>3
<1>6. Cardinality(Counted)' + Cardinality(Announced)' - activeThreads'
        = Cardinality(Counted) + Cardinality(Announced) - activeThreads
  BY <1>1, <1>2, <1>3
<1> QED BY <1>4, <1>5, <1>6

\* A living thread goes on, and semaphore and counter change as its place says.
LEMMA Moves ==
  ASSUME IInv, NEW t \in Tids, NEW to \in Steps \ {"none", "post"},
         step[t] \notin {"none", "post"},
         step' = [step EXCEPT ![t] = to], UNCHANGED <<owns, isScanning>>,
         \/ UNCHANGED queue
         \/ \E f \in Files : queue' = Append(queue, f),
         freeSlots' = freeSlots + HoldsAt(owns[t], step[t]) + CreatesAt(step[t])
                        - HoldsAt(owns[t], to) - CreatesAt(to),
         activeThreads' = activeThreads + AnnouncedAt(to) - AnnouncedAt(step[t])
  PROVE  IInv'
<1>1. Types /\ freeSlots \in Int /\ activeThreads \in Int
  BY DEF IInv, Types
<1>2. step[t] \in Steps
  BY <1>1 DEF Types
<1>3. CountedAt(to) = CountedAt(step[t])
  BY <1>2, Places
<1>4. /\ Cardinality(Holders)' = Cardinality(Holders)
              + HoldsAt(owns[t], to) - HoldsAt(owns[t], step[t])
      /\ Cardinality(Creators)' = Cardinality(Creators) + CreatesAt(to) - CreatesAt(step[t])
      /\ Cardinality(Counted)' = Cardinality(Counted) + CountedAt(to) - CountedAt(step[t])
      /\ Cardinality(Announced)' = Cardinality(Announced)
              + AnnouncedAt(to) - AnnouncedAt(step[t])
  BY <1>1, CountChanges
<1>5. /\ freeSlots' \in Int /\ activeThreads' \in Int
      /\ Cardinality(Holders)' + Cardinality(Creators)' + freeSlots'
           = Cardinality(Holders) + Cardinality(Creators) + freeSlots
      /\ Cardinality(Counted)' + Cardinality(Announced)' - activeThreads'
           = Cardinality(Counted) + Cardinality(Announced) - activeThreads
  BY <1>1, <1>3, <1>4, Ledger
<1> QED BY <1>5, GoesOn

\* The places at which a thread walks its directories.
Walking == {"open", "check", "file", "subdir", "release"}

LEMMA Walks ==
  ASSUME IInv, NEW t \in Tids, NEW to \in Walking, step[t] \in Walking,
         step' = [step EXCEPT ![t] = to],
         UNCHANGED <<owns, isScanning, freeSlots, activeThreads>>,
         \/ UNCHANGED queue
         \/ \E f \in Files : queue' = Append(queue, f)
  PROVE  IInv'
<1>1. to \in Steps \ {"none", "post"} /\ step[t] \in Steps \ {"none", "post"}
  BY DEF Walking, Steps
<1>2. /\ HoldsAt(owns[t], step[t]) = HoldsAt(owns[t], to) /\ CreatesAt(to) = 0
      /\ CreatesAt(step[t]) = 0 /\ AnnouncedAt(to) = 0 /\ AnnouncedAt(step[t]) = 0
  BY <1>1, Places DEF Walking
<1>3. /\ freeSlots \in Int /\ activeThreads \in Int /\ HoldsAt(owns[t], to) \in Int
  BY WeightType DEF IInv, Types
<1>4. /\ freeSlots' = freeSlots + HoldsAt(owns[t], step[t]) + CreatesAt(step[t])
                        - HoldsAt(owns[t], to) - CreatesAt(to)
      /\ activeThreads' = activeThreads + AnnouncedAt(to) - AnnouncedAt(step[t])
  BY <1>2, <1>3
<1> QED BY <1>1, <1>4, Moves

\* The actions of ScanDirectory, apart from the creation of a thread.
LEMMA ScanInv ==
  ASSUME IInv, NEW t \in Tids, ScanStep(t), ~CreateChild(t)
  PROVE  IInv'
<1>1. CASE OpenDirectory(t) \/ Leave(t)
  <2>1. PICK to \in Walking : step' = [step EXCEPT ![t] = to]
    BY <1>1 DEF OpenDirectory, Leave, Return, Goto, Walking
  <2>2. /\ step[t] \in Walking
        /\ UNCHANGED <<owns, isScanning, freeSlots, activeThreads, queue>>
    BY <1>1 DEF OpenDirectory, Leave, Return, Walking, sharedVars, windowVars
  <2> QED BY <2>1, <2>2, Walks
<1>2. CASE NextEntry(t)
  <2>1. PICK to \in Walking : step' = [step EXCEPT ![t] = to]
    BY <1>2 DEF NextEntry, Goto, Walking
  <2>2. /\ step[t] \in Walking
        /\ UNCHANGED <<owns, isScanning, freeSlots, activeThreads, queue>>
    BY <1>2 DEF NextEntry, Walking, sharedVars, windowVars
  <2> QED BY <2>1, <2>2, Walks
<1>3. CASE ScanFile(t)
  <2>1. /\ "check" \in Walking /\ step[t] \in Walking /\ step' = [step EXCEPT ![t] = "check"]
        /\ UNCHANGED <<owns, isScanning, freeSlots, activeThreads>>
    BY <1>3 DEF ScanFile, Goto, Walking, sharedVars, windowVars
  <2>2. UNCHANGED queue \/ \E f \in Files : queue' = Append(queue, f)
    BY <1>3, TreeAssumption DEF ScanFile, Post
  <2> QED BY <2>1, <2>2, Walks
<1>4. CASE TooDeep(t) \/ NoSlot(t)
  <2>1. PICK to \in Walking : step' = [step EXCEPT ![t] = to]
    BY <1>4 DEF TooDeep, NoSlot, Recurse, Goto, Walking
  <2>2. /\ step[t] \in Walking
        /\ UNCHANGED <<owns, isScanning, freeSlots, activeThreads, queue>>
    BY <1>4 DEF TooDeep, NoSlot, Recurse, Walking, sharedVars, windowVars
  <2> QED BY <2>1, <2>2, Walks
<1>i. freeSlots \in Int /\ activeThreads \in Int /\ \A p : HoldsAt(owns[t], p) \in Int
  BY WeightType DEF IInv, Types
<1>p. \A p \in {"open", "subdir", "count", "create", "giveback", "uncount"} :
        p \in Steps \ {"none", "post"} /\ HoldsAt(owns[t], p) = HoldsAt(owns[t], "open")
  BY Places DEF Steps
<1>5. CASE TakeSlot(t)
  <2>1. /\ step[t] = "subdir" /\ step' = [step EXCEPT ![t] = "count"]
        /\ freeSlots' = freeSlots - 1 /\ UNCHANGED <<owns, isScanning, activeThreads, queue>>
    BY <1>5 DEF TakeSlot, Goto, windowVars
  <2>2. /\ CreatesAt("subdir") = 0 /\ CreatesAt("count") = 1
        /\ AnnouncedAt("subdir") = 0 /\ AnnouncedAt("count") = 0
    BY Places, <1>p
  <2>3. /\ freeSlots' = freeSlots + HoldsAt(owns[t], "subdir") + CreatesAt("subdir")
                        - HoldsAt(owns[t], "count") - CreatesAt("count")
        /\ activeThreads' = activeThreads + AnnouncedAt("count") - AnnouncedAt("subdir")
    BY <2>1, <2>2, <1>i, <1>p
  <2> QED BY <2>1, <2>3, <1>p, Moves
<1>6. CASE IncActiveThreads(t)
  <2>1. /\ step[t] = "count" /\ step' = [step EXCEPT ![t] = "create"]
        /\ activeThreads' = activeThreads + 1 /\ UNCHANGED <<owns, isScanning, freeSlots, queue>>
    BY <1>6 DEF IncActiveThreads, Goto, windowVars
  <2>2. /\ CreatesAt("count") = 1 /\ CreatesAt("create") = 1
        /\ AnnouncedAt("count") = 0 /\ AnnouncedAt("create") = 1
    BY Places, <1>p
  <2>3. /\ freeSlots' = freeSlots + HoldsAt(owns[t], "count") + CreatesAt("count")
                        - HoldsAt(owns[t], "create") - CreatesAt("create")
        /\ activeThreads' = activeThreads + AnnouncedAt("create") - AnnouncedAt("count")
    BY <2>1, <2>2, <1>i, <1>p
  <2> QED BY <2>1, <2>3, <1>p, Moves
<1>7. CASE CreateFails(t)
  <2>1. /\ step[t] = "create" /\ step' = [step EXCEPT ![t] = "giveback"]
        /\ UNCHANGED <<owns, isScanning, freeSlots, activeThreads, queue>>
    BY <1>7 DEF CreateFails, Goto, windowVars, sharedVars
  <2>2. /\ CreatesAt("giveback") = 1 /\ CreatesAt("create") = 1
        /\ AnnouncedAt("giveback") = 1 /\ AnnouncedAt("create") = 1
    BY Places, <1>p
  <2>3. /\ freeSlots' = freeSlots + HoldsAt(owns[t], "create") + CreatesAt("create")
                        - HoldsAt(owns[t], "giveback") - CreatesAt("giveback")
        /\ activeThreads' = activeThreads + AnnouncedAt("giveback") - AnnouncedAt("create")
    BY <2>1, <2>2, <1>i, <1>p
  <2> QED BY <2>1, <2>3, <1>p, Moves
<1>8. CASE GiveSlotBack(t)
  <2>1. /\ step[t] = "giveback" /\ step' = [step EXCEPT ![t] = "uncount"]
        /\ freeSlots' = freeSlots + 1 /\ UNCHANGED <<owns, isScanning, activeThreads, queue>>
    BY <1>8 DEF GiveSlotBack, Goto, windowVars
  <2>2. /\ CreatesAt("giveback") = 1 /\ CreatesAt("uncount") = 0
        /\ AnnouncedAt("giveback") = 1 /\ AnnouncedAt("uncount") = 1
    BY Places, <1>p
  <2>3. /\ freeSlots' = freeSlots + HoldsAt(owns[t], "giveback") + CreatesAt("giveback")
                        - HoldsAt(owns[t], "uncount") - CreatesAt("uncount")
        /\ activeThreads' = activeThreads + AnnouncedAt("uncount") - AnnouncedAt("giveback")
    BY <2>1, <2>2, <1>i, <1>p
  <2> QED BY <2>1, <2>3, <1>p, Moves
<1>9. CASE Uncount(t)
  <2>1. /\ step[t] = "uncount" /\ step' = [step EXCEPT ![t] = "open"]
        /\ activeThreads' = activeThreads - 1 /\ UNCHANGED <<owns, isScanning, freeSlots, queue>>
    BY <1>9 DEF Uncount, Recurse, Goto, windowVars
  <2>2. /\ CreatesAt("uncount") = 0 /\ CreatesAt("open") = 0
        /\ AnnouncedAt("uncount") = 1 /\ AnnouncedAt("open") = 0
    BY Places, <1>p
  <2>3. /\ freeSlots' = freeSlots + HoldsAt(owns[t], "uncount") + CreatesAt("uncount")
                        - HoldsAt(owns[t], "open") - CreatesAt("open")
        /\ activeThreads' = activeThreads + AnnouncedAt("open") - AnnouncedAt("uncount")
    BY <2>1, <2>2, <1>i, <1>p
  <2> QED BY <2>1, <2>3, <1>p, Moves
<1> QED BY <1>1, <1>2, <1>3, <1>4, <1>5, <1>6, <1>7, <1>8, <1>9 DEF ScanStep

-----------------------------------------------------------------------------
(* The creation and the end of threads.                                    *)

\* While a thread lives, the end is not announced.
LEMMA NotAnnounced ==
  ASSUME IInv, NEW t \in Tids, Alive(t)
  PROVE  isScanning /\ \A i \in DOMAIN queue : queue[i] # Complete
BY DEF IInv, LastAlone, CompletionIsLast

LEMMA CreateChildInv ==
  ASSUME IInv, NEW t \in Tids, CreateChild(t)
  PROVE  IInv'
<1>1. PICK u \in Tids \ {t} : /\ step[u] = "none" /\ owns' = [owns EXCEPT ![u] = TRUE]
                              /\ step' = [step EXCEPT ![u] = "open", ![t] = "check"]
  BY DEF CreateChild, StartThread
<1>2. /\ step[t] = "create"
      /\ UNCHANGED <<freeSlots, activeThreads, queue, isScanning>>
  BY DEF CreateChild, sharedVars, windowVars
<1>3. step \in [Tids -> Steps] /\ owns \in [Tids -> BOOLEAN]
  BY DEF IInv, Types
<1>4. /\ step'[u] = "open" /\ step'[t] = "check" /\ owns'[u] = TRUE /\ owns'[t] = owns[t]
      /\ \A w \in Tids \ {t, u} : step'[w] = step[w] /\ owns'[w] = owns[w]
  BY <1>1, <1>3
<1>5. Types'
  <2>1. step' \in [Tids -> Steps]
    BY <1>1, <1>3 DEF Steps
  <2>2. owns' \in [Tids -> BOOLEAN]
    BY <1>1, <1>3
  <2> QED BY <1>2, <2>1, <2>2 DEF IInv, Types
<1>6. SlotsConserved' /\ CountExact'
  <2>1. Holders' = Holders \cup {u} /\ u \notin Holders
    BY <1>1, <1>2, <1>4 DEF Holders
  <2>2. Creators' = Creators \ {t} /\ t \in Creators
    BY <1>1, <1>2, <1>4 DEF Creators
  <2>3. Counted' = Counted \cup {u} /\ u \notin Counted
    BY <1>1, <1>2, <1>4 DEF Counted
  <2>4. Announced' = Announced \ {t} /\ t \in Announced
    BY <1>1, <1>2, <1>4 DEF Announced
  <2>5. /\ Cardinality(Holders)' = Cardinality(Holders) + 1
        /\ Cardinality(Creators)' = Cardinality(Creators) - 1
        /\ Cardinality(Counted)' = Cardinality(Counted) + 1
        /\ Cardinality(Announced)' = Cardinality(Announced) - 1
    BY <1>1, <2>1, <2>2, <2>3, <2>4, Counts, Gain, Lose
  <2>6. freeSlots \in Int /\ activeThreads \in Int
    BY DEF IInv, Types
  <2>7. /\ Cardinality(Holders)' + Cardinality(Creators)' + freeSlots'
             = Cardinality(Holders) + Cardinality(Creators) + freeSlots
        /\ Cardinality(Counted)' + Cardinality(Announced)' - activeThreads'
             = Cardinality(Counted) + Cardinality(Announced) - activeThreads
    BY <1>2, <2>5, <2>6, Counts
  <2> QED BY <1>2, <2>6, <2>7, Balances
<1>7. Alive(t)
  BY <1>2 DEF Alive
<1>8. LastAlone'
  <2>1. isScanning'
    BY <1>2, <1>7, NotAnnounced
  <2>2. \A w \in Tids : step[w] # "post"
    BY <1>2, <1>7 DEF IInv, LastAlone
  <2>3. \A w \in Tids : step'[w] # "post"
    BY <1>4, <2>2
  <2> QED BY <2>1, <2>3 DEF LastAlone
<1>9. CompletionIsLast'
  BY <1>2, <1>7, NotAnnounced DEF CompletionIsLast
<1> QED BY <1>5, <1>6, <1>8, <1>9 DEF IInv

\* A thread with the whole count to itself is the only one left.
LEMMA OneLeft ==
  ASSUME IInv, NEW t \in Tids, step[t] = "finish", activeThreads = 1
  PROVE  \A u \in Tids \ {t} : ~Alive(u)
<1>1. t \in Counted /\ Counted \in SUBSET Tids
  BY DEF Counted
<1>2. Cardinality(Counted) = 1
  <2>1. Cardinality(Counted) + Cardinality(Announced) - activeThreads = 0
    BY DEF IInv, CountExact
  <2>2. Cardinality(Counted \ {t}) = Cardinality(Counted) - 1 /\ Cardinality(Counted \ {t}) \in Nat
    BY <1>1, Lose, Finite
  <2> QED BY <2>1, <2>2, Counts
<1>3. Cardinality(Counted \ {t}) = 0
  BY <1>1, <1>2, Lose
<1>4. Counted \ {t} = {}
  <2>1. IsFiniteSet(Counted \ {t})
    BY <1>1, Finite
  <2> QED BY <1>3, <2>1, FS_EmptySet
<1>5. \A u \in Tids \ {t} : step[u] \in {"none", "post"}
  BY <1>4 DEF Counted
<1>6. \A u \in Tids \ {t} : step[u] # "post"
  BY DEF IInv, LastAlone, Alive
<1> QED BY <1>5, <1>6 DEF Alive

\* A thread stops counting.
LEMMA Uncounted ==
  ASSUME IInv, NEW t \in Tids, step[t] = "finish", step'[t] \in {"none", "post"},
         \A u \in Tids \ {t} : step'[u] = step[u] /\ owns'[u] = owns[u],
         freeSlots' = freeSlots, activeThreads' = activeThreads - 1
  PROVE  SlotsConserved' /\ CountExact'
<1>1. Holders' = Holders /\ Creators' = Creators /\ Announced' = Announced
  BY DEF Holders, Creators, Announced
<1>2. Counted' = Counted \ {t} /\ t \in Counted
  BY DEF Counted
<1>3. Cardinality(Counted)' = Cardinality(Counted) - 1
  BY <1>2, Counts, Lose
<1>4. freeSlots \in Int /\ activeThreads \in Int
  BY DEF IInv, Types
<1>5. freeSlots' \in Int /\ activeThreads' \in Int
  BY <1>4
<1>6. Cardinality(Counted)' + Cardinality(Announced)' - activeThreads'
        = Cardinality(Counted) + Cardinality(Announced) - activeThreads
  BY <1>1, <1>3, <1>4, Counts
<1> QED BY <1>1, <1>5, <1>6, Balances

LEMMA ExitInv ==
  ASSUME IInv, NEW t \in Tids, ExitStep(t)
  PROVE  IInv'
<1>0. step \in [Tids -> Steps] /\ owns \in [Tids -> BOOLEAN]
  BY DEF IInv, Types
<1>1. CASE ReleaseSlot(t)
  <2>1. /\ step[t] = "release" /\ step' = [step EXCEPT ![t] = "finish"]
        /\ freeSlots' = IF owns[t] THEN freeSlots + 1 ELSE freeSlots
        /\ UNCHANGED <<owns, isScanning, activeThreads, queue>>
    BY <1>1 DEF ReleaseSlot, Goto, windowVars
  <2>2. "release" \in Steps \ {"none", "finish", "post"} /\ "finish" \in Steps \ {"none", "post"}
    BY DEF Steps
  <2>3. /\ CreatesAt("release") = 0 /\ CreatesAt("finish") = 0
        /\ AnnouncedAt("release") = 0 /\ AnnouncedAt("finish") = 0
        /\ HoldsAt(owns[t], "finish") = 0
        /\ HoldsAt(owns[t], "release") = IF owns[t] THEN 1 ELSE 0
    BY <2>2, Places DEF HoldsAt, Weight
  <2>4. freeSlots \in Int /\ activeThreads \in Int
    BY DEF IInv, Types
  <2>5. /\ freeSlots' = freeSlots + HoldsAt(owns[t], "release") + CreatesAt("release")
                        - HoldsAt(owns[t], "finish") - CreatesAt("finish")
        /\ activeThreads' = activeThreads + AnnouncedAt("finish") - AnnouncedAt("release")
    BY <2>1, <2>3, <2>4
  <2> QED BY <2>1, <2>2, <2>5, Moves
<1>2. CASE Finish(t) /\ activeThreads = 1
  <2>1. /\ step[t] = "finish" /\ step' = [step EXCEPT ![t] = "post"]
        /\ activeThreads' = activeThreads - 1
        /\ UNCHANGED <<owns, freeSlots, queue, isScanning>>
    BY <1>2 DEF Finish, Goto, windowVars
  <2>2. step'[t] = "post" /\ \A u \in Tids \ {t} : step'[u] = step[u] /\ owns'[u] = owns[u]
    BY <1>0, <2>1
  <2>3. SlotsConserved' /\ CountExact'
    BY <2>1, <2>2, Uncounted
  <2>4. Types'
    BY <1>0, <2>1 DEF IInv, Types, Steps
  <2>5. Alive(t)
    BY <2>1 DEF Alive
  <2>6. isScanning /\ \A i \in DOMAIN queue : queue[i] # Complete
    BY <2>5, NotAnnounced
  <2>7. LastAlone'
    <3>1. \A u \in Tids \ {t} : ~Alive(u) /\ ~Alive(u)'
      BY <1>2, <2>1, <2>2, OneLeft DEF Alive
    <3>2. \A u \in Tids \ {t} : step'[u] # "post"
      BY <3>1, <2>2 DEF Alive
    <3> QED BY <2>1, <2>6, <3>1, <3>2 DEF LastAlone
  <2>8. CompletionIsLast'
    BY <2>1, <2>6 DEF CompletionIsLast
  <2> QED BY <2>3, <2>4, <2>7, <2>8 DEF IInv
<1>3. CASE Finish(t) /\ activeThreads # 1
  <2>1. /\ step[t] = "finish" /\ step' = [step EXCEPT ![t] = "none"]
        /\ activeThreads' = activeThreads - 1 /\ owns' = [owns EXCEPT ![t] = FALSE]
        /\ UNCHANGED <<freeSlots, queue, isScanning>>
    BY <1>3 DEF Finish, Ended, Goto, windowVars
  <2>2. step'[t] = "none" /\ \A u \in Tids \ {t} : step'[u] = step[u] /\ owns'[u] = owns[u]
    BY <1>0, <2>1
  <2>3. SlotsConserved' /\ CountExact'
    BY <2>1, <2>2, Uncounted
  <2>4. Types'
    <3>1. step' \in [Tids -> Steps]
      BY <1>0, <2>1 DEF Steps
    <3>2. owns' \in [Tids -> BOOLEAN]
      BY <1>0, <2>1
    <3> QED BY <2>1, <3>1, <3>2 DEF IInv, Types
  <2>5. Alive(t)
    BY <2>1 DEF Alive
  <2>6. isScanning /\ \A i \in DOMAIN queue : queue[i] # Complete
    BY <2>5, NotAnnounced
  <2>7. LastAlone'
    <3>1. \A u \in Tids : step[u] # "post"
      BY <2>1, <2>5 DEF IInv, LastAlone
    <3>2. \A u \in Tids : step'[u] # "post"
      BY <2>2, <3>1
    <3> QED BY <2>1, <2>6, <3>2 DEF LastAlone
  <2>8. CompletionIsLast'
    BY <2>1, <2>6 DEF CompletionIsLast
  <2> QED BY <2>3, <2>4, <2>7, <2>8 DEF IInv
<1>4. CASE PostComplete(t)
  <2>1. /\ step[t] = "post" /\ step' = [step EXCEPT ![t] = "none"]
        /\ owns' = [owns EXCEPT ![t] = FALSE]
        /\ UNCHANGED <<freeSlots, activeThreads, isScanning>>
        /\ UNCHANGED queue \/ queue' = Append(queue, Complete)
    BY <1>4 DEF PostComplete, Post, Ended, Goto, sharedVars, windowVars
  <2>2. step'[t] = "none" /\ \A u \in Tids \ {t} : step'[u] = step[u] /\ owns'[u] = owns[u]
    BY <1>0, <2>1
  <2>3. Types'
    <3>1. step' \in [Tids -> Steps]
      BY <1>0, <2>1 DEF Steps
    <3>2. owns' \in [Tids -> BOOLEAN]
      BY <1>0, <2>1
    <3>3. queue' \in Seq(Files \cup {Complete})
      BY <2>1 DEF IInv, Types
    <3> QED BY <2>1, <3>1, <3>2, <3>3 DEF IInv, Types
  <2>4. SlotsConserved' /\ CountExact'
    <3>1. Holders' = Holders
      BY <2>1, <2>2 DEF Holders
    <3>2. Creators' = Creators /\ Counted' = Counted /\ Announced' = Announced
      BY <2>1, <2>2 DEF Creators, Counted, Announced
    <3> QED BY <2>1, <3>1, <3>2 DEF IInv, SlotsConserved, CountExact
  <2>5. isScanning /\ \A i \in DOMAIN queue : queue[i] # Complete
    BY <2>1, NotAnnounced DEF Alive
  <2>6. \A u \in Tids : step'[u] = "none"
    BY <2>1, <2>2 DEF IInv, LastAlone, Alive
  <2>7. LastAlone'
    BY <2>1, <2>6 DEF LastAlone, Alive
  <2>8. CompletionIsLast'
    <3>1. \A i \in DOMAIN queue' : queue'[i] = Complete => i = Len(queue')
      BY <2>1, <2>5 DEF IInv, Types
    <3> QED BY <2>1, <2>5, <2>6, <3>1 DEF CompletionIsLast, Alive
  <2> QED BY <2>3, <2>4, <2>7, <2>8 DEF IInv
<1> QED BY <1>1, <1>2, <1>3, <1>4 DEF ExitStep

-----------------------------------------------------------------------------
(* The window's thread.                                                    *)

\* No thread is touched, and the window's queue and state stay consistent with them.
LEMMA WindowStep ==
  ASSUME IInv, UNCHANGED <<step, owns, freeSlots, activeThreads>>,
         queue' \in Seq(Files \cup {Complete}), isScanning' \in BOOLEAN,
         ~isScanning' => \A t \in Tids : ~Alive(t),
         \A i \in DOMAIN queue' : queue'[i] = Complete =>
           /\ i = Len(queue') /\ isScanning'
           /\ \A t \in Tids : ~Alive(t)
  PROVE  IInv'
<1>1. Types'
  BY DEF IInv, Types
<1>2. /\ Holders' = Holders /\ Creators' = Creators /\ Counted' = Counted
      /\ Announced' = Announced /\ \A t \in Tids : Alive(t)' <=> Alive(t)
  BY DEF Holders, Creators, Counted, Announced, Alive
<1>3. SlotsConserved' /\ CountExact'
  BY <1>2 DEF IInv, SlotsConserved, CountExact
<1>4. LastAlone'
  <2>1. \A t \in Tids : Alive(t)' => isScanning'
    BY <1>2
  <2>2. \A t \in Tids : step'[t] = "post" => \A u \in Tids \ {t} : ~Alive(u)'
    BY <1>2 DEF IInv, LastAlone
  <2> QED BY <2>1, <2>2 DEF LastAlone
<1>5. CompletionIsLast'
  BY <1>2 DEF CompletionIsLast
<1> QED BY <1>1, <1>3, <1>4, <1>5 DEF IInv

LEMMA Quiet ==
  ASSUME IInv, UNCHANGED <<step, owns, freeSlots, activeThreads, isScanning>>,
         UNCHANGED queue \/ queue' = <<>>
  PROVE  IInv'
<1>0. <<>> \in Seq(Files \cup {Complete})
  OBVIOUS
<1>1. queue' \in Seq(Files \cup {Complete}) /\ isScanning' \in BOOLEAN
  <2>1. queue \in Seq(Files \cup {Complete}) /\ isScanning \in BOOLEAN
    BY DEF IInv, Types
  <2> QED BY <1>0, <2>1
<1>2. ~isScanning' => \A t \in Tids : ~Alive(t)
  BY DEF IInv, LastAlone
<1>3. \A i \in DOMAIN queue' : queue'[i] = Complete =>
        /\ i = Len(queue') /\ isScanning'
        /\ \A t \in Tids : ~Alive(t)
  BY DEF IInv, CompletionIsLast
<1> QED BY <1>1, <1>2, <1>3, WindowStep

LEMMA StartScanInv ==
  ASSUME IInv, StartScan
  PROVE  IInv'
<1>1. PICK u \in Tids : /\ step[u] = "none" /\ step' = [step EXCEPT ![u] = "open"]
                        /\ owns' = [owns EXCEPT ![u] = FALSE]
  BY DEF StartScan, StartThread, Goto
<1>2. /\ ~isScanning /\ isScanning' /\ activeThreads' = activeThreads + 1
      /\ isScanning' \in BOOLEAN /\ UNCHANGED <<freeSlots, queue>>
  BY DEF StartScan
<1>3. step \in [Tids -> Steps] /\ owns \in [Tids -> BOOLEAN]
  BY DEF IInv, Types
<1>4. /\ step'[u] = "open" /\ owns'[u] = FALSE
      /\ \A w \in Tids \ {u} : step'[w] = step[w] /\ owns'[w] = owns[w]
  BY <1>1, <1>3
<1>5. \A w \in Tids : step[w] = "none"
  BY <1>2 DEF IInv, LastAlone, Alive
<1>6. Types'
  <2>1. step' \in [Tids -> Steps]
    BY <1>1, <1>3 DEF Steps
  <2>2. owns' \in [Tids -> BOOLEAN]
    BY <1>1, <1>3
  <2>3. activeThreads' \in Int
    BY <1>2 DEF IInv, Types
  <2> QED BY <1>2, <2>1, <2>2, <2>3 DEF IInv, Types
<1>7. SlotsConserved' /\ CountExact'
  <2>1. Holders' = Holders /\ Creators' = Creators /\ Announced' = Announced
    BY <1>4, <1>5 DEF Holders, Creators, Announced
  <2>2. Counted' = Counted \cup {u} /\ u \notin Counted
    BY <1>4, <1>5 DEF Counted
  <2>3. Cardinality(Counted)' = Cardinality(Counted) + 1
    BY <2>2, Counts, Gain
  <2>4. freeSlots \in Int /\ activeThreads \in Int
    BY DEF IInv, Types
  <2>5. freeSlots' \in Int /\ activeThreads' \in Int
    BY <1>2, <2>4
  <2>6. Cardinality(Counted)' + Cardinality(Announced)' - activeThreads'
          = Cardinality(Counted) + Cardinality(Announced) - activeThreads
    BY <1>2, <2>1, <2>3, <2>4, Counts
  <2> QED BY <1>2, <2>1, <2>5, <2>6, Balances
<1>8. LastAlone'
  <2>1. \A w \in Tids : step'[w] # "post"
    BY <1>4, <1>5
  <2> QED BY <1>2, <2>1 DEF LastAlone
<1>9. CompletionIsLast'
  BY <1>2 DEF IInv, CompletionIsLast
<1> QED BY <1>6, <1>7, <1>8, <1>9 DEF IInv

LEMMA DispatchInv ==
  ASSUME IInv, Dispatch
  PROVE  IInv'
<1>0. queue \in Seq(Files \cup {Complete}) /\ isScanning \in BOOLEAN
  BY DEF IInv, Types
<1>1. CASE OnPEFound
  <2>1. /\ queue # <<>> /\ queue' = Tail(queue)
        /\ UNCHANGED <<step, owns, freeSlots, activeThreads, isScanning>>
    BY <1>1 DEF OnPEFound, threadVars, sharedVars
  <2>2. queue' \in Seq(Files \cup {Complete}) /\ Len(queue') = Len(queue) - 1
    BY <1>0, <2>1
  <2>3. \A i \in DOMAIN queue' : i + 1 \in DOMAIN queue /\ queue'[i] = queue[i + 1] /\ i \in Nat
    BY <1>0, <2>1
  <2>4. \A i \in DOMAIN queue' : queue'[i] = Complete =>
          /\ i = Len(queue') /\ isScanning'
          /\ \A t \in Tids : ~Alive(t)
    <3> SUFFICES ASSUME NEW i \in DOMAIN queue', queue'[i] = Complete
                 PROVE  /\ i = Len(queue') /\ isScanning'
                        /\ \A t \in Tids : ~Alive(t)
      OBVIOUS
    <3>1. i + 1 = Len(queue) /\ isScanning /\ \A t \in Tids : ~Alive(t)
      BY <2>3 DEF IInv, CompletionIsLast
    <3>2. i = Len(queue')
      BY <1>0, <2>2, <2>3, <3>1
    <3> QED BY <2>1, <3>1, <3>2
  <2>5. ~isScanning' => \A t \in Tids : ~Alive(t)
    BY <2>1 DEF IInv, LastAlone
  <2>6. isScanning' \in BOOLEAN
    BY <1>0, <2>1
  <2> QED BY <2>1, <2>2, <2>4, <2>5, <2>6, WindowStep
<1>2. CASE OnScanComplete
  <2>1. queue' = <<>> \/ queue' = Tail(queue)
    BY <1>2 DEF OnScanComplete, Destroy
  <2>2. /\ isScanning' \in BOOLEAN /\ UNCHANGED <<step, owns, freeSlots, activeThreads>>
        /\ queue # <<>> /\ Head(queue) = Complete
    BY <1>2 DEF OnScanComplete, threadVars, sharedVars
  <2>3. 1 \in DOMAIN queue /\ queue[1] = Complete
    BY <1>0, <2>2
  <2>4. Len(queue) = 1 /\ \A t \in Tids : ~Alive(t)
    BY <2>3 DEF IInv, CompletionIsLast
  <2>5. queue' \in Seq(Files \cup {Complete}) /\ DOMAIN queue' = {}
    <3>1. CASE queue' = <<>>
      BY <3>1
    <3>2. CASE queue' = Tail(queue)
      <4>1. queue' \in Seq(Files \cup {Complete}) /\ Len(queue') = 0
        BY <1>0, <2>2, <2>4, <3>2
      <4> QED BY <4>1
    <3> QED BY <2>1, <3>1, <3>2
  <2> QED BY <2>2, <2>4, <2>5, WindowStep
<1> QED BY <1>1, <1>2 DEF Dispatch

LEMMA UserInv ==
  ASSUME IInv, User, ~StartScan
  PROVE  IInv'
<1>1. UNCHANGED <<step, owns, freeSlots, isScanning>>
  BY DEF User, StartScanFails, StopScan, ClearResults, Close, ConfirmExit, Dismiss,
         threadVars, sharedVars
<1>2. UNCHANGED activeThreads
  BY DEF User, StartScanFails, StopScan, ClearResults, Close, ConfirmExit, Dismiss,
         sharedVars
<1>3. UNCHANGED queue \/ queue' = <<>>
  BY DEF User, StartScanFails, StopScan, ClearResults, Close, ConfirmExit, Dismiss, Destroy
<1> QED BY <1>1, <1>2, <1>3, Quiet

-----------------------------------------------------------------------------
(* The theorems.                                                           *)

\* In every reachable state the counters balance and the end is the last message.
THEOREM Invariance == Spec => []IInv
<1>1. IInv /\ [Next]_vars => IInv'
  <2> SUFFICES ASSUME IInv, [Next]_vars PROVE IInv'
    OBVIOUS
  <2>1. ASSUME NEW t \in Tids, ScanStep(t) \/ ExitStep(t) PROVE IInv'
    BY <2>1, ScanInv, CreateChildInv, ExitInv
  <2>2. CASE Dispatch
    BY <2>2, DispatchInv
  <2>3. CASE User
    BY <2>3, StartScanInv, UserInv
  <2>4. CASE UNCHANGED vars
    <3>1. UNCHANGED <<step, owns, freeSlots, activeThreads, isScanning, queue>>
      BY <2>4 DEF vars, threadVars, sharedVars, windowVars
    <3> QED BY <3>1, Quiet
  <2> QED BY <2>1, <2>2, <2>3, <2>4 DEF Next, Exited
<1> QED BY InitIInv, <1>1, PTL DEF Spec

\* The semaphore: after any number of scans, stopped scans and CreateThread calls that
\* failed, every slot is free or held by one thread (Bai4.2.cpp:256-273, 324-326).
THEOREM SlotsStay == Spec => []SlotsConserved
<1>1. IInv => SlotsConserved
  BY DEF IInv
<1> QED BY Invariance, <1>1, PTL

\* DecActiveThreadsAndCheckDone: WM_APP_SCAN_COMPLETE is posted once per scan, by the
\* last thread, and when the window reads it nothing is queued behind it and no thread
\* is left that could still post to the window (Bai4.2.cpp:132-138, 328-331).
THEOREM EndComesLast == Spec => []CompletionIsLast
<1>1. IInv => CompletionIsLast
  BY DEF IInv
<1> QED BY Invariance, <1>1, PTL

\* g_activeThreadCount never goes below zero and is at most the number of threads that
\* run or are about to be created.
THEOREM CountIsExact == Spec => [](activeThreads = Cardinality(Counted) + Cardinality(Announced))
<1>1. IInv => activeThreads = Cardinality(Counted) + Cardinality(Announced)
  <2> SUFFICES ASSUME IInv PROVE activeThreads = Cardinality(Counted) + Cardinality(Announced)
    OBVIOUS
  <2>1. activeThreads \in Int
    BY DEF IInv, Types
  <2>2. Cardinality(Counted) + Cardinality(Announced) - activeThreads = 0
    BY DEF IInv, CountExact
  <2> QED BY <2>1, <2>2, Counts
<1> QED BY Invariance, <1>1, PTL

-----------------------------------------------------------------------------
(* The tree.                                                               *)

\* What lies below d: the least set with its entries, and with theirs.
Under(d) ==
  {e \in Paths : \A S \in SUBSET Paths :
     Entries(d) \subseteq S /\ (\A x \in S : Entries(x) \subseteq S) => e \in S}

\* It is one of those sets, and within each of them.
LEMMA UnderIsLeast ==
  ASSUME NEW d
  PROVE  /\ Entries(d) \subseteq Under(d)
         /\ \A x \in Under(d) : Entries(x) \subseteq Under(d)
         /\ \A S \in SUBSET Paths :
              Entries(d) \subseteq S /\ (\A x \in S : Entries(x) \subseteq S) => Under(d) \subseteq S
<1>1. \A x : Entries(x) \subseteq Paths
  BY DEF Entries
<1> QED BY <1>1 DEF Under

LEMMA ParentOfEntry ==
  /\ \A d : \A e \in Entries(d) : e \in Paths /\ e # Root /\ Parent[e] = d /\ d \in Dirs
  /\ \A e \in Paths \ {Root} : Parent[e] \in Dirs /\ Parent[e] \in Paths /\ e \in Entries(Parent[e])
BY TreeAssumption DEF Entries, Paths

LEMMA UnderChild ==
  ASSUME NEW d, NEW c \in Entries(d)
  PROVE  c \in Under(d) /\ Under(c) \subseteq Under(d)
<1>1. c \in Under(d) /\ Entries(c) \subseteq Under(d)
  BY UnderIsLeast
<1>2. Under(d) \in SUBSET Paths
  BY DEF Under
<1> QED BY <1>1, <1>2, UnderIsLeast

LEMMA ParentUnder ==
  ASSUME NEW d, NEW e \in Under(d)
  PROVE  e \in Paths /\ e # Root /\ (Parent[e] = d \/ Parent[e] \in Under(d))
<1> DEFINE S == {x \in Paths : x \in Under(d) /\ x # Root /\ (Parent[x] = d \/ Parent[x] \in Under(d))}
<1>1. Entries(d) \subseteq S
  BY UnderIsLeast, ParentOfEntry
<1>2. ASSUME NEW x \in S PROVE Entries(x) \subseteq S
  <2>1. Entries(x) \subseteq Under(d)
    BY UnderIsLeast
  <2> QED BY <2>1, ParentOfEntry
<1>3. S \in SUBSET Paths
  OBVIOUS
<1> HIDE DEF S
<1>4. Under(d) \subseteq S
  BY <1>1, <1>2, <1>3, UnderIsLeast
<1> QED BY <1>4 DEF S

\* What lies below d is one of its entries or lies below one.
LEMMA UnderSplits ==
  ASSUME NEW d, NEW e \in Under(d)
  PROVE  \E c \in Entries(d) : e = c \/ e \in Under(c)
<1> DEFINE S == {x \in Paths : \E c \in Entries(d) : x = c \/ x \in Under(c)}
<1>1. Entries(d) \subseteq S
  BY ParentOfEntry
<1>2. ASSUME NEW x \in S PROVE Entries(x) \subseteq S
  <2>1. PICK c \in Entries(d) : x = c \/ x \in Under(c)
    OBVIOUS
  <2>2. Entries(x) \subseteq Under(c)
    BY <2>1, UnderIsLeast
  <2> QED BY <2>2, ParentOfEntry
<1>3. S \in SUBSET Paths
  OBVIOUS
<1> HIDE DEF S
<1>4. Under(d) \subseteq S
  BY <1>1, <1>2, <1>3, UnderIsLeast
<1> QED BY <1>4 DEF S

LEMMA FilesAreLeaves ==
  ASSUME NEW f \in Files
  PROVE  Entries(f) = {} /\ Under(f) = {}
<1>1. Entries(f) = {}
  BY ParentOfEntry, TreeAssumption
<1>2. {} \in SUBSET Paths /\ Entries(f) \subseteq {} /\ \A x \in {} : Entries(x) \subseteq {}
  BY <1>1
<1>3. Under(f) \subseteq {}
  BY <1>2, UnderIsLeast
<1> QED BY <1>1, <1>3

\* Nothing lies below itself.
LEMMA Acyclic == \A e \in Paths : e \notin Under(e)
<1> DEFINE S == {e \in Paths : e \notin Under(e)}
<1>1. Root \in S
  BY ParentUnder, TreeAssumption DEF Paths
<1>2. ASSUME NEW e \in Paths \ {Root}, Parent[e] \in S PROVE e \in S
  <2> SUFFICES ASSUME e \in Under(e) PROVE FALSE
    OBVIOUS
  <2>1. Parent[e] \notin Under(Parent[e]) /\ e \in Under(Parent[e]) /\ Under(e) \subseteq Under(Parent[e])
    BY <1>2, ParentOfEntry, UnderChild
  <2>2. Parent[e] = e \/ Parent[e] \in Under(e)
    BY ParentUnder
  <2> QED BY <2>1, <2>2
<1>3. S \in SUBSET Paths
  OBVIOUS
<1> HIDE DEF S
<1>4. S = Paths
  BY <1>1, <1>2, <1>3, PathsAssumption
<1> QED BY <1>4 DEF S

\* The recursive Above is defined, and it is the converse of Under.
LEMMA AboveIsConverse == \A e \in Paths : Above[e] = {d \in Paths : e \in Under(d)}
<1> DEFINE Eq(A) ==
      A = [e \in Paths |-> IF e = Root THEN {} ELSE {Parent[e]} \cup A[Parent[e]]]
<1> DEFINE B == [e \in Paths |-> {d \in Paths : e \in Under(d)}]
<1>1. Eq(B)
  <2>1. ASSUME NEW e \in Paths PROVE B[e] = IF e = Root THEN {} ELSE {Parent[e]} \cup B[Parent[e]]
    <3>1. CASE e = Root
      BY <3>1, ParentUnder
    <3>2. CASE e # Root
      <4>1. Parent[e] \in Paths /\ e \in Entries(Parent[e])
        BY <3>2, ParentOfEntry
      <4>2. ASSUME NEW d \in Paths PROVE e \in Under(d) <=> d = Parent[e] \/ Parent[e] \in Under(d)
        BY <4>1, ParentUnder, UnderIsLeast
      <4> QED BY <3>2, <4>1, <4>2
    <3> QED BY <3>1, <3>2
  <2>2. B = [e \in Paths |-> B[e]]
    OBVIOUS
  <2> HIDE DEF B
  <2> QED BY <2>1, <2>2
<1>2. Above = CHOOSE A : Eq(A)
  BY DEF Above
<1>3. Eq(Above)
  <2> HIDE DEF B, Eq
  <2> QED BY <1>1, <1>2
<1> DEFINE S == {e \in Paths : Above[e] = B[e]}
<1>4. Root \in S
  <2>1. Root \in Paths
    BY TreeAssumption DEF Paths
  <2>2. Above[Root] = {} /\ B[Root] = {}
    <3> HIDE DEF B
    <3> QED BY <1>1, <1>3, <2>1
  <2> QED BY <2>1, <2>2
<1>5. ASSUME NEW e \in Paths \ {Root}, Parent[e] \in S PROVE e \in S
  <2>1. Above[e] = {Parent[e]} \cup Above[Parent[e]] /\ B[e] = {Parent[e]} \cup B[Parent[e]]
    <3> HIDE DEF B
    <3> QED BY <1>1, <1>3
  <2> QED BY <1>5, <2>1
<1>6. S \in SUBSET Paths
  OBVIOUS
<1>7. S = Paths
  <2> HIDE DEF S
  <2> QED BY <1>4, <1>5, <1>6, PathsAssumption
<1> QED BY <1>7

LEMMA AboveStep ==
  ASSUME NEW e \in Paths \ {Root}
  PROVE  Above[e] = Above[Parent[e]] \cup {Parent[e]} /\ Parent[e] \notin Above[Parent[e]]
<1>1. Parent[e] \in Paths /\ e \in Entries(Parent[e])
  BY ParentOfEntry
<1>2. \A d \in Paths : e \in Under(d) <=> d = Parent[e] \/ Parent[e] \in Under(d)
  BY <1>1, ParentUnder, UnderIsLeast
<1> QED BY <1>1, <1>2, AboveIsConverse, Acyclic

LEMMA AboveFinite ==
  /\ \A e \in Paths : IsFiniteSet(Above[e]) /\ Cardinality(Above[e]) \in Nat
  /\ Cardinality(Above[Root]) = 0
  /\ \A e \in Paths \ {Root} : Cardinality(Above[e]) = Cardinality(Above[Parent[e]]) + 1
<1> DEFINE S == {e \in Paths : IsFiniteSet(Above[e])}
<1>1. Above[Root] = {} /\ Root \in Paths
  BY AboveIsConverse, ParentUnder, TreeAssumption DEF Paths
<1>2. Root \in S
  BY <1>1, FS_EmptySet
<1>3. ASSUME NEW e \in Paths \ {Root}, Parent[e] \in S PROVE e \in S
  BY <1>3, AboveStep, FS_AddElement
<1>4. S \in SUBSET Paths
  OBVIOUS
<1> HIDE DEF S
<1>5. S = Paths
  BY <1>2, <1>3, <1>4, PathsAssumption
<1>6. \A e \in Paths : IsFiniteSet(Above[e]) /\ Cardinality(Above[e]) \in Nat
  BY <1>5, FS_CardinalityType DEF S
<1>7. ASSUME NEW e \in Paths \ {Root}
      PROVE  Cardinality(Above[e]) = Cardinality(Above[Parent[e]]) + 1
  <2>1. Parent[e] \in Paths
    BY ParentOfEntry
  <2> QED BY <1>6, <2>1, AboveStep, FS_AddElement
<1> QED BY <1>1, <1>6, <1>7, FS_EmptySet

\* Below d one is deeper than at d.
LEMMA Deeper ==
  ASSUME NEW d \in Paths, NEW e \in Under(d)
  PROVE  d \in Above[e] /\ Cardinality(Above[e]) >= Cardinality(Above[d]) + 1
<1>1. e \in Paths
  BY ParentUnder
<1>2. d \in Above[e] /\ d \notin Above[d]
  BY <1>1, AboveIsConverse, Acyclic
<1>3. Above[d] \subseteq Above[e]
  <2> SUFFICES ASSUME NEW x \in Paths, d \in Under(x) PROVE e \in Under(x)
    BY <1>1, AboveIsConverse
  <2>1. Entries(d) \subseteq Under(x) /\ \A y \in Under(x) : Entries(y) \subseteq Under(x)
    BY UnderIsLeast
  <2>2. Under(x) \in SUBSET Paths
    BY DEF Under
  <2> QED BY <2>1, <2>2, UnderIsLeast
<1>4. Above[d] \cup {d} \in SUBSET Above[e]
  BY <1>2, <1>3
<1>5. /\ IsFiniteSet(Above[e]) /\ Cardinality(Above[e]) \in Nat
      /\ IsFiniteSet(Above[d]) /\ Cardinality(Above[d]) \in Nat
  BY <1>1, AboveFinite
<1>6. Cardinality(Above[d] \cup {d}) = Cardinality(Above[d]) + 1
  BY <1>2, <1>5, FS_AddElement
<1>7. Cardinality(Above[d] \cup {d}) <= Cardinality(Above[e])
  BY <1>4, <1>5, FS_Subset
<1> QED BY <1>2, <1>5, <1>6, <1>7

-----------------------------------------------------------------------------
(* One thread: the place p where it is, its calls k and its entry e.       *)

Calls == [dir : Dirs, depth : 0..MaxDepth, left : SUBSET Paths]
Resting == {"none", "release", "finish", "post"}
Holding == {"file", "subdir", "count", "create", "giveback", "uncount"}
Top(k) == k[Len(k)]

\* A call lists entries of its directory, whose depth it knows.
CallOK(c) == c.left \subseteq Entries(c.dir) /\ c.depth = Cardinality(Above[c.dir])

ThreadOK(p, k, e) ==
  /\ p \in Steps /\ k \in Seq(Calls) /\ e \in Paths \cup {None}
  /\ p \in Resting <=> k = <<>>
  /\ p = "open" => Top(k).left = {}
  /\ p \in Holding => e \in Entries(Top(k).dir)
  /\ p = "file" => e \in Files
  /\ p \in Holding \ {"file"} => e \in Dirs
  /\ p \in Holding \ {"file", "subdir"} => Top(k).depth < MaxDepth
  /\ \A i \in 1..Len(k) : CallOK(k[i])

\* What it has still to do: in hand (0), and in each of its calls.
Held(p, k, e, i) ==
  IF i = 0 THEN IF p \in Holding THEN {e} ELSE IF p = "open" THEN {Top(k).dir} ELSE {}
  ELSE IF i \in 1..Len(k) THEN k[i].left ELSE {}

LEMMA CallFields ==
  /\ \A c \in Calls : /\ c.dir \in Dirs /\ c.depth \in 0..MaxDepth /\ c.left \in SUBSET Paths
                      /\ c = [dir |-> c.dir, depth |-> c.depth, left |-> c.left]
  /\ \A d \in Dirs, n \in 0..MaxDepth, S \in SUBSET Paths :
       [dir |-> d, depth |-> n, left |-> S] \in Calls
  /\ \A c \in Calls, S \in SUBSET Paths :
       [c EXCEPT !.left = S] = [dir |-> c.dir, depth |-> c.depth, left |-> S]
BY DEF Calls

LEMMA TopCall ==
  ASSUME NEW k \in Seq(Calls), k # <<>>
  PROVE  Len(k) \in Nat \ {0} /\ Len(k) \in 1..Len(k) /\ Top(k) \in Calls
BY DEF Top

\* It goes on without touching its calls.
LEMMA Goes ==
  ASSUME NEW p, NEW k, NEW e, ThreadOK(p, k, e), NEW q,
         \/ p \in {"file", "subdir"} /\ q = "check"
         \/ p = "subdir" /\ q = "count" /\ Top(k).depth < MaxDepth
         \/ p = "count" /\ q = "create"
         \/ p = "create" /\ q = "giveback"
         \/ p = "create" /\ q = "check"
         \/ p = "giveback" /\ q = "uncount"
         \/ p = "release" /\ q = "finish"
         \/ p = "finish" /\ q = "post"
  PROVE  /\ ThreadOK(q, k, e)
         /\ \A i \in Nat : Held(q, k, e, i) \subseteq Held(p, k, e, i)
         /\ q # "check" => \A i \in Nat : Held(q, k, e, i) = Held(p, k, e, i)
         /\ \A i \in Nat \ {0} : Held(q, k, e, i) = Held(p, k, e, i)
         /\ q = "check" => Held(p, k, e, 0) = {e} /\ Held(q, k, e, 0) = {}
<1>1. ThreadOK(q, k, e)
  BY DEF ThreadOK, Resting, Holding, Steps
<1>2. \A i \in Nat \ {0} : Held(q, k, e, i) = Held(p, k, e, i)
  BY DEF Held
<1>3. /\ Held(q, k, e, 0) \subseteq Held(p, k, e, 0)
      /\ q # "check" => Held(q, k, e, 0) = Held(p, k, e, 0)
      /\ q = "check" => Held(p, k, e, 0) = {e} /\ Held(q, k, e, 0) = {}
  BY DEF Held, Holding
<1> QED BY <1>1, <1>2, <1>3

\* It is created, to scan d.
LEMMA Enters ==
  ASSUME NEW d \in Dirs, NEW n \in 0..MaxDepth, n = Cardinality(Above[d]),
         NEW e \in Paths \cup {None}
  PROVE  /\ ThreadOK("open", <<Frame(d, n)>>, e)
         /\ Held("open", <<Frame(d, n)>>, e, 0) = {d}
         /\ \A i \in Nat \ {0} : Held("open", <<Frame(d, n)>>, e, i) = {}
<1> DEFINE c == Frame(d, n)
           k == <<c>>
<1>1. c \in Calls /\ c.dir = d /\ c.depth = n /\ c.left = {}
  BY CallFields DEF Frame
<1> HIDE DEF c
<1>2. k \in Seq(Calls) /\ Len(k) = 1 /\ k[1] = c /\ k # <<>>
  BY <1>1
<1> HIDE DEF k
<1>3. Top(k) = c /\ \A i \in 1..Len(k) : k[i] = c
  BY <1>2 DEF Top
<1>4. CallOK(c)
  BY <1>1 DEF CallOK
<1>5. ThreadOK("open", k, e)
  BY <1>1, <1>2, <1>3, <1>4 DEF ThreadOK, Resting, Holding, Steps
<1>6. /\ Held("open", k, e, 0) = {d}
      /\ \A i \in Nat \ {0} : Held("open", k, e, i) = {}
  BY <1>1, <1>3 DEF Held, Holding
<1> QED BY <1>5, <1>6 DEF k, c

\* Its innermost call returns.
LEMMA Returns ==
  ASSUME NEW p \in {"open", "check"}, NEW k, NEW e, ThreadOK(p, k, e)
  PROVE  LET q == IF Len(k) = 1 THEN "release" ELSE "check"
             l == SubSeq(k, 1, Len(k) - 1)
         IN  /\ ThreadOK(q, l, e)
             /\ \A i \in Nat : Held(q, l, e, i) \subseteq Held(p, k, e, i)
             /\ \A i \in Nat \ {0, Len(k)} : Held(q, l, e, i) = Held(p, k, e, i)
<1> DEFINE q == IF Len(k) = 1 THEN "release" ELSE "check"
           l == SubSeq(k, 1, Len(k) - 1)
<1>1. k \in Seq(Calls) /\ k # <<>>
  BY DEF ThreadOK, Resting
<1>2. PICK n \in Nat : n = Len(k) - 1 /\ Len(k) = n + 1
  BY <1>1, TopCall
<1>3. l \in Seq(Calls) /\ Len(l) = n /\ \A i \in 1..n : l[i] = k[i] /\ i \in 1..Len(k)
  <2>1. \A i \in 1..n : k[i] \in Calls
    BY <1>1, <1>2
  <2>2. /\ l \in Seq(Calls) /\ Len(l) = IF 1 <= n THEN n - 1 + 1 ELSE 0
        /\ \A i \in 1..(n - 1 + 1) : l[i] = k[1 + i - 1]
    BY <1>2, <2>1, SubSeqProperties
  <2> HIDE DEF l
  <2>3. Len(l) = n
    BY <2>2
  <2> QED BY <1>2, <2>2, <2>3
<1> HIDE DEF l
<1>4. q = "release" <=> n = 0
  BY <1>2
<1>5. l = <<>> <=> n = 0
  BY <1>3
<1>6. q \in {"release", "check"}
  OBVIOUS
<1> HIDE DEF q
<1>7. ThreadOK(q, l, e)
  <2>1. \A i \in 1..Len(l) : CallOK(l[i])
    BY <1>3 DEF ThreadOK
  <2> QED BY <1>3, <1>4, <1>5, <1>6, <2>1 DEF ThreadOK, Resting, Holding, Steps
<1>8. Held(q, l, e, 0) = {}
  BY <1>6 DEF Held, Holding
<1>9. \A i \in 1..n : Held(q, l, e, i) = Held(p, k, e, i)
  BY <1>2, <1>3 DEF Held
<1>10. \A i \in Nat \ {0} : i \notin 1..n => Held(q, l, e, i) = {}
  BY <1>3 DEF Held
<1>11. \A i \in Nat \ {0} : i \notin 1..n /\ i # Len(k) => Held(p, k, e, i) = {}
  BY <1>2 DEF Held
<1> QED BY <1>2, <1>7, <1>8, <1>9, <1>10, <1>11 DEF q, l

\* It calls itself for the directory in its hand.
LEMMA Recurses ==
  ASSUME NEW p \in {"subdir", "uncount"}, NEW k, NEW e, ThreadOK(p, k, e), Top(k).depth < MaxDepth
  PROVE  LET l == Append(k, Frame(e, Top(k).depth + 1))
         IN  /\ ThreadOK("open", l, e)
             /\ \A i \in Nat : Held("open", l, e, i) = Held(p, k, e, i)
<1> DEFINE c == Frame(e, Top(k).depth + 1)
           l == Append(k, c)
<1>1. k \in Seq(Calls) /\ k # <<>> /\ e \in Entries(Top(k).dir) /\ e \in Dirs
  BY DEF ThreadOK, Resting, Holding
<1>2. Top(k) \in Calls /\ CallOK(Top(k))
  BY <1>1, TopCall DEF ThreadOK, Top
<1>3. Top(k).depth + 1 \in 0..MaxDepth /\ Top(k).depth + 1 = Cardinality(Above[e])
  <2>1. Top(k).depth \in 0..MaxDepth /\ Top(k).depth = Cardinality(Above[Top(k).dir])
    BY <1>2, CallFields DEF CallOK
  <2>2. e \in Paths \ {Root} /\ Parent[e] = Top(k).dir
    BY <1>1, ParentOfEntry
  <2> QED BY <2>1, <2>2, AboveFinite, LimitsAssumption
<1>4. c \in Calls /\ c.dir = e /\ c.left = {} /\ CallOK(c)
  BY <1>1, <1>3, CallFields DEF Frame, CallOK
<1> HIDE DEF c
<1>5. PICK n \in Nat : n = Len(k)
  BY <1>1
<1>6. l \in Seq(Calls) /\ Len(l) = n + 1 /\ l[n + 1] = c /\ \A i \in 1..n : l[i] = k[i]
  BY <1>1, <1>4, <1>5
<1> HIDE DEF l
<1>7. Top(l) = c /\ l # <<>>
  BY <1>6 DEF Top
<1>8. ThreadOK("open", l, e)
  <2>1. \A i \in 1..Len(l) : CallOK(l[i])
    BY <1>4, <1>5, <1>6 DEF ThreadOK
  <2> QED BY <1>4, <1>6, <1>7, <2>1 DEF ThreadOK, Resting, Holding, Steps
<1>9. Held("open", l, e, 0) = {e} /\ Held(p, k, e, 0) = {e}
  BY <1>4, <1>7 DEF Held, Holding
<1>10. \A i \in 1..n : Held("open", l, e, i) = Held(p, k, e, i)
  BY <1>5, <1>6 DEF Held
<1>11. Held("open", l, e, n + 1) = {} /\ Held(p, k, e, n + 1) = {}
  BY <1>4, <1>5, <1>6 DEF Held
<1>12. \A i \in Nat : i > n + 1 => Held("open", l, e, i) = {} /\ Held(p, k, e, i) = {}
  BY <1>5, <1>6 DEF Held
<1>13. \A i \in Nat : i = 0 \/ i \in 1..n \/ i = n + 1 \/ i > n + 1
  OBVIOUS
<1> QED BY <1>8, <1>9, <1>10, <1>11, <1>12, <1>13 DEF l, c

\* The entries that its innermost call has to look at become S.
SetLeft(k, S) == [k EXCEPT ![Len(k)].left = S]

\* That keeps the call a call, and changes what is held there alone.
LEMMA Relists ==
  ASSUME NEW k \in Seq(Calls), k # <<>>, \A i \in 1..Len(k) : CallOK(k[i]),
         NEW S \in SUBSET Entries(Top(k).dir)
  PROVE  LET l == SetLeft(k, S)
         IN  /\ l \in Seq(Calls) /\ Len(l) = Len(k) /\ l # <<>>
             /\ \A i \in 1..Len(l) : CallOK(l[i])
             /\ Top(l).dir = Top(k).dir /\ Top(l).depth = Top(k).depth /\ Top(l).left = S
             /\ \A p, e : \A i \in Nat \ {0, Len(k)} : Held(p, l, e, i) = Held(p, k, e, i)
             /\ \A p, e : Held(p, l, e, Len(k)) = S
<1> DEFINE l == SetLeft(k, S)
           c == [dir |-> Top(k).dir, depth |-> Top(k).depth, left |-> S]
<1>1. Len(k) \in 1..Len(k) /\ Len(k) \in Nat \ {0} /\ Top(k) \in Calls /\ CallOK(Top(k))
  BY TopCall DEF Top
<1>2. S \in SUBSET Paths
  BY ParentOfEntry
<1>3. c \in Calls /\ c.dir = Top(k).dir /\ c.depth = Top(k).depth /\ c.left = S /\ CallOK(c)
  BY <1>1, <1>2, CallFields DEF CallOK
<1>4. l = [k EXCEPT ![Len(k)] = c]
  <2>1. [k[Len(k)] EXCEPT !.left = S] = c
    BY <1>1, <1>2, CallFields DEF Top
  <2> QED BY <2>1 DEF SetLeft
<1> HIDE DEF c, l
<1>5. l \in Seq(Calls) /\ Len(l) = Len(k) /\ \A i \in 1..Len(k) : l[i] = IF i = Len(k) THEN c ELSE k[i]
  BY <1>1, <1>3, <1>4, ExceptSeq
<1>6. Top(l) = c /\ l # <<>>
  BY <1>1, <1>5 DEF Top
<1>7. \A i \in 1..Len(l) : CallOK(l[i])
  BY <1>3, <1>5
<1>8. \A p, e : \A i \in Nat \ {0, Len(k)} : Held(p, l, e, i) = Held(p, k, e, i)
  BY <1>5 DEF Held
<1>9. \A p, e : Held(p, l, e, Len(k)) = S
  BY <1>1, <1>3, <1>5 DEF Held
<1> QED BY <1>3, <1>5, <1>6, <1>7, <1>8, <1>9 DEF l

\* It lists the directory it has opened.
LEMMA Opens ==
  ASSUME NEW k, NEW e, ThreadOK("open", k, e)
  PROVE  LET l == SetLeft(k, Entries(Top(k).dir))
         IN  /\ ThreadOK("check", l, e)
             /\ Len(k) \in Nat \ {0} /\ Top(k).dir \in Dirs
             /\ Held("open", k, e, 0) = {Top(k).dir} /\ Held("check", l, e, 0) = {}
             /\ Held("open", k, e, Len(k)) = {}
             /\ Held("check", l, e, Len(k)) = Entries(Top(k).dir)
             /\ \A i \in Nat \ {0, Len(k)} : Held("check", l, e, i) = Held("open", k, e, i)
<1>1. /\ k \in Seq(Calls) /\ k # <<>> /\ \A i \in 1..Len(k) : CallOK(k[i])
      /\ Top(k).left = {}
  BY DEF ThreadOK, Resting
<1> DEFINE S == Entries(Top(k).dir)
           l == SetLeft(k, S)
<1>2. S \in SUBSET Entries(Top(k).dir)
  OBVIOUS
<1>3. /\ l \in Seq(Calls) /\ Len(l) = Len(k) /\ l # <<>>
      /\ \A i \in 1..Len(l) : CallOK(l[i])
      /\ \A p, g : \A i \in Nat \ {0, Len(k)} : Held(p, l, g, i) = Held(p, k, g, i)
      /\ \A p, g : Held(p, l, g, Len(k)) = S
  BY <1>1, <1>2, Relists
<1>4. Len(k) \in Nat \ {0} /\ Len(k) \in 1..Len(k) /\ Top(k) \in Calls
  BY <1>1, TopCall
<1> HIDE DEF l, S
<1>5. ThreadOK("check", l, e)
  BY <1>3 DEF ThreadOK, Resting, Holding, Steps
<1>6. /\ Held("open", k, e, 0) = {Top(k).dir} /\ Held("check", l, e, 0) = {}
      /\ Held("open", k, e, Len(k)) = {}
  BY <1>1, <1>4 DEF Held, Holding, Top
<1>7. \A i \in Nat \ {0, Len(k)} : Held("check", l, e, i) = Held("open", k, e, i)
  <2>1. \A i \in Nat \ {0} : Held("check", k, e, i) = Held("open", k, e, i)
    BY DEF Held
  <2> QED BY <1>3, <2>1
<1> QED BY <1>3, <1>4, <1>5, <1>6, <1>7, CallFields DEF l, S

\* It takes an entry in hand.
LEMMA Takes ==
  ASSUME NEW k, NEW e, ThreadOK("check", k, e), NEW x, x \in Top(k).left
  PROVE  LET l == SetLeft(k, Top(k).left \ {x})
             q == IF x \in Files THEN "file" ELSE "subdir"
         IN  /\ ThreadOK(q, l, x)
             /\ Len(k) \in Nat \ {0}
             /\ Held("check", k, e, 0) = {} /\ Held(q, l, x, 0) = {x}
             /\ x \in Held("check", k, e, Len(k))
             /\ Held(q, l, x, Len(k)) = Held("check", k, e, Len(k)) \ {x}
             /\ \A i \in Nat \ {0, Len(k)} : Held(q, l, x, i) = Held("check", k, e, i)
<1>1. k \in Seq(Calls) /\ k # <<>> /\ \A i \in 1..Len(k) : CallOK(k[i])
  BY DEF ThreadOK, Resting
<1>2. Len(k) \in Nat \ {0} /\ Len(k) \in 1..Len(k) /\ Top(k) \in Calls /\ CallOK(Top(k))
  BY <1>1, TopCall DEF Top
<1> DEFINE S == Top(k).left \ {x}
           l == SetLeft(k, S)
           q == IF x \in Files THEN "file" ELSE "subdir"
<1>4. S \in SUBSET Entries(Top(k).dir) /\ x \in Entries(Top(k).dir)
  BY <1>2 DEF CallOK
<1>5. /\ l \in Seq(Calls) /\ Len(l) = Len(k) /\ l # <<>>
      /\ \A i \in 1..Len(l) : CallOK(l[i])
      /\ Top(l).dir = Top(k).dir
      /\ \A p, g : \A i \in Nat \ {0, Len(k)} : Held(p, l, g, i) = Held(p, k, g, i)
      /\ \A p, g : Held(p, l, g, Len(k)) = S
  BY <1>1, <1>4, Relists
<1>6. x \in Paths /\ (x \in Files => q = "file") /\ (x \notin Files => q = "subdir" /\ x \in Dirs)
  BY <1>4, ParentOfEntry DEF Paths
<1> HIDE DEF l, S, q
<1>7. ThreadOK(q, l, x)
  BY <1>4, <1>5, <1>6 DEF ThreadOK, Resting, Holding, Steps
<1>8. /\ Held("check", k, e, 0) = {} /\ Held(q, l, x, 0) = {x}
      /\ Held("check", k, e, Len(k)) = Top(k).left
  BY <1>2, <1>6 DEF Held, Holding, Top
<1>9. \A i \in Nat \ {0, Len(k)} : Held(q, l, x, i) = Held("check", k, e, i)
  <2>1. \A i \in Nat \ {0} : Held(q, k, x, i) = Held("check", k, e, i)
    BY DEF Held
  <2> QED BY <1>5, <2>1
<1> QED BY <1>2, <1>5, <1>7, <1>8, <1>9 DEF l, q, S

\* It ends, or has nothing to do.
LEMMA Rests ==
  ASSUME NEW p \in Resting, NEW k, NEW e, ThreadOK(p, k, e)
  PROVE  /\ k = <<>> /\ ThreadOK("none", k, None)
         /\ \A i \in Nat : Held(p, k, e, i) = {} /\ Held("none", k, None, i) = {}
<1>1. k = <<>> /\ Len(k) = 0 /\ k \in Seq(Calls)
  BY DEF ThreadOK
<1>2. ThreadOK("none", k, None)
  BY <1>1 DEF ThreadOK, Resting, Holding, Steps
<1>3. \A i \in Nat : Held(p, k, e, i) = {} /\ Held("none", k, None, i) = {}
  BY <1>1 DEF Held, Holding, Resting
<1> QED BY <1>1, <1>2, <1>3

-----------------------------------------------------------------------------
(* What is to do, and where: W[<<t, i>>] is what thread t holds at i.       *)

Sites == Tids \X Nat

\* Nothing is to be done at two places, by itself or as part of something else.
Apart(W) ==
  /\ \A x, y \in Sites : x # y => W[x] \cap W[y] = {}
  /\ \A x, y \in Sites : \A d \in W[x], e \in W[y] : e \notin Under(d)

\* What is to do, and what lies below it, has not been reported.
Owed(W, C) ==
  \A x \in Sites : \A e \in W[x] : \A f \in Files : f = e \/ f \in Under(e) => C[f] = 0

Pending(W, f) == \E x \in Sites : \E e \in W[x] : f = e \/ f \in Under(e)

\* Work is handed from one place to another, or dropped.
LEMMA Handed ==
  ASSUME NEW W, NEW V, NEW C, NEW x \in Sites, NEW y \in Sites, Apart(W), Owed(W, C),
         V[x] \cup V[y] \subseteq W[x] \cup W[y], x # y => V[x] \cap V[y] = {},
         \A z \in Sites \ {x, y} : V[z] \subseteq W[z]
  PROVE  Apart(V) /\ Owed(V, C)
<1>1. \A z \in Sites : \A e \in V[z] : \E o \in Sites : e \in W[o] /\ (z \in {x, y} <=> o \in {x, y})
                                                       /\ (z \notin {x, y} => o = z)
  OBVIOUS
<1>2. ASSUME NEW a \in Sites, NEW b \in Sites, a # b PROVE V[a] \cap V[b] = {}
  <2>1. CASE a \in {x, y} /\ b \in {x, y}
    BY <1>2, <2>1
  <2>2. CASE ~(a \in {x, y} /\ b \in {x, y})
    <3> SUFFICES ASSUME NEW e, e \in V[a], e \in V[b] PROVE FALSE
      OBVIOUS
    <3>1. PICK o \in Sites : e \in W[o] /\ (a \in {x, y} <=> o \in {x, y}) /\ (a \notin {x, y} => o = a)
      BY <1>1
    <3>2. PICK r \in Sites : e \in W[r] /\ (b \in {x, y} <=> r \in {x, y}) /\ (b \notin {x, y} => r = b)
      BY <1>1
    <3>3. o # r
      BY <1>2, <2>2, <3>1, <3>2
    <3> QED BY <3>1, <3>2, <3>3 DEF Apart
  <2> QED BY <2>1, <2>2
<1>3. \A a, b \in Sites : \A d \in V[a], e \in V[b] : e \notin Under(d)
  BY <1>1 DEF Apart
<1>4. Owed(V, C)
  BY <1>1 DEF Owed
<1> QED BY <1>2, <1>3, <1>4 DEF Apart

LEMMA Dropped ==
  ASSUME NEW W, NEW V, NEW C, Apart(W), Owed(W, C), \A z \in Sites : V[z] \subseteq W[z]
  PROVE  Apart(V) /\ Owed(V, C)
BY DEF Apart, Owed

\* The directory d, at y, gives way to its entries, at x.
LEMMA Listed ==
  ASSUME NEW W, NEW V, NEW C, NEW x \in Sites, NEW y \in Sites, x # y, NEW d \in Dirs,
         Apart(W), Owed(W, C), d \in W[y], V[y] = {}, V[x] \subseteq Entries(d),
         \A z \in Sites \ {x, y} : V[z] \subseteq W[z]
  PROVE  Apart(V) /\ Owed(V, C)
<1>0. d \notin Under(d) /\ \A c \in Entries(d) : c \in Under(d) /\ Under(c) \subseteq Under(d)
  BY Acyclic, UnderChild DEF Paths
<1>1. \A c \in V[x] : Parent[c] = d /\ c \in Under(d) /\ Under(c) \subseteq Under(d)
  BY <1>0, ParentOfEntry
<1>2. \A z \in Sites : \A e \in V[z] : z = x \/ (z # y /\ e \in W[z])
  OBVIOUS
<1>3. \A z \in Sites : \A e \in W[z] : e \notin Under(d) /\ d \notin Under(e) /\ (z # y => e # d)
  BY DEF Apart
<1>4. ASSUME NEW a \in Sites, NEW b \in Sites, a # b PROVE V[a] \cap V[b] = {}
  <2> SUFFICES ASSUME NEW e, e \in V[a], e \in V[b] PROVE FALSE
    OBVIOUS
  <2> QED BY <1>1, <1>2, <1>3, <1>4 DEF Apart
<1>5. ASSUME NEW a \in Sites, NEW b \in Sites, NEW g \in V[a], NEW e \in V[b], e \in Under(g)
      PROVE  FALSE
  <2>1. CASE b = x
    <3>1. Parent[e] = d /\ (d = g \/ d \in Under(g))
      BY <1>1, <1>5, <2>1, ParentUnder
    <3>2. CASE a = x
      BY <1>0, <1>1, <3>1, <3>2
    <3>3. CASE a # x
      BY <1>2, <1>3, <3>1, <3>3
    <3> QED BY <3>2, <3>3
  <2>2. CASE b # x /\ a = x
    BY <1>1, <1>2, <1>3, <1>5, <2>2
  <2>3. CASE b # x /\ a # x
    BY <1>2, <1>5, <2>3 DEF Apart
  <2> QED BY <2>1, <2>2, <2>3
<1>6. Owed(V, C)
  <2> SUFFICES ASSUME NEW z \in Sites, NEW e \in V[z], NEW f \in Files, f = e \/ f \in Under(e)
               PROVE  C[f] = 0
    BY DEF Owed
  <2>1. CASE z = x
    <3>1. f \in Under(d)
      BY <1>1, <2>1
    <3> QED BY <3>1 DEF Owed
  <2>2. CASE z # x
    BY <1>2, <2>2 DEF Owed
  <2> QED BY <2>1, <2>2
<1> QED BY <1>4, <1>5, <1>6 DEF Apart

\* The file in hand at y is reported.
LEMMA Reported ==
  ASSUME NEW W, NEW V, NEW C, NEW D, NEW y \in Sites, NEW f \in Files,
         Apart(W), Owed(W, C), f \in W[y], V[y] = {},
         \A z \in Sites \ {y} : V[z] \subseteq W[z], \A g \in Files \ {f} : D[g] = C[g]
  PROVE  Apart(V) /\ Owed(V, D) /\ C[f] = 0
<1>1. \A z \in Sites : V[z] \subseteq W[z]
  OBVIOUS
<1>2. Apart(V) /\ Owed(V, C)
  BY <1>1, Dropped
<1>3. C[f] = 0
  BY DEF Owed
<1>4. ASSUME NEW z \in Sites, NEW e \in V[z], NEW g \in Files, g = e \/ g \in Under(e)
      PROVE  D[g] = 0
  <2>1. z # y /\ e \in W[z]
    OBVIOUS
  <2>2. g # f
    BY <1>4, <2>1 DEF Apart
  <2>3. C[g] = 0
    BY <1>4, <2>1 DEF Owed
  <2> QED BY <2>2, <2>3
<1> QED BY <1>2, <1>3, <1>4 DEF Owed

\* The first thing to do is the root.
LEMMA Started ==
  ASSUME NEW V, NEW C, NEW y \in Sites, V[y] = {Root}, \A z \in Sites \ {y} : V[z] = {},
         \A f \in Files : C[f] = 0
  PROVE  Apart(V) /\ Owed(V, C) /\ \A f \in Files : Pending(V, f)
<1>1. Root \in Paths /\ Root \notin Under(Root)
  BY Acyclic, TreeAssumption DEF Paths
<1>2. Apart(V) /\ Owed(V, C)
  BY <1>1 DEF Apart, Owed
<1>3. \A f \in Paths \ {Root} : f \in Under(Root)
  <2> DEFINE S == {f \in Paths : f = Root \/ f \in Under(Root)}
  <2>1. Root \in S
    BY <1>1
  <2>2. ASSUME NEW f \in Paths \ {Root}, Parent[f] \in S PROVE f \in S
    BY <2>2, ParentOfEntry, UnderIsLeast
  <2>3. S \in SUBSET Paths
    OBVIOUS
  <2>4. S = Paths
    <3> HIDE DEF S
    <3> QED BY <2>1, <2>2, <2>3, PathsAssumption
  <2> QED BY <2>4
<1>4. \A f \in Files : f \in Under(Root)
  BY <1>3, TreeAssumption DEF Paths
<1>5. \A f \in Files : Pending(V, f)
  BY <1>4 DEF Pending
<1> QED BY <1>2, <1>5

\* What is still to do remains so, except for what is let go of, the set R.
LEMMA StillPending ==
  ASSUME NEW W, NEW V, NEW R, NEW f, Pending(W, f),
         \A x \in Sites : \A e \in W[x] : e \in R \/ \E z \in Sites : e \in V[z]
  PROVE  Pending(V, f) \/ \E e \in R : f = e \/ f \in Under(e)
BY DEF Pending

-----------------------------------------------------------------------------
(* How often a file is in the queue.                                       *)

Times(q, f) == Cardinality({i \in DOMAIN q : q[i] = f})

LEMMA TimesType ==
  ASSUME NEW M, NEW q \in Seq(M), NEW f
  PROVE  /\ IsFiniteSet({i \in DOMAIN q : q[i] = f}) /\ Times(q, f) \in Nat
         /\ DOMAIN q = 1..Len(q) /\ Len(q) \in Nat
         /\ q = <<>> => Times(q, f) = 0
<1>1. DOMAIN q = 1..Len(q) /\ Len(q) \in Nat
  OBVIOUS
<1>2. IsFiniteSet(DOMAIN q)
  BY <1>1, FS_Interval
<1>3. IsFiniteSet({i \in DOMAIN q : q[i] = f})
  BY <1>2, FS_Subset
<1>4. q = <<>> => {i \in DOMAIN q : q[i] = f} = {}
  BY <1>1
<1> QED BY <1>1, <1>3, <1>4, FS_CardinalityType, FS_EmptySet DEF Times

\* One message more, and one less.
LEMMA TimesAppended ==
  ASSUME NEW M, NEW q \in Seq(M), NEW m \in M, NEW f
  PROVE  Times(Append(q, m), f) = IF m = f THEN Times(q, f) + 1 ELSE Times(q, f)
<1> DEFINE r == Append(q, m)
           I == {i \in DOMAIN q : q[i] = f}
           J == {i \in DOMAIN r : r[i] = f}
<1>1. PICK n \in Nat : n = Len(q) /\ DOMAIN q = 1..n
  BY TimesType
<1>2. DOMAIN r = 1..(n + 1) /\ r[n + 1] = m /\ \A i \in 1..n : r[i] = q[i]
  BY <1>1
<1>3. IsFiniteSet(I) /\ n + 1 \notin I
  <2>1. IsFiniteSet(I)
    BY TimesType
  <2>2. n + 1 \notin 1..n
    OBVIOUS
  <2> QED BY <1>1, <2>1, <2>2
<1>4. J = IF m = f THEN I \cup {n + 1} ELSE I
  <2> HIDE DEF r
  <2>1. \A i : i \in 1..(n + 1) <=> i \in 1..n \/ i = n + 1
    OBVIOUS
  <2> QED BY <1>1, <1>2, <2>1
<1> QED BY <1>3, <1>4, FS_AddElement DEF Times

LEMMA TimesShifted ==
  ASSUME NEW M, NEW q \in Seq(M), q # <<>>, NEW f
  PROVE  Times(q, f) = IF Head(q) = f THEN Times(Tail(q), f) + 1 ELSE Times(Tail(q), f)
<1> DEFINE r == Tail(q)
           I == {i \in DOMAIN r : r[i] = f}
           J == {i \in DOMAIN q : q[i] = f}
           h == [i \in I |-> i + 1]
<1>1. PICK n \in Nat : Len(q) = n + 1 /\ Len(r) = n
  <2>1. PICK k \in Nat : k = Len(q)
    OBVIOUS
  <2>2. k # 0 /\ Len(r) = k - 1
    BY <2>1
  <2>3. k - 1 \in Nat /\ k = (k - 1) + 1
    BY <2>2
  <2> QED BY <2>1, <2>2, <2>3
<1>2. /\ DOMAIN q = 1..(n + 1) /\ DOMAIN r = 1..n /\ r \in Seq(M)
      /\ \A i \in 1..n : r[i] = q[i + 1]
      /\ Head(q) = q[1]
  BY <1>1
<1> HIDE DEF r
<1>3. IsFiniteSet(I)
  BY <1>2, TimesType
<1>4. h \in Bijection(I, J \ {1})
  <2>1. \A i \in I : i \in Nat /\ i + 1 \in J \ {1}
    BY <1>2
  <2>2. h \in [I -> J \ {1}] /\ \A i, j \in I : h[i] = h[j] => i = j
    BY <2>1
  <2>3. ASSUME NEW j \in J \ {1} PROVE \E i \in I : h[i] = j
    <3>1. j - 1 \in 1..n /\ (j - 1) + 1 = j
      BY <1>2
    <3>2. r[j - 1] = q[j]
      BY <1>2, <3>1
    <3>3. j - 1 \in I
      BY <1>2, <3>1, <3>2
    <3> QED BY <3>1, <3>3
  <2> QED BY <2>2, <2>3 DEF Bijection, Injection, Surjection, IsInjective
<1>5. IsFiniteSet(J \ {1}) /\ Cardinality(J \ {1}) = Cardinality(I)
  BY <1>3, <1>4, FS_Bijection DEF ExistsBijection
<1>6. J = IF Head(q) = f THEN (J \ {1}) \cup {1} ELSE J \ {1}
  BY <1>2
<1>7. Cardinality((J \ {1}) \cup {1}) = Cardinality(J \ {1}) + 1
  BY <1>5, FS_AddElement
<1>8. Cardinality(J) = IF Head(q) = f THEN Cardinality(I) + 1 ELSE Cardinality(I)
  BY <1>5, <1>6, <1>7
<1> QED BY <1>8 DEF Times, r

-----------------------------------------------------------------------------
(* The invariant of a scan.                                                *)

Threads ==
  /\ stack \in [Tids -> Seq(Calls)] /\ entry \in [Tids -> Paths \cup {None}]
  /\ \A t \in Tids : ThreadOK(step[t], stack[t], entry[t])

Work == [x \in Sites |-> Held(step[x[1]], stack[x[1]], entry[x[1]], x[2])]

Reports == [f \in Files |-> rows[f] + Times(queue, f)]

\* Messages wait during a scan only.
Window == rows \in [Files -> Nat] /\ (~isScanning => queue = <<>>)

Once ==
  /\ Apart(Work) /\ Owed(Work, Reports)
  /\ \A f \in Files : Reports[f] <= 1

\* Nothing is left to do for f.
Settled(f) ==
  \/ Cardinality(Above[f]) - 1 > MaxDepth
  \/ Reports[f] > 0 \/ f \in lost
  \/ skipped \cap (Above[f] \cup {f}) # {}

Covered ==
  isScanning /\ ~stopEvent => \A f \in PEFiles : Settled(f) \/ Pending(Work, f)

SInv == IInv /\ Threads /\ Window /\ Once /\ Covered

LEMMA ReportsType ==
  ASSUME IInv, Window
  PROVE  \A f \in Files : Reports[f] \in Nat /\ rows[f] \in Nat /\ Times(queue, f) \in Nat
<1>1. queue \in Seq(Files \cup {Complete}) /\ rows \in [Files -> Nat]
  BY DEF IInv, Types, Window
<1>2. \A f \in Files : Times(queue, f) \in Nat
  BY <1>1, TimesType
<1>3. \A f \in Files : rows[f] \in Nat
  BY <1>1
<1> QED BY <1>2, <1>3 DEF Reports

LEMMA InitSInv == Init => SInv
<1> SUFFICES ASSUME Init PROVE SInv
  OBVIOUS
<1>1. /\ step = [t \in Tids |-> "none"] /\ stack = [t \in Tids |-> <<>>]
      /\ entry = [t \in Tids |-> None] /\ rows = [f \in Files |-> 0]
      /\ queue = <<>> /\ isScanning = FALSE
  BY DEF Init, NoRows
<1>2. ThreadOK("none", <<>>, None) /\ \A i \in Nat : Held("none", <<>>, None, i) = {}
  <2>1. ThreadOK("none", <<>>, None)
    BY DEF ThreadOK, Steps, Resting, Holding
  <2> QED BY <2>1, Rests DEF Resting
<1>3. Threads
  <2>1. <<>> \in Seq(Calls)
    OBVIOUS
  <2> QED BY <1>1, <1>2, <2>1 DEF Threads
<1>4. Window
  BY <1>1 DEF Window
<1>5. \A x \in Sites : Work[x] = {}
  BY <1>1, <1>2 DEF Work, Sites
<1>6. \A f \in Files : Reports[f] = 0
  <2>1. queue \in Seq(Files)
    BY <1>1
  <2>2. \A f \in Files : Times(queue, f) = 0 /\ rows[f] = 0
    BY <1>1, <2>1, TimesType
  <2> QED BY <2>2 DEF Reports
<1>7. Once
  BY <1>5, <1>6 DEF Once, Apart, Owed
<1>8. Covered
  BY <1>1 DEF Covered
<1> QED BY <1>3, <1>4, <1>7, <1>8, InitIInv DEF SInv

-----------------------------------------------------------------------------
(* Steps of one thread.                                                    *)

LEMMA WorkAt ==
  /\ \A t \in Tids : \A i \in Nat : <<t, i>> \in Sites
       /\ Work[<<t, i>>] = Held(step[t], stack[t], entry[t], i)
       /\ Work'[<<t, i>>] = Held(step'[t], stack'[t], entry'[t], i)
  /\ \A x \in Sites : \E t \in Tids, i \in Nat : x = <<t, i>>
BY DEF Work, Sites

\* Thread t goes from where it is to q, with the calls l and the entry g.
LEMMA OneMoves ==
  ASSUME IInv, Threads, NEW t \in Tids, NEW q, NEW l, NEW g, ThreadOK(q, l, g),
         step' = [step EXCEPT ![t] = q], stack' = [stack EXCEPT ![t] = l],
         entry' = [entry EXCEPT ![t] = g]
  PROVE  /\ Threads'
         /\ \A i \in Nat : <<t, i>> \in Sites
              /\ Work[<<t, i>>] = Held(step[t], stack[t], entry[t], i)
              /\ Work'[<<t, i>>] = Held(q, l, g, i)
         /\ \A x \in Sites : (\E i \in Nat : x = <<t, i>>) \/ Work'[x] = Work[x]
<1>1. step'[t] = q /\ stack'[t] = l /\ entry'[t] = g
  BY DEF IInv, Types, Threads
<1>2. \A u \in Tids \ {t} : step'[u] = step[u] /\ stack'[u] = stack[u] /\ entry'[u] = entry[u]
  BY DEF IInv, Types, Threads
<1>3. Threads'
  <2>1. \A u \in Tids : ThreadOK(step'[u], stack'[u], entry'[u])
    BY <1>1, <1>2 DEF Threads
  <2>2. l \in Seq(Calls) /\ g \in Paths \cup {None}
    BY DEF ThreadOK
  <2>3. stack' \in [Tids -> Seq(Calls)] /\ entry' \in [Tids -> Paths \cup {None}]
    BY <2>2 DEF Threads
  <2> QED BY <2>1, <2>3 DEF Threads
<1>4. \A x \in Sites : (\E i \in Nat : x = <<t, i>>) \/ Work'[x] = Work[x]
  <2> SUFFICES ASSUME NEW u \in Tids, NEW i \in Nat, u # t
               PROVE  Work'[<<u, i>>] = Work[<<u, i>>]
    BY WorkAt
  <2> QED BY <1>2, WorkAt
<1> QED BY <1>1, <1>3, <1>4, WorkAt

\* The parts of the invariant that look at rows, queue and flags alone.
LEMMA SameReports ==
  ASSUME IInv, Window, isScanning, UNCHANGED <<rows, isScanning>>,
         \/ UNCHANGED queue
         \/ queue' = Append(queue, Complete)
  PROVE  Window' /\ Reports' = Reports
<1>1. queue \in Seq(Files \cup {Complete})
  BY DEF IInv, Types
<1>2. \A f \in Files : Times(queue', f) = Times(queue, f)
  <2>1. CASE UNCHANGED queue
    BY <2>1
  <2>2. CASE queue' = Append(queue, Complete)
    BY <1>1, <2>2, TimesAppended, TreeAssumption
  <2> QED BY <2>1, <2>2
<1>3. Reports' = Reports
  BY <1>2 DEF Reports
<1> QED BY <1>3 DEF Window

\* What is let go of, the set R, is settled.
LEMMA StaysCovered ==
  ASSUME IInv, Window, Covered, isScanning, UNCHANGED stopEvent,
         \A f \in Files : Reports'[f] \in Nat /\ Reports'[f] >= Reports[f],
         lost \subseteq lost', skipped \subseteq skipped', NEW R,
         \/ stopEvent
         \/ /\ \A x \in Sites : \A e \in Work[x] : e \in R \/ \E z \in Sites : e \in Work'[z]
            /\ \A e \in R : \A f \in PEFiles : f = e \/ f \in Under(e) => Settled(f)'
  PROVE  Covered'
<1> SUFFICES ASSUME ~stopEvent, NEW f \in PEFiles PROVE Settled(f)' \/ Pending(Work', f)
  BY DEF Covered
<1>1. f \in Files
  BY TreeAssumption
<1>2. CASE Settled(f)
  BY <1>1, <1>2, ReportsType DEF Settled
<1>3. CASE Pending(Work, f)
  BY <1>3, StillPending
<1> QED BY <1>2, <1>3 DEF Covered

\* Thread t goes on, and what it lets go of is settled.
LEMMA LetsGo ==
  ASSUME SInv, NEW t \in Tids, Alive(t), NEW q, NEW l, NEW g, ThreadOK(q, l, g),
         step' = [step EXCEPT ![t] = q], stack' = [stack EXCEPT ![t] = l],
         entry' = [entry EXCEPT ![t] = g],
         UNCHANGED <<rows, isScanning, stopEvent>>,
         UNCHANGED queue \/ queue' = Append(queue, Complete),
         lost \subseteq lost', skipped \subseteq skipped', NEW R,
         \A i \in Nat : Held(q, l, g, i) \subseteq Held(step[t], stack[t], entry[t], i),
         \/ stopEvent
         \/ /\ \A i \in Nat : Held(step[t], stack[t], entry[t], i) \subseteq Held(q, l, g, i) \cup R
            /\ \A e \in R : \A f \in PEFiles : f = e \/ f \in Under(e) => Settled(f)'
  PROVE  Threads' /\ Window' /\ Once' /\ Covered'
<1>0. IInv /\ Threads /\ Window /\ Once /\ Covered /\ isScanning
  BY DEF SInv, IInv, LastAlone
<1>1. /\ Threads'
      /\ \A i \in Nat : <<t, i>> \in Sites
              /\ Work[<<t, i>>] = Held(step[t], stack[t], entry[t], i)
              /\ Work'[<<t, i>>] = Held(q, l, g, i)
      /\ \A x \in Sites : (\E i \in Nat : x = <<t, i>>) \/ Work'[x] = Work[x]
  BY <1>0, OneMoves
<1>2. Window' /\ Reports' = Reports
  BY <1>0, SameReports
<1>3. \A x \in Sites : Work'[x] \subseteq Work[x]
  BY <1>1
<1>4. Apart(Work') /\ Owed(Work', Reports')
  BY <1>0, <1>2, <1>3, Dropped DEF Once
<1>5. Once'
  BY <1>0, <1>2, <1>4 DEF Once
<1>6. ~stopEvent => \A x \in Sites : \A e \in Work[x] : e \in R \/ \E z \in Sites : e \in Work'[z]
  BY <1>1
<1>7. \A f \in Files : Reports'[f] \in Nat /\ Reports'[f] >= Reports[f]
  BY <1>0, <1>2, ReportsType
<1>8. Covered'
  BY <1>0, <1>6, <1>7, StaysCovered
<1> QED BY <1>1, <1>2, <1>5, <1>8

\* What the invariant says of a living thread.
LEMMA Here ==
  ASSUME SInv, NEW t \in Tids, Alive(t)
  PROVE  /\ IInv /\ Threads /\ Window /\ Once /\ Covered /\ isScanning
         /\ ThreadOK(step[t], stack[t], entry[t]) /\ Call(t) = Top(stack[t])
         /\ step \in [Tids -> Steps] /\ stack \in [Tids -> Seq(Calls)]
         /\ entry = [entry EXCEPT ![t] = entry[t]]
         /\ stack = [stack EXCEPT ![t] = stack[t]]
BY DEF SInv, Threads, IInv, Types, LastAlone, Call, Top

\* A file below d is no directory, and has d above it.
LEMMA FileBelow ==
  ASSUME NEW d \in Dirs, NEW f \in PEFiles, f = d \/ f \in Under(d)
  PROVE  f \in Files /\ f # d /\ f \in Under(d) /\ d \in Above[f]
<1>1. f \in Files /\ f # d /\ d \in Paths
  BY TreeAssumption DEF Paths
<1> QED BY <1>1, Deeper

\* One lemma per action.
LEMMA OpenDirectoryInv ==
  ASSUME SInv, NEW t \in Tids, OpenDirectory(t)
  PROVE  Threads' /\ Window' /\ Once' /\ Covered'
<1>1. /\ step[t] = "open" /\ Alive(t)
      /\ UNCHANGED <<sharedVars, totalScanned, queue, windowVars, lost>>
  BY DEF OpenDirectory, Alive
<1>2. /\ IInv /\ Threads /\ Window /\ Once /\ Covered /\ isScanning
      /\ ThreadOK("open", stack[t], entry[t]) /\ Call(t) = Top(stack[t])
      /\ entry = [entry EXCEPT ![t] = entry[t]]
  BY <1>1, Here
<1>3. UNCHANGED <<rows, isScanning, stopEvent, queue, lost>>
  BY <1>1 DEF sharedVars, windowVars
<1> DEFINE k == stack[t]
           e == entry[t]
           d == Top(k).dir
<1>4. d \in Dirs /\ Len(k) \in Nat \ {0}
  BY <1>2, Opens
<1>5. ASSUME Return(t), skipped \subseteq skipped', stopEvent \/ d \in skipped'
      PROVE  Threads' /\ Window' /\ Once' /\ Covered'
  <2> DEFINE q == IF Len(k) = 1 THEN "release" ELSE "check"
             l == SubSeq(k, 1, Len(k) - 1)
  <2>1. step' = [step EXCEPT ![t] = q] /\ stack' = [stack EXCEPT ![t] = l] /\ entry' = entry
    BY <1>5 DEF Return, Goto
  <2>2. /\ ThreadOK(q, l, e)
        /\ \A i \in Nat : Held(q, l, e, i) \subseteq Held("open", k, e, i)
        /\ \A i \in Nat \ {0, Len(k)} : Held(q, l, e, i) = Held("open", k, e, i)
    BY <1>2, Returns
  <2>3. Held("open", k, e, 0) = {d} /\ Held("open", k, e, Len(k)) = {}
    BY <1>2, Opens
  <2>4. \A i \in Nat : Held("open", k, e, i) \subseteq Held(q, l, e, i) \cup {d}
    BY <2>2, <2>3
  <2>5. ~stopEvent => \A f \in PEFiles : f = d \/ f \in Under(d) => Settled(f)'
    BY <1>4, <1>5, FileBelow DEF Settled
  <2> DEFINE R == {d}
  <2>6. \A c \in R : \A f \in PEFiles : stopEvent \/ (f = c \/ f \in Under(c) => Settled(f)')
    BY <2>5
  <2>7. /\ \A i \in Nat : Held(q, l, e, i) \subseteq Held(step[t], stack[t], entry[t], i)
        /\ \A i \in Nat : Held(step[t], stack[t], entry[t], i) \subseteq Held(q, l, e, i) \cup R
    BY <1>1, <2>2, <2>4
  <2>8. entry' = [entry EXCEPT ![t] = e]
    BY <1>2, <2>1
  <2> HIDE DEF q, l, k, e, d, R
  <2>9. lost \subseteq lost' /\ skipped \subseteq skipped' /\ UNCHANGED queue
    BY <1>3, <1>5
  <2>10. \/ stopEvent
         \/ /\ \A i \in Nat : Held(step[t], stack[t], entry[t], i) \subseteq Held(q, l, e, i) \cup R
            /\ \A c \in R : \A f \in PEFiles : f = c \/ f \in Under(c) => Settled(f)'
    BY <2>6, <2>7
  <2> QED BY <1>1, <1>3, <2>1, <2>2, <2>7, <2>8, <2>9, <2>10, LetsGo
<1>6. CASE stopEvent /\ Return(t) /\ UNCHANGED skipped
  BY <1>5, <1>6
<1>7. CASE ~stopEvent /\ skipped' = skipped \cup {Call(t).dir} /\ Return(t)
  BY <1>2, <1>5, <1>7
<1>8. CASE /\ ~stopEvent
           /\ stack' = [stack EXCEPT ![t][Len(stack[t])].left = Entries(Call(t).dir)]
           /\ Goto(t, "check")
           /\ UNCHANGED <<entry, owns, skipped>>
  <2> DEFINE l == SetLeft(k, Entries(d))
  <2>1. /\ step' = [step EXCEPT ![t] = "check"] /\ stack' = [stack EXCEPT ![t] = l]
        /\ entry' = [entry EXCEPT ![t] = e]
    BY <1>2, <1>8 DEF Goto, SetLeft
  <2>2. /\ ThreadOK("check", l, e)
        /\ Held("open", k, e, 0) = {d} /\ Held("check", l, e, 0) = {}
        /\ Held("open", k, e, Len(k)) = {} /\ Held("check", l, e, Len(k)) = Entries(d)
        /\ \A i \in Nat \ {0, Len(k)} : Held("check", l, e, i) = Held("open", k, e, i)
    BY <1>2, Opens
  <2> HIDE DEF l
  <2>3. /\ Threads'
        /\ \A i \in Nat : <<t, i>> \in Sites
              /\ Work[<<t, i>>] = Held(step[t], stack[t], entry[t], i)
              /\ Work'[<<t, i>>] = Held("check", l, e, i)
        /\ \A x \in Sites : (\E i \in Nat : x = <<t, i>>) \/ Work'[x] = Work[x]
    BY <1>2, <2>1, <2>2, OneMoves
  <2> DEFINE x == <<t, Len(k)>>
             y == <<t, 0>>
  <2>4. /\ x \in Sites /\ y \in Sites /\ x # y
        /\ Work[y] = {d} /\ Work'[y] = {} /\ Work[x] = {} /\ Work'[x] = Entries(d)
    BY <1>1, <1>4, <2>2, <2>3
  <2>5. \A z \in Sites \ {x, y} : Work'[z] = Work[z]
    BY <1>1, <2>2, <2>3
  <2>6. Window' /\ Reports' = Reports
    BY <1>2, <1>3, SameReports
  <2> HIDE DEF x, y, d, k, e
  <2>7. Apart(Work') /\ Owed(Work', Reports)
    <3>1. d \in Work[y] /\ Work'[x] \subseteq Entries(d) /\ \A z \in Sites \ {x, y} : Work'[z] \subseteq Work[z]
      BY <2>4, <2>5
    <3> QED BY <1>2, <1>4, <2>4, <3>1, Listed DEF Once
  <2>8. Once'
    BY <1>2, <2>6, <2>7 DEF Once
  <2>9. ASSUME NEW f \in PEFiles, Pending(Work, f) PROVE Pending(Work', f)
    <3>1. PICK z \in Sites : \E c \in Work[z] : f = c \/ f \in Under(c)
      BY <2>9 DEF Pending
    <3>2. CASE z = y
      <4>1. f \in Under(d)
        BY <1>4, <2>4, <3>1, <3>2, FileBelow
      <4>2. \E c \in Work'[x] : f = c \/ f \in Under(c)
        BY <2>4, <4>1, UnderSplits
      <4> QED BY <2>4, <4>2 DEF Pending
    <3>3. CASE z # y
      BY <2>4, <2>5, <3>1, <3>3 DEF Pending
    <3> QED BY <3>2, <3>3
  <2>10. Covered'
    <3>1. \A f \in PEFiles : Settled(f) => Settled(f)'
      BY <1>3, <1>8, <2>6 DEF Settled
    <3> QED BY <1>2, <1>3, <2>9, <3>1 DEF Covered
  <2> QED BY <2>3, <2>6, <2>8, <2>10
<1> QED BY <1>6, <1>7, <1>8 DEF OpenDirectory

LEMMA LeaveInv ==
  ASSUME SInv, NEW t \in Tids, Leave(t)
  PROVE  Threads' /\ Window' /\ Once' /\ Covered'
<1>1. /\ step[t] = "check" /\ Alive(t) /\ Return(t)
      /\ stopEvent \/ Call(t).left = {} \/ Call(t).dir \in skipped'
      /\ skipped \subseteq skipped'
      /\ UNCHANGED <<sharedVars, totalScanned, queue, windowVars, lost>>
  BY DEF Leave, Alive
<1>2. /\ ThreadOK("check", stack[t], entry[t]) /\ Call(t) = Top(stack[t])
      /\ entry = [entry EXCEPT ![t] = entry[t]]
  BY <1>1, Here
<1>3. UNCHANGED <<rows, isScanning, stopEvent, queue, lost>>
  BY <1>1 DEF sharedVars, windowVars
<1> DEFINE k == stack[t]
           e == entry[t]
           q == IF Len(k) = 1 THEN "release" ELSE "check"
           l == SubSeq(k, 1, Len(k) - 1)
<1>4. step' = [step EXCEPT ![t] = q] /\ stack' = [stack EXCEPT ![t] = l] /\ entry' = entry
  BY <1>1 DEF Return, Goto
<1>5. /\ ThreadOK(q, l, e)
      /\ \A i \in Nat : Held(q, l, e, i) \subseteq Held("check", k, e, i)
      /\ \A i \in Nat \ {0, Len(k)} : Held(q, l, e, i) = Held("check", k, e, i)
  BY <1>2, Returns
<1>6. /\ Held("check", k, e, 0) = {} /\ Held("check", k, e, Len(k)) = Call(t).left
      /\ Call(t).dir \in Dirs /\ Call(t).left \subseteq Entries(Call(t).dir)
  <2>1. k \in Seq(Calls) /\ k # <<>>
    BY <1>2 DEF ThreadOK, Resting
  <2>2. Len(k) \in 1..Len(k) /\ Len(k) # 0 /\ Top(k) \in Calls
    BY <2>1, TopCall
  <2>3. CallOK(Top(k))
    BY <1>2, <2>2 DEF ThreadOK, Top
  <2> QED BY <1>2, <2>2, <2>3, CallFields DEF Held, Holding, Top, CallOK
<1> DEFINE d == Call(t).dir
           R == Call(t).left
<1>7. /\ \A i \in Nat : Held(q, l, e, i) \subseteq Held(step[t], stack[t], entry[t], i)
      /\ \A i \in Nat : Held(step[t], stack[t], entry[t], i) \subseteq Held(q, l, e, i) \cup R
  BY <1>1, <1>5, <1>6
<1>8. entry' = [entry EXCEPT ![t] = e]
  BY <1>2, <1>4
\* What a listing that ends early leaves behind lies below a directory that is recorded.
<1>9. stopEvent \/ \A c \in R : \A f \in PEFiles : f = c \/ f \in Under(c) => Settled(f)'
  <2> SUFFICES ASSUME ~stopEvent, NEW c \in R, NEW f \in PEFiles, f = c \/ f \in Under(c)
               PROVE  Settled(f)'
    OBVIOUS
  <2>1. c \in Entries(d) /\ d \in Dirs /\ d \in skipped'
    BY <1>1, <1>6
  <2>2. f \in Under(d)
    BY <2>1, UnderIsLeast, UnderChild
  <2>3. d \in Above[f]
    BY <2>1, <2>2, FileBelow
  <2> QED BY <2>1, <2>3 DEF Settled
<1> HIDE DEF q, l, k, e, d, R
<1>10. \/ stopEvent
       \/ /\ \A i \in Nat : Held(step[t], stack[t], entry[t], i) \subseteq Held(q, l, e, i) \cup R
          /\ \A c \in R : \A f \in PEFiles : f = c \/ f \in Under(c) => Settled(f)'
  BY <1>7, <1>9
<1>11. /\ UNCHANGED <<rows, isScanning, stopEvent, queue>>
       /\ lost \subseteq lost' /\ skipped \subseteq skipped'
  BY <1>1, <1>3
<1>12. \A i \in Nat : Held(q, l, e, i) \subseteq Held(step[t], stack[t], entry[t], i)
  BY <1>7
<1>13. Alive(t) /\ ThreadOK(q, l, e)
  BY <1>1, <1>5
<1> QED BY <1>4, <1>8, <1>10, <1>11, <1>12, <1>13, LetsGo

LEMMA NextEntryInv ==
  ASSUME SInv, NEW t \in Tids, NextEntry(t)
  PROVE  Threads' /\ Window' /\ Once' /\ Covered'
<1>1. /\ step[t] = "check" /\ Alive(t)
      /\ UNCHANGED <<owns, sharedVars, totalScanned, queue, windowVars, skipped, lost>>
  BY DEF NextEntry, Alive
<1>2. /\ IInv /\ Threads /\ Window /\ Once /\ Covered /\ isScanning
      /\ ThreadOK("check", stack[t], entry[t]) /\ Call(t) = Top(stack[t])
  BY <1>1, Here
<1>3. UNCHANGED <<rows, isScanning, stopEvent, queue, skipped, lost>>
  BY <1>1 DEF sharedVars, windowVars
<1>4. PICK c \in Call(t).left :
        /\ stack' = [stack EXCEPT ![t][Len(stack[t])].left = @ \ {c}]
        /\ entry' = [entry EXCEPT ![t] = c]
        /\ Goto(t, IF c \in Files THEN "file" ELSE "subdir")
  BY DEF NextEntry
<1> DEFINE k == stack[t]
           e == entry[t]
           q == IF c \in Files THEN "file" ELSE "subdir"
           l == SetLeft(k, Top(k).left \ {c})
<1>5. /\ step' = [step EXCEPT ![t] = q] /\ stack' = [stack EXCEPT ![t] = l]
  BY <1>4 DEF Goto, Top, SetLeft
<1>6. /\ ThreadOK(q, l, c)
      /\ Len(k) \in Nat \ {0}
      /\ Held("check", k, e, 0) = {} /\ Held(q, l, c, 0) = {c}
      /\ c \in Held("check", k, e, Len(k))
      /\ Held(q, l, c, Len(k)) = Held("check", k, e, Len(k)) \ {c}
      /\ \A i \in Nat \ {0, Len(k)} : Held(q, l, c, i) = Held("check", k, e, i)
  <2>1. c \in Top(k).left /\ ThreadOK("check", k, e)
    BY <1>2, <1>4
  <2> HIDE DEF k, e
  <2>2. ThreadOK(q, l, c)
    BY <2>1, Takes
  <2>3. /\ Len(k) \in Nat \ {0}
      /\ Held("check", k, e, 0) = {} 
      /\ c \in Held("check", k, e, Len(k))
    BY <2>1, Takes
  <2>4. Held(q, l, c, 0) = {c}
    BY <2>1, Takes
  <2>5. Held(q, l, c, Len(k)) = Held("check", k, e, Len(k)) \ {c}
    BY <2>1, Takes
  <2>6. \A i \in Nat \ {0, Len(k)} : Held(q, l, c, i) = Held("check", k, e, i)
    BY <2>1, Takes
  <2> QED BY <2>2, <2>3, <2>4, <2>5, <2>6
<1> HIDE DEF q, l
<1>7. /\ Threads'
      /\ \A i \in Nat : <<t, i>> \in Sites
              /\ Work[<<t, i>>] = Held(step[t], stack[t], entry[t], i)
              /\ Work'[<<t, i>>] = Held(q, l, c, i)
      /\ \A x \in Sites : (\E i \in Nat : x = <<t, i>>) \/ Work'[x] = Work[x]
  BY <1>2, <1>4, <1>5, <1>6, OneMoves
<1> DEFINE x == <<t, 0>>
           y == <<t, Len(k)>>
<1>8. /\ x \in Sites /\ y \in Sites /\ x # y
      /\ Work[x] = {} /\ Work'[x] = {c} /\ c \in Work[y] /\ Work'[y] = Work[y] \ {c}
  BY <1>1, <1>6, <1>7
<1>9. \A z \in Sites \ {x, y} : Work'[z] = Work[z]
  BY <1>1, <1>6, <1>7
<1>10. Window' /\ Reports' = Reports
  BY <1>2, <1>3, SameReports
<1> HIDE DEF x, y
<1>11. Apart(Work') /\ Owed(Work', Reports)
  <2>1. /\ Work'[x] \cup Work'[y] \subseteq Work[x] \cup Work[y] /\ Work'[x] \cap Work'[y] = {}
        /\ \A z \in Sites \ {x, y} : Work'[z] \subseteq Work[z]
    BY <1>8, <1>9
  <2>2. Apart(Work) /\ Owed(Work, Reports)
    BY <1>2 DEF Once
  <2> DEFINE V == Work'
  <2> HIDE DEF V
  <2> SUFFICES Apart(V) /\ Owed(V, Reports)
    BY DEF V
  <2>3. /\ V[x] \cup V[y] \subseteq Work[x] \cup Work[y] /\ V[x] \cap V[y] = {}
        /\ \A z \in Sites \ {x, y} : V[z] \subseteq Work[z]
    BY <2>1 DEF V
  <2> QED BY <1>8, <2>2, <2>3, Handed
<1>12. Once'
  BY <1>2, <1>10, <1>11 DEF Once
<1> DEFINE R == {}
<1>13. \A z \in Sites : \A d \in Work[z] : d \in R \/ \E o \in Sites : d \in Work'[o]
  BY <1>8, <1>9
<1>14. Covered'
  <2>1. \A f \in Files : Reports'[f] \in Nat /\ Reports'[f] >= Reports[f]
    BY <1>2, <1>10, ReportsType
  <2>2. \A d \in R : \A f \in PEFiles : f = d \/ f \in Under(d) => Settled(f)'
    OBVIOUS
  <2> HIDE DEF R
  <2> QED BY <1>2, <1>3, <1>13, <2>1, <2>2, StaysCovered
<1> QED BY <1>7, <1>10, <1>12, <1>14

\* Thread t goes on and has the same to do.
LEMMA Keeps ==
  ASSUME SInv, NEW t \in Tids, Alive(t), NEW q, NEW l, NEW g, ThreadOK(q, l, g),
         step' = [step EXCEPT ![t] = q], stack' = [stack EXCEPT ![t] = l],
         entry' = [entry EXCEPT ![t] = g],
         UNCHANGED <<rows, isScanning, stopEvent>>,
         UNCHANGED queue \/ queue' = Append(queue, Complete),
         lost \subseteq lost', skipped \subseteq skipped',
         \A i \in Nat : Held(q, l, g, i) \subseteq Held(step[t], stack[t], entry[t], i),
         \A i \in Nat : Held(step[t], stack[t], entry[t], i) \subseteq Held(q, l, g, i)
  PROVE  Threads' /\ Window' /\ Once' /\ Covered'
<1> DEFINE R == {}
<1>1. /\ \A i \in Nat : Held(step[t], stack[t], entry[t], i) \subseteq Held(q, l, g, i) \cup R
      /\ \A e \in R : \A f \in PEFiles : f = e \/ f \in Under(e) => Settled(f)'
  OBVIOUS
<1> HIDE DEF R
<1> QED BY <1>1, LetsGo

\* It goes from one step to the next of the same entry, or of its end.
LEMMA KeepsPlace ==
  ASSUME SInv, NEW t \in Tids, NEW q,
         \/ step[t] = "subdir" /\ q = "count" /\ Call(t).depth < MaxDepth
         \/ step[t] = "count" /\ q = "create"
         \/ step[t] = "create" /\ q = "giveback"
         \/ step[t] = "giveback" /\ q = "uncount"
         \/ step[t] = "release" /\ q = "finish"
         \/ step[t] = "finish" /\ q = "post",
         step' = [step EXCEPT ![t] = q],
         UNCHANGED <<stack, entry, rows, isScanning, stopEvent, queue, lost, skipped>>
  PROVE  Threads' /\ Window' /\ Once' /\ Covered'
<1>1. Alive(t) /\ q # "check"
  BY DEF Alive
<1>2. /\ ThreadOK(step[t], stack[t], entry[t]) /\ Call(t) = Top(stack[t])
      /\ entry = [entry EXCEPT ![t] = entry[t]] /\ stack = [stack EXCEPT ![t] = stack[t]]
  BY <1>1, Here
<1>3. /\ ThreadOK(q, stack[t], entry[t])
      /\ \A i \in Nat : Held(q, stack[t], entry[t], i) = Held(step[t], stack[t], entry[t], i)
  <2> DEFINE p == step[t]
             k == stack[t]
             e == entry[t]
  <2>1. \/ p = "subdir" /\ q = "count" /\ Top(k).depth < MaxDepth
        \/ p = "count" /\ q = "create"
        \/ p = "create" /\ q = "giveback"
        \/ p = "giveback" /\ q = "uncount"
        \/ p = "release" /\ q = "finish"
        \/ p = "finish" /\ q = "post"
    BY <1>2
  <2>2. ThreadOK(p, k, e)
    BY <1>2
  <2> HIDE DEF p, k, e
  <2>3. /\ ThreadOK(q, k, e)
        /\ q # "check" => \A i \in Nat : Held(q, k, e, i) = Held(p, k, e, i)
    BY <2>1, <2>2, Goes
  <2> QED BY <1>1, <2>3 DEF p, k, e
<1> DEFINE k == stack[t]
           e == entry[t]
<1>4. /\ ThreadOK(q, k, e)
      /\ \A i \in Nat : Held(q, k, e, i) \subseteq Held(step[t], stack[t], entry[t], i)
      /\ \A i \in Nat : Held(step[t], stack[t], entry[t], i) \subseteq Held(q, k, e, i)
      /\ stack' = [stack EXCEPT ![t] = k] /\ entry' = [entry EXCEPT ![t] = e]
  BY <1>2, <1>3
<1> HIDE DEF k, e
<1>5. /\ UNCHANGED <<rows, isScanning, stopEvent, queue>>
      /\ lost \subseteq lost' /\ skipped \subseteq skipped'
  OBVIOUS
<1> QED BY <1>1, <1>4, <1>5, Keeps

LEMMA ScanFileInv ==
  ASSUME SInv, NEW t \in Tids, ScanFile(t)
  PROVE  Threads' /\ Window' /\ Once' /\ Covered'
<1> DEFINE k == stack[t]
           e == entry[t]
<1>1. /\ step[t] = "file" /\ Alive(t) /\ step' = [step EXCEPT ![t] = "check"]
      /\ UNCHANGED <<stack, entry, rows, isScanning, stopEvent>>
  BY DEF ScanFile, Alive, Goto, sharedVars, windowVars
<1>2. /\ IInv /\ Threads /\ Window /\ Once /\ Covered /\ isScanning
      /\ ThreadOK("file", k, e)
      /\ entry' = [entry EXCEPT ![t] = e] /\ stack' = [stack EXCEPT ![t] = k]
  BY <1>1, Here
<1>3. /\ ThreadOK("check", k, e)
      /\ \A i \in Nat : Held("check", k, e, i) \subseteq Held("file", k, e, i)
      /\ \A i \in Nat \ {0} : Held("check", k, e, i) = Held("file", k, e, i)
      /\ Held("file", k, e, 0) = {e} /\ Held("check", k, e, 0) = {}
  BY <1>2, Goes
<1>4. e \in Files /\ \A f : f \in Under(e) => FALSE
  BY <1>2, FilesAreLeaves DEF ThreadOK
<1>5. ASSUME UNCHANGED queue, lost \subseteq lost', skipped \subseteq skipped',
             e \in PEFiles => e \in lost' \cup skipped'
      PROVE  Threads' /\ Window' /\ Once' /\ Covered'
  <2> DEFINE R == {e}
  <2>1. /\ \A i \in Nat : Held("check", k, e, i) \subseteq Held(step[t], stack[t], entry[t], i)
        /\ \A i \in Nat : Held(step[t], stack[t], entry[t], i) \subseteq Held("check", k, e, i) \cup R
    BY <1>1, <1>3
  <2>2. \A c \in R : \A f \in PEFiles : f = c \/ f \in Under(c) => Settled(f)'
    BY <1>4, <1>5 DEF Settled
  <2> HIDE DEF R, k, e
  <2> QED BY <1>1, <1>2, <1>3, <1>5, <2>1, <2>2, LetsGo
<1>6. ASSUME queue' = Append(queue, e), UNCHANGED <<lost, skipped>>
      PROVE  Threads' /\ Window' /\ Once' /\ Covered'
  <2>1. /\ Threads'
        /\ \A i \in Nat : <<t, i>> \in Sites
              /\ Work[<<t, i>>] = Held(step[t], stack[t], entry[t], i)
              /\ Work'[<<t, i>>] = Held("check", k, e, i)
        /\ \A x \in Sites : (\E i \in Nat : x = <<t, i>>) \/ Work'[x] = Work[x]
    <3>1. /\ IInv /\ Threads /\ ThreadOK("check", k, e)
          /\ step' = [step EXCEPT ![t] = "check"] /\ stack' = [stack EXCEPT ![t] = k]
          /\ entry' = [entry EXCEPT ![t] = e]
      BY <1>1, <1>2, <1>3
    <3> HIDE DEF k, e
    <3> QED BY <3>1, OneMoves
  <2> DEFINE y == <<t, 0>>
  <2>2. y \in Sites /\ Work[y] = {e} /\ Work'[y] = {}
    BY <1>1, <1>3, <2>1
  <2>3. \A z \in Sites \ {y} : Work'[z] = Work[z]
    BY <1>1, <1>3, <2>1
  <2>4. \A f \in Files : Reports'[f] = IF f = e THEN Reports[f] + 1 ELSE Reports[f]
    <3>1. queue \in Seq(Files \cup {Complete})
      BY <1>2 DEF IInv, Types
    <3>2. \A f \in Files : Times(queue', f) = IF f = e THEN Times(queue, f) + 1 ELSE Times(queue, f)
      BY <1>4, <1>6, <3>1, TimesAppended
    <3>3. \A f \in Files : Reports[f] = rows[f] + Times(queue, f)
                        /\ Reports'[f] = rows[f] + Times(queue', f)
      BY <1>1 DEF Reports
    <3>4. \A f \in Files : rows[f] \in Nat /\ Times(queue, f) \in Nat
      BY <1>2, ReportsType
    <3> HIDE DEF e
    <3> QED BY <3>2, <3>3, <3>4
  <2> HIDE DEF y, k, e
  <2>5. Apart(Work') /\ Owed(Work', Reports') /\ Reports[e] = 0
    <3>1. /\ e \in Work[y] /\ \A z \in Sites \ {y} : Work'[z] \subseteq Work[z]
          /\ \A f \in Files \ {e} : Reports'[f] = Reports[f]
      BY <2>2, <2>3, <2>4
    <3>2. Apart(Work) /\ Owed(Work, Reports)
      BY <1>2 DEF Once
    <3> DEFINE V == Work'
               D == Reports'
    <3>3. /\ V[y] = {} /\ \A z \in Sites \ {y} : V[z] \subseteq Work[z]
          /\ \A f \in Files \ {e} : D[f] = Reports[f]
      BY <2>2, <3>1
    <3> HIDE DEF V, D
    <3>4. Apart(V) /\ Owed(V, D) /\ Reports[e] = 0
      BY <1>4, <2>2, <3>1, <3>2, <3>3, Reported
    <3> QED BY <3>4 DEF V, D
  <2>6. Once'
    <3>1. \A f \in Files : Reports'[f] <= 1
      BY <1>2, <2>4, <2>5 DEF Once
    <3> QED BY <2>5, <3>1 DEF Once
  <2>7. Window'
    BY <1>1, <1>2 DEF Window
  <2>8. Covered'
    <3> DEFINE R == {e}
    <3>1. \A f \in Files : Reports[f] \in Nat
      BY <1>2, ReportsType
    <3>2. \A f \in Files : Reports'[f] \in Nat /\ Reports'[f] >= Reports[f]
      BY <2>4, <3>1
    <3>3. \A c \in R : \A f \in PEFiles : f = c \/ f \in Under(c) => Settled(f)'
      BY <1>4, <2>4, <2>5 DEF Settled
    <3>4. \A x \in Sites : \A d \in Work[x] : d \in R \/ \E z \in Sites : d \in Work'[z]
      BY <2>2, <2>3
    <3> HIDE DEF R
    <3>5. lost \subseteq lost' /\ skipped \subseteq skipped' /\ UNCHANGED stopEvent
      BY <1>1, <1>6
    <3> QED BY <1>2, <3>2, <3>3, <3>4, <3>5, StaysCovered
  <2> QED BY <2>1, <2>6, <2>7, <2>8
<1>7. CASE entry[t] \in PEFiles /\ Post(entry[t]) /\ UNCHANGED skipped
  <2>1. CASE queue' = Append(queue, e) /\ UNCHANGED lost
    BY <1>6, <1>7, <2>1
  <2>2. CASE lost' = lost \cup {e} /\ UNCHANGED queue
    BY <1>5, <1>7, <2>2
  <2> QED BY <1>7, <2>1, <2>2 DEF Post
<1>8. CASE skipped' = skipped \cup {entry[t]} /\ UNCHANGED <<queue, lost>>
  BY <1>5, <1>8
<1>9. CASE entry[t] \notin PEFiles /\ UNCHANGED <<queue, lost, skipped>>
  BY <1>5, <1>9
<1> QED BY <1>7, <1>8, <1>9 DEF ScanFile

LEMMA TooDeepInv ==
  ASSUME SInv, NEW t \in Tids, TooDeep(t)
  PROVE  Threads' /\ Window' /\ Once' /\ Covered'
<1> DEFINE k == stack[t]
           e == entry[t]
           R == {e}
<1>1. /\ step[t] = "subdir" /\ Alive(t) /\ step' = [step EXCEPT ![t] = "check"]
      /\ Call(t).depth >= MaxDepth
      /\ UNCHANGED <<stack, entry, rows, isScanning, stopEvent, queue, lost, skipped>>
  BY DEF TooDeep, Alive, Goto, sharedVars, windowVars
<1>2. /\ ThreadOK("subdir", k, e) /\ Call(t) = Top(k)
      /\ entry' = [entry EXCEPT ![t] = e] /\ stack' = [stack EXCEPT ![t] = k]
  BY <1>1, Here
<1>3. /\ ThreadOK("check", k, e)
      /\ \A i \in Nat : Held("check", k, e, i) \subseteq Held("subdir", k, e, i)
      /\ \A i \in Nat \ {0} : Held("check", k, e, i) = Held("subdir", k, e, i)
      /\ Held("subdir", k, e, 0) = {e} /\ Held("check", k, e, 0) = {}
  BY <1>2, Goes
<1>4. /\ \A i \in Nat : Held("check", k, e, i) \subseteq Held(step[t], stack[t], entry[t], i)
      /\ \A i \in Nat : Held(step[t], stack[t], entry[t], i) \subseteq Held("check", k, e, i) \cup R
  BY <1>1, <1>3
<1>5. k \in Seq(Calls) /\ k # <<>> /\ e \in Entries(Top(k).dir) /\ e \in Dirs
  BY <1>2 DEF ThreadOK, Resting, Holding
<1>6. Top(k) \in Calls /\ CallOK(Top(k))
  BY <1>2, <1>5, TopCall DEF ThreadOK, Top
<1>7. ASSUME NEW f \in PEFiles, f = e \/ f \in Under(e) PROVE Cardinality(Above[f]) - 1 > MaxDepth
  <2>1. f \in Under(e) /\ e \in Paths /\ f \in Paths
    BY <1>5, <1>7, FileBelow, ParentUnder DEF Paths
  <2>2. Cardinality(Above[f]) >= Cardinality(Above[e]) + 1
    BY <2>1, Deeper
  <2>3. e \in Paths \ {Root} /\ Parent[e] = Top(k).dir
    BY <1>5, ParentOfEntry
  <2>4. Cardinality(Above[e]) = Cardinality(Above[Top(k).dir]) + 1
    BY <2>3, AboveFinite
  <2>5. Top(k).depth = Cardinality(Above[Top(k).dir]) /\ Top(k).depth \in Nat
    BY <1>6, CallFields DEF CallOK
  <2>6. Cardinality(Above[f]) \in Nat /\ MaxDepth \in Nat /\ Top(k).depth >= MaxDepth
    BY <1>1, <1>2, <2>1, AboveFinite, LimitsAssumption
  <2> HIDE DEF k, e
  <2> QED BY <2>2, <2>4, <2>5, <2>6
<1>8. \A c \in R : \A f \in PEFiles : f = c \/ f \in Under(c) => Settled(f)'
  BY <1>7 DEF Settled
<1>9. lost \subseteq lost' /\ skipped \subseteq skipped' /\ UNCHANGED <<rows, isScanning, stopEvent, queue>>
  BY <1>1
<1> HIDE DEF R, k, e
<1> QED BY <1>1, <1>2, <1>3, <1>4, <1>8, <1>9, LetsGo

LEMMA RecurseGoesDown ==
  ASSUME SInv, NEW t \in Tids, Recurse(t), step[t] \in {"subdir", "uncount"},
         Call(t).depth < MaxDepth,
         UNCHANGED <<rows, isScanning, stopEvent, queue, lost, skipped>>
  PROVE  Threads' /\ Window' /\ Once' /\ Covered'
<1> DEFINE k == stack[t]
           e == entry[t]
           p == step[t]
           l == Append(k, Frame(e, Top(k).depth + 1))
<1>1. Alive(t)
  BY DEF Alive
<1>2. /\ ThreadOK(p, k, e) /\ Call(t) = Top(k) /\ entry = [entry EXCEPT ![t] = e]
  BY <1>1, Here
<1>3. /\ step' = [step EXCEPT ![t] = "open"] /\ stack' = [stack EXCEPT ![t] = l]
      /\ entry' = [entry EXCEPT ![t] = e]
  BY <1>2 DEF Recurse, Goto
<1>4. /\ ThreadOK("open", l, e)
      /\ \A i \in Nat : Held("open", l, e, i) = Held(p, k, e, i)
  <2>1. p \in {"subdir", "uncount"} /\ Top(k).depth < MaxDepth
    BY <1>2
  <2> HIDE DEF p, k, e
  <2> QED BY <1>2, <2>1, Recurses
<1>5. /\ \A i \in Nat : Held("open", l, e, i) \subseteq Held(step[t], stack[t], entry[t], i)
      /\ \A i \in Nat : Held(step[t], stack[t], entry[t], i) \subseteq Held("open", l, e, i)
  BY <1>4
<1>6. lost \subseteq lost' /\ skipped \subseteq skipped'
  OBVIOUS
<1> HIDE DEF k, e, p, l
<1> QED BY <1>1, <1>3, <1>4, <1>5, <1>6, Keeps

LEMMA EndedInv ==
  ASSUME SInv, NEW t \in Tids, Ended(t), step[t] \in {"finish", "post"},
         UNCHANGED <<rows, isScanning, stopEvent, skipped>>, lost \subseteq lost',
         UNCHANGED queue \/ queue' = Append(queue, Complete)
  PROVE  Threads' /\ Window' /\ Once' /\ Covered'
<1> DEFINE k == stack[t]
           e == entry[t]
           p == step[t]
<1>1. Alive(t)
  BY DEF Alive
<1>2. /\ ThreadOK(p, k, e) /\ stack = [stack EXCEPT ![t] = k] /\ p \in Resting
  BY <1>1, Here DEF Resting
<1>3. /\ step' = [step EXCEPT ![t] = "none"] /\ stack' = [stack EXCEPT ![t] = k]
      /\ entry' = [entry EXCEPT ![t] = None]
  BY <1>2 DEF Ended, Goto
<1>4. /\ ThreadOK("none", k, None)
      /\ \A i \in Nat : Held("none", k, None, i) = Held(p, k, e, i)
  <2> HIDE DEF p, k, e
  <2> QED BY <1>2, Rests
<1>5. /\ \A i \in Nat : Held("none", k, None, i) \subseteq Held(step[t], stack[t], entry[t], i)
      /\ \A i \in Nat : Held(step[t], stack[t], entry[t], i) \subseteq Held("none", k, None, i)
  BY <1>4
<1>6. lost \subseteq lost' /\ skipped \subseteq skipped'
  OBVIOUS
<1> HIDE DEF k, e, p
<1> QED BY <1>1, <1>3, <1>4, <1>5, <1>6, Keeps

LEMMA CreateChildHands ==
  ASSUME SInv, NEW t \in Tids, CreateChild(t)
  PROVE  Threads' /\ Window' /\ Once' /\ Covered'
<1> DEFINE k == stack[t]
           e == entry[t]
           n == Top(k).depth + 1
           l == <<Frame(e, n)>>
<1>1. step[t] = "create" /\ Alive(t)
  BY DEF CreateChild, Alive
<1>2. /\ IInv /\ Threads /\ Window /\ Once /\ Covered /\ isScanning
      /\ ThreadOK("create", k, e) /\ Call(t) = Top(k)
      /\ step \in [Tids -> Steps] /\ stack \in [Tids -> Seq(Calls)]
  BY <1>1, Here
<1>3. UNCHANGED <<rows, isScanning, stopEvent, queue, skipped, lost>>
  BY DEF CreateChild, sharedVars, windowVars
<1>4. PICK u \in Tids \ {t} : /\ step[u] = "none"
                              /\ stack' = [stack EXCEPT ![u] = l]
                              /\ step' = [step EXCEPT ![u] = "open", ![t] = "check"]
                              /\ UNCHANGED entry
  BY <1>2 DEF CreateChild, StartThread
<1>5. /\ ThreadOK("check", k, e)
      /\ \A i \in Nat \ {0} : Held("check", k, e, i) = Held("create", k, e, i)
      /\ Held("create", k, e, 0) = {e} /\ Held("check", k, e, 0) = {}
  <2> HIDE DEF k, e
  <2>1. ThreadOK("create", k, e)
    BY <1>2
  <2>2. /\ ThreadOK("check", k, e)
        /\ \A i \in Nat \ {0} : Held("check", k, e, i) = Held("create", k, e, i)
    BY <2>1, Goes
  <2>3. Held("create", k, e, 0) = {e} /\ Held("check", k, e, 0) = {}
    BY <2>1, Goes
  <2> QED BY <2>2, <2>3
<1>6. k \in Seq(Calls) /\ k # <<>> /\ e \in Entries(Top(k).dir) /\ e \in Dirs /\ Top(k).depth < MaxDepth
  BY <1>2 DEF ThreadOK, Resting, Holding
<1>7. Top(k) \in Calls /\ CallOK(Top(k))
  BY <1>2, <1>6, TopCall DEF ThreadOK, Top
<1>8. n \in 0..MaxDepth /\ n = Cardinality(Above[e])
  <2>1. Top(k).depth \in 0..MaxDepth /\ Top(k).depth = Cardinality(Above[Top(k).dir])
    BY <1>7, CallFields DEF CallOK
  <2>2. e \in Paths \ {Root} /\ Parent[e] = Top(k).dir
    BY <1>6, ParentOfEntry
  <2>3. n = Cardinality(Above[e])
    BY <2>1, <2>2, AboveFinite
  <2>4. MaxDepth \in Nat
    BY LimitsAssumption
  <2> QED BY <1>6, <2>1, <2>3, <2>4
<1> DEFINE j == stack[u]
           g == entry[u]
<1>9. ThreadOK("none", j, g) /\ g \in Paths \cup {None}
  BY <1>2, <1>4 DEF Threads
<1>10. /\ ThreadOK("open", l, g)
       /\ Held("open", l, g, 0) = {e}
       /\ \A i \in Nat \ {0} : Held("open", l, g, i) = {}
       /\ \A i \in Nat : Held("none", j, g, i) = {}
  <2> HIDE DEF j, g, e, n
  <2>1. "none" \in Resting
    BY DEF Resting
  <2> QED BY <1>6, <1>8, <1>9, <2>1, Enters, Rests
<1> HIDE DEF l
<1>11. /\ step'[t] = "check" /\ stack'[t] = k /\ entry'[t] = e
       /\ step'[u] = "open" /\ stack'[u] = l /\ entry'[u] = g
       /\ \A v \in Tids \ {t, u} : step'[v] = step[v] /\ stack'[v] = stack[v] /\ entry'[v] = entry[v]
  BY <1>2, <1>4
<1>12. Threads'
  <2>1. \A v \in Tids : ThreadOK(step'[v], stack'[v], entry'[v])
    BY <1>2, <1>5, <1>10, <1>11 DEF Threads
  <2>2. l \in Seq(Calls)
    BY <1>10 DEF ThreadOK
  <2>3. stack' \in [Tids -> Seq(Calls)] /\ entry' \in [Tids -> Paths \cup {None}]
    BY <1>2, <1>4, <2>2 DEF Threads
  <2> QED BY <2>1, <2>3 DEF Threads
<1>13. Window' /\ Reports' = Reports
  BY <1>2, <1>3, SameReports
<1>a. \A i \in Nat : /\ <<t, i>> \in Sites /\ <<u, i>> \in Sites
                       /\ Work[<<t, i>>] = Held("create", k, e, i)
                       /\ Work'[<<t, i>>] = Held("check", k, e, i)
                       /\ Work[<<u, i>>] = {}
                       /\ Work'[<<u, i>>] = Held("open", l, g, i)
  <2> SUFFICES ASSUME NEW i \in Nat
               PROVE  /\ <<t, i>> \in Sites /\ <<u, i>> \in Sites
                      /\ Work[<<t, i>>] = Held("create", k, e, i)
                      /\ Work'[<<t, i>>] = Held("check", k, e, i)
                      /\ Work[<<u, i>>] = {}
                      /\ Work'[<<u, i>>] = Held("open", l, g, i)
    OBVIOUS
  <2>1. /\ <<t, i>> \in Sites /\ Work[<<t, i>>] = Held(step[t], k, e, i)
        /\ Work'[<<t, i>>] = Held(step'[t], stack'[t], entry'[t], i)
    BY WorkAt
  <2>2. /\ <<u, i>> \in Sites /\ Work[<<u, i>>] = Held(step[u], j, g, i)
        /\ Work'[<<u, i>>] = Held(step'[u], stack'[u], entry'[u], i)
    BY WorkAt
  <2> HIDE DEF k, e, j, g, l
  <2> QED BY <1>1, <1>4, <1>10, <1>11, <2>1, <2>2
<1> DEFINE x == <<t, 0>>
           y == <<u, 0>>
<1>14. /\ x \in Sites /\ y \in Sites /\ x # y
       /\ Work[x] = {e} /\ Work'[x] = {} /\ Work[y] = {} /\ Work'[y] = {e}
  <2>1. x \in Sites /\ y \in Sites /\ x # y
    BY <1>a
  <2> HIDE DEF k, e, l, g
  <2> QED BY <1>a, <1>5, <1>10, <2>1
<1>15. \A z \in Sites \ {x, y} : Work'[z] = Work[z]
  <2> SUFFICES ASSUME NEW v \in Tids, NEW i \in Nat, <<v, i>> # x, <<v, i>> # y
               PROVE  Work'[<<v, i>>] = Work[<<v, i>>]
    BY WorkAt
  <2>1. CASE v = t
    <3>1. i # 0
      BY <2>1
    <3> QED BY <1>5, <1>a, <2>1, <3>1
  <2>2. CASE v = u
    <3>1. i # 0
      BY <2>2
    <3> QED BY <1>10, <1>a, <2>2, <3>1
  <2>3. CASE v \notin {t, u}
    BY <1>11, <2>3, WorkAt
  <2> QED BY <2>1, <2>2, <2>3
<1> HIDE DEF x, y, e
<1>16. Apart(Work') /\ Owed(Work', Reports)
  <2> DEFINE V == Work'
  <2>1. /\ V[x] \cup V[y] \subseteq Work[x] \cup Work[y] /\ V[x] \cap V[y] = {}
        /\ \A z \in Sites \ {x, y} : V[z] \subseteq Work[z]
    BY <1>14, <1>15
  <2>2. Apart(Work) /\ Owed(Work, Reports)
    BY <1>2 DEF Once
  <2> HIDE DEF V
  <2>3. Apart(V) /\ Owed(V, Reports)
    BY <1>14, <2>1, <2>2, Handed
  <2> QED BY <2>3 DEF V
<1>17. Once'
  BY <1>2, <1>13, <1>16 DEF Once
<1>18. Covered'
  <2> DEFINE R == {}
  <2>1. \A f \in Files : Reports'[f] \in Nat /\ Reports'[f] >= Reports[f]
    BY <1>2, <1>13, ReportsType
  <2>2. \A d \in R : \A f \in PEFiles : f = d \/ f \in Under(d) => Settled(f)'
    OBVIOUS
  <2>3. \A z \in Sites : \A d \in Work[z] : d \in R \/ \E o \in Sites : d \in Work'[o]
    BY <1>14, <1>15
  <2> HIDE DEF R
  <2>4. lost \subseteq lost' /\ skipped \subseteq skipped' /\ UNCHANGED stopEvent
    BY <1>3
  <2> QED BY <1>2, <2>1, <2>2, <2>3, <2>4, StaysCovered
<1> QED BY <1>12, <1>13, <1>17, <1>18

-----------------------------------------------------------------------------
LEMMA StepInv ==
  ASSUME SInv, NEW t \in Tids, ScanStep(t) \/ ExitStep(t)
  PROVE  Threads' /\ Window' /\ Once' /\ Covered'
<1>1. CASE OpenDirectory(t)
  BY <1>1, OpenDirectoryInv
<1>2. CASE Leave(t)
  BY <1>2, LeaveInv
<1>3. CASE NextEntry(t)
  BY <1>3, NextEntryInv
<1>4. CASE ScanFile(t)
  BY <1>4, ScanFileInv
<1>5. CASE TooDeep(t)
  BY <1>5, TooDeepInv
<1>6. CASE CreateChild(t)
  BY <1>6, CreateChildHands
<1>7. CASE TakeSlot(t)
  BY <1>7, KeepsPlace DEF TakeSlot, Goto, windowVars
<1>8. CASE IncActiveThreads(t)
  BY <1>8, KeepsPlace DEF IncActiveThreads, Goto, windowVars
<1>9. CASE CreateFails(t)
  BY <1>9, KeepsPlace DEF CreateFails, Goto, windowVars, sharedVars
<1>10. CASE GiveSlotBack(t)
  BY <1>10, KeepsPlace DEF GiveSlotBack, Goto, windowVars
<1>11. CASE ReleaseSlot(t)
  BY <1>11, KeepsPlace DEF ReleaseSlot, Goto, windowVars
<1>12. CASE NoSlot(t)
  BY <1>12, RecurseGoesDown DEF NoSlot, windowVars, sharedVars
<1>13. CASE Uncount(t)
  <2>1. /\ step[t] = "uncount" /\ Recurse(t)
        /\ UNCHANGED <<rows, isScanning, stopEvent, queue, lost, skipped>>
    BY <1>13 DEF Uncount, windowVars
  <2>2. ThreadOK(step[t], stack[t], entry[t]) /\ Call(t) = Top(stack[t])
    BY <2>1, Here DEF Alive
  <2>3. Call(t).depth < MaxDepth
    BY <2>1, <2>2 DEF ThreadOK, Holding
  <2> QED BY <2>1, <2>3, RecurseGoesDown
<1>14. CASE Finish(t)
  <2>1. /\ step[t] = "finish"
        /\ UNCHANGED <<rows, isScanning, stopEvent, queue, lost, skipped>>
    BY <1>14 DEF Finish, windowVars
  <2>2. CASE Goto(t, "post") /\ UNCHANGED <<stack, entry, owns>>
    BY <2>1, <2>2, KeepsPlace DEF Goto
  <2>3. CASE Ended(t)
    BY <2>1, <2>3, EndedInv
  <2> QED BY <1>14, <2>2, <2>3 DEF Finish
<1>15. CASE PostComplete(t)
  <2>1. /\ step[t] = "post" /\ Ended(t)
        /\ UNCHANGED <<rows, isScanning, stopEvent, skipped>>
    BY <1>15 DEF PostComplete, windowVars, sharedVars
  <2>2. /\ lost \subseteq lost'
        /\ UNCHANGED queue \/ queue' = Append(queue, Complete)
    BY <1>15 DEF PostComplete, Post
  <2> QED BY <2>1, <2>2, EndedInv
<1> QED BY <1>1, <1>2, <1>3, <1>4, <1>5, <1>6, <1>7, <1>8, <1>9, <1>10, <1>11, <1>12, <1>13,
           <1>14, <1>15 DEF ScanStep, ExitStep

-----------------------------------------------------------------------------
(* The window's thread.                                                    *)

LEMMA SameWork ==
  ASSUME Threads, UNCHANGED <<step, stack, entry>>
  PROVE  Threads' /\ Work' = Work
BY DEF Threads, Work

\* Nobody scans.
LEMMA NobodyWorks ==
  ASSUME IInv, Threads, ~isScanning
  PROVE  \A x \in Sites : Work[x] = {}
<1>1. \A t \in Tids : step[t] = "none"
  BY DEF IInv, LastAlone, Alive
<1>2. \A t \in Tids : ThreadOK("none", stack[t], entry[t])
  BY <1>1 DEF Threads
<1>3. \A t \in Tids : \A i \in Nat : Held("none", stack[t], entry[t], i) = {}
  BY <1>2, Rests DEF Resting
<1> QED BY <1>1, <1>3, WorkAt

\* The scan is over, or none has begun.
LEMMA Idle ==
  ASSUME SInv, UNCHANGED <<step, stack, entry>>, ~isScanning', queue' = <<>>,
         UNCHANGED rows \/ rows' = NoRows
  PROVE  Threads' /\ Window' /\ Once' /\ Covered'
<1>0. IInv /\ Threads /\ Window /\ Once
  BY DEF SInv
<1>1. Threads' /\ Work' = Work
  BY <1>0, SameWork
<1>2. rows' \in [Files -> Nat] /\ \A f \in Files : rows'[f] = rows[f] \/ rows'[f] = 0
  BY <1>0 DEF Window, NoRows
<1>3. Window'
  BY <1>2 DEF Window
<1>4. \A f \in Files : Reports'[f] = rows'[f]
  <2>1. queue' \in Seq(Files)
    OBVIOUS
  <2>2. \A f \in Files : Times(queue', f) = 0
    BY <2>1, TimesType
  <2>3. \A f \in Files : rows'[f] \in Nat
    BY <1>2
  <2> QED BY <2>2, <2>3 DEF Reports
<1>5. \A f \in Files : Reports'[f] \in Nat /\ Reports[f] \in Nat /\ Reports'[f] <= Reports[f]
  <2>1. \A f \in Files : /\ rows[f] \in Nat /\ Times(queue, f) \in Nat
                         /\ Reports[f] = rows[f] + Times(queue, f)
    BY <1>0, ReportsType DEF Reports
  <2> QED BY <1>2, <1>4, <2>1
<1>6. Once'
  <2>1. Apart(Work) /\ Owed(Work, Reports) /\ \A f \in Files : Reports[f] <= 1
    BY <1>0 DEF Once
  <2>2. Owed(Work, Reports')
    BY <1>5, <2>1 DEF Owed
  <2>3. \A f \in Files : Reports'[f] <= 1
    BY <1>5, <2>1
  <2> QED BY <1>1, <2>1, <2>2, <2>3 DEF Once
<1>7. Covered'
  BY DEF Covered
<1> QED BY <1>1, <1>3, <1>6, <1>7

\* The list and the messages stay, and a scan may be stopped.
LEMMA Waits ==
  ASSUME SInv, UNCHANGED <<step, stack, entry, rows, isScanning, queue, lost, skipped>>,
         UNCHANGED stopEvent \/ stopEvent'
  PROVE  Threads' /\ Window' /\ Once' /\ Covered'
<1>1. Threads' /\ Work' = Work
  BY SameWork DEF SInv
<1>2. Reports' = Reports /\ Window'
  BY DEF Reports, Window, SInv
<1>3. Once'
  BY <1>1, <1>2 DEF Once, SInv
<1>4. Covered'
  <2>1. \A f \in PEFiles : Settled(f) => Settled(f)'
    BY <1>2 DEF Settled
  <2> QED BY <1>1, <2>1 DEF Covered, SInv
<1> QED BY <1>1, <1>2, <1>3, <1>4

LEMMA StartScanStarts ==
  ASSUME SInv, StartScan
  PROVE  Threads' /\ Window' /\ Once' /\ Covered'
<1>0. IInv /\ Threads /\ Window /\ ~isScanning /\ queue = <<>>
  BY DEF SInv, StartScan, Window
<1>1. PICK u \in Tids : StartThread(u, Root, 0, FALSE) /\ Goto(u, "open")
  BY DEF StartScan
<1>2. rows' = [f \in Files |-> 0] /\ isScanning' /\ queue' = <<>>
  BY <1>0 DEF StartScan, ResetResults, NoRows
<1> DEFINE l == <<Frame(Root, 0)>>
           g == entry[u]
<1>3. /\ step' = [step EXCEPT ![u] = "open"] /\ stack' = [stack EXCEPT ![u] = l]
      /\ entry' = [entry EXCEPT ![u] = g]
  BY <1>0, <1>1 DEF StartThread, Goto, Threads
<1>4. /\ ThreadOK("open", l, g)
      /\ Held("open", l, g, 0) = {Root}
      /\ \A i \in Nat \ {0} : Held("open", l, g, i) = {}
  <2>1. /\ Root \in Dirs /\ 0 \in 0..MaxDepth /\ 0 = Cardinality(Above[Root])
        /\ g \in Paths \cup {None}
    BY <1>0, AboveFinite, TreeAssumption, LimitsAssumption DEF Threads
  <2> HIDE DEF g
  <2> QED BY <2>1, Enters
<1> HIDE DEF l, g
<1>5. /\ Threads'
      /\ \A i \in Nat : <<u, i>> \in Sites /\ Work'[<<u, i>>] = Held("open", l, g, i)
      /\ \A x \in Sites : (\E i \in Nat : x = <<u, i>>) \/ Work'[x] = Work[x]
  <2>1. IInv /\ Threads /\ ThreadOK("open", l, g)
    BY <1>0, <1>4
  <2>2. Threads'
    BY <1>3, <2>1, OneMoves
  <2>3. \A i \in Nat : <<u, i>> \in Sites /\ Work'[<<u, i>>] = Held("open", l, g, i)
    <3>1. step'[u] = "open" /\ stack'[u] = l /\ entry'[u] = g
      BY <1>3, <2>1 DEF IInv, Types, Threads
    <3> QED BY <3>1, WorkAt
  <2>4. \A x \in Sites : (\E i \in Nat : x = <<u, i>>) \/ Work'[x] = Work[x]
    BY <1>3, <2>1, OneMoves
  <2> QED BY <2>2, <2>3, <2>4
<1> DEFINE y == <<u, 0>>
<1>6. y \in Sites /\ Work'[y] = {Root} /\ \A z \in Sites \ {y} : Work'[z] = {}
  BY <1>0, <1>4, <1>5, NobodyWorks
<1> HIDE DEF y
<1>7. \A f \in Files : Reports'[f] = 0
  <2>1. queue' \in Seq(Files)
    BY <1>2
  <2>2. \A f \in Files : Times(queue', f) = 0 /\ rows'[f] = 0
    BY <1>2, <2>1, TimesType
  <2> QED BY <2>2 DEF Reports
<1>8. Apart(Work') /\ Owed(Work', Reports') /\ \A f \in Files : Pending(Work', f)
  <2> DEFINE V == Work'
             C == Reports'
  <2>1. V[y] = {Root} /\ (\A z \in Sites \ {y} : V[z] = {}) /\ \A f \in Files : C[f] = 0
    BY <1>6, <1>7
  <2> HIDE DEF V, C
  <2>2. Apart(V) /\ Owed(V, C) /\ \A f \in Files : Pending(V, f)
    BY <1>6, <2>1, Started
  <2> QED BY <2>2 DEF V, C
<1>9. Once'
  BY <1>7, <1>8 DEF Once
<1>10. Window'
  BY <1>2 DEF Window
<1>11. Covered'
  BY <1>8, TreeAssumption DEF Covered
<1> QED BY <1>5, <1>9, <1>10, <1>11

\* A finding passes from the queue to the list, or the list refuses it.
LEMMA OnPEFoundLists ==
  ASSUME SInv, OnPEFound
  PROVE  Threads' /\ Window' /\ Once' /\ Covered'
<1> DEFINE h == Head(queue)
<1>0. IInv /\ Threads /\ Window /\ Once /\ Covered /\ queue \in Seq(Files \cup {Complete})
  BY DEF SInv, IInv, Types
<1>1. /\ queue # <<>> /\ h # Complete /\ queue' = Tail(queue)
      /\ \/ rows' = [rows EXCEPT ![h] = @ + 1] /\ UNCHANGED lost
         \/ lost' = lost \cup {h} /\ UNCHANGED rows
      /\ UNCHANGED <<step, stack, entry, isScanning, stopEvent, skipped>>
  BY DEF OnPEFound, threadVars, sharedVars
<1>2. isScanning /\ h \in Files /\ queue' \in Seq(Files \cup {Complete})
  <2>1. h \in Files \cup {Complete}
    BY <1>0, <1>1
  <2> QED BY <1>0, <1>1, <2>1 DEF Window
<1>3. Threads' /\ Work' = Work
  BY <1>0, <1>1, SameWork
<1>4. Window'
  BY <1>0, <1>1, <1>2 DEF Window
<1>5. \A f \in Files :
        /\ Reports'[f] \in Nat /\ Reports'[f] <= Reports[f]
        /\ f \notin lost' => Reports'[f] = Reports[f]
  <2>1. \A f \in Files : Times(queue, f) = IF h = f THEN Times(queue', f) + 1 ELSE Times(queue', f)
    BY <1>0, <1>1, TimesShifted
  <2>2. \A f \in Files : Times(queue', f) \in Nat /\ rows[f] \in Nat
    BY <1>0, <1>2, TimesType DEF Window
  <2>3. \/ \A f \in Files : rows'[f] = IF h = f THEN rows[f] + 1 ELSE rows[f]
        \/ h \in lost' /\ UNCHANGED rows
    BY <1>0, <1>1 DEF Window
  <2> HIDE DEF h
  <2>4. \A f \in Files : LET n == rows'[f] + Times(queue', f) IN
          /\ n \in Nat /\ n <= rows[f] + Times(queue, f)
          /\ f \notin lost' => n = rows[f] + Times(queue, f)
    BY <2>1, <2>2, <2>3
  <2> QED BY <2>4 DEF Reports
<1>6. Once'
  <2>1. Apart(Work) /\ Owed(Work, Reports) /\ \A f \in Files : Reports[f] <= 1 /\ Reports[f] \in Nat
    BY <1>0, ReportsType DEF Once
  <2>2. Owed(Work, Reports')
    BY <1>5, <2>1 DEF Owed
  <2>3. \A f \in Files : Reports'[f] <= 1
    BY <1>5, <2>1
  <2> QED BY <1>3, <2>1, <2>2, <2>3 DEF Once
<1>7. Covered'
  <2>1. \A f \in PEFiles : Settled(f) => Settled(f)'
    <3>1. lost \subseteq lost' /\ PEFiles \subseteq Files
      BY <1>1, TreeAssumption
    <3> QED BY <1>1, <1>5, <3>1 DEF Settled
  <2> QED BY <1>0, <1>1, <1>3, <2>1 DEF Covered
<1> QED BY <1>3, <1>4, <1>6, <1>7

LEMMA WindowInv ==
  ASSUME SInv, Dispatch \/ User \/ UNCHANGED vars
  PROVE  Threads' /\ Window' /\ Once' /\ Covered'
<1>0. IInv /\ Window /\ (~isScanning => queue = <<>>)
  BY DEF SInv, Window
<1>1. CASE OnPEFound
  BY <1>1, OnPEFoundLists
<1>2. CASE OnScanComplete
  <2>1. /\ UNCHANGED <<step, stack, entry, rows>> /\ ~isScanning'
        /\ queue # <<>> /\ Head(queue) = Complete
        /\ queue' = <<>> \/ queue' = Tail(queue)
    BY <1>2 DEF OnScanComplete, Destroy, threadVars
  <2>2. queue \in Seq(Files \cup {Complete})
    BY <1>0 DEF IInv, Types
  <2>3. 1 \in DOMAIN queue /\ queue[1] = Complete
    BY <2>1, <2>2
  <2>4. Len(queue) = 1
    BY <1>0, <2>3 DEF IInv, CompletionIsLast
  <2>5. Tail(queue) \in Seq(Files \cup {Complete}) /\ Len(Tail(queue)) = 0
    BY <2>1, <2>2, <2>4
  <2>6. queue' = <<>>
    BY <2>1, <2>5
  <2> QED BY <2>1, <2>6, Idle
<1>3. CASE StartScan
  BY <1>3, StartScanStarts
<1>4. CASE StartScanFails
  <2>1. UNCHANGED <<step, stack, entry>> /\ ~isScanning' /\ queue' = <<>> /\ rows' = NoRows
    BY <1>0, <1>4 DEF StartScanFails, ResetResults, threadVars
  <2> QED BY <2>1, Idle
<1>5. CASE StopScan
  BY <1>5, Waits DEF StopScan, threadVars
<1>6. CASE ClearResults
  <2>1. CASE isScanning
    BY <1>6, <2>1, Waits DEF ClearResults, threadVars, sharedVars
  <2>2. CASE ~isScanning
    <3>1. UNCHANGED <<step, stack, entry>> /\ ~isScanning' /\ queue' = <<>> /\ rows' = NoRows
      BY <1>0, <1>6, <2>2 DEF ClearResults, ResetResults, threadVars
    <3> QED BY <3>1, Idle
  <2> QED BY <2>1, <2>2
<1>7. CASE Close
  <2>1. CASE isScanning
    BY <1>7, <2>1, Waits DEF Close, threadVars, sharedVars
  <2>2. CASE ~isScanning
    <3>1. UNCHANGED <<step, stack, entry, rows>> /\ ~isScanning' /\ queue' = <<>>
      BY <1>7, <2>2 DEF Close, Destroy, threadVars
    <3> QED BY <3>1, Idle
  <2> QED BY <2>1, <2>2
<1>8. CASE ConfirmExit
  BY <1>8, Waits DEF ConfirmExit, threadVars
<1>9. CASE Dismiss
  BY <1>9, Waits DEF Dismiss, threadVars, sharedVars
<1>10. CASE UNCHANGED vars
  BY <1>10, Waits DEF vars, threadVars, sharedVars, windowVars
<1> QED BY <1>1, <1>2, <1>3, <1>4, <1>5, <1>6, <1>7, <1>8, <1>9, <1>10 DEF Dispatch, User

-----------------------------------------------------------------------------
\* In every reachable state the work is shared out: what no thread has still to do has been
\* reported or is recorded as what an open, a listing, a message or the list failed on.
\* It is the inductive invariant behind the two theorems on what a scan lists.
THEOREM WorkIsShared == Spec => []SInv
<1>1. SInv /\ [Next]_vars /\ IInv' => SInv'
  <2> SUFFICES ASSUME SInv, [Next]_vars, IInv' PROVE SInv'
    OBVIOUS
  <2>1. Threads' /\ Window' /\ Once' /\ Covered'
    BY StepInv, WindowInv DEF Next, Exited
  <2> QED BY <2>1 DEF SInv
<1> QED BY InitSInv, Invariance, <1>1, PTL DEF Spec

LEMMA PostedTimes == ASSUME NEW f PROVE Posted(f) = Times(queue, f)
BY DEF Posted, Times

\* ScanDirectory and ThreadEntry: whichever threads the tree is shared out to, a file has
\* at most one line in the list or message on its way to it (Bai4.2.cpp:239-314).
THEOREM FilesListedOnce == Spec => []ListedOnce
<1>1. SInv => ListedOnce
  <2> SUFFICES ASSUME SInv, NEW f \in Files PROVE rows[f] + Posted(f) <= 1
    BY DEF ListedOnce
  <2>1. Reports[f] <= 1 /\ Reports[f] = rows[f] + Times(queue, f)
    BY DEF SInv, Once, Reports
  <2> QED BY <2>1, PostedTimes
<1> QED BY WorkIsShared, <1>1, PTL

\* When WM_APP_SCAN_COMPLETE is on its way and nobody stopped the scan, every PE file down
\* to MAX_DEPTH is in the list or on its way there, unless it or a directory above it could
\* not be opened, FindNextFileW failed in one of those directories, or its message or its
\* row was refused: no file is missed because of how the threads share the tree out
\* (Bai4.2.cpp:239-314, 328-331, 643-651).
THEOREM ScansAreComplete == Spec => []ScanIsComplete
<1>1. SInv => ScanIsComplete
  <2> SUFFICES ASSUME SInv, Complete \in {queue[i] : i \in DOMAIN queue}, ~stopEvent,
                      NEW f \in PEFiles
               PROVE  \/ Cardinality(Above[f]) - 1 > MaxDepth
                      \/ rows[f] + Posted(f) > 0 \/ f \in lost
                      \/ skipped \cap (Above[f] \cup {f}) # {}
    BY DEF ScanIsComplete
  <2>1. isScanning /\ \A t \in Tids : step[t] = "none"
    BY DEF SInv, IInv, CompletionIsLast, Alive
  <2>2. \A x \in Sites : Work[x] = {}
    <3>1. \A t \in Tids : ThreadOK("none", stack[t], entry[t])
      BY <2>1 DEF SInv, Threads
    <3>2. \A t \in Tids : \A i \in Nat : Held("none", stack[t], entry[t], i) = {}
      BY <3>1, Rests DEF Resting
    <3> QED BY <2>1, <3>2, WorkAt
  <2>3. ~Pending(Work, f)
    BY <2>2 DEF Pending
  <2>4. Settled(f)
    BY <2>1, <2>3 DEF SInv, Covered
  <2>5. Reports[f] = rows[f] + Posted(f)
    BY PostedTimes, TreeAssumption DEF Reports
  <2> QED BY <2>4, <2>5 DEF Settled
<1> QED BY WorkIsShared, <1>1, PTL

\* What TypeOK says beyond the invariant.
OtherTypes ==
  /\ stopEvent \in BOOLEAN /\ totalScanned \in Nat /\ freeSlots \in Nat
  /\ closeAfterScan \in BOOLEAN /\ destroyed \in BOOLEAN
  /\ controls \in {"idle", "scanning", "stopping"}
  /\ dialog \in {"none", "error", "busy", "exit"}
  /\ skipped \subseteq Paths
  /\ lost \subseteq Files \cup {Complete}

LEMMA OtherTypesStay ==
  ASSUME SInv, OtherTypes, [Next]_vars
  PROVE  OtherTypes'
<1>1. ASSUME NEW t \in Tids, ScanStep(t) \/ ExitStep(t) PROVE OtherTypes'
  <2>1. UNCHANGED <<stopEvent, closeAfterScan, destroyed, controls, dialog>>
    BY <1>1 DEF ScanStep, ExitStep, OpenDirectory, Leave, NextEntry, ScanFile, TooDeep, TakeSlot,
                NoSlot, IncActiveThreads, CreateChild, CreateFails, GiveSlotBack, Uncount,
                ReleaseSlot, Finish, PostComplete, sharedVars, windowVars
  <2>2. totalScanned' \in Nat
    <3>1. UNCHANGED totalScanned \/ totalScanned' = totalScanned + 1
      BY <1>1 DEF ScanStep, ExitStep, OpenDirectory, Leave, NextEntry, ScanFile, TooDeep, TakeSlot,
                  NoSlot, IncActiveThreads, CreateChild, CreateFails, GiveSlotBack, Uncount,
                  ReleaseSlot, Finish, PostComplete
    <3> QED BY <3>1 DEF OtherTypes
  <2>s. freeSlots' \in Nat
    <3>1. \/ UNCHANGED freeSlots \/ freeSlots' = freeSlots + 1
          \/ freeSlots > 0 /\ freeSlots' = freeSlots - 1
      BY <1>1 DEF ScanStep, ExitStep, OpenDirectory, Leave, NextEntry, ScanFile, TooDeep, TakeSlot,
                  NoSlot, IncActiveThreads, CreateChild, CreateFails, GiveSlotBack, Uncount,
                  ReleaseSlot, Finish, PostComplete, sharedVars
    <3> QED BY <3>1 DEF OtherTypes
  <2>3. CASE OpenDirectory(t)
    <3>1. Call(t).dir \in Paths
      BY <2>3, Here, Opens DEF OpenDirectory, Alive, Paths
    <3>2. skipped' \subseteq skipped \cup {Call(t).dir} /\ UNCHANGED lost
      BY <2>3 DEF OpenDirectory
    <3> QED BY <2>1, <2>2, <2>s, <3>1, <3>2 DEF OtherTypes
  <2>4. CASE ScanFile(t)
    <3>1. entry[t] \in Files
      BY <2>4, Here DEF ScanFile, Alive, ThreadOK
    <3>2. skipped' \subseteq skipped \cup {entry[t]} /\ lost' \subseteq lost \cup {entry[t]}
      BY <2>4 DEF ScanFile, Post
    <3> QED BY <2>1, <2>2, <2>s, <3>1, <3>2 DEF OtherTypes, Paths
  <2>5. CASE PostComplete(t)
    <3>1. UNCHANGED skipped /\ lost' \subseteq lost \cup {Complete}
      BY <2>5 DEF PostComplete, Post
    <3> QED BY <2>1, <2>2, <2>s, <3>1 DEF OtherTypes
  <2>7. CASE Leave(t)
    <3>1. Call(t).dir \in Paths
      <4>1. ThreadOK("check", stack[t], entry[t]) /\ Call(t) = Top(stack[t])
        BY <2>7, Here DEF Leave, Alive
      <4>2. Top(stack[t]) \in Calls
        BY <4>1, TopCall DEF ThreadOK, Resting
      <4> QED BY <4>1, <4>2, CallFields DEF Paths
    <3>2. skipped' \subseteq skipped \cup {Call(t).dir} /\ UNCHANGED lost
      BY <2>7 DEF Leave
    <3> QED BY <2>1, <2>2, <2>s, <3>1, <3>2 DEF OtherTypes
  <2>6. CASE ~OpenDirectory(t) /\ ~ScanFile(t) /\ ~PostComplete(t) /\ ~Leave(t)
    <3>1. UNCHANGED <<skipped, lost>>
      BY <1>1, <2>6 DEF ScanStep, ExitStep, NextEntry, TooDeep, TakeSlot, NoSlot,
                        IncActiveThreads, CreateChild, CreateFails, GiveSlotBack, Uncount,
                        ReleaseSlot, Finish
    <3> QED BY <2>1, <2>2, <2>s, <3>1 DEF OtherTypes
  <2> QED BY <2>3, <2>4, <2>5, <2>6, <2>7
<1>2. CASE OnPEFound
  <2>1. Head(queue) \in Files \cup {Complete}
    BY <1>2 DEF OnPEFound, SInv, IInv, Types
  <2> QED BY <1>2, <2>1 DEF OnPEFound, OtherTypes, sharedVars
<1>7. CASE OnScanComplete
  BY <1>7 DEF OnScanComplete, Destroy, OtherTypes, sharedVars
<1>3. CASE StartScan \/ StartScanFails
  <2>1. /\ stopEvent' = FALSE /\ closeAfterScan' = FALSE /\ UNCHANGED <<freeSlots, destroyed>>
        /\ totalScanned' = 0 /\ controls' = "scanning"
        /\ UNCHANGED dialog \/ dialog' = "error"
        /\ skipped' = {} /\ lost' = {}
    BY <1>3 DEF StartScan, StartScanFails, ResetResults
  <2> QED BY <2>1 DEF OtherTypes
<1>4. CASE StopScan \/ ClearResults
  <2>1. /\ UNCHANGED stopEvent \/ stopEvent' = TRUE
        /\ UNCHANGED totalScanned \/ totalScanned' = 0
        /\ UNCHANGED controls \/ controls' = "stopping"
        /\ UNCHANGED dialog \/ dialog' = "busy"
        /\ UNCHANGED <<freeSlots, closeAfterScan, destroyed, skipped, lost>>
    BY <1>4 DEF StopScan, ClearResults, ResetResults, sharedVars
  <2>2. stopEvent' \in BOOLEAN
    BY <2>1 DEF OtherTypes
  <2>t. totalScanned' \in Nat
    BY <2>1 DEF OtherTypes
  <2>3. controls' \in {"idle", "scanning", "stopping"}
    BY <2>1 DEF OtherTypes
  <2>4. dialog' \in {"none", "error", "busy", "exit"}
    BY <2>1 DEF OtherTypes
  <2> QED BY <2>1, <2>2, <2>t, <2>3, <2>4 DEF OtherTypes
<1>5. CASE Close \/ ConfirmExit \/ Dismiss
  BY <1>5 DEF Close, Destroy, ConfirmExit, Dismiss, OtherTypes, sharedVars
<1>6. CASE UNCHANGED vars
  BY <1>6 DEF vars, sharedVars, windowVars, OtherTypes
<1> QED BY <1>1, <1>2, <1>3, <1>4, <1>5, <1>6, <1>7 DEF Next, Dispatch, User, Exited

\* The variables keep their types: the depth of a call stays within MAX_DEPTH, and neither
\* the semaphore nor the counter of threads leaves its range.
THEOREM TypeCorrect == Spec => []TypeOK
<1>1. Init => OtherTypes
  <2>1. MaxThreads \in Nat
    BY LimitsAssumption
  <2> SUFFICES ASSUME Init PROVE OtherTypes
    OBVIOUS
  <2>2. /\ stopEvent = FALSE /\ totalScanned = 0 /\ freeSlots = MaxThreads
        /\ closeAfterScan = FALSE /\ destroyed = FALSE /\ controls = "idle" /\ dialog = "none"
        /\ skipped = {} /\ lost = {}
    BY DEF Init
  <2> QED BY <2>1, <2>2 DEF OtherTypes
<1>2. SInv /\ OtherTypes /\ [Next]_vars => OtherTypes'
  BY OtherTypesStay
<1>3. SInv /\ OtherTypes => TypeOK
  <2> SUFFICES ASSUME SInv, OtherTypes PROVE TypeOK
    OBVIOUS
  <2>1. /\ IInv /\ stack \in [Tids -> Seq(Calls)] /\ entry \in [Tids -> Paths \cup {None}]
        /\ rows \in [Files -> Nat]
    BY DEF SInv, Threads, Window
  <2>2. freeSlots \in 0..MaxThreads
    <3>1. /\ freeSlots + Cardinality(Holders) + Cardinality(Creators) = MaxThreads
          /\ freeSlots \in Int
      BY <2>1 DEF IInv, SlotsConserved, Types
    <3>2. Cardinality(Holders) \in Nat /\ Cardinality(Creators) \in Nat /\ MaxThreads \in Nat
      BY Counts, LimitsAssumption
    <3>3. freeSlots \in Nat
      BY DEF OtherTypes
    <3> QED BY <3>1, <3>2, <3>3
  <2>3. activeThreads \in Nat
    BY <2>1, Counts DEF IInv, CountExact, Types
  <2>4. /\ step \in [Tids -> Steps] /\ owns \in [Tids -> BOOLEAN] /\ isScanning \in BOOLEAN
        /\ queue \in Seq(Files \cup {Complete})
    BY <2>1 DEF IInv, Types
  <2> QED BY <2>1, <2>2, <2>3, <2>4 DEF TypeOK, OtherTypes, Calls
<1> QED BY <1>1, <1>2, <1>3, WorkIsShared, PTL DEF Spec
=============================================================================
