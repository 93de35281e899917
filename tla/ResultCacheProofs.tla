------------------------- MODULE ResultCacheProofs -------------------------
(***************************************************************************)
(* What a cache hit says is true, and the list and the table of L1 agree,  *)
(* for any workers, files, engines, capacity, TTL and failures of the      *)
(* database.                                                               *)
(*                                                                         *)
(* Every row of either table tells the truth about its key (Sound), every  *)
(* worker holds a key that was true when it was read and a result that     *)
(* tells the truth about it (Working), and the database is never ahead of  *)
(* the memory (Behind).  For these the order of the list plays no part;    *)
(* for the list itself, a step takes one key out, puts one in front, or    *)
(* cuts the tail off, and each of these keeps it a list without            *)
(* repetition of the keys of the table.                                    *)
(***************************************************************************)
EXTENDS ResultCache, FiniteSetTheorems, SequenceTheorems, TLAPS

Typed ==
  /\ clock \in Nat
  /\ version \in [Files -> Nat]
  /\ step \in [Workers -> {"idle", "lookup", "hit", "scan", "read", "put", "cleanup"}]
  /\ DOMAIN key = Workers /\ key = [w \in Workers |-> key[w]]
  /\ DOMAIN result = Workers /\ result = [w \in Workers |-> result[w]]

\* A row e is right for the key k at the time now.
Right(k, e, t) ==
  /\ e.result.file = k.file
  /\ e.result.engine = k.engine
  /\ e.result.content \in Nat /\ k.version \in Nat /\ e.result.content >= k.version
  /\ e.result.at \in Nat /\ e.result.at <= t
  /\ e.expiresAt = e.result.at + Ttl

Sound(f, t) == \A k \in DOMAIN f : Right(k, f[k], t)

Working ==
  \A w \in Workers :
    /\ step[w] \notin {"idle", "cleanup"} =>
         /\ key[w] = [file |-> key[w].file, version |-> key[w].version, engine |-> engine]
         /\ key[w].file \in Files /\ key[w].version \in Nat
         /\ key[w].version <= version[key[w].file]
    /\ step[w] = "put" =>
         /\ result[w] = [file |-> key[w].file, content |-> result[w].content,
                         engine |-> engine, at |-> result[w].at]
         /\ result[w].content \in Nat /\ result[w].content >= key[w].version

Behind == \A k \in DOMAIN entries \cap DOMAIN db : db[k].expiresAt <= entries[k].expiresAt

IInv == Typed /\ Sound(entries, clock) /\ Sound(db, clock) /\ Working /\ Behind

LEMMA InitIInv == Init => IInv
BY ResultCacheAssumption
   DEF Init, IInv, Typed, Sound, Working, Behind, None

-----------------------------------------------------------------------------
(* Tables.                                                                 *)

LEMMA OnlyFacts ==
  ASSUME NEW f, NEW S, NEW t, Sound(f, t)
  PROVE  /\ Sound(Only(f, S), t)
         /\ DOMAIN Only(f, S) \subseteq DOMAIN f
         /\ \A k \in DOMAIN Only(f, S) : Only(f, S)[k] = f[k]
BY DEF Only, Sound

LEMMA PutL1Facts ==
  ASSUME NEW k, NEW e, Sound(entries, clock), Right(k, e, clock), PutL1(k, e)
  PROVE  /\ Sound(entries', clock)
         /\ entries'[k] = e
         /\ \A x \in DOMAIN entries' : x # k => x \in DOMAIN entries /\ entries'[x] = entries[x]
<1>1. PICK S : entries' = With(Only(entries, S), k, e) \/ entries' = With(entries, k, e)
  <2>1. k \in DOMAIN entries => [entries EXCEPT ![k] = e] = With(entries, k, e)
    BY DEF With
  <2> QED BY <2>1 DEF PutL1
<1>2. PICK rest :
        /\ entries' = With(rest, k, e) /\ Sound(rest, clock)
        /\ DOMAIN rest \subseteq DOMAIN entries
        /\ \A x \in DOMAIN rest : rest[x] = entries[x]
  <2>1. CASE entries' = With(Only(entries, S), k, e)
    BY <2>1, OnlyFacts
  <2>2. CASE entries' = With(entries, k, e)
    BY <2>2
  <2> QED BY <1>1, <2>1, <2>2
<1>3. /\ Sound(With(rest, k, e), clock)
      /\ With(rest, k, e)[k] = e
      /\ DOMAIN With(rest, k, e) = DOMAIN rest \cup {k}
      /\ \A x \in DOMAIN rest : x # k => With(rest, k, e)[x] = rest[x]
  BY <1>2 DEF With, Sound
<1> QED BY <1>2, <1>3

\* What is left of the tables after a deletion is still right.
LEMMA Deletions ==
  ASSUME IInv, NEW S, entries' = entries \/ entries' = Only(entries, S), DeleteExpired
  PROVE  Sound(entries', clock) /\ Sound(db', clock) /\ Behind'
<1>1. /\ Sound(entries', clock)
      /\ DOMAIN entries' \subseteq DOMAIN entries
      /\ \A k \in DOMAIN entries' : entries'[k] = entries[k]
  <2>1. /\ Sound(Only(entries, S), clock)
        /\ DOMAIN Only(entries, S) \subseteq DOMAIN entries
        /\ \A k \in DOMAIN Only(entries, S) : Only(entries, S)[k] = entries[k]
    BY OnlyFacts DEF IInv
  <2>2. CASE entries' = entries
    BY <2>2 DEF IInv
  <2>3. CASE entries' = Only(entries, S)
    BY <2>1, <2>3
  <2> QED BY <2>2, <2>3
<1>2. /\ Sound(db', clock)
      /\ DOMAIN db' \subseteq DOMAIN db
      /\ \A k \in DOMAIN db' : db'[k] = db[k]
  BY OnlyFacts DEF IInv, DeleteExpired
<1> QED BY <1>1, <1>2 DEF IInv, Behind

-----------------------------------------------------------------------------
(* TryGet.                                                                 *)

\* A worker that has looked up, and changed nothing else of what it knows.
LEMMA AfterLookup ==
  ASSUME IInv, NEW w \in Workers, step[w] = "lookup", Missed(w) \/ (\E r : Found(w, r)),
         UNCHANGED <<clock, version, engine, key>>
  PROVE  Typed' /\ Working'
<1>1. /\ step' = [step EXCEPT ![w] = "hit"] \/ step' = [step EXCEPT ![w] = "scan"]
      /\ \A v \in Workers : v # w => result'[v] = result[v]
      /\ DOMAIN result' = Workers /\ result' = [v \in Workers |-> result'[v]]
  BY DEF IInv, Typed, Missed, Found
<1> QED BY <1>1 DEF IInv, Typed, Working

\* The rows TryGet returns.
LEMMA Returned ==
  ASSUME IInv, NEW w \in Workers, TryGet(w)
  PROVE  \/ Missed(w)
         \/ \E f \in {entries, db} : key[w] \in Live(f) /\ Found(w, f[key[w]].result)
BY DEF TryGet, HitL1, ExpiredL1, HitL2, ExpiredL2, Miss

LEMMA TryGetStep ==
  ASSUME IInv, NEW w \in Workers, TryGet(w)
  PROVE  IInv'
<1> DEFINE k == key[w]
<1>1. Typed' /\ Working'
  BY Returned, AfterLookup DEF TryGet
<1>2. clock' = clock
  BY DEF TryGet
<1>3. CASE HitL1(w) \/ Miss(w)
  <2>1. entries' = entries /\ db' = db
    BY <1>3 DEF HitL1, Miss
  <2> QED BY <1>1, <1>2, <2>1 DEF IInv, Behind
<1>4. CASE ExpiredL1(w) \/ ExpiredL2(w)
  <2>1. DeleteExpired /\ (entries' = entries \/ entries' = Only(entries, DOMAIN entries \ {k}))
    BY <1>4 DEF ExpiredL1, ExpiredL2
  <2> QED BY <1>1, <1>2, <2>1, Deletions DEF IInv
<1>5. CASE HitL2(w)
  <2>1. k \in DOMAIN db /\ k \notin DOMAIN entries /\ PutL1(k, db[k]) /\ db' = db
    BY <1>5 DEF HitL2, Live
  <2>2. Right(k, db[k], clock)
    BY <2>1 DEF IInv, Sound
  <2>3. /\ Sound(entries', clock)
        /\ entries'[k] = db[k]
        /\ \A x \in DOMAIN entries' : x # k => x \in DOMAIN entries /\ entries'[x] = entries[x]
    BY <2>1, <2>2, PutL1Facts DEF IInv
  <2>4. db[k].expiresAt \in Nat
    BY <2>2, ResultCacheAssumption DEF Right
  <2>5. Behind'
    BY <2>1, <2>3, <2>4 DEF IInv, Behind
  <2> QED BY <1>1, <1>2, <2>1, <2>3, <2>5 DEF IInv
<1> QED BY <1>3, <1>4, <1>5 DEF TryGet

-----------------------------------------------------------------------------
(* The steps of a worker, and the environment.                             *)

LEMMA PutStep ==
  ASSUME IInv, NEW w \in Workers, Put(w)
  PROVE  IInv'
<1> DEFINE k == key[w]
<1> DEFINE e == [result |-> [result[w] EXCEPT !.at = clock], expiresAt |-> clock + Ttl]
<1>1. /\ step[w] = "put" /\ PutL1(k, e) /\ Leave(w, "cleanup")
      /\ db' = db \/ db' = With(db, k, e)
      /\ UNCHANGED <<clock, version, engine>>
  BY DEF Put
<1>2. clock \in Nat /\ Ttl \in Nat
  BY ResultCacheAssumption DEF IInv, Typed
<1>3. Right(k, e, clock)
  <2>1. /\ k = [file |-> k.file, version |-> k.version, engine |-> engine] /\ k.version \in Nat
        /\ result[w] = [file |-> k.file, content |-> result[w].content,
                        engine |-> engine, at |-> result[w].at]
        /\ result[w].content \in Nat /\ result[w].content >= k.version
    BY <1>1 DEF IInv, Working
  <2>2. e.result = [file |-> k.file, content |-> result[w].content, engine |-> engine, at |-> clock]
    BY <2>1
  <2> HIDE DEF k
  <2>3. e.expiresAt = clock + Ttl
    OBVIOUS
  <2>4. k.engine = engine
    BY <2>1
  <2> HIDE DEF e
  <2> QED BY <1>2, <2>1, <2>2, <2>3, <2>4 DEF Right
<1>4. e.expiresAt = clock + Ttl
  OBVIOUS
<1> HIDE DEF e
<1>5. /\ Sound(entries', clock) /\ entries'[k] = e
      /\ \A x \in DOMAIN entries' : x # k => x \in DOMAIN entries /\ entries'[x] = entries[x]
  BY <1>1, <1>3, PutL1Facts DEF IInv
<1>6. /\ Sound(db', clock)
      /\ \A x \in DOMAIN db' : x # k => x \in DOMAIN db /\ db'[x] = db[x]
      /\ k \in DOMAIN db' => db'[k] = e \/ (k \in DOMAIN db /\ db'[k] = db[k])
  <2>1. /\ Sound(With(db, k, e), clock)
        /\ With(db, k, e)[k] = e
        /\ DOMAIN With(db, k, e) = DOMAIN db \cup {k}
        /\ \A x \in DOMAIN db : x # k => With(db, k, e)[x] = db[x]
    BY <1>3 DEF IInv, With, Sound
  <2>2. CASE db' = db
    BY <2>2 DEF IInv
  <2>3. CASE db' = With(db, k, e)
    BY <2>1, <2>3
  <2> QED BY <1>1, <2>2, <2>3
<1>7. k \in DOMAIN db => db[k].expiresAt \in Nat /\ db[k].expiresAt <= clock + Ttl
  BY <1>2 DEF IInv, Sound, Right
<1>8. Behind'
  BY <1>2, <1>4, <1>5, <1>6, <1>7 DEF IInv, Behind
<1>9. Typed'
  BY <1>1 DEF IInv, Typed, Leave
<1>10. Working'
  BY <1>1 DEF IInv, Typed, Working, Leave
<1> QED BY <1>1, <1>5, <1>6, <1>8, <1>9, <1>10 DEF IInv

\* Steps of a worker between its uses of the cache.
LEMMA WorkerSteps ==
  ASSUME IInv, NEW w \in Workers,
         \/ \E f \in Files : Identify(w, f)
         \/ ReportHit(w) \/ EngineMetadata(w) \/ EngineReads(w) \/ ScanFails(w)
  PROVE  IInv'
<1>1. clock' = clock /\ version' = version /\ engine' = engine /\ entries' = entries /\ db' = db
  BY DEF Identify, ReportHit, EngineMetadata, EngineReads, ScanFails, cacheVars
<1>2. Sound(entries', clock') /\ Sound(db', clock') /\ Behind'
  BY <1>1 DEF IInv, Behind
<1>3. CASE \E f \in Files : Identify(w, f)
  BY <1>1, <1>2, <1>3 DEF IInv, Typed, Working, Identify
<1>4. CASE ReportHit(w) \/ ScanFails(w)
  BY <1>1, <1>2, <1>4 DEF IInv, Typed, Working, ReportHit, ScanFails, Leave
<1>5. CASE EngineMetadata(w)
  <2>1. /\ step' = [step EXCEPT ![w] = "read"] /\ step[w] = "scan" /\ result' = result
        /\ key' = [key EXCEPT ![w] = [key[w] EXCEPT !.version = version[key[w].file]]]
    BY <1>5 DEF EngineMetadata
  <2>2. /\ key[w] = [file |-> key[w].file, version |-> key[w].version, engine |-> engine]
        /\ key[w].file \in Files /\ version[key[w].file] \in Nat
    BY <2>1 DEF IInv, Working, Typed
  <2>3. [key[w] EXCEPT !.version = version[key[w].file]]
          = [file |-> key[w].file, version |-> version[key[w].file], engine |-> engine]
    BY <2>2
  <2>4. Typed'
    BY <1>1, <2>1 DEF IInv, Typed
  <2>5. Working'
    BY <1>1, <2>1, <2>2, <2>3 DEF IInv, Typed, Working
  <2> QED BY <1>2, <2>4, <2>5 DEF IInv
<1>6. CASE EngineReads(w)
  BY <1>1, <1>2, <1>6 DEF IInv, Typed, Working, EngineReads
<1> QED BY <1>3, <1>4, <1>5, <1>6

LEMMA CleanupStep ==
  ASSUME IInv, (\E w \in Workers : WorkerCleanup(w)) \/ TelemetryCleanup
  PROVE  IInv'
<1>1. /\ entries' = Only(entries, Live(entries)) /\ DeleteExpired
      /\ UNCHANGED <<clock, version, engine, key, result>>
  BY DEF WorkerCleanup, TelemetryCleanup, Cleanup
<1>2. Sound(entries', clock) /\ Sound(db', clock) /\ Behind'
  BY <1>1, Deletions
<1>3. Typed' /\ Working'
  BY <1>1 DEF IInv, Typed, Working, WorkerCleanup, TelemetryCleanup
<1> QED BY <1>1, <1>2, <1>3 DEF IInv

LEMMA EnvironmentSteps ==
  ASSUME IInv, (\E f \in Files : FileChanges(f)) \/ Tick \/ Restart \/ UNCHANGED vars
  PROVE  IInv'
<1>1. CASE \E f \in Files : FileChanges(f)
  BY <1>1 DEF IInv, Typed, Working, Behind, FileChanges, cacheVars, workerVars
<1>2. CASE Tick
  <2>1. clock' = clock + 1 /\ clock \in Nat
        /\ UNCHANGED <<version, engine, entries, db, step, key, result>>
    BY <1>2 DEF IInv, Typed, Tick, cacheVars, workerVars
  <2>2. \A k, e : Right(k, e, clock) => Right(k, e, clock')
    BY <2>1 DEF Right
  <2> QED BY <2>1, <2>2 DEF IInv, Typed, Sound, Working, Behind
<1>3. CASE Restart
  <2>1. /\ entries' = <<>> /\ clock' = clock /\ version' = version
        /\ db' = db \/ \E S : db' = Only(db, S)
        /\ step' = [w \in Workers |-> "idle"]
        /\ key' = [w \in Workers |-> None] /\ result' = [w \in Workers |-> None]
    BY <1>3 DEF Restart
  <2>2. Sound(db', clock)
    BY <2>1, OnlyFacts DEF IInv
  <2> QED BY <2>1, <2>2 DEF IInv, Typed, Sound, Working, Behind
<1>4. CASE UNCHANGED vars
  BY <1>4 DEF IInv, Typed, Working, Behind, vars, cacheVars, workerVars
<1> QED BY <1>1, <1>2, <1>3, <1>4

LEMMA NextIInv == IInv /\ [Next]_vars => IInv'
BY TryGetStep, PutStep, WorkerSteps, CleanupStep, EnvironmentSteps DEF Next

LEMMA Invariance == Spec => []IInv
BY InitIInv, NextIInv, PTL DEF Spec

-----------------------------------------------------------------------------

\* A hit is right whatever happened to the file, the rows and the service.
THEOREM HitsTrue == Spec => HitsAreTrue
<1> DEFINE True ==
      \A w \in Workers : step[w] = "lookup" /\ step'[w] = "hit" =>
        /\ result'[w].file = key[w].file
        /\ result'[w].engine = engine
        /\ result'[w].content >= key[w].version
        /\ clock < result'[w].at + Ttl
<1>1. ASSUME IInv, [Next]_vars PROVE True
  <2> SUFFICES ASSUME NEW w \in Workers, step[w] = "lookup", step'[w] = "hit"
               PROVE  /\ result'[w].file = key[w].file
                      /\ result'[w].engine = engine
                      /\ result'[w].content >= key[w].version
                      /\ clock < result'[w].at + Ttl
    OBVIOUS
  <2>1. TryGet(w)
    BY <1>1 DEF Next, vars, workerVars, Identify, TryGet, ReportHit, EngineMetadata, EngineReads,
                ScanFails, Put, WorkerCleanup, TelemetryCleanup, FileChanges, Tick, Restart, Leave,
                Found, Missed, HitL1, HitL2, ExpiredL1, ExpiredL2, Miss, IInv, Typed
  <2>2. PICK f \in {entries, db} : key[w] \in Live(f) /\ Found(w, f[key[w]].result)
    BY <1>1, <2>1, Returned DEF Missed, IInv, Typed
  <2>3. Right(key[w], f[key[w]], clock) /\ clock < f[key[w]].expiresAt
    BY <1>1, <2>2 DEF IInv, Sound, Live
  <2>4. result'[w] = f[key[w]].result
    BY <1>1, <2>2 DEF Found, IInv, Typed
  <2>5. key[w].engine = engine
    <3>1. key[w] = [file |-> key[w].file, version |-> key[w].version, engine |-> engine]
      BY <1>1 DEF IInv, Working
    <3> QED BY <3>1
  <2> QED BY <2>3, <2>4, <2>5 DEF Right
<1> QED BY <1>1, Invariance, PTL DEF Spec, HitsAreTrue

\* TryGet may forget an expired key without a look at the database.
THEOREM NothingHidden == Spec => []ExpiryHidesNothing
<1>1. ASSUME IInv PROVE ExpiryHidesNothing
  <2> SUFFICES ASSUME NEW k \in DOMAIN entries \cap DOMAIN db, ~(clock < entries[k].expiresAt)
               PROVE  ~(clock < db[k].expiresAt)
    BY DEF ExpiryHidesNothing, Live
  <2>1. /\ db[k].expiresAt <= entries[k].expiresAt /\ clock \in Nat
        /\ db[k].expiresAt \in Nat /\ entries[k].expiresAt \in Nat
    BY <1>1, ResultCacheAssumption DEF IInv, Behind, Sound, Right, Typed
  <2> QED BY <2>1
<1> QED BY <1>1, Invariance, PTL

-----------------------------------------------------------------------------
(* Lists without repetitions: what push_front, erase and pop_back do.      *)

Distinct(q) == \A i, j \in 1..Len(q) : q[i] = q[j] => i = j

LEMMA Members ==
  ASSUME NEW K, NEW q \in Seq(K)
  PROVE  /\ DOMAIN q = 1..Len(q) /\ Len(q) \in Nat
         /\ ToSet(q) \in SUBSET K
         /\ \A x : x \in ToSet(q) <=> \E i \in 1..Len(q) : q[i] = x
<1>1. DOMAIN q = 1..Len(q) /\ Len(q) \in Nat /\ \A i \in 1..Len(q) : q[i] \in K
  OBVIOUS
<1> QED BY <1>1 DEF ToSet

\* push_front of a key that is not in the list.
LEMMA Pushed ==
  ASSUME NEW K, NEW q \in Seq(K), NEW k \in K, Distinct(q), k \notin ToSet(q)
  PROVE  /\ <<k>> \o q \in Seq(K) /\ Distinct(<<k>> \o q)
         /\ ToSet(<<k>> \o q) = ToSet(q) \cup {k}
<1> DEFINE r == <<k>> \o q
<1>1. PICK n \in Nat : n = Len(q)
  OBVIOUS
<1>2. /\ r \in Seq(K) /\ Len(r) = n + 1 /\ r[1] = k
      /\ \A i \in 2..(n + 1) : r[i] = q[i - 1] /\ i - 1 \in 1..n
  BY <1>1
<1>3. \A i \in 1..n : i + 1 \in 1..(n + 1) /\ r[i + 1] = q[i]
  BY <1>1
<1> HIDE DEF r
<1>4. \A i \in 1..n : q[i] # k
  BY <1>1, Members
<1>5. Distinct(r)
  <2> SUFFICES ASSUME NEW i \in 1..(n + 1), NEW j \in 1..(n + 1), r[i] = r[j]
               PROVE  i = j
    BY <1>2 DEF Distinct
  <2>1. CASE i = 1 \/ j = 1
    <3>1. \A h \in 2..(n + 1) : r[h] # k
      BY <1>2, <1>4
    <3>2. \A h \in 1..(n + 1) : h = 1 \/ h \in 2..(n + 1)
      OBVIOUS
    <3> QED BY <1>2, <2>1, <3>1, <3>2
  <2>2. CASE i # 1 /\ j # 1
    <3>1. i \in 2..(n + 1) /\ j \in 2..(n + 1)
      BY <2>2
    <3>2. PICK g \in 1..n, h \in 1..n : g = i - 1 /\ h = j - 1 /\ q[g] = q[h]
      BY <1>2, <3>1
    <3>3. g = h
      BY <1>1, <3>2 DEF Distinct
    <3> QED BY <3>1, <3>2, <3>3
  <2> QED BY <2>1, <2>2
<1>6. \A x : (\E i \in 1..(n + 1) : r[i] = x) <=> (\E i \in 1..n : q[i] = x) \/ x = k
  <2>1. \A i \in 1..(n + 1) : r[i] = k \/ (i - 1 \in 1..n /\ r[i] = q[i - 1])
    <3>1. \A i \in 1..(n + 1) : i = 1 \/ i \in 2..(n + 1)
      OBVIOUS
    <3> QED BY <1>2, <3>1
  <2>2. 1 \in 1..(n + 1)
    OBVIOUS
  <2>3. ASSUME NEW x, NEW i \in 1..(n + 1), r[i] = x PROVE (\E j \in 1..n : q[j] = x) \/ x = k
    BY <2>1, <2>3
  <2>4. ASSUME NEW x, NEW i \in 1..n, q[i] = x PROVE \E j \in 1..(n + 1) : r[j] = x
    BY <1>3, <2>4
  <2> QED BY <1>2, <2>2, <2>3, <2>4
<1>7. ToSet(r) = ToSet(q) \cup {k}
  <2>1. \A x : x \in ToSet(r) <=> \E i \in 1..(n + 1) : r[i] = x
    <3>1. r \in Seq(K) /\ Len(r) = n + 1
      BY <1>2
    <3>2. \A x : x \in ToSet(r) <=> \E i \in 1..Len(r) : r[i] = x
      BY <3>1, Members
    <3> QED BY <3>1, <3>2
  <2>2. \A x : x \in ToSet(q) <=> \E i \in 1..n : q[i] = x
    BY <1>1, Members
  <2>3. \A x : x \in ToSet(r) <=> x \in ToSet(q) \/ x = k
    BY <1>6, <2>1, <2>2
  <2> QED BY <2>3
<1> QED BY <1>2, <1>5, <1>7 DEF r

\* A stretch of the list.
LEMMA Stretch ==
  ASSUME NEW K, NEW q \in Seq(K), NEW a \in Nat \ {0}, NEW b \in Nat, b <= Len(q)
  PROVE  /\ SubSeq(q, a, b) \in Seq(K)
         /\ Len(SubSeq(q, a, b)) = IF a <= b THEN b - a + 1 ELSE 0
         /\ \A i \in 1..Len(SubSeq(q, a, b)) : SubSeq(q, a, b)[i] = q[a + i - 1]
<1>0. \A i \in a..b : q[i] \in K
  OBVIOUS
<1>1. /\ SubSeq(q, a, b) \in Seq(K)
      /\ Len(SubSeq(q, a, b)) = IF a <= b THEN b - a + 1 ELSE 0
      /\ \A i \in 1..(b - a + 1) : SubSeq(q, a, b)[i] = q[a + i - 1]
  BY <1>0, SubSeqProperties
<1> DEFINE r == SubSeq(q, a, b)
<1> HIDE DEF r
<1>2. \A i \in 1..Len(r) : i \in 1..(b - a + 1)
  BY <1>1 DEF r
<1> QED BY <1>1, <1>2 DEF r

\* The list without its node at m.
LEMMA Unlinked ==
  ASSUME NEW K, NEW q \in Seq(K), Distinct(q), NEW m \in 1..Len(q)
  PROVE  /\ RemoveAt(q, m) \in Seq(K) /\ Distinct(RemoveAt(q, m))
         /\ ToSet(RemoveAt(q, m)) = ToSet(q) \ {q[m]}
<1> DEFINE r == RemoveAt(q, m)
           p1 == SubSeq(q, 1, m - 1)
           p2 == SubSeq(q, m + 1, Len(q))
<1>1. PICK n \in Nat : n = Len(q) /\ m \in 1..n /\ m - 1 \in Nat /\ m + 1 \in Nat
  OBVIOUS
<1>2. p1 \in Seq(K) /\ Len(p1) = m - 1 /\ \A i \in 1..(m - 1) : p1[i] = q[i]
  <2>1. m - 1 <= Len(q)
    BY <1>1
  <2>2. /\ p1 \in Seq(K) /\ Len(p1) = IF 1 <= m - 1 THEN (m - 1) - 1 + 1 ELSE 0
        /\ \A i \in 1..Len(p1) : p1[i] = q[1 + i - 1]
    BY <1>1, <2>1, Stretch
  <2> HIDE DEF p1
  <2>3. Len(p1) = m - 1
    BY <1>1, <2>2
  <2> QED BY <2>2, <2>3
<1>3. p2 \in Seq(K) /\ Len(p2) = n - m /\ \A i \in 1..(n - m) : p2[i] = q[m + i]
  <2>1. /\ p2 \in Seq(K) /\ Len(p2) = IF m + 1 <= n THEN n - (m + 1) + 1 ELSE 0
        /\ \A i \in 1..Len(p2) : p2[i] = q[(m + 1) + i - 1]
    BY <1>1, Stretch
  <2> HIDE DEF p2
  <2>2. Len(p2) = n - m
    BY <1>1, <2>1
  <2>3. \A i \in 1..(n - m) : (m + 1) + i - 1 = m + i
    BY <1>1
  <2> QED BY <2>1, <2>2, <2>3
<1>4. r = p1 \o p2
  BY DEF RemoveAt
<1> HIDE DEF r, p1, p2
<1>5. /\ r \in Seq(K) /\ Len(r) = n - 1
      /\ \A i \in 1..(n - 1) : r[i] = IF i <= m - 1 THEN q[i] ELSE q[i + 1]
  <2>1. /\ r \in Seq(K) /\ Len(r) = Len(p1) + Len(p2)
        /\ \A i \in 1..(Len(p1) + Len(p2)) :
             r[i] = IF i <= Len(p1) THEN p1[i] ELSE p2[i - Len(p1)]
    BY <1>2, <1>3, <1>4, ConcatProperties
  <2>2. Len(p1) + Len(p2) = n - 1
    BY <1>1, <1>2, <1>3
  <2>3. ASSUME NEW i \in 1..(n - 1)
        PROVE  r[i] = IF i <= m - 1 THEN q[i] ELSE q[i + 1]
    <3>1. CASE i <= m - 1
      <4>1. i \in 1..(m - 1)
        BY <3>1
      <4> QED BY <1>2, <2>1, <2>2, <3>1, <4>1
    <3>2. CASE ~(i <= m - 1)
      <4>1. i - (m - 1) \in 1..(n - m) /\ m + (i - (m - 1)) = i + 1
        BY <1>1, <3>2
      <4>2. r[i] = p2[i - (m - 1)]
        BY <1>2, <2>1, <2>2, <3>2
      <4>3. p2[i - (m - 1)] = q[i + 1]
        BY <1>3, <4>1
      <4> QED BY <3>2, <4>2, <4>3
    <3> QED BY <3>1, <3>2
  <2> QED BY <2>1, <2>2, <2>3
<1> DEFINE src(i) == IF i <= m - 1 THEN i ELSE i + 1
<1>6. \A i \in 1..(n - 1) : src(i) \in 1..n /\ src(i) # m /\ r[i] = q[src(i)]
  BY <1>1, <1>5
<1>7. \A i, j \in 1..(n - 1) : src(i) = src(j) => i = j
  BY <1>1
<1>8. \A i \in 1..n : i # m => \E j \in 1..(n - 1) : src(j) = i
  <2> SUFFICES ASSUME NEW i \in 1..n, i # m PROVE \E j \in 1..(n - 1) : src(j) = i
    OBVIOUS
  <2>1. CASE i < m
    <3>1. i \in 1..(n - 1) /\ src(i) = i
      BY <1>1, <2>1
    <3> QED BY <3>1
  <2>2. CASE i > m
    <3>1. i - 1 \in 1..(n - 1) /\ src(i - 1) = i
      BY <1>1, <2>2
    <3> QED BY <3>1
  <2> QED BY <1>1, <2>1, <2>2
<1> HIDE DEF src
<1>9. Distinct(r)
  <2>1. \A i, j \in 1..(n - 1) : r[i] = r[j] => src(i) = src(j)
    BY <1>1, <1>6 DEF Distinct
  <2> QED BY <1>5, <1>7, <2>1 DEF Distinct
<1>10. \A x : (\E i \in 1..(n - 1) : r[i] = x) <=> (\E i \in 1..n : i # m /\ q[i] = x)
  BY <1>6, <1>8
<1>11. ToSet(r) = ToSet(q) \ {q[m]}
  <2>1. \A i \in 1..n : i # m <=> q[i] # q[m]
    BY <1>1 DEF Distinct
  <2>2. \A x : x \in ToSet(r) <=> \E i \in 1..(n - 1) : r[i] = x
    BY <1>5, Members
  <2>3. \A x : x \in ToSet(q) <=> \E i \in 1..n : q[i] = x
    BY <1>1, Members
  <2>4. \A x : x \in ToSet(r) <=> x \in ToSet(q) /\ x # q[m]
    BY <1>10, <2>1, <2>2, <2>3
  <2> QED BY <2>4
<1> QED BY <1>5, <1>9, <1>11 DEF r

\* erase of the node that holds k.
LEMMA Erased ==
  ASSUME NEW K, NEW q \in Seq(K), Distinct(q), NEW k \in ToSet(q)
  PROVE  /\ RemoveFirst(q, k) \in Seq(K) /\ Distinct(RemoveFirst(q, k))
         /\ ToSet(RemoveFirst(q, k)) = ToSet(q) \ {k}
<1>1. PICK m \in 1..Len(q) : q[m] = k
  BY Members
<1>2. {i \in 1..Len(q) : q[i] = k} = {m}
  BY <1>1 DEF Distinct
<1>3. Min({m}) = m
  <2>1. m <= m
    OBVIOUS
  <2> QED BY <2>1 DEF Min
<1>4. SelectInSeq(q, LAMBDA v : v = k) = m
  BY <1>2, <1>3 DEF SelectInSeq
<1>5. RemoveFirst(q, k) = RemoveAt(q, m)
  BY <1>1, <1>4 DEF RemoveFirst
<1> QED BY <1>1, <1>5, Unlinked

\* pop_back of a list that is not empty.
LEMMA PoppedBack ==
  ASSUME NEW K, NEW q \in Seq(K), q # <<>>, Distinct(q)
  PROVE  /\ Front(q) \in Seq(K) /\ Distinct(Front(q))
         /\ ToSet(Front(q)) = ToSet(q) \ {Last(q)} /\ Last(q) \in ToSet(q)
<1>1. Len(q) \in 1..Len(q)
  OBVIOUS
<1>2. RemoveAt(q, Len(q)) = Front(q)
  <2>1. SubSeq(q, Len(q) + 1, Len(q)) = <<>>
    BY <1>1, SubSeqEmpty
  <2>2. SubSeq(q, 1, Len(q) - 1) \in Seq(K)
    BY <1>1, Stretch
  <2>3. SubSeq(q, 1, Len(q) - 1) \o <<>> = SubSeq(q, 1, Len(q) - 1)
    BY <2>2, ConcatEmptySeq
  <2> QED BY <2>1, <2>3 DEF RemoveAt, Front
<1>3. Last(q) \in ToSet(q)
  BY <1>1, Members DEF Last
<1> QED BY <1>1, <1>2, <1>3, Unlinked DEF Last

\* As many keys as nodes.
LEMMA Sized ==
  ASSUME NEW K, NEW q \in Seq(K), Distinct(q)
  PROVE  IsFiniteSet(ToSet(q)) /\ Cardinality(ToSet(q)) = Len(q)
<1>1. Len(q) \in Nat /\ IsFiniteSet(1..Len(q)) /\ Cardinality(1..Len(q)) = Len(q)
  <2>1. Len(q) \in Nat
    OBVIOUS
  <2>2. IsFiniteSet(1..Len(q)) /\ Cardinality(1..Len(q)) = IF 1 > Len(q) THEN 0 ELSE Len(q) - 1 + 1
    BY <2>1, FS_Interval
  <2> QED BY <2>1, <2>2
<1>2. q \in Bijection(1..Len(q), ToSet(q))
  <2>1. q \in [1..Len(q) -> ToSet(q)]
    BY Members
  <2>2. \A i, j \in 1..Len(q) : q[i] = q[j] => i = j
    BY DEF Distinct
  <2>3. \A x \in ToSet(q) : \E i \in 1..Len(q) : q[i] = x
    BY Members
  <2> QED BY <2>1, <2>2, <2>3 DEF Bijection, Injection, Surjection, IsInjective
<1>3. ExistsBijection(1..Len(q), ToSet(q))
  BY <1>2 DEF ExistsBijection
<1> QED BY <1>1, <1>3, FS_Bijection

\* A list of all keys of S, each once.
LEMMA Listing ==
  ASSUME NEW K, NEW S \in SUBSET K, IsFiniteSet(S), NEW s \in SetToSeqs(S)
  PROVE  s \in Seq(K) /\ Distinct(s) /\ ToSet(s) = S
<1>1. Cardinality(S) \in Nat
  BY FS_CardinalityType
<1>2. /\ s \in [1..Cardinality(S) -> S]
      /\ \A i, j \in 1..Cardinality(S) : i # j => s[i] # s[j]
  BY DEF SetToSeqs
<1>3. s \in Seq(S) /\ Len(s) = Cardinality(S)
  BY <1>1, <1>2
<1>4. s \in Injection(1..Cardinality(S), S)
  BY <1>2 DEF Injection, IsInjective
<1>5. Cardinality(1..Cardinality(S)) = Cardinality(S)
  <2>1. Cardinality(1..Cardinality(S)) = IF 1 > Cardinality(S) THEN 0 ELSE Cardinality(S) - 1 + 1
    BY <1>1, FS_Interval
  <2> QED BY <1>1, <2>1
<1>6. s \in Surjection(1..Cardinality(S), S)
  BY <1>4, <1>5, FS_Injection
<1>7. \A x \in S : \E i \in 1..Len(s) : s[i] = x
  BY <1>3, <1>6 DEF Surjection
<1>8. Distinct(s)
  BY <1>2, <1>3 DEF Distinct
<1>9. ToSet(s) = S
  <2>1. ToSet(s) \in SUBSET S /\ \A x : x \in ToSet(s) <=> \E i \in 1..Len(s) : s[i] = x
    BY <1>3, Members
  <2> QED BY <1>7, <2>1
<1> QED BY <1>3, <1>8, <1>9

-----------------------------------------------------------------------------
(* The list of L1 and its table.                                           *)

Good(q, f) ==
  /\ q \in Seq(CacheKeys) /\ Distinct(q) /\ ToSet(q) = DOMAIN f
  /\ IsFiniteSet(DOMAIN f) /\ Cardinality(DOMAIN f) <= Capacity

LEMMA GoodMatches == Good(lruOrder, entries) => LruMatchesEntries
<1> SUFFICES ASSUME Good(lruOrder, entries) PROVE LruMatchesEntries
  OBVIOUS
<1>1. Len(lruOrder) <= Capacity
  BY Sized DEF Good
<1> QED BY <1>1 DEF Good, Distinct, LruMatchesEntries

\* A key that is in the table goes to the front.
LEMMA TouchGood ==
  ASSUME NEW f, Good(lruOrder, f), NEW k \in DOMAIN f
  PROVE  Good(ToFront(k), f)
<1> DEFINE r == RemoveFirst(lruOrder, k)
<1>1. r \in Seq(CacheKeys) /\ Distinct(r) /\ ToSet(r) = DOMAIN f \ {k}
  BY Erased DEF Good
<1>2. k \in CacheKeys
  BY Members DEF Good
<1> HIDE DEF r
<1>3. /\ <<k>> \o r \in Seq(CacheKeys) /\ Distinct(<<k>> \o r)
      /\ ToSet(<<k>> \o r) = ToSet(r) \cup {k}
  BY <1>1, <1>2, Pushed
<1>4. ToSet(<<k>> \o r) = DOMAIN f
  BY <1>1, <1>3
<1> QED BY <1>3, <1>4 DEF Good, ToFront, r

\* One key is erased from both.
LEMMA EraseGood ==
  ASSUME NEW q, NEW f, Good(q, f), NEW k \in DOMAIN f
  PROVE  Good(RemoveFirst(q, k), Only(f, DOMAIN f \ {k}))
<1>1. /\ RemoveFirst(q, k) \in Seq(CacheKeys) /\ Distinct(RemoveFirst(q, k))
      /\ ToSet(RemoveFirst(q, k)) = DOMAIN f \ {k}
  BY Erased DEF Good
<1>2. DOMAIN Only(f, DOMAIN f \ {k}) = DOMAIN f \ {k}
  BY DEF Only
<1>3. IsFiniteSet(DOMAIN f \ {k}) /\ Cardinality(DOMAIN f \ {k}) <= Cardinality(DOMAIN f)
  BY FS_Subset DEF Good
<1>4. Cardinality(DOMAIN f) \in Nat /\ Cardinality(DOMAIN f \ {k}) \in Nat
  BY <1>3, FS_CardinalityType DEF Good
<1>5. Cardinality(DOMAIN f \ {k}) <= Capacity
  BY <1>3, <1>4, ResultCacheAssumption DEF Good
<1> QED BY <1>1, <1>2, <1>3, <1>5 DEF Good

\* A new key in a table with room for it.
LEMMA AddGood ==
  ASSUME NEW q, NEW f, Good(q, f), NEW k \in CacheKeys, k \notin DOMAIN f, NEW e,
         Cardinality(DOMAIN f) < Capacity
  PROVE  Good(<<k>> \o q, With(f, k, e))
<1>1. /\ <<k>> \o q \in Seq(CacheKeys) /\ Distinct(<<k>> \o q)
      /\ ToSet(<<k>> \o q) = DOMAIN f \cup {k}
  BY Pushed DEF Good
<1>2. DOMAIN With(f, k, e) = DOMAIN f \cup {k}
  BY DEF With
<1>3. /\ IsFiniteSet(DOMAIN f \cup {k})
      /\ Cardinality(DOMAIN f \cup {k}) = Cardinality(DOMAIN f) + 1
      /\ Cardinality(DOMAIN f) \in Nat
  BY FS_AddElement, FS_CardinalityType DEF Good
<1>4. Cardinality(DOMAIN f \cup {k}) <= Capacity
  BY <1>3, ResultCacheAssumption
<1> QED BY <1>1, <1>2, <1>3, <1>4 DEF Good

\* The least recent key makes room.
LEMMA EvictGood ==
  ASSUME NEW q, NEW f, Good(q, f), q # <<>>
  PROVE  /\ Good(Front(q), Only(f, DOMAIN f \ {Last(q)}))
         /\ DOMAIN Only(f, DOMAIN f \ {Last(q)}) = DOMAIN f \ {Last(q)}
         /\ Cardinality(DOMAIN Only(f, DOMAIN f \ {Last(q)})) < Capacity
<1>1. /\ Front(q) \in Seq(CacheKeys) /\ Distinct(Front(q))
      /\ ToSet(Front(q)) = DOMAIN f \ {Last(q)} /\ Last(q) \in DOMAIN f
  BY PoppedBack DEF Good
<1>2. DOMAIN Only(f, DOMAIN f \ {Last(q)}) = DOMAIN f \ {Last(q)}
  BY DEF Only
<1>3. /\ IsFiniteSet(DOMAIN f \ {Last(q)})
      /\ Cardinality(DOMAIN f \ {Last(q)}) = Cardinality(DOMAIN f) - 1
      /\ Cardinality(DOMAIN f) \in Nat
  BY <1>1, FS_RemoveElement, FS_CardinalityType DEF Good
<1>4. Cardinality(DOMAIN f \ {Last(q)}) < Capacity
  BY <1>3, ResultCacheAssumption DEF Good
<1>5. Cardinality(DOMAIN f \ {Last(q)}) <= Capacity
  BY <1>3, ResultCacheAssumption DEF Good
<1> QED BY <1>1, <1>2, <1>3, <1>4, <1>5 DEF Good

LEMMA PutL1Good ==
  ASSUME Good(lruOrder, entries), NEW k \in CacheKeys, NEW e, PutL1(k, e)
  PROVE  Good(lruOrder', entries')
<1>1. CASE k \in DOMAIN entries /\ entries' = [entries EXCEPT ![k] = e] /\ lruOrder' = ToFront(k)
  <2>1. DOMAIN entries' = DOMAIN entries
    BY <1>1
  <2>2. Good(ToFront(k), entries)
    BY <1>1, TouchGood
  <2> QED BY <1>1, <2>1, <2>2 DEF Good
<1>2. CASE /\ k \notin DOMAIN entries /\ Full
           /\ entries' = With(Only(entries, DOMAIN entries \ {Last(lruOrder)}), k, e)
           /\ lruOrder' = <<k>> \o Front(lruOrder)
  <2> DEFINE f == Only(entries, DOMAIN entries \ {Last(lruOrder)})
  <2>1. /\ Good(Front(lruOrder), f) /\ DOMAIN f = DOMAIN entries \ {Last(lruOrder)}
        /\ Cardinality(DOMAIN f) < Capacity
    BY <1>2, EvictGood DEF Full
  <2>2. k \notin DOMAIN f
    BY <1>2, <2>1
  <2> HIDE DEF f
  <2>3. Good(<<k>> \o Front(lruOrder), With(f, k, e))
    BY <2>1, <2>2, AddGood
  <2> QED BY <1>2, <2>3 DEF f
<1>3. CASE /\ k \notin DOMAIN entries /\ ~Full
           /\ entries' = With(entries, k, e) /\ lruOrder' = <<k>> \o lruOrder
  <2>1. Cardinality(DOMAIN entries) < Capacity
    <3>1. CASE lruOrder = <<>>
      <4>1. Cardinality(DOMAIN entries) = Len(lruOrder)
        BY Sized DEF Good
      <4>2. Cardinality(DOMAIN entries) = 0
        BY <3>1, <4>1
      <4> QED BY <4>2, ResultCacheAssumption
    <3>2. CASE lruOrder # <<>>
      <4>1. Cardinality(DOMAIN entries) \in Nat
        BY FS_CardinalityType DEF Good
      <4> QED BY <1>3, <3>2, <4>1, ResultCacheAssumption DEF Full
    <3> QED BY <3>1, <3>2
  <2> QED BY <1>3, <2>1, AddGood
<1> QED BY <1>1, <1>2, <1>3 DEF PutL1

LEMMA CleanupGood ==
  ASSUME Good(lruOrder, entries), Cleanup
  PROVE  Good(lruOrder', entries')
<1>1. entries' = Only(entries, Live(entries)) /\ lruOrder' \in SetToSeqs(Live(entries))
  BY DEF Cleanup
<1>2. Live(entries) \subseteq DOMAIN entries
  BY DEF Live
<1>3. DOMAIN entries' = Live(entries)
  BY <1>1, <1>2 DEF Only
<1>4. DOMAIN entries \subseteq CacheKeys
  BY Members DEF Good
<1>5. IsFiniteSet(Live(entries)) /\ Cardinality(Live(entries)) <= Cardinality(DOMAIN entries)
  BY <1>2, FS_Subset DEF Good
<1>6. lruOrder' \in Seq(CacheKeys) /\ Distinct(lruOrder') /\ ToSet(lruOrder') = Live(entries)
  BY <1>1, <1>2, <1>4, <1>5, Listing
<1>7. Cardinality(DOMAIN entries) \in Nat /\ Cardinality(Live(entries)) \in Nat
  BY <1>5, FS_CardinalityType DEF Good
<1>8. Cardinality(Live(entries)) <= Capacity
  BY <1>5, <1>7, ResultCacheAssumption DEF Good
<1> QED BY <1>3, <1>5, <1>6, <1>8 DEF Good

-----------------------------------------------------------------------------
(* Types, and the list with them.                                          *)

Rows(f) == DOMAIN f \subseteq CacheKeys /\ \A k \in DOMAIN f : f[k] \in Entries

WorkerOK ==
  /\ step \in [Workers -> {"idle", "lookup", "hit", "scan", "read", "put", "cleanup"}]
  /\ \A w \in Workers :
       /\ key[w] \in IF step[w] \in {"idle", "cleanup"} THEN {None} ELSE CacheKeys
       /\ result[w] \in IF step[w] \in {"hit", "put"} THEN Results ELSE {None}

SystemOK ==
  /\ clock \in 0..MaxTime /\ version \in [Files -> 1..MaxVersion]
  /\ engine \in Engines /\ dbOpen \in BOOLEAN

TableOK == Rows(entries) /\ Rows(db) /\ Good(lruOrder, entries)

LInv == IInv /\ SystemOK /\ WorkerOK /\ TableOK

LEMMA LInvTypes == LInv => TypeOK
BY DEF LInv, SystemOK, WorkerOK, TableOK, TypeOK, Rows, Good

LEMMA InitLInv == Init => LInv
<1> SUFFICES ASSUME Init PROVE LInv
  OBVIOUS
<1>1. SystemOK
  BY ResultCacheAssumption DEF Init, SystemOK
<1>2. WorkerOK
  BY DEF Init, WorkerOK
<1>3. Rows(entries) /\ Rows(db)
  BY DEF Init, Rows
<1>4. <<>> \in Seq(CacheKeys) /\ Distinct(<<>>) /\ ToSet(<<>>) = {}
  BY DEF Distinct, ToSet
<1>5. DOMAIN entries = {} /\ lruOrder = <<>>
  BY DEF Init
<1>6. Good(lruOrder, entries)
  BY <1>4, <1>5, FS_EmptySet, ResultCacheAssumption DEF Good
<1> QED BY <1>1, <1>2, <1>3, <1>6, InitIInv DEF LInv, TableOK

LEMMA RowsKept ==
  ASSUME NEW f, Rows(f), NEW S
  PROVE  Rows(Only(f, S))
BY DEF Rows, Only

LEMMA RowsPut ==
  ASSUME NEW f, Rows(f), NEW k \in CacheKeys, NEW e \in Entries
  PROVE  Rows(With(f, k, e))
BY DEF Rows, With

LEMMA PutL1Rows ==
  ASSUME Rows(entries), NEW k \in CacheKeys, NEW e \in Entries, PutL1(k, e)
  PROVE  Rows(entries')
<1>1. k \in DOMAIN entries => [entries EXCEPT ![k] = e] = With(entries, k, e)
  BY DEF With
<1>2. entries' = With(entries, k, e) \/ \E S : entries' = With(Only(entries, S), k, e)
  BY <1>1 DEF PutL1
<1> QED BY <1>2, RowsKept, RowsPut

LEMMA DeletedRows ==
  ASSUME Rows(db), DeleteExpired
  PROVE  Rows(db')
BY RowsKept DEF DeleteExpired

\* The fields of rows.
LEMMA Fields ==
  /\ \A e \in Entries : e.result \in Results /\ e.expiresAt \in Nat
  /\ \A r \in Results, t \in 0..MaxTime : [r EXCEPT !.at = t] \in Results
  /\ \A r \in Results, t \in Nat : [result |-> r, expiresAt |-> t] \in Entries
  /\ \A k \in CacheKeys : k.file \in Files /\ k.version \in 1..MaxVersion /\ k.engine \in Engines
  /\ \A k \in CacheKeys, v \in 1..MaxVersion : [k EXCEPT !.version = v] \in CacheKeys
BY DEF Entries, Results, CacheKeys

LEMMA TryGetL ==
  ASSUME LInv, NEW w \in Workers, TryGet(w)
  PROVE  SystemOK' /\ WorkerOK' /\ TableOK'
<1>1. /\ step[w] = "lookup" /\ key[w] \in CacheKeys /\ Rows(entries) /\ Rows(db)
      /\ Good(lruOrder, entries)
  BY DEF LInv, WorkerOK, TableOK, TryGet
<1>2. SystemOK'
  BY DEF LInv, SystemOK, TryGet
<1>3. WorkerOK'
  <2>1. Missed(w) \/ \E r \in Results : Found(w, r)
    BY <1>1, Returned, Fields DEF LInv, Live, Rows
  <2>2. key' = key
    BY DEF TryGet
  <2>3. DOMAIN result = Workers
    BY DEF LInv, IInv, Typed
  <2>4. CASE Missed(w)
    BY <1>1, <2>2, <2>4 DEF LInv, WorkerOK, Missed
  <2>5. CASE \E r \in Results : Found(w, r)
    <3>1. PICK r \in Results : Found(w, r)
      BY <2>5
    <3> QED BY <1>1, <2>2, <2>3, <3>1 DEF LInv, WorkerOK, Found
  <2> QED BY <2>1, <2>4, <2>5
<1>4. TableOK'
  <2>1. CASE HitL1(w)
    <3>1. /\ entries' = entries /\ db' = db /\ lruOrder' = ToFront(key[w])
          /\ key[w] \in DOMAIN entries
      BY <2>1 DEF HitL1, Live
    <3>2. Good(lruOrder', entries)
      BY <1>1, <3>1, TouchGood
    <3> QED BY <1>1, <3>1, <3>2 DEF TableOK
  <2>2. CASE ExpiredL1(w)
    <3>1. /\ key[w] \in DOMAIN entries /\ lruOrder' = RemoveFirst(lruOrder, key[w])
          /\ entries' = Only(entries, DOMAIN entries \ {key[w]}) /\ DeleteExpired
      BY <2>2 DEF ExpiredL1
    <3>2. Good(lruOrder', entries')
      BY <1>1, <3>1, EraseGood
    <3> QED BY <1>1, <3>1, <3>2, RowsKept, DeletedRows DEF TableOK
  <2>3. CASE HitL2(w)
    <3>1. PutL1(key[w], db[key[w]]) /\ db[key[w]] \in Entries /\ db' = db
      BY <1>1, <2>3 DEF HitL2, Live, Rows
    <3> QED BY <1>1, <3>1, PutL1Rows, PutL1Good DEF TableOK
  <2>4. CASE ExpiredL2(w)
    BY <1>1, <2>4, DeletedRows DEF ExpiredL2, TableOK
  <2>5. CASE Miss(w)
    BY <1>1, <2>5 DEF Miss, TableOK
  <2> QED BY <2>1, <2>2, <2>3, <2>4, <2>5 DEF TryGet
<1> QED BY <1>2, <1>3, <1>4

LEMMA PutL ==
  ASSUME LInv, NEW w \in Workers, Put(w)
  PROVE  SystemOK' /\ WorkerOK' /\ TableOK'
<1> DEFINE k == key[w]
           e == [result |-> [result[w] EXCEPT !.at = clock], expiresAt |-> clock + Ttl]
<1>1. /\ step[w] = "put" /\ PutL1(k, e) /\ (db' = db \/ db' = With(db, k, e))
      /\ Leave(w, "cleanup") /\ UNCHANGED <<clock, version, engine, dbOpen>>
  BY DEF Put
<1>2. k \in CacheKeys /\ result[w] \in Results
  BY <1>1 DEF LInv, WorkerOK
<1>3. e \in Entries
  <2>1. [result[w] EXCEPT !.at = clock] \in Results
    BY <1>2, Fields DEF LInv, SystemOK
  <2>2. clock + Ttl \in Nat
    BY ResultCacheAssumption DEF LInv, SystemOK
  <2> QED BY <2>1, <2>2, Fields
<1> HIDE DEF k, e
<1>4. TableOK'
  <2>1. Rows(entries) /\ Rows(db) /\ Good(lruOrder, entries)
    BY DEF LInv, TableOK
  <2>2. Rows(db')
    BY <1>1, <1>2, <1>3, <2>1, RowsPut
  <2> QED BY <1>1, <1>2, <1>3, <2>1, <2>2, PutL1Rows, PutL1Good DEF TableOK
<1>5. SystemOK'
  BY <1>1 DEF LInv, SystemOK
<1>6. WorkerOK'
  BY <1>1 DEF LInv, IInv, Typed, WorkerOK, Leave
<1> QED BY <1>4, <1>5, <1>6

LEMMA WorkerL ==
  ASSUME LInv, NEW w \in Workers,
         \/ \E f \in Files : Identify(w, f)
         \/ ReportHit(w) \/ EngineMetadata(w) \/ EngineReads(w) \/ ScanFails(w)
  PROVE  SystemOK' /\ WorkerOK' /\ TableOK'
<1>1. UNCHANGED <<clock, version, engine, entries, lruOrder, db, dbOpen>>
  BY DEF Identify, ReportHit, EngineMetadata, EngineReads, ScanFails, cacheVars
<1>2. SystemOK' /\ TableOK'
  BY <1>1 DEF LInv, SystemOK, TableOK
<1>3. DOMAIN key = Workers /\ DOMAIN result = Workers /\ WorkerOK /\ SystemOK
  BY DEF LInv, IInv, Typed
<1>4. CASE \E f \in Files : Identify(w, f)
  <2>1. PICK f \in Files : Identify(w, f)
    BY <1>4
  <2>2. [file |-> f, version |-> version[f], engine |-> engine] \in CacheKeys
    BY <1>3 DEF SystemOK, CacheKeys
  <2> QED BY <1>2, <1>3, <2>1, <2>2 DEF WorkerOK, Identify
<1>5. CASE ReportHit(w) \/ ScanFails(w)
  BY <1>2, <1>3, <1>5 DEF WorkerOK, ReportHit, ScanFails, Leave
<1>6. CASE EngineMetadata(w)
  <2>1. /\ step' = [step EXCEPT ![w] = "read"] /\ step[w] = "scan" /\ result' = result
        /\ key' = [key EXCEPT ![w] = [key[w] EXCEPT !.version = version[key[w].file]]]
    BY <1>6 DEF EngineMetadata
  <2>2. key[w] \in CacheKeys
    BY <1>3, <2>1 DEF WorkerOK
  <2>3. version[key[w].file] \in 1..MaxVersion
    BY <1>3, <2>2, Fields DEF SystemOK
  <2>4. [key[w] EXCEPT !.version = version[key[w].file]] \in CacheKeys
    BY <2>2, <2>3, Fields
  <2>5. PICK x \in CacheKeys : key' = [key EXCEPT ![w] = x]
    BY <2>1, <2>4
  <2> QED BY <1>2, <1>3, <2>1, <2>5 DEF WorkerOK
<1>7. CASE EngineReads(w)
  <2>1. step[w] = "read" /\ key[w] \in CacheKeys
    BY <1>3, <1>7 DEF WorkerOK, EngineReads
  <2>2. /\ [file |-> key[w].file, content |-> version[key[w].file], engine |-> engine, at |-> 0]
             \in Results
    BY <1>3, <2>1, Fields, ResultCacheAssumption DEF SystemOK, Results
  <2>3. PICK r \in Results : result' = [result EXCEPT ![w] = r]
    BY <1>7, <2>2 DEF EngineReads
  <2> QED BY <1>2, <1>3, <1>7, <2>1, <2>3 DEF WorkerOK, EngineReads
<1> QED BY <1>4, <1>5, <1>6, <1>7

LEMMA CleanupL ==
  ASSUME LInv, (\E w \in Workers : WorkerCleanup(w)) \/ TelemetryCleanup
  PROVE  SystemOK' /\ WorkerOK' /\ TableOK'
<1>1. /\ Cleanup /\ entries' = Only(entries, Live(entries)) /\ DeleteExpired
      /\ UNCHANGED <<clock, version, engine, dbOpen, key, result>>
  BY DEF WorkerCleanup, TelemetryCleanup, Cleanup
<1>2. TableOK'
  BY <1>1, CleanupGood, RowsKept, DeletedRows DEF LInv, TableOK
<1>3. SystemOK'
  BY <1>1 DEF LInv, SystemOK
<1>4. WorkerOK'
  BY <1>1 DEF LInv, WorkerOK, WorkerCleanup, TelemetryCleanup
<1> QED BY <1>2, <1>3, <1>4

LEMMA EnvironmentL ==
  ASSUME LInv, (\E f \in Files : FileChanges(f)) \/ Tick \/ Restart \/ UNCHANGED vars
  PROVE  SystemOK' /\ WorkerOK' /\ TableOK'
<1>1. CASE \E f \in Files : FileChanges(f)
  <2>1. PICK f \in Files : version[f] < MaxVersion /\ version' = [version EXCEPT ![f] = @ + 1]
    BY <1>1 DEF FileChanges
  <2>2. UNCHANGED <<clock, engine, entries, lruOrder, db, dbOpen, step, key, result>>
    BY <1>1 DEF FileChanges, cacheVars, workerVars
  <2>3. version[f] + 1 \in 1..MaxVersion
    BY <2>1, ResultCacheAssumption DEF LInv, SystemOK
  <2>4. SystemOK'
    BY <2>1, <2>2, <2>3 DEF LInv, SystemOK
  <2> QED BY <2>2, <2>4 DEF LInv, WorkerOK, TableOK
<1>2. CASE Tick
  BY <1>2, ResultCacheAssumption
     DEF LInv, SystemOK, WorkerOK, TableOK, Tick, cacheVars, workerVars
<1>3. CASE Restart
  <2>1. SystemOK'
    BY <1>3 DEF LInv, SystemOK, Restart
  <2>2. WorkerOK'
    BY <1>3 DEF WorkerOK, Restart
  <2>3. Rows(db')
    BY <1>3, RowsKept DEF LInv, TableOK, Restart
  <2>4. <<>> \in Seq(CacheKeys) /\ Distinct(<<>>) /\ ToSet(<<>>) = {}
    BY DEF Distinct, ToSet
  <2>5. DOMAIN entries' = {} /\ lruOrder' = <<>>
    BY <1>3 DEF Restart
  <2>6. Good(lruOrder', entries') /\ Rows(entries')
    BY <2>4, <2>5, FS_EmptySet, ResultCacheAssumption DEF Good, Rows
  <2> QED BY <2>1, <2>2, <2>3, <2>6 DEF TableOK
<1>4. CASE UNCHANGED vars
  BY <1>4 DEF LInv, SystemOK, WorkerOK, TableOK, vars, cacheVars, workerVars
<1> QED BY <1>1, <1>2, <1>3, <1>4

LEMMA NextLInv == LInv /\ [Next]_vars => LInv'
<1> SUFFICES ASSUME LInv, [Next]_vars PROVE LInv'
  OBVIOUS
<1>1. IInv'
  BY NextIInv DEF LInv
<1>2. SystemOK' /\ WorkerOK' /\ TableOK'
  BY TryGetL, PutL, WorkerL, CleanupL, EnvironmentL DEF Next
<1> QED BY <1>1, <1>2 DEF LInv

LEMMA ListInvariance == Spec => []LInv
BY InitLInv, NextLInv, PTL DEF Spec

\* The types of the variables: keys, rows and results in both tables and with the
\* workers, for any workers, files and engines (Cache.h:22-70, 91-105).
THEOREM TypeCorrect == Spec => []TypeOK
BY ListInvariance, LInvTypes, PTL

\* The list and the table of L1 stay one, whatever hits, expiries, evictions, cleanups
\* and restarts do, and within the capacity (Cache.cpp:84-103, 134-159, 167-178).
THEOREM ListAndTable == Spec => []LruMatchesEntries
<1>1. LInv => LruMatchesEntries
  BY GoodMatches DEF LInv, TableOK
<1> QED BY ListInvariance, <1>1, PTL
=============================================================================
