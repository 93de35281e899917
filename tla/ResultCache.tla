---------------------------- MODULE ResultCache ----------------------------
(***************************************************************************)
(* ResultCache and the workers that use it: an LRU table in memory (L1:    *)
(* entries_ and lruOrder_) over a SQLite table (L2), both with a TTL, and  *)
(* WorkerLoop, which looks a file up by its identity, scans it on a miss   *)
(* and puts the result under the identity the engine has read.             *)
(*                                                                         *)
(* Every operation of the cache is one critical section of its mutex_.     *)
(* The file may change between any two steps of a worker, SQLite calls may *)
(* fail, and the service may stop or crash and come back, also with        *)
(* another version of the engine.  RULE_SET_VERSION and                    *)
(* CACHE_SCHEMA_VERSION are compiled in and go with the engine's version.  *)
(***************************************************************************)
EXTENDS Integers, Sequences, SequencesExt

CONSTANTS
  Workers, Files, Engines,
  Capacity,    \* L1_MAX_CAPACITY (2000)
  Ttl,         \* ttl_ (ten minutes)
  MaxTime,     \* bound: the system clock stops here
  MaxVersion   \* bound: a file takes on at most this many identities

ASSUME ResultCacheAssumption ==
  /\ Capacity \in Nat \ {0} /\ Ttl \in Nat \ {0}
  /\ MaxTime \in Nat /\ MaxVersion \in Nat \ {0} /\ Engines # {}

VARIABLES
  clock,      \* system_clock; taken to go forwards
  version,    \* each file: its size and last write time; never the same again
  engine,     \* the version of the loaded engine
  entries,    \* entries_
  lruOrder,   \* lruOrder_, the most recent key first
  db,         \* the rows of scan_cache
  dbOpen,     \* the database is open and its statements are prepared
  step,       \* each worker: how far WorkerLoop is with its job
  key,        \* the key it looks up, then the one it puts, or None
  result      \* the result it has, or None

cacheVars == <<entries, lruOrder, db, dbOpen>>
workerVars == <<step, key, result>>
vars == <<clock, version, engine, cacheVars, workerVars>>

None == <<>>

CacheKeys == [file : Files, version : 1..MaxVersion, engine : Engines]

\* What a result is about: the content read and the engine that judged it, and
\* when it was put into the cache.
Results == [file : Files, content : 1..MaxVersion, engine : Engines, at : 0..MaxTime]
Entries == [result : Results, expiresAt : Nat]

Init ==
  /\ clock = 0
  /\ version = [f \in Files |-> 1]
  /\ engine \in Engines
  /\ entries = <<>>
  /\ lruOrder = <<>>
  /\ db = <<>>
  /\ dbOpen \in BOOLEAN
  /\ step = [w \in Workers |-> "idle"]
  /\ key = [w \in Workers |-> None]
  /\ result = [w \in Workers |-> None]

-----------------------------------------------------------------------------
(* The two tables.                                                         *)

\* f without the keys outside S, and f with value v for k.
Only(f, S) == [k \in DOMAIN f \cap S |-> f[k]]
With(f, k, v) == [x \in DOMAIN f \cup {k} |-> IF x = k THEN v ELSE f[x]]

Live(f) == {k \in DOMAIN f : clock < f[k].expiresAt}

ToFront(k) == <<k>> \o RemoveFirst(lruOrder, k)

Full == Cardinality(DOMAIN entries) >= Capacity /\ lruOrder # <<>>

\* Mutant: the entry in memory keeps its old expiry.
PutL1Stale(k, e) ==
  \/ /\ k \in DOMAIN entries
     /\ entries' = [entries EXCEPT ![k].result = e.result]
     /\ lruOrder' = ToFront(k)
  \/ /\ k \notin DOMAIN entries /\ Full
     /\ entries' = With(Only(entries, DOMAIN entries \ {Last(lruOrder)}), k, e)
     /\ lruOrder' = <<k>> \o Front(lruOrder)
  \/ /\ k \notin DOMAIN entries /\ ~Full
     /\ entries' = With(entries, k, e)
     /\ lruOrder' = <<k>> \o lruOrder

\* PutL1Locked: a new key in a full table displaces the least recent one.
PutL1(k, e) ==
  \/ /\ k \in DOMAIN entries
     /\ entries' = [entries EXCEPT ![k] = e]
     /\ lruOrder' = ToFront(k)
  \/ /\ k \notin DOMAIN entries /\ Full
     /\ entries' = With(Only(entries, DOMAIN entries \ {Last(lruOrder)}), k, e)
     /\ lruOrder' = <<k>> \o Front(lruOrder)
  \/ /\ k \notin DOMAIN entries /\ ~Full
     /\ entries' = With(entries, k, e)
     /\ lruOrder' = <<k>> \o lruOrder

\* DeleteExpiredDatabaseLocked; without a database, or when SQLite fails, nothing.
DeleteExpired ==
  \/ db' = db
  \/ dbOpen /\ db' = Only(db, Live(db))

-----------------------------------------------------------------------------
(* TryGet(): five ways to go, by what it finds.                            *)

Found(w, r) ==
  /\ result' = [result EXCEPT ![w] = r]
  /\ step' = [step EXCEPT ![w] = "hit"]

Missed(w) ==
  /\ step' = [step EXCEPT ![w] = "scan"]
  /\ UNCHANGED result

HitL1(w) ==
  LET k == key[w] IN
  /\ k \in Live(entries)
  /\ lruOrder' = ToFront(k)
  /\ Found(w, entries[k].result)
  /\ UNCHANGED <<entries, db>>

\* Mutant: an expired entry leaves its place in the list behind.
ExpiredL1Listed(w) ==
  LET k == key[w] IN
  /\ k \in DOMAIN entries \ Live(entries)
  /\ entries' = Only(entries, DOMAIN entries \ {k})
  /\ DeleteExpired
  /\ Missed(w)
  /\ UNCHANGED lruOrder

ExpiredL1(w) ==
  LET k == key[w] IN
  /\ k \in DOMAIN entries \ Live(entries)
  /\ entries' = Only(entries, DOMAIN entries \ {k})
  /\ lruOrder' = RemoveFirst(lruOrder, k)
  /\ DeleteExpired
  /\ Missed(w)

\* Mutant: a row that comes up into memory starts a new TTL.
HitL2Renewed(w) ==
  LET k == key[w] IN
  /\ k \notin DOMAIN entries /\ dbOpen /\ k \in Live(db)
  /\ PutL1(k, [db[k] EXCEPT !.expiresAt = clock + Ttl])
  /\ Found(w, db[k].result)
  /\ UNCHANGED db

HitL2(w) ==
  LET k == key[w] IN
  /\ k \notin DOMAIN entries /\ dbOpen /\ k \in Live(db)
  /\ PutL1(k, db[k])
  /\ Found(w, db[k].result)
  /\ UNCHANGED db

ExpiredL2(w) ==
  LET k == key[w] IN
  /\ k \notin DOMAIN entries /\ dbOpen /\ k \in DOMAIN db \ Live(db)
  /\ DeleteExpired
  /\ Missed(w)
  /\ UNCHANGED <<entries, lruOrder>>

\* No row, no database, or the query fails.
Miss(w) ==
  /\ key[w] \notin DOMAIN entries
  /\ Missed(w)
  /\ UNCHANGED <<entries, lruOrder, db>>

TryGet(w) ==
  /\ step[w] = "lookup"
  /\ HitL1(w) \/ ExpiredL1(w) \/ HitL2(w) \/ ExpiredL2(w) \/ Miss(w)
  /\ UNCHANGED <<clock, version, engine, dbOpen, key>>

-----------------------------------------------------------------------------
(* WorkerLoop().                                                           *)

\* GetFileIdentity reads the file's size and last write time.
Identify(w, f) ==
  /\ step[w] = "idle"
  /\ step' = [step EXCEPT ![w] = "lookup"]
  /\ key' = [key EXCEPT ![w] = [file |-> f, version |-> version[f], engine |-> engine]]
  /\ UNCHANGED <<clock, version, engine, cacheVars, result>>

\* The job is over, and with it what the worker holds.
Leave(w, s) ==
  /\ step' = [step EXCEPT ![w] = s]
  /\ key' = [key EXCEPT ![w] = None]
  /\ result' = [result EXCEPT ![w] = None]

\* The job is completed from the cache.
ReportHit(w) ==
  /\ step[w] = "hit"
  /\ Leave(w, "idle")
  /\ UNCHANGED <<clock, version, engine, cacheVars>>

\* The engine reads the identity (ReadFileMetadata) the result will carry ...
EngineMetadata(w) ==
  /\ step[w] = "scan"
  /\ step' = [step EXCEPT ![w] = "read"]
  /\ key' = [key EXCEPT ![w].version = version[key[w].file]]
  /\ UNCHANGED <<clock, version, engine, cacheVars, result>>

\* ... and then the content.
EngineReads(w) ==
  LET f == key[w].file IN
  /\ step[w] = "read"
  /\ step' = [step EXCEPT ![w] = "put"]
  /\ result' = [result EXCEPT ![w] = [file |-> f, content |-> version[f],
                                      engine |-> engine, at |-> 0]]
  /\ UNCHANGED <<clock, version, engine, cacheVars, key>>

\* The scan fails, is cancelled, or was cancelled while the engine was finishing.
ScanFails(w) ==
  /\ step[w] \in {"scan", "read", "put"}
  /\ Leave(w, "cleanup")
  /\ UNCHANGED <<clock, version, engine, cacheVars>>

\* Put() writes both tables; InsertDatabaseLocked may fail.
Put(w) ==
  LET k == key[w]
      e == [result |-> [result[w] EXCEPT !.at = clock], expiresAt |-> clock + Ttl]
  IN  /\ step[w] = "put"
      /\ PutL1(k, e)
      /\ \/ db' = db
         \/ dbOpen /\ db' = With(db, k, e)
      /\ Leave(w, "cleanup")
      /\ UNCHANGED <<clock, version, engine, dbOpen>>

\* The keys of s stand in the order they have in lruOrder.
InOrder(s) ==
  \A i, j \in 1..Len(s) : i < j =>
    \E m, n \in 1..Len(lruOrder) : m < n /\ lruOrder[m] = s[i] /\ lruOrder[n] = s[j]

\* Cleanup(), at the end of the loop and by the telemetry thread: what has expired
\* leaves the table and the list, the rest of the list stays as it is.
Cleanup ==
  /\ entries' = Only(entries, Live(entries))
  /\ \E s \in SetToSeqs(Live(entries)) : InOrder(s) /\ lruOrder' = s
  /\ DeleteExpired
  /\ UNCHANGED <<clock, version, engine, dbOpen, key, result>>

WorkerCleanup(w) ==
  /\ step[w] = "cleanup"
  /\ step' = [step EXCEPT ![w] = "idle"]
  /\ Cleanup

TelemetryCleanup == Cleanup /\ UNCHANGED step

-----------------------------------------------------------------------------
(* The environment.                                                        *)

FileChanges(f) ==
  /\ version[f] < MaxVersion
  /\ version' = [version EXCEPT ![f] = @ + 1]
  /\ UNCHANGED <<clock, engine, cacheVars, workerVars>>

Tick ==
  /\ clock < MaxTime
  /\ clock' = clock + 1
  /\ UNCHANGED <<version, engine, cacheVars, workerVars>>

\* The service comes back, with whatever engine is installed.  OpenDatabaseLocked may
\* fail, and so may its purge of other versions' rows.
Restart ==
  /\ engine' \in Engines
  /\ entries' = <<>> /\ lruOrder' = <<>>
  /\ dbOpen' \in BOOLEAN
  /\ \/ db' = db
     \/ dbOpen' /\ db' = Only(db, {k \in DOMAIN db : k.engine = engine'})
  /\ step' = [w \in Workers |-> "idle"]
  /\ key' = [w \in Workers |-> None] /\ result' = [w \in Workers |-> None]
  /\ UNCHANGED <<clock, version>>

Next ==
  \/ \E w \in Workers :
       \/ \E f \in Files : Identify(w, f)
       \/ TryGet(w) \/ ReportHit(w) \/ EngineMetadata(w) \/ EngineReads(w)
       \/ ScanFails(w) \/ Put(w) \/ WorkerCleanup(w)
  \/ \E f \in Files : FileChanges(f)
  \/ TelemetryCleanup \/ Tick \/ Restart

Spec == Init /\ [][Next]_vars

-----------------------------------------------------------------------------
(* Properties.                                                             *)

TypeOK ==
  /\ clock \in 0..MaxTime
  /\ version \in [Files -> 1..MaxVersion]
  /\ engine \in Engines
  /\ \A t \in {entries, db} : DOMAIN t \subseteq CacheKeys /\ \A k \in DOMAIN t : t[k] \in Entries
  /\ lruOrder \in Seq(CacheKeys)
  /\ dbOpen \in BOOLEAN
  /\ step \in [Workers -> {"idle", "lookup", "hit", "scan", "read", "put", "cleanup"}]
  /\ \A w \in Workers :
       /\ key[w] \in IF step[w] \in {"idle", "cleanup"} THEN {None} ELSE CacheKeys
       /\ result[w] \in IF step[w] \in {"hit", "put"} THEN Results ELSE {None}

\* The list and the table of L1 hold the same keys, each once, and no more than the
\* capacity, over hits, expiries, evictions and cleanups.
LruMatchesEntries ==
  /\ \A i, j \in 1..Len(lruOrder) : lruOrder[i] = lruOrder[j] => i = j
  /\ ToSet(lruOrder) = DOMAIN entries
  /\ Len(lruOrder) <= Capacity

\* A job completed from the cache gets what a scan could have told it: a result for
\* its file, by the engine now loaded, of a content no older than the identity the
\* job has read, and put less than Ttl ago -- although the file changes under the
\* engine's hands, two workers scan it at once, rows fail to be replaced, and
\* results survive restarts and engine updates.
HitsAreTrue ==
  [][\A w \in Workers : step[w] = "lookup" /\ step'[w] = "hit" =>
       /\ result'[w].file = key[w].file
       /\ result'[w].engine = engine
       /\ result'[w].content >= key[w].version
       /\ clock < result'[w].at + Ttl]_vars

\* TryGet does not ask L2 about a key it finds expired in L1: nothing is lost, for
\* L2 then has no live row for it either.
ExpiryHidesNothing ==
  \A k \in DOMAIN entries \cap DOMAIN db : k \notin Live(entries) => k \notin Live(db)
=============================================================================
