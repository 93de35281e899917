---------------------------- MODULE RateLimiter ----------------------------
(***************************************************************************)
(* RateLimiter: a token bucket per client key, used by the session threads *)
(* in HandleScan and cleaned by the telemetry thread.  Both read the       *)
(* steady clock before they lock mutex_, so readings may reach the bucket  *)
(* out of order.                                                           *)
(*                                                                         *)
(* Tokens are measured by the time they take to come back: a request costs *)
(* Cost ticks (1 / rate_), a full bucket holds Burst ticks (burst_ /       *)
(* rate_).  lastSeen always equals updated and is left out.                *)
(***************************************************************************)
EXTENDS Integers

CONSTANTS
  Threads, Keys,
  Cost, Burst,
  Idle,     \* Cleanup erases buckets idle for longer (ten minutes)
  MaxWait,  \* a thread gets mutex_ at most MaxWait ticks after reading the clock
  MaxTime   \* bound: the clock stops here

\* The constructor makes burst_ at least one token, and ten minutes are far more
\* than the two seconds that fill a bucket and twice the wait for mutex_.
ASSUME RateLimiterAssumption ==
  /\ Cost \in Nat \ {0} /\ Burst \in Nat /\ Burst >= Cost
  /\ MaxWait \in Nat /\ Idle \in Nat /\ Idle >= Burst + 2 * MaxWait
  /\ MaxTime \in Nat
  /\ "none" \notin Keys

VARIABLES
  clock,
  present,   \* the keys of buckets_
  tokens,    \* Bucket::tokens of each key; means nothing when it is not present
  updated,   \* Bucket::updated
  calling,   \* the key each thread is calling Allow for, or NoKey
  now,       \* the clock as the thread has read it
  cutoff,    \* the cutoff Cleanup has computed
  since,     \* an observer counts admissions since this moment:
  spent,     \* the tokens spent by the requests admitted since
  promise    \* the first moment retryAfterMs named since the last admission

NoKey     == "none"
NoPromise == -1
NoCutoff  == -(Idle + 1)

bucketVars   == <<present, tokens, updated>>
observerVars == <<since, spent, promise>>
limiterVars == <<clock, bucketVars, calling, now, cutoff, observerVars>>

LimiterInit ==
  /\ clock = 0
  /\ present = {}
  /\ tokens = [k \in Keys |-> 0]
  /\ updated = [k \in Keys |-> 0]
  /\ calling = [t \in Threads |-> NoKey]
  /\ now = [t \in Threads |-> 0]
  /\ cutoff = NoCutoff
  /\ since = 0
  /\ spent = [k \in Keys |-> 0]
  /\ promise = [k \in Keys |-> NoPromise]

-----------------------------------------------------------------------------
(* Allow().                                                                *)

\* A session thread enters Allow and reads the clock.
Call(t, k) ==
  /\ calling[t] = NoKey
  /\ calling' = [calling EXCEPT ![t] = k]
  /\ now' = [now EXCEPT ![t] = clock]
  /\ UNCHANGED <<clock, bucketVars, cutoff, observerVars>>

\* Mutant: the refilled bucket is not capped.
RefilledUncapped(k, n) ==
  IF k \in present THEN tokens[k] + (n - updated[k]) ELSE Burst

\* The tokens of key k at the reading n; n may be older than updated.
Refilled(k, n) ==
  IF k \in present /\ tokens[k] + (n - updated[k]) < Burst
    THEN tokens[k] + (n - updated[k])
    ELSE Burst

\* The bucket of t's key gets the reading of t and the balance left.
Store(t, balance) ==
  LET k == calling[t] IN
  /\ present' = present \cup {k}
  /\ tokens' = [tokens EXCEPT ![k] = balance]
  /\ updated' = [updated EXCEPT ![k] = now[t]]
  /\ calling' = [calling EXCEPT ![t] = NoKey]
  /\ UNCHANGED <<clock, now, cutoff, since>>

\* There is a token: the request goes through.
Admit(t) ==
  LET k == calling[t] IN
  /\ k # NoKey /\ Refilled(k, now[t]) >= Cost
  /\ Store(t, Refilled(k, now[t]) - Cost)
  /\ spent' = [spent EXCEPT ![k] = @ + Cost]
  /\ promise' = [promise EXCEPT ![k] = NoPromise]

\* Mutant: a refused request is charged as well.
RefuseCharging(t) ==
  LET k == calling[t]
      b == Refilled(k, now[t])
  IN  /\ k # NoKey /\ b < Cost
      /\ Store(t, b - 1)
      /\ promise' = [promise EXCEPT ![k] = IF @ = NoPromise THEN now[t] + (Cost - b) ELSE @]
      /\ UNCHANGED spent

\* There is none: the client is told when there will be.
Refuse(t) ==
  LET k == calling[t]
      b == Refilled(k, now[t])
  IN  /\ k # NoKey /\ b < Cost
      /\ Store(t, b)
      /\ promise' = [promise EXCEPT ![k] = IF @ = NoPromise THEN now[t] + (Cost - b) ELSE @]
      /\ UNCHANGED spent

-----------------------------------------------------------------------------
(* Cleanup(), time, and the observer.                                      *)

CleanupReads ==
  /\ cutoff = NoCutoff
  /\ cutoff' = clock - Idle
  /\ UNCHANGED <<clock, bucketVars, calling, now, observerVars>>

\* Mutant: Cleanup erases every bucket.
CleanupErasesAll ==
  /\ cutoff # NoCutoff
  /\ present' = {}
  /\ cutoff' = NoCutoff
  /\ UNCHANGED <<clock, tokens, updated, calling, now, observerVars>>

CleanupErases ==
  /\ cutoff # NoCutoff
  /\ present' = {k \in present : updated[k] >= cutoff}
  /\ cutoff' = NoCutoff
  /\ UNCHANGED <<clock, tokens, updated, calling, now, observerVars>>

\* Time passes, but not more than MaxWait while a thread waits for mutex_.
Tick ==
  /\ clock < MaxTime
  /\ \A t \in Threads : calling[t] # NoKey => clock + 1 - now[t] <= MaxWait
  /\ clock' = clock + 1
  /\ UNCHANGED <<bucketVars, calling, now, cutoff, observerVars>>

\* The observer starts to count anew.
Observe ==
  /\ since' = clock
  /\ spent' = [k \in Keys |-> 0]
  /\ UNCHANGED <<clock, bucketVars, calling, now, cutoff, promise>>

LimiterNext ==
  \/ \E t \in Threads : (\E k \in Keys : Call(t, k)) \/ Admit(t) \/ Refuse(t)
  \/ CleanupReads \/ CleanupErases \/ Tick \/ Observe

LimiterSpec == LimiterInit /\ [][LimiterNext]_limiterVars

-----------------------------------------------------------------------------
(* Properties.                                                             *)

LimiterTypeOK ==
  /\ clock \in 0..MaxTime
  /\ present \in SUBSET Keys
  /\ tokens \in [Keys -> (-MaxWait)..Burst]
  /\ updated \in [Keys -> 0..MaxTime]
  /\ calling \in [Threads -> Keys \cup {NoKey}]
  /\ now \in [Threads -> 0..MaxTime]
  /\ cutoff \in NoCutoff..MaxTime
  /\ since \in 0..MaxTime
  /\ spent \in [Keys -> Nat]
  /\ promise \in [Keys -> Nat \cup {NoPromise}]

\* In whatever stretch of time, the requests admitted for a key cost no more than a
\* full bucket and what came back meanwhile, although clock readings reach the
\* bucket out of order (that adds MaxWait) and Cleanup forgets buckets and so what
\* had been spent.
WindowBound ==
  \A k \in Keys : spent[k] <= Burst + (clock - since) + MaxWait

\* Allow keeps the promise of retryAfterMs: the first moment named since the last
\* admission is enough, however often the client has come back too early, by
\* whatever thread, and even if its bucket was erased meanwhile.
RetryIsEnough ==
  [][\A t \in Threads : LET k == calling[t] IN
       /\ k # NoKey /\ calling'[t] = NoKey
       /\ promise[k] # NoPromise /\ now[t] >= promise[k]
       => promise'[k] = NoPromise]_limiterVars
=============================================================================
