------------------------ MODULE EventDeliveryProofs ------------------------
(***************************************************************************)
(* Proofs about EventDelivery for any limits of the queue, the history and *)
(* the pipe, and any number of events and breaks: what a client gets is    *)
(* new and in order, no critical event is missing from a stream, and the   *)
(* detailed event path implements CriticalStream.                          *)
(*                                                                         *)
(* The argument: history_ always holds the newest events, so a replay that *)
(* is accepted holds all that the client lacks; the queue ascends and      *)
(* loses verbose events only; and whatever is critical and not newer than  *)
(* what has reached the pipe has reached it too, or the client.            *)
(***************************************************************************)
EXTENDS EventDelivery, FiniteSetTheorems, SequenceTheorems, WellFoundedInduction, TLAPS

Ascending(q) == \A i, j \in 1..Len(q) : i < j => q[i] < q[j]

\* Every element of F is smaller than every one of G.
Below(F, G) == \A m \in F, n \in G : m < n

-----------------------------------------------------------------------------
(* Sequences of numbers.                                                   *)

LEMMA Least ==
  ASSUME NEW S \in SUBSET Nat, S # {}
  PROVE  \E x \in S : \A y \in S : x <= y
<1> DEFINE R == OpToRel(<, Nat)
<1>1. IsWellFoundedOn(R, Nat)
  BY NatLessThanWellFounded
<1>2. R = {ss \in Nat \X Nat : ss[1] < ss[2]}
  BY DEF OpToRel
<1> HIDE DEF R
<1>3. PICK x \in S : \A y \in S : ~ (<<y, x>> \in R)
  BY <1>1, WFMin
<1>4. \A y \in S : ~ (y < x)
  BY <1>2, <1>3
<1> QED BY <1>3, <1>4

LEMMA Greatest ==
  ASSUME NEW b \in Nat, NEW S \in SUBSET (0..b), S # {}
  PROVE  \E x \in S : \A y \in S : y <= x
<1> DEFINE R == {b - e : e \in S}
<1>1. R \in SUBSET Nat /\ R # {}
  <2>1. \A e \in S : b - e \in Nat
    OBVIOUS
  <2> QED BY <2>1
<1>2. PICK x \in R : \A y \in R : x <= y
  BY <1>1, Least
<1>3. PICK d \in S : x = b - d
  BY <1>2
<1>4. \A e \in S : b - d <= b - e
  BY <1>2, <1>3
<1>5. \A e \in S : e <= d
  BY <1>4
<1> QED BY <1>5

LEMMA SetOf ==
  ASSUME NEW q \in Seq(Nat)
  PROVE  /\ ToSet(q) \in SUBSET Nat
         /\ \A n : n \in ToSet(q) <=> \E i \in 1..Len(q) : q[i] = n
<1>1. DOMAIN q = 1..Len(q) /\ \A i \in 1..Len(q) : q[i] \in Nat
  OBVIOUS
<1> QED BY <1>1 DEF ToSet

LEMMA EmptyQueue == <<>> \in Seq(Nat) /\ ToSet(<<>>) = {} /\ Ascending(<<>>)
BY DEF ToSet, Ascending

LEMMA Appended ==
  ASSUME NEW q \in Seq(Nat), NEW n \in Nat, Ascending(q), Below(ToSet(q), {n})
  PROVE  /\ Append(q, n) \in Seq(Nat) /\ Ascending(Append(q, n))
         /\ ToSet(Append(q, n)) = ToSet(q) \cup {n}
<1> DEFINE r == Append(q, n)
<1>1. /\ r \in Seq(Nat) /\ Len(r) = Len(q) + 1 /\ r[Len(q) + 1] = n
      /\ \A i \in 1..Len(q) : r[i] = q[i] /\ q[i] \in Nat
      /\ Len(q) \in Nat
  OBVIOUS
<1> HIDE DEF r
<1>2. \A i \in 1..Len(q) : q[i] < n
  BY SetOf DEF Below
<1>3. Ascending(r)
  <2>1. PICK k \in Nat : k = Len(q) /\ Len(r) = k + 1
    BY <1>1
  <2> SUFFICES ASSUME NEW i \in 1..(k + 1), NEW j \in 1..(k + 1), i < j
               PROVE  r[i] < r[j]
    BY <2>1 DEF Ascending
  <2>2. i \in 1..k
    OBVIOUS
  <2>3. CASE j = k + 1
    BY <1>1, <1>2, <2>1, <2>2, <2>3
  <2>4. CASE j # k + 1
    <3>1. j \in 1..k
      BY <2>4
    <3>2. q[i] < q[j]
      BY <2>1, <2>2, <3>1 DEF Ascending
    <3> QED BY <1>1, <2>1, <2>2, <3>1, <3>2
  <2> QED BY <2>3, <2>4
<1>4. ToSet(r) = ToSet(q) \cup {n}
  <2>0. 1..Len(r) = 1..Len(q) \cup {Len(q) + 1}
    BY <1>1
  <2>1. \A m : (\E i \in 1..Len(r) : r[i] = m) <=> (\E i \in 1..Len(q) : q[i] = m) \/ m = n
    BY <1>1, <2>0
  <2>2. \A m : m \in ToSet(r) <=> m \in ToSet(q) \/ m = n
    BY <1>1, <2>1, SetOf
  <2> QED BY <2>2
<1> QED BY <1>1, <1>3, <1>4 DEF r

LEMMA Popped ==
  ASSUME NEW q \in Seq(Nat), q # <<>>, Ascending(q)
  PROVE  /\ Head(q) \in Nat /\ Head(q) \in ToSet(q) /\ Tail(q) \in Seq(Nat)
         /\ Ascending(Tail(q)) /\ ToSet(q) = {Head(q)} \cup ToSet(Tail(q))
         /\ Below({Head(q)}, ToSet(Tail(q)))
<1> DEFINE r == Tail(q)
<1>1. /\ r \in Seq(Nat) /\ Len(r) = Len(q) - 1 /\ Head(q) = q[1] /\ q[1] \in Nat
      /\ \A i \in 1..Len(r) : r[i] = q[i + 1] /\ q[i + 1] \in Nat
      /\ Len(q) \in Nat /\ Len(q) > 0
  OBVIOUS
<1> HIDE DEF r
<1>2. \A m : (\E i \in 1..Len(q) : q[i] = m) <=> q[1] = m \/ \E i \in 1..Len(r) : r[i] = m
  <2> SUFFICES ASSUME NEW m
               PROVE (\E i \in 1..Len(q) : q[i] = m) <=> q[1] = m \/ \E i \in 1..Len(r) : r[i] = m
    OBVIOUS
  <2>1. ASSUME NEW i \in 1..Len(q), q[i] = m PROVE q[1] = m \/ \E j \in 1..Len(r) : r[j] = m
    <3>1. CASE i = 1
      BY <2>1, <3>1
    <3>2. CASE i # 1
      <4>1. i - 1 \in 1..Len(r) /\ r[i - 1] = q[i]
        BY <1>1, <3>2
      <4> QED BY <2>1, <4>1
    <3> QED BY <3>1, <3>2
  <2>2. ASSUME NEW i \in 1..Len(r), r[i] = m PROVE \E j \in 1..Len(q) : q[j] = m
    <3>1. i + 1 \in 1..Len(q) /\ q[i + 1] = m
      BY <1>1, <2>2
    <3> QED BY <3>1
  <2>3. q[1] = m => \E j \in 1..Len(q) : q[j] = m
    BY <1>1
  <2> QED BY <2>1, <2>2, <2>3
<1>3. ToSet(q) = {Head(q)} \cup ToSet(r) /\ Head(q) \in ToSet(q)
  BY <1>1, <1>2, SetOf
<1>4. Ascending(r)
  <2> SUFFICES ASSUME NEW i \in 1..Len(r), NEW j \in 1..Len(r), i < j
               PROVE  r[i] < r[j]
    BY DEF Ascending
  <2>1. i + 1 \in 1..Len(q) /\ j + 1 \in 1..Len(q) /\ i + 1 < j + 1
    BY <1>1
  <2>2. q[i + 1] < q[j + 1]
    BY <2>1 DEF Ascending
  <2> QED BY <1>1, <2>2
<1>5. Below({Head(q)}, ToSet(r))
  <2>1. ASSUME NEW i \in 1..Len(r) PROVE q[1] < r[i]
    <3>1. i + 1 \in 1..Len(q) /\ 1 \in 1..Len(q) /\ 1 < i + 1
      BY <1>1
    <3>2. q[1] < q[i + 1]
      BY <3>1 DEF Ascending
    <3> QED BY <1>1, <3>2
  <2>2. \A m \in ToSet(r) : q[1] < m
    BY <1>1, <2>1, SetOf
  <2> QED BY <1>1, <2>2 DEF Below
<1> QED BY <1>1, <1>3, <1>4, <1>5 DEF r

LEMMA Joined ==
  ASSUME NEW p \in Seq(Nat), NEW q \in Seq(Nat), Ascending(p), Ascending(q),
         Below(ToSet(p), ToSet(q))
  PROVE  /\ p \o q \in Seq(Nat) /\ Ascending(p \o q)
         /\ ToSet(p \o q) = ToSet(p) \cup ToSet(q)
<1> DEFINE r == p \o q
<1>1. /\ r \in Seq(Nat) /\ Len(r) = Len(p) + Len(q) /\ Len(p) \in Nat /\ Len(q) \in Nat
      /\ \A i \in 1..Len(p) : r[i] = p[i] /\ i \in 1..Len(r)
      /\ \A i \in 1..Len(q) : r[i + Len(p)] = q[i] /\ i + Len(p) \in 1..Len(r)
  OBVIOUS
<1> HIDE DEF r
<1>2. \A i \in 1..Len(p), j \in 1..Len(q) : p[i] < q[j]
  BY SetOf DEF Below
<1>3. Ascending(r)
  <2> SUFFICES ASSUME NEW i \in 1..Len(r), NEW j \in 1..Len(r), i < j
               PROVE  r[i] < r[j]
    BY DEF Ascending
  <2>1. CASE j <= Len(p)
    <3>1. i \in 1..Len(p) /\ j \in 1..Len(p)
      BY <1>1, <2>1
    <3>2. p[i] < p[j]
      BY <3>1 DEF Ascending
    <3> QED BY <1>1, <3>1, <3>2
  <2>2. CASE i <= Len(p) /\ j > Len(p)
    <3>1. PICK k \in 1..Len(q) : j = k + Len(p)
      <4>1. j - Len(p) \in 1..Len(q) /\ j = (j - Len(p)) + Len(p)
        BY <1>1, <2>2
      <4> QED BY <4>1
    <3>2. i \in 1..Len(p)
      BY <1>1, <2>2
    <3> QED BY <1>1, <1>2, <3>1, <3>2
  <2>3. CASE i > Len(p)
    <3>1. PICK k \in 1..Len(q), l \in 1..Len(q) : i = k + Len(p) /\ j = l + Len(p) /\ k < l
      <4>1. /\ i - Len(p) \in 1..Len(q) /\ i = (i - Len(p)) + Len(p)
            /\ j - Len(p) \in 1..Len(q) /\ j = (j - Len(p)) + Len(p)
            /\ i - Len(p) < j - Len(p)
        BY <1>1, <2>3
      <4> QED BY <4>1
    <3>2. q[k] < q[l]
      BY <3>1 DEF Ascending
    <3> QED BY <1>1, <3>1, <3>2
  <2> QED BY <1>1, <2>1, <2>2, <2>3
<1>4. ToSet(r) = ToSet(p) \cup ToSet(q)
  <2>1. ASSUME NEW i \in 1..Len(r)
        PROVE  (\E j \in 1..Len(p) : p[j] = r[i]) \/ \E j \in 1..Len(q) : q[j] = r[i]
    <3>1. CASE i <= Len(p)
      <4>1. i \in 1..Len(p) /\ p[i] = r[i]
        BY <1>1, <3>1
      <4> QED BY <4>1
    <3>2. CASE i > Len(p)
      <4>1. i - Len(p) \in 1..Len(q) /\ i = (i - Len(p)) + Len(p)
        BY <1>1, <3>2
      <4>2. q[i - Len(p)] = r[i]
        BY <1>1, <4>1
      <4> QED BY <4>1, <4>2
    <3> QED BY <1>1, <3>1, <3>2
  <2>2. \A m : (\E i \in 1..Len(r) : r[i] = m)
                 <=> (\E i \in 1..Len(p) : p[i] = m) \/ \E i \in 1..Len(q) : q[i] = m
    BY <1>1, <2>1
  <2>3. \A m : m \in ToSet(r) <=> m \in ToSet(p) \/ m \in ToSet(q)
    BY <1>1, <2>2, SetOf
  <2> QED BY <2>3
<1> QED BY <1>1, <1>3, <1>4 DEF r

LEMMA Part ==
  ASSUME NEW q \in Seq(Nat), Ascending(q), NEW a \in Nat \ {0}, NEW b \in Nat, b <= Len(q)
  PROVE  /\ SubSeq(q, a, b) \in Seq(Nat) /\ Ascending(SubSeq(q, a, b))
         /\ Len(SubSeq(q, a, b)) = IF a <= b THEN b - a + 1 ELSE 0
         /\ \A i \in 1..Len(SubSeq(q, a, b)) : SubSeq(q, a, b)[i] = q[a + i - 1]
         /\ \A n : n \in ToSet(SubSeq(q, a, b)) <=> \E i \in a..b : q[i] = n
<1> DEFINE r == SubSeq(q, a, b)
<1>0. \A i \in a..b : i \in 1..Len(q) /\ q[i] \in Nat
  OBVIOUS
<1>1. /\ r \in Seq(Nat) /\ Len(r) = IF a <= b THEN b - a + 1 ELSE 0
      /\ \A i \in 1..(b - a + 1) : r[i] = q[a + i - 1]
  BY <1>0, SubSeqProperties
<1> HIDE DEF r
<1>2. \A i \in 1..Len(r) : /\ r[i] = q[a + i - 1] /\ a + i - 1 \in a..b
                           /\ a + i - 1 \in 1..Len(q)
  BY <1>0, <1>1
<1>3. \A i \in a..b : i - a + 1 \in 1..Len(r) /\ r[i - a + 1] = q[i]
  BY <1>0, <1>1
<1>4. Ascending(r)
  <2> SUFFICES ASSUME NEW i \in 1..Len(r), NEW j \in 1..Len(r), i < j
               PROVE  r[i] < r[j]
    BY DEF Ascending
  <2>1. q[a + i - 1] < q[a + j - 1]
    <3>1. a + i - 1 \in 1..Len(q) /\ a + j - 1 \in 1..Len(q) /\ a + i - 1 < a + j - 1
      BY <1>1, <1>2
    <3> QED BY <3>1 DEF Ascending
  <2> QED BY <1>2, <2>1
<1>5. \A n : (\E i \in 1..Len(r) : r[i] = n) <=> \E i \in a..b : q[i] = n
  <2>1. ASSUME NEW n, NEW i \in 1..Len(r), r[i] = n PROVE \E j \in a..b : q[j] = n
    BY <1>2, <2>1
  <2>2. ASSUME NEW n, NEW i \in a..b, q[i] = n PROVE \E j \in 1..Len(r) : r[j] = n
    BY <1>3, <2>2
  <2> QED BY <2>1, <2>2
<1>6. \A n : n \in ToSet(r) <=> \E i \in a..b : q[i] = n
  BY <1>1, <1>5, SetOf
<1> QED BY <1>1, <1>2, <1>4, <1>6 DEF r

-----------------------------------------------------------------------------
(* The queue and the history.                                              *)

\* What is removed from a full queue is verbose.
LEMMA Removed ==
  ASSUME NEW q \in Seq(Nat), NEW l, Ascending(q)
  PROVE  /\ RemoveOldestVerbose(q, l) \in Seq(Nat) /\ Ascending(RemoveOldestVerbose(q, l))
         /\ ToSet(RemoveOldestVerbose(q, l)) \subseteq ToSet(q)
         /\ \A n \in ToSet(q) : Critical(n, l) => n \in ToSet(RemoveOldestVerbose(q, l))
<1> DEFINE I == {i \in 1..Len(q) : ~Critical(q[i], l)}
           r == RemoveOldestVerbose(q, l)
<1>1. r = IF I = {} THEN q ELSE SubSeq(q, 1, Min(I) - 1) \o SubSeq(q, Min(I) + 1, Len(q))
  <2>1. SelectInSeq(q, LAMBDA n : ~Critical(n, l)) = IF I # {} THEN Min(I) ELSE 0
    BY DEF SelectInSeq
  <2>2. r = IF \E i \in 1..Len(q) : ~Critical(q[i], l)
              THEN RemoveAt(q, SelectInSeq(q, LAMBDA n : ~Critical(n, l))) ELSE q
    BY DEF RemoveOldestVerbose, RemoveFirstMatch
  <2> QED BY <2>1, <2>2 DEF RemoveAt
<1> HIDE DEF r
<1>2. CASE I = {}
  BY <1>1, <1>2 DEF r
<1>3. CASE I # {}
  <2>1. \E x \in I : \A y \in I : x <= y
    <3>1. I \in SUBSET Nat
      OBVIOUS
    <3> QED BY <1>3, <3>1, Least
  <2> DEFINE m == Min(I)
  <2>2. m \in I
    BY <2>1 DEF Min
  <2> HIDE DEF m
  <2>3. m \in 1..Len(q) /\ ~Critical(q[m], l) /\ Len(q) \in Nat
    BY <2>2
  <2> DEFINE p1 == SubSeq(q, 1, m - 1)
             p2 == SubSeq(q, m + 1, Len(q))
  <2>4. r = p1 \o p2
    BY <1>1, <1>3 DEF m
  <2>5. m - 1 \in Nat /\ m - 1 <= Len(q) /\ m + 1 \in Nat \ {0}
    BY <2>3
  <2>6. /\ p1 \in Seq(Nat) /\ Ascending(p1)
        /\ \A n : n \in ToSet(p1) <=> \E i \in 1..(m - 1) : q[i] = n
    BY <2>5, Part
  <2>7. /\ p2 \in Seq(Nat) /\ Ascending(p2)
        /\ \A n : n \in ToSet(p2) <=> \E i \in (m + 1)..Len(q) : q[i] = n
    BY <2>3, <2>5, Part
  <2> HIDE DEF p1, p2
  <2>8. Below(ToSet(p1), ToSet(p2))
    <3>1. ASSUME NEW i \in 1..(m - 1), NEW j \in (m + 1)..Len(q) PROVE q[i] < q[j]
      <4>1. i \in 1..Len(q) /\ j \in 1..Len(q) /\ i < j
        BY <2>3
      <4> QED BY <4>1 DEF Ascending
    <3> QED BY <2>6, <2>7, <3>1 DEF Below
  <2>9. r \in Seq(Nat) /\ Ascending(r) /\ ToSet(r) = ToSet(p1) \cup ToSet(p2)
    BY <2>4, <2>6, <2>7, <2>8, Joined
  <2>10. ToSet(p1) \subseteq ToSet(q) /\ ToSet(p2) \subseteq ToSet(q)
    <3>1. \A i \in 1..(m - 1) : i \in 1..Len(q)
      BY <2>3
    <3>2. \A i \in (m + 1)..Len(q) : i \in 1..Len(q)
      BY <2>3
    <3> QED BY <2>6, <2>7, <3>1, <3>2, SetOf
  <2>11. ASSUME NEW n \in ToSet(q), Critical(n, l) PROVE n \in ToSet(r)
    <3>1. PICK i \in 1..Len(q) : q[i] = n
      BY SetOf
    <3>2. i # m
      BY <2>3, <2>11, <3>1
    <3>3. i \in 1..(m - 1) \/ i \in (m + 1)..Len(q)
      BY <2>3, <3>2
    <3> QED BY <2>6, <2>7, <2>9, <3>1, <3>3
  <2> QED BY <2>9, <2>10, <2>11 DEF r
<1> QED BY <1>2, <1>3

\* A new event is queued behind the others, of which only verbose ones may go.
LEMMA Pushed ==
  ASSUME NEW q \in Seq(Nat), NEW n \in Nat, NEW l, Ascending(q), Below(ToSet(q), {n})
  PROVE  /\ Push(q, n, l) \in Seq(Nat) /\ Ascending(Push(q, n, l))
         /\ ToSet(Push(q, n, l)) \subseteq ToSet(q) \cup {n} /\ n \in ToSet(Push(q, n, l))
         /\ \A m \in ToSet(q) : Critical(m, l) => m \in ToSet(Push(q, n, l))
<1> DEFINE r == RemoveOldestVerbose(q, l)
<1>1. /\ r \in Seq(Nat) /\ Ascending(r) /\ ToSet(r) \subseteq ToSet(q)
      /\ \A m \in ToSet(q) : Critical(m, l) => m \in ToSet(r)
  BY Removed
<1>2. Push(q, n, l) = IF Len(q) < OutboundLimit THEN Append(q, n) ELSE Append(r, n)
  BY DEF Push
<1> HIDE DEF r
<1>3. Below(ToSet(r), {n})
  BY <1>1 DEF Below
<1>4. CASE Len(q) < OutboundLimit
  <2>1. /\ Append(q, n) \in Seq(Nat) /\ Ascending(Append(q, n))
        /\ ToSet(Append(q, n)) = ToSet(q) \cup {n}
    BY Appended
  <2> QED BY <1>2, <1>4, <2>1
<1>5. CASE ~(Len(q) < OutboundLimit)
  <2>1. /\ Append(r, n) \in Seq(Nat) /\ Ascending(Append(r, n))
        /\ ToSet(Append(r, n)) = ToSet(r) \cup {n}
    BY <1>1, <1>3, Appended
  <2> QED BY <1>1, <1>2, <1>5, <2>1
<1> QED BY <1>4, <1>5

\* h holds the newest of the events 1..n, without a gap.
TailOf(h, n) ==
  /\ Len(h) <= n /\ Len(h) <= HistoryLimit
  /\ n > 0 => Len(h) > 0
  /\ \A i \in 1..Len(h) : h[i] = (n - Len(h)) + i

HistoryIsTail == TailOf(history, Len(log))

\* A replay that is accepted holds every event that the client lacks.
LEMMA Served ==
  ASSUME history \in Seq(Nat), Len(log) \in Nat, HistoryIsTail,
         NEW last \in Nat, last <= Len(log), HistoryServes(last)
  PROVE  /\ GetAfter(last) \in Seq(Nat) /\ Ascending(GetAfter(last))
         /\ ToSet(GetAfter(last)) = (last + 1)..Len(log)
<1> DEFINE H == Len(history)
           N == Len(log)
<1>1. /\ H \in Nat /\ N \in Nat /\ H <= N /\ (N > 0 => H > 0)
      /\ \A i \in 1..H : history[i] = (N - H) + i
      /\ DOMAIN history = 1..H
      /\ H = 0 <=> history = <<>>
  BY DEF HistoryIsTail, TailOf
<1>2. last >= N - H
  <2>1. CASE H = 0
    BY <1>1, <2>1
  <2>2. CASE H # 0
    <3>1. history[1] = (N - H) + 1 /\ history[1] - last <= 1
      BY <1>1, <2>2 DEF HistoryServes
    <3> QED BY <1>1, <3>1
  <2> QED BY <2>1, <2>2
<1>3. GetAfter(last) = SubSeq(history, Seen(last) + 1, H)
  BY DEF GetAfter
<1>4. {i \in DOMAIN history : history[i] <= last} = 1..(last - (N - H))
  <2>1. last - (N - H) \in Nat /\ last - (N - H) <= H
    BY <1>1, <1>2
  <2>2. \A i \in 1..H : history[i] <= last <=> i <= last - (N - H)
    BY <1>1
  <2> HIDE DEF H, N
  <2> QED BY <1>1, <2>1, <2>2
<1> HIDE DEF H, N
<1>5. Seen(last) = last - (N - H)
  <2>1. last - (N - H) \in Nat
    BY <1>1, <1>2
  <2>2. Cardinality(1..(last - (N - H))) = last - (N - H)
    BY <2>1, FS_Interval
  <2> QED BY <1>4, <2>2 DEF Seen
<1> DEFINE a == (last - (N - H)) + 1
           r == SubSeq(history, a, H)
<1>6. a \in Nat \ {0}
  BY <1>1, <1>2
<1>7. Ascending(history)
  BY <1>1 DEF Ascending, H
<1>8. /\ r \in Seq(Nat) /\ Ascending(r)
      /\ \A n : n \in ToSet(r) <=> \E i \in a..H : history[i] = n
  <2>1. H <= Len(history)
    BY <1>1 DEF H
  <2> HIDE DEF a
  <2> QED BY <1>1, <1>6, <1>7, <2>1, Part
<1>9. \A n : n \in ToSet(r) <=> n \in (last + 1)..N
  <2>1. \A i \in a..H : history[i] = (N - H) + i /\ (N - H) + i \in (last + 1)..N
    BY <1>1, <1>2
  <2>2. \A n \in (last + 1)..N : n - (N - H) \in a..H /\ history[n - (N - H)] = n
    <3> SUFFICES ASSUME NEW n \in (last + 1)..N
                 PROVE n - (N - H) \in a..H /\ history[n - (N - H)] = n
      OBVIOUS
    <3>1. n - (N - H) \in a..H /\ n - (N - H) \in 1..H
      BY <1>1, <1>2
    <3> QED BY <1>1, <3>1
  <2> HIDE DEF a, r
  <2> QED BY <1>8, <2>1, <2>2
<1>10. ToSet(r) = (last + 1)..N
  BY <1>9
<1> QED BY <1>3, <1>5, <1>8, <1>10 DEF N

LEMMA Added ==
  ASSUME NEW h \in Seq(Nat), NEW n \in Nat, TailOf(h, n)
  PROVE  AddHistory(h, n + 1) \in Seq(Nat) /\ TailOf(AddHistory(h, n + 1), n + 1)
<1> DEFINE r == AddHistory(h, n + 1)
<1>0. PICK k \in Nat : k = Len(h)
  OBVIOUS
<1>1. /\ k <= n /\ k <= HistoryLimit /\ HistoryLimit \in Nat /\ HistoryLimit > 0
      /\ n > 0 => k > 0
      /\ \A i \in 1..k : h[i] = (n - k) + i
  BY <1>0, EventDeliveryAssumption DEF TailOf
<1>2. CASE k < HistoryLimit
  <2>1. r = Append(h, n + 1)
    BY <1>0, <1>2 DEF AddHistory
  <2> HIDE DEF r
  <2>2. /\ r \in Seq(Nat) /\ Len(r) = k + 1 /\ r[k + 1] = n + 1
        /\ \A i \in 1..k : r[i] = h[i]
    BY <1>0, <2>1
  <2>3. \A i \in 1..Len(r) : r[i] = ((n + 1) - Len(r)) + i
    <3> SUFFICES ASSUME NEW i \in 1..(k + 1) PROVE r[i] = (n - k) + i
      BY <2>2
    <3>1. CASE i = k + 1
      BY <2>2, <3>1
    <3>2. CASE i # k + 1
      <4>1. i \in 1..k
        BY <3>2
      <4> QED BY <1>1, <2>2, <4>1
    <3> QED BY <3>1, <3>2
  <2>4. TailOf(r, n + 1)
    <3>1. Len(r) <= n + 1 /\ Len(r) <= HistoryLimit /\ Len(r) > 0
      BY <1>1, <1>2, <2>2
    <3> QED BY <2>3, <3>1 DEF TailOf
  <2> QED BY <2>2, <2>4 DEF r
<1>3. CASE ~(k < HistoryLimit)
  <2> DEFINE t == Tail(h)
  <2>1. r = Append(t, n + 1) /\ k > 0
    BY <1>0, <1>1, <1>3 DEF AddHistory
  <2>2. /\ t \in Seq(Nat) /\ Len(t) = k - 1
        /\ \A i \in 1..(k - 1) : t[i] = h[i + 1]
    BY <1>0, <2>1
  <2> HIDE DEF r, t
  <2>3. /\ r \in Seq(Nat) /\ Len(r) = k /\ r[k] = n + 1
        /\ \A i \in 1..(k - 1) : r[i] = h[i + 1]
    <3>1. /\ Append(t, n + 1) \in Seq(Nat) /\ Len(Append(t, n + 1)) = Len(t) + 1
          /\ Append(t, n + 1)[Len(t) + 1] = n + 1
          /\ \A i \in 1..Len(t) : Append(t, n + 1)[i] = t[i]
      BY <2>2
    <3> QED BY <2>1, <2>2, <3>1
  <2>4. \A i \in 1..(k - 1) : h[i + 1] = (n - k) + (i + 1)
    BY <1>1
  <2>5. \A i \in 1..k : r[i] = ((n + 1) - k) + i
    <3> SUFFICES ASSUME NEW i \in 1..k PROVE r[i] = ((n + 1) - k) + i
      OBVIOUS
    <3>1. CASE i = k
      BY <1>1, <2>3, <3>1
    <3>2. CASE i # k
      <4>1. i \in 1..(k - 1)
        BY <3>2
      <4>2. r[i] = (n - k) + (i + 1)
        BY <2>3, <2>4, <4>1
      <4> QED BY <4>2
    <3> QED BY <3>1, <3>2
  <2>6. TailOf(r, n + 1)
    <3>1. Len(r) <= n + 1 /\ Len(r) <= HistoryLimit /\ Len(r) > 0
      BY <1>1, <2>1, <2>3
    <3>2. \A i \in 1..Len(r) : r[i] = ((n + 1) - Len(r)) + i
      BY <2>3, <2>5
    <3> QED BY <3>1, <3>2 DEF TailOf
  <2> QED BY <2>3, <2>6 DEF r
<1> QED BY <1>2, <1>3

-----------------------------------------------------------------------------
(* The invariant.                                                          *)

Record == [kind : {"verbose", "terminal", "flow"}, dropped : 0..MaxDropped]

Types ==
  /\ log \in Seq(Record)
  /\ history \in Seq(Nat) /\ outbound \in Seq(Nat) /\ inflight \in Seq(Nat) /\ pipe \in Seq(Nat)
  /\ Len(inflight) <= 1 /\ Len(pipe) <= PipeLimit
  /\ connected \in BOOLEAN /\ running \in BOOLEAN /\ attached \in BOOLEAN
  /\ lastEventSeq \in Nat

\* Only a connected session is streamed, and only an open pipe holds anything.
Linked ==
  /\ running => connected
  /\ ~running => inflight = <<>>
  /\ ~attached => pipe = <<>>

\* What is under way stands in line: read, then the pipe, what the event thread
\* holds, and the queue.
InLine ==
  /\ Ascending(pipe) /\ Ascending(outbound)
  /\ Below(ToSet(pipe), ToSet(inflight)) /\ Below(ToSet(pipe), ToSet(outbound))
  /\ Below(ToSet(inflight), ToSet(outbound))
  /\ \A n \in ToSet(pipe) \cup ToSet(inflight) \cup ToSet(outbound) :
       lastEventSeq < n /\ n <= Len(log)
  /\ lastEventSeq <= Len(log)
  /\ received \subseteq 1..lastEventSeq

\* What is critical and not newer than what the client has read, or than what is in
\* the pipe, has been received or is in the pipe; while the connection streams the
\* rest is not far.
Complete ==
  /\ \A n \in CriticalEvents : n <= lastEventSeq => n \in received
  /\ \A n \in CriticalEvents, m \in ToSet(pipe) : n <= m => n \in received \cup ToSet(pipe)
  /\ Streaming => CriticalEvents \subseteq
                    received \cup ToSet(pipe) \cup ToSet(inflight) \cup ToSet(outbound)

\* A FLOW_CONTROL is queued when the flag is set; otherwise the latest one names the
\* present count.
FlowKnown ==
  /\ droppedVerbose \in 0..MaxDropped /\ flowControlQueued \in BOOLEAN
  /\ \A n \in Events : log[n].kind = "flow" => log[n].dropped <= droppedVerbose
  /\ flowControlQueued => \E n \in ToSet(outbound) : log[n].kind = "flow"
  /\ ~flowControlQueued /\ droppedVerbose > 0 =>
       \E n \in Events : log[n].kind = "flow" /\ log[n].dropped = droppedVerbose

IInv == Types /\ HistoryIsTail /\ Linked /\ InLine /\ Complete /\ FlowKnown

LEMMA DroppedIsNumber ==
  ASSUME IInv
  PROVE  droppedVerbose \in Nat /\ \A n \in Events : log[n].dropped \in 0..MaxDropped
<1>1. droppedVerbose \in Nat
  BY EventDeliveryAssumption DEF IInv, FlowKnown
<1>2. \A n \in Events : log[n] \in Record
  BY DEF IInv, Types, Events
<1>3. \A e \in Record : e.dropped \in 0..MaxDropped
  BY DEF Record
<1> QED BY <1>1, <1>2, <1>3

-----------------------------------------------------------------------------
(* Steps that generate an event.                                           *)

\* What Emit does to the log, the history and the queue it is given.
LEMMA Emitted ==
  ASSUME Types, HistoryIsTail, NEW event \in Record, NEW q \in Seq(Nat), Ascending(q),
         \A n \in ToSet(q) : n \in Events, Emit(event, q)
  PROVE  /\ log' \in Seq(Record) /\ Len(log') = Len(log) + 1 /\ log'[Len(log) + 1] = event
         /\ \A n \in Events : log'[n] = log[n] /\ (Critical(n, log') <=> Critical(n, log))
         /\ history' \in Seq(Nat) /\ HistoryIsTail'
         /\ outbound' \in Seq(Nat) /\ Ascending(outbound)'
         /\ ToSet(outbound)' \subseteq ToSet(q) \cup {Len(log) + 1}
         /\ Len(log) + 1 \in ToSet(outbound)'
         /\ \A n \in ToSet(q) : Critical(n, log) => n \in ToSet(outbound)'
<1>1. log \in Seq(Record) /\ Len(log) \in Nat /\ history \in Seq(Nat)
  BY DEF Types
<1>2. /\ log' = Append(log, event)
      /\ history' = AddHistory(history, Len(log) + 1)
      /\ outbound' = Push(q, Len(log) + 1, log')
  BY DEF Emit
<1>3. /\ log' \in Seq(Record) /\ Len(log') = Len(log) + 1 /\ log'[Len(log) + 1] = event
      /\ \A n \in Events : log'[n] = log[n]
  BY <1>1, <1>2 DEF Events
<1>4. \A n \in Events : Critical(n, log') <=> Critical(n, log)
  BY <1>3 DEF Critical
<1>5. history' \in Seq(Nat) /\ HistoryIsTail'
  <2>1. /\ AddHistory(history, Len(log) + 1) \in Seq(Nat)
        /\ TailOf(AddHistory(history, Len(log) + 1), Len(log) + 1)
    BY <1>1, Added DEF HistoryIsTail
  <2>2. TailOf(history', Len(log'))
    BY <1>2, <1>3, <2>1
  <2> QED BY <1>2, <2>1, <2>2 DEF HistoryIsTail
<1>6. Below(ToSet(q), {Len(log) + 1})
  BY <1>1 DEF Below, Events
<1> DEFINE r == Push(q, Len(log) + 1, log')
<1>7. /\ r \in Seq(Nat) /\ Ascending(r)
      /\ ToSet(r) \subseteq ToSet(q) \cup {Len(log) + 1} /\ Len(log) + 1 \in ToSet(r)
      /\ \A m \in ToSet(q) : Critical(m, log') => m \in ToSet(r)
  BY <1>1, <1>6, Pushed
<1>8. outbound' = r
  BY <1>2
<1> HIDE DEF r
<1>9. /\ outbound' \in Seq(Nat) /\ Ascending(outbound)'
      /\ ToSet(outbound)' = ToSet(r)
  BY <1>7, <1>8 DEF Ascending
<1> QED BY <1>3, <1>4, <1>5, <1>7, <1>9

\* An event is generated and inflight and the queue q hold what was in inflight and
\* in the queue before.
Generates(event, q) ==
  /\ event \in Record /\ q \in Seq(Nat) /\ Ascending(q) /\ Emit(event, q)
  /\ inflight' \in Seq(Nat) /\ Len(inflight') <= 1
  /\ ToSet(inflight)' \cup ToSet(q) = ToSet(inflight) \cup ToSet(outbound)
  /\ Below(ToSet(inflight)', ToSet(q))
  /\ running \/ inflight' = <<>>
  /\ UNCHANGED <<connected, running, attached, pipe, clientVars>>

LEMMA GeneratedStep ==
  ASSUME IInv, NEW event, NEW q, Generates(event, q)
  PROVE  Types' /\ HistoryIsTail' /\ Linked' /\ InLine' /\ Complete'
<1> DEFINE N == Len(log)
<1>1. N \in Nat
  BY DEF IInv, Types
<1>2. \A n \in ToSet(inflight)' \cup ToSet(q) : lastEventSeq < n /\ n <= N /\ n \in Nat
  BY SetOf DEF IInv, Types, InLine, Generates
<1>3. \A n \in ToSet(q) : n \in Events
  BY <1>1, <1>2 DEF IInv, Types, Events
<1>4. /\ log' \in Seq(Record) /\ Len(log') = N + 1
      /\ \A n \in Events : Critical(n, log') <=> Critical(n, log)
      /\ history' \in Seq(Nat) /\ HistoryIsTail'
      /\ outbound' \in Seq(Nat) /\ Ascending(outbound)'
      /\ ToSet(outbound)' \subseteq ToSet(q) \cup {N + 1} /\ N + 1 \in ToSet(outbound)'
      /\ \A n \in ToSet(q) : Critical(n, log) => n \in ToSet(outbound)'
  <2>1. event \in Record /\ q \in Seq(Nat) /\ Ascending(q) /\ Emit(event, q)
        /\ Types /\ HistoryIsTail
    BY DEF IInv, Generates
  <2> QED BY <1>3, <2>1, Emitted
<1> HIDE DEF N
<1>5. /\ pipe' = pipe /\ lastEventSeq' = lastEventSeq /\ received' = received
      /\ ToSet(pipe)' = ToSet(pipe) /\ running' = running /\ attached' = attached
      /\ connected' = connected
  BY DEF Generates, clientVars
<1>6. Types'
  BY <1>4, <1>5 DEF IInv, Types, Generates
<1>7. Linked'
  BY <1>5 DEF IInv, Linked, Generates
<1>8. InLine'
  <2>1. \A n \in ToSet(pipe) \cup ToSet(inflight)' \cup ToSet(outbound)' :
          lastEventSeq < n /\ n <= N + 1
    <3>1. \A n \in ToSet(pipe) : lastEventSeq < n /\ n <= N /\ n \in Nat
      BY SetOf DEF IInv, Types, InLine, N
    <3>2. lastEventSeq <= N /\ lastEventSeq \in Nat
      BY DEF IInv, Types, InLine, N
    <3> QED BY <1>1, <1>2, <1>4, <3>1, <3>2
  <2>2. /\ Below(ToSet(pipe), ToSet(inflight)') /\ Below(ToSet(pipe), ToSet(outbound)')
        /\ Below(ToSet(inflight)', ToSet(outbound)')
    <3>1. Below(ToSet(pipe), ToSet(inflight)' \cup ToSet(q))
      BY DEF IInv, InLine, Generates, Below
    <3>2. \A m \in ToSet(pipe) \cup ToSet(inflight)' : m < N + 1
      <4>1. \A n \in ToSet(pipe) : n <= N /\ n \in Nat
        BY SetOf DEF IInv, Types, InLine, N
      <4> QED BY <1>1, <1>2, <4>1
    <3>3. Below(ToSet(inflight)', ToSet(q))
      BY DEF Generates
    <3> QED BY <1>4, <3>1, <3>2, <3>3 DEF Below
  <2>3. Ascending(pipe)'
    BY <1>5 DEF IInv, InLine, Ascending
  <2>4. lastEventSeq <= N + 1 /\ received \subseteq 1..lastEventSeq
    BY <1>1 DEF IInv, Types, InLine, N
  <2> QED BY <1>4, <1>5, <2>1, <2>2, <2>3, <2>4 DEF InLine
<1>9. Complete'
  <2>1. \A n \in CriticalEvents' : n \in CriticalEvents \/ n = N + 1
    BY <1>1, <1>4 DEF CriticalEvents, Events, N
  <2>2. lastEventSeq < N + 1 /\ \A m \in ToSet(pipe) : m < N + 1
    <3>1. \A m \in ToSet(pipe) : m <= N /\ m \in Nat
      BY SetOf DEF IInv, Types, InLine, N
    <3> QED BY <1>1, <3>1 DEF IInv, Types, InLine, N
  <2>3. \A n \in CriticalEvents' : n <= lastEventSeq => n \in received
    BY <1>1, <2>1, <2>2 DEF IInv, Types, Complete
  <2>4. \A n \in CriticalEvents', m \in ToSet(pipe) : n <= m => n \in received \cup ToSet(pipe)
    <3>1. \A m \in ToSet(pipe) : m \in Nat
      BY SetOf DEF IInv, Types
    <3> QED BY <1>1, <2>1, <2>2, <3>1 DEF IInv, Complete
  <2>5. ASSUME Streaming, NEW n \in CriticalEvents'
        PROVE  n \in received \cup ToSet(pipe) \cup ToSet(inflight)' \cup ToSet(outbound)'
    <3>1. CASE n = N + 1
      BY <1>4, <3>1
    <3>2. CASE n \in CriticalEvents
      <4>1. n \in received \cup ToSet(pipe) \cup ToSet(inflight) \cup ToSet(outbound)
        BY <2>5, <3>2 DEF IInv, Complete
      <4>2. n \in received \cup ToSet(pipe) \cup ToSet(inflight)' \cup ToSet(q)
        BY <4>1 DEF Generates
      <4>3. Critical(n, log)
        BY <3>2 DEF CriticalEvents
      <4> QED BY <1>4, <4>2, <4>3
    <3> QED BY <2>1, <3>1, <3>2
  <2>6. Streaming' = Streaming
    BY <1>5 DEF Streaming
  <2> QED BY <1>5, <2>3, <2>4, <2>5, <2>6 DEF Complete
<1> QED BY <1>4, <1>6, <1>7, <1>8, <1>9

\* SendTerminal, SendVerbose and a DropVerbose that announces push behind the queue.
LEMMA SendGenerates ==
  ASSUME IInv, NEW event \in Record, Emit(event, outbound),
         UNCHANGED <<connected, running, inflight, attached, pipe, clientVars>>
  PROVE  Generates(event, outbound)
<1>1. inflight' = inflight /\ ToSet(inflight)' = ToSet(inflight)
  OBVIOUS
<1> QED BY <1>1 DEF IInv, Types, Linked, InLine, Generates

LEMMA SendStep ==
  ASSUME IInv, SendTerminal \/ SendVerbose
  PROVE  IInv'
<1>1. PICK event \in Record : event.kind # "flow" /\ Emit(event, outbound)
  <2>1. 0 \in 0..MaxDropped
    BY EventDeliveryAssumption
  <2>2. [kind |-> "terminal", dropped |-> 0] \in Record /\ [kind |-> "verbose", dropped |-> 0] \in Record
    BY <2>1 DEF Record
  <2> QED BY <2>2 DEF SendTerminal, SendVerbose
<1>2. UNCHANGED <<droppedVerbose, flowControlQueued, connected, running, inflight, attached,
                  pipe, clientVars>>
  BY DEF SendTerminal, SendVerbose
<1>3. Generates(event, outbound)
  BY <1>1, <1>2, SendGenerates
<1>4. Types' /\ HistoryIsTail' /\ Linked' /\ InLine' /\ Complete'
  BY <1>3, GeneratedStep
<1>5. FlowKnown'
  <2>0. \A n \in ToSet(outbound) : n \in Events
    BY SetOf DEF IInv, Types, InLine, Events
  <2>1. /\ Len(log') = Len(log) + 1 /\ log'[Len(log) + 1] = event
        /\ \A n \in Events : log'[n] = log[n]
        /\ \A n \in ToSet(outbound) : Critical(n, log) => n \in ToSet(outbound)'
    BY <1>1, <2>0, Emitted DEF IInv, Types, InLine
  <2>2. Len(log) \in Nat
    BY DEF IInv, Types
  <2>3. \A n \in Events' : n \in Events \/ n = Len(log) + 1
    BY <2>1, <2>2 DEF Events
  <2>4. \A n \in Events : n \in Events'
    BY <2>1, <2>2 DEF Events
  <2>5. \A n \in Events' : log'[n].kind = "flow" => log'[n].dropped <= droppedVerbose
    BY <1>1, <2>1, <2>3 DEF IInv, FlowKnown
  <2>6. flowControlQueued => \E n \in ToSet(outbound)' : log'[n].kind = "flow"
    BY <2>0, <2>1 DEF IInv, FlowKnown, Critical
  <2>7. ~flowControlQueued /\ droppedVerbose > 0 =>
          \E n \in Events' : log'[n].kind = "flow" /\ log'[n].dropped = droppedVerbose
    BY <2>1, <2>4 DEF IInv, FlowKnown
  <2> QED BY <1>2, <2>5, <2>6, <2>7 DEF IInv, FlowKnown
<1> QED BY <1>4, <1>5 DEF IInv

\* A FLOW_CONTROL that names the present count is generated.
LEMMA AnnounceStep ==
  ASSUME IInv, NEW q, NEW count \in 0..MaxDropped, count >= droppedVerbose,
         droppedVerbose' = count, QueueFlowControl(q, count),
         Generates([kind |-> "flow", dropped |-> count], q)
  PROVE  IInv'
<1> DEFINE event == [kind |-> "flow", dropped |-> count]
<1>1. Types' /\ HistoryIsTail' /\ Linked' /\ InLine' /\ Complete'
  BY GeneratedStep
<1>2. FlowKnown'
  <2>1. event.kind = "flow" /\ event.dropped = count
    OBVIOUS
  <2>2. \A n \in ToSet(q) : n \in Events
    BY SetOf DEF IInv, Types, InLine, Events, Generates
  <2>3. /\ Len(log') = Len(log) + 1 /\ log'[Len(log) + 1] = event
        /\ \A n \in Events : log'[n] = log[n]
        /\ Len(log) + 1 \in ToSet(outbound)'
    <3>1. event \in Record /\ q \in Seq(Nat) /\ Ascending(q) /\ Emit(event, q)
      BY DEF Generates
    <3> HIDE DEF event
    <3> QED BY <2>2, <3>1, Emitted DEF IInv
  <2> HIDE DEF event
  <2>4. Len(log) \in Nat
    BY DEF IInv, Types
  <2>5. \A n \in Events' : n \in Events \/ n = Len(log) + 1
    BY <2>3, <2>4 DEF Events
  <2>6. ASSUME NEW n \in Events', log'[n].kind = "flow" PROVE log'[n].dropped <= count
    <3>1. CASE n = Len(log) + 1
      BY <2>1, <2>3, <3>1
    <3>2. CASE n \in Events
      <4>1. log[n].kind = "flow" /\ log'[n].dropped = log[n].dropped
        BY <2>3, <2>6, <3>2
      <4>2. log[n].dropped <= droppedVerbose
        BY <3>2, <4>1 DEF IInv, FlowKnown
      <4>3. log[n].dropped \in Nat /\ droppedVerbose \in Nat
        BY <3>2, DroppedIsNumber
      <4> QED BY <4>1, <4>2, <4>3
    <3> QED BY <2>5, <3>1, <3>2
  <2>7. flowControlQueued' = TRUE
    BY DEF QueueFlowControl
  <2>8. \E n \in ToSet(outbound)' : log'[n].kind = "flow"
    BY <2>1, <2>3
  <2> QED BY <2>6, <2>7, <2>8 DEF FlowKnown
<1> QED BY <1>1, <1>2 DEF IInv

LEMMA DropStep ==
  ASSUME IInv, DropVerbose
  PROVE  IInv'
<1>1. /\ droppedVerbose < MaxDropped /\ droppedVerbose' = droppedVerbose + 1
      /\ UNCHANGED <<connected, running, inflight, attached, pipe, clientVars>>
  BY DEF DropVerbose
<1>2. /\ droppedVerbose \in Nat /\ MaxDropped \in Nat
      /\ droppedVerbose + 1 \in 0..MaxDropped /\ droppedVerbose + 1 >= droppedVerbose
  BY <1>1, EventDeliveryAssumption DEF IInv, FlowKnown
<1>3. CASE flowControlQueued
  <2>1. UNCHANGED <<log, history, outbound, flowControlQueued>>
    BY <1>3 DEF DropVerbose
  <2>2. Types' /\ Linked'
    BY <1>1, <2>1 DEF IInv, Types, Linked, clientVars
  <2>3. HistoryIsTail'
    BY <2>1 DEF IInv, HistoryIsTail
  <2>4. InLine' /\ Complete'
    BY <1>1, <2>1 DEF IInv, InLine, Complete, Ascending, Streaming, CriticalEvents, Events, Critical, clientVars
  <2>5. FlowKnown'
    <3>1. \A n \in Events : log[n].kind = "flow" => log[n].dropped <= droppedVerbose + 1
      BY DroppedIsNumber DEF IInv, FlowKnown
    <3> QED BY <1>1, <1>2, <1>3, <2>1, <3>1 DEF IInv, FlowKnown, Events
  <2> QED BY <2>2, <2>3, <2>4, <2>5 DEF IInv
<1>4. CASE ~flowControlQueued
  <2>1. QueueFlowControl(outbound, droppedVerbose + 1)
    BY <1>4 DEF DropVerbose
  <2>2. [kind |-> "flow", dropped |-> droppedVerbose + 1] \in Record
    BY <1>2 DEF Record
  <2>3. Generates([kind |-> "flow", dropped |-> droppedVerbose + 1], outbound)
    BY <1>1, <2>1, <2>2, SendGenerates DEF QueueFlowControl
  <2> QED BY <1>1, <1>2, <2>1, <2>3, AnnounceStep
<1> QED BY <1>3, <1>4 DEF IInv, FlowKnown

LEMMA WaitPopStep ==
  ASSUME IInv, WaitPop
  PROVE  IInv'
<1> DEFINE n == Head(outbound)
           q == Tail(outbound)
<1>1. /\ running /\ inflight = <<>> /\ outbound # <<>> /\ inflight' = <<n>>
      /\ UNCHANGED <<droppedVerbose, connected, running, attached, pipe, clientVars>>
  BY DEF WaitPop
<1>2. /\ n \in Nat /\ n \in ToSet(outbound) /\ q \in Seq(Nat) /\ Ascending(q)
      /\ ToSet(outbound) = {n} \cup ToSet(q) /\ Below({n}, ToSet(q))
  BY <1>1, Popped DEF IInv, Types, InLine
<1> HIDE DEF n, q
<1>3. inflight' \in Seq(Nat) /\ Len(inflight') = 1 /\ ToSet(inflight)' = {n}
  <2>1. inflight' \in Seq(Nat) /\ Len(inflight') = 1 /\ inflight'[1] = n
    BY <1>1, <1>2
  <2>2. \A m : m \in ToSet(inflight') <=> \E i \in 1..Len(inflight') : inflight'[i] = m
    BY <2>1, SetOf
  <2>3. 1..1 = {1}
    OBVIOUS
  <2>4. ToSet(inflight') = {n}
    BY <2>1, <2>2, <2>3
  <2> QED BY <2>1, <2>4 DEF ToSet
<1>4. ToSet(inflight) = {}
  BY <1>1, EmptyQueue
<1>5. /\ ToSet(inflight)' \cup ToSet(q) = ToSet(inflight) \cup ToSet(outbound)
      /\ Below(ToSet(inflight)', ToSet(q))
  BY <1>2, <1>3, <1>4
<1>6. n \in Events
  BY <1>2 DEF IInv, Types, InLine, Events
<1>7. CASE log[n].kind = "flow" /\ droppedVerbose > log[n].dropped
  <2>1. QueueFlowControl(q, droppedVerbose)
    BY <1>7 DEF WaitPop, n, q
  <2>2. droppedVerbose \in 0..MaxDropped /\ droppedVerbose >= droppedVerbose
    BY DEF IInv, FlowKnown
  <2>3. [kind |-> "flow", dropped |-> droppedVerbose] \in Record
    BY <2>2 DEF Record
  <2>4. Generates([kind |-> "flow", dropped |-> droppedVerbose], q)
    BY <1>1, <1>2, <1>3, <1>5, <2>1, <2>3 DEF Generates, QueueFlowControl
  <2>5. droppedVerbose' = droppedVerbose
    BY <1>1
  <2> QED BY <2>1, <2>2, <2>4, <2>5, AnnounceStep
<1>8. CASE ~(log[n].kind = "flow" /\ droppedVerbose > log[n].dropped)
  <2>1. /\ outbound' = q /\ UNCHANGED <<log, history>>
        /\ flowControlQueued' = (flowControlQueued /\ log[n].kind # "flow")
    BY <1>8 DEF WaitPop, n, q
  <2>2. Types' /\ Linked'
    BY <1>1, <1>2, <1>3, <2>1 DEF IInv, Types, Linked, clientVars
  <2>3. HistoryIsTail'
    BY <2>1 DEF IInv, HistoryIsTail
  <2>4. ToSet(outbound)' = ToSet(q) /\ Ascending(outbound)'
    BY <1>2, <2>1 DEF Ascending
  <2>5. ToSet(pipe)' = ToSet(pipe) /\ Ascending(pipe)' = Ascending(pipe)
    BY <1>1 DEF Ascending
  <2>6. InLine'
    BY <1>1, <1>3, <1>4, <1>5, <2>1, <2>4, <2>5 DEF IInv, InLine, Below, clientVars
  <2>7. Complete'
    <3>1. CriticalEvents' = CriticalEvents /\ Streaming' = Streaming
      BY <1>1, <2>1 DEF CriticalEvents, Events, Critical, Streaming
    <3> QED BY <1>1, <1>5, <2>4, <2>5, <3>1 DEF IInv, Complete, clientVars
  <2>8. FlowKnown'
    <3>1. Events' = Events /\ log' = log /\ droppedVerbose' = droppedVerbose
      BY <1>1, <2>1 DEF Events
    <3>2. flowControlQueued' => \E m \in ToSet(outbound)' : log[m].kind = "flow"
      BY <1>2, <2>1, <2>4 DEF IInv, FlowKnown
    <3>3. CASE log[n].kind = "flow"
      <4>1. log[n].dropped <= droppedVerbose /\ ~(droppedVerbose > log[n].dropped)
        BY <1>6, <1>8, <3>3 DEF IInv, FlowKnown
      <4>2. log[n].dropped \in Nat /\ droppedVerbose \in Nat
        BY <1>6, DroppedIsNumber
      <4>3. log[n].dropped = droppedVerbose
        BY <4>1, <4>2
      <4>4. flowControlQueued' \in BOOLEAN
        BY <2>1, <3>3
      <4> QED BY <1>6, <3>1, <3>2, <3>3, <4>3, <4>4 DEF IInv, FlowKnown
    <3>4. CASE log[n].kind # "flow"
      <4>1. flowControlQueued' = flowControlQueued
        BY <2>1, <3>4 DEF IInv, FlowKnown
      <4> QED BY <3>1, <3>2, <4>1 DEF IInv, FlowKnown
    <3> QED BY <3>3, <3>4
  <2> QED BY <2>2, <2>3, <2>6, <2>7, <2>8 DEF IInv
<1> QED BY <1>7, <1>8

-----------------------------------------------------------------------------
(* Steps of the connection and the client.                                 *)

\* What stays as long as nothing is generated, queued or announced.
LEMMA SameState ==
  ASSUME IInv, UNCHANGED stateVars
  PROVE  /\ HistoryIsTail' /\ FlowKnown'
         /\ CriticalEvents' = CriticalEvents /\ Len(log') = Len(log)
         /\ ToSet(outbound)' = ToSet(outbound) /\ Ascending(outbound)'
<1>1. UNCHANGED <<log, history, outbound, droppedVerbose, flowControlQueued>>
  BY DEF stateVars
<1>2. HistoryIsTail'
  BY <1>1 DEF IInv, HistoryIsTail
<1>3. FlowKnown'
  BY <1>1 DEF IInv, FlowKnown, Events
<1>4. Ascending(outbound)'
  BY <1>1 DEF IInv, InLine, Ascending
<1>5. CriticalEvents' = CriticalEvents
  BY <1>1 DEF CriticalEvents, Events, Critical
<1> QED BY <1>1, <1>2, <1>3, <1>4, <1>5

LEMMA WriteStep ==
  ASSUME IInv, Send
  PROVE  IInv'
<1>1. /\ running /\ attached /\ inflight # <<>> /\ Len(pipe) < PipeLimit
      /\ pipe' = pipe \o inflight /\ inflight' = <<>>
      /\ UNCHANGED <<stateVars, connected, running, attached, clientVars>>
  BY DEF Send
<1>2. /\ HistoryIsTail' /\ FlowKnown'
      /\ CriticalEvents' = CriticalEvents /\ Len(log') = Len(log)
      /\ ToSet(outbound)' = ToSet(outbound) /\ Ascending(outbound)'
  BY <1>1, SameState
<1>3. Ascending(inflight) /\ Len(inflight) = 1
  <2>1. inflight \in Seq(Nat) /\ Len(inflight) <= 1
    BY DEF IInv, Types
  <2>2. Len(inflight) \in Nat /\ (Len(inflight) = 0 => inflight = <<>>)
    BY <2>1
  <2>3. inflight # <<>>
    BY <1>1
  <2>4. PICK k \in Nat : k = Len(inflight)
    BY <2>2
  <2>5. k = 1
    BY <2>1, <2>2, <2>3, <2>4
  <2>6. Len(inflight) = 1
    BY <2>4, <2>5
  <2> QED BY <2>6 DEF Ascending
<1>4. /\ pipe \o inflight \in Seq(Nat) /\ Ascending(pipe \o inflight)
      /\ ToSet(pipe \o inflight) = ToSet(pipe) \cup ToSet(inflight)
  BY <1>3, Joined DEF IInv, Types, InLine
<1>5. /\ pipe' \in Seq(Nat) /\ Ascending(pipe)'
      /\ ToSet(pipe)' = ToSet(pipe) \cup ToSet(inflight)
  BY <1>1, <1>4 DEF Ascending
<1>6. inflight' \in Seq(Nat) /\ ToSet(inflight)' = {}
  BY <1>1, EmptyQueue
<1>7. Types'
  <2>1. Len(pipe') = Len(pipe) + Len(inflight) /\ PipeLimit \in Nat
    BY <1>1, EventDeliveryAssumption DEF IInv, Types
  <2>2. Len(pipe') <= PipeLimit
    BY <1>1, <1>3, <2>1 DEF IInv, Types
  <2>3. Len(inflight') <= 1
    BY <1>1
  <2> QED BY <1>1, <1>5, <1>6, <2>2, <2>3 DEF IInv, Types, stateVars, clientVars
<1>8. Linked'
  BY <1>1 DEF IInv, Linked
<1>9. InLine'
  BY <1>1, <1>2, <1>5, <1>6 DEF IInv, InLine, Below, clientVars
<1>10. Complete'
  <2>1. \A n \in CriticalEvents, m \in ToSet(pipe)' : n <= m => n \in received \cup ToSet(pipe)'
    <3> SUFFICES ASSUME NEW n \in CriticalEvents, NEW m \in ToSet(pipe)', n <= m
                 PROVE  n \in received \cup ToSet(pipe)'
      OBVIOUS
    <3>1. CASE m \in ToSet(pipe)
      BY <1>5, <3>1 DEF IInv, Complete
    <3>2. CASE m \in ToSet(inflight)
      <4>1. n \in received \cup ToSet(pipe) \cup ToSet(inflight) \cup ToSet(outbound)
        BY <1>1 DEF IInv, Complete, Streaming
      <4>2. n \notin ToSet(outbound)
        <5>1. n \in ToSet(outbound) => m < n
          BY <3>2 DEF IInv, InLine, Below
        <5>2. n \in Nat /\ m \in Nat
          BY <3>2, SetOf DEF CriticalEvents, Events, IInv, Types
        <5> QED BY <5>1, <5>2
      <4> QED BY <1>5, <4>1, <4>2
    <3> QED BY <1>5, <3>1, <3>2
  <2>2. Streaming' = Streaming
    BY <1>1 DEF Streaming
  <2> QED BY <1>1, <1>2, <1>5, <1>6, <2>1, <2>2 DEF IInv, Complete, clientVars
<1> QED BY <1>2, <1>7, <1>8, <1>9, <1>10 DEF IInv

\* The connection ends or is marked, or the client closes its end.
LEMMA BreakStep ==
  ASSUME IInv, ConnectionEnds \/ MarkDisconnected \/ ClientCloses
  PROVE  IInv'
<1>1. /\ UNCHANGED <<stateVars, clientVars>>
      /\ pipe' = pipe \/ pipe' = <<>> 
      /\ inflight' = inflight \/ inflight' = <<>>
      /\ Streaming' => Streaming /\ UNCHANGED <<pipe, inflight>>
      /\ connected' \in BOOLEAN /\ running' \in BOOLEAN /\ attached' \in BOOLEAN
  <2>0. connected \in BOOLEAN /\ running \in BOOLEAN /\ attached \in BOOLEAN
    BY DEF IInv, Types
  <2>1. CASE ConnectionEnds
    BY <2>0, <2>1 DEF ConnectionEnds, Streaming
  <2>2. CASE MarkDisconnected
    BY <2>0, <2>2 DEF MarkDisconnected, Streaming
  <2>3. CASE ClientCloses
    BY <2>0, <2>3 DEF ClientCloses, Streaming
  <2> QED BY <2>1, <2>2, <2>3
<1>2. /\ HistoryIsTail' /\ FlowKnown'
      /\ CriticalEvents' = CriticalEvents /\ Len(log') = Len(log)
      /\ ToSet(outbound)' = ToSet(outbound) /\ Ascending(outbound)'
  BY <1>1, SameState
<1>3. /\ pipe' \in Seq(Nat) /\ Ascending(pipe)' /\ Len(pipe') <= PipeLimit
      /\ ToSet(pipe)' = ToSet(pipe) \/ ToSet(pipe)' = {}
  <2>1. Len(<<>>) <= PipeLimit
    BY EventDeliveryAssumption
  <2> QED BY <1>1, <2>1, EmptyQueue DEF IInv, Types, InLine, Ascending
<1>4. /\ inflight' \in Seq(Nat) /\ Len(inflight') <= 1
      /\ ToSet(inflight)' = ToSet(inflight) \/ ToSet(inflight)' = {}
  <2>1. inflight \in Seq(Nat) /\ Len(inflight) <= 1
    BY DEF IInv, Types
  <2>2. CASE inflight' = inflight
    BY <2>1, <2>2
  <2>3. CASE inflight' = <<>>
    BY <2>3, EmptyQueue
  <2> QED BY <1>1, <2>2, <2>3
<1>5. Types'
  BY <1>1, <1>3, <1>4 DEF IInv, Types, stateVars, clientVars
<1>6. Linked'
  BY DEF ConnectionEnds, MarkDisconnected, ClientCloses, IInv, Linked
<1>7. InLine'
  BY <1>1, <1>2, <1>3, <1>4 DEF IInv, InLine, Below, clientVars
<1>8. Complete'
  BY <1>1, <1>2, <1>3 DEF IInv, Complete, clientVars
<1> QED BY <1>2, <1>5, <1>6, <1>7, <1>8 DEF IInv

\* The client reads an event that is newer than all it has.
LEMMA ReadStep ==
  ASSUME IInv, ClientReads
  PROVE  /\ IInv'
         /\ Head(pipe) \in Events /\ Head(pipe) \notin received
         /\ \A n \in CriticalEvents \ received : Head(pipe) <= n
<1> DEFINE h == Head(pipe)
           q == Tail(pipe)
<1>1. /\ pipe # <<>> /\ received' = received \cup {h} /\ pipe' = q
      /\ lastEventSeq' = IF h > lastEventSeq THEN h ELSE lastEventSeq
      /\ UNCHANGED <<stateVars, connected, running, inflight, attached>>
  BY DEF ClientReads
<1>2. /\ h \in Nat /\ h \in ToSet(pipe) /\ q \in Seq(Nat) /\ Ascending(q)
      /\ ToSet(pipe) = {h} \cup ToSet(q) /\ Below({h}, ToSet(q))
      /\ Len(q) <= PipeLimit /\ attached
  <2>1. pipe \in Seq(Nat) /\ Ascending(pipe) /\ Len(pipe) <= PipeLimit /\ attached
    BY DEF IInv, Types, InLine, ClientReads
  <2>2. Len(q) = Len(pipe) - 1 /\ Len(q) \in Nat /\ Len(pipe) \in Nat
    BY <1>1, <2>1
  <2>3. Len(q) <= PipeLimit
    BY <2>1, <2>2, EventDeliveryAssumption
  <2> QED BY <1>1, <2>1, <2>3, Popped
<1> HIDE DEF h, q
<1>3. lastEventSeq < h /\ h <= Len(log) /\ lastEventSeq \in Nat /\ Len(log) \in Nat
  BY <1>2 DEF IInv, Types, InLine
<1>4. lastEventSeq' = h
  BY <1>1, <1>2, <1>3
<1>5. /\ HistoryIsTail' /\ FlowKnown'
      /\ CriticalEvents' = CriticalEvents /\ Len(log') = Len(log)
      /\ ToSet(outbound)' = ToSet(outbound) /\ Ascending(outbound)'
  BY <1>1, SameState
<1>6. ToSet(pipe)' = ToSet(q) /\ Ascending(pipe)' /\ ToSet(inflight)' = ToSet(inflight)
  BY <1>1, <1>2 DEF Ascending
<1>7. Types' /\ Linked'
  BY <1>1, <1>2, <1>4 DEF IInv, Types, Linked, stateVars
<1>8. InLine'
  <2>1. \A n \in ToSet(q) \cup ToSet(inflight) \cup ToSet(outbound) : h < n /\ n <= Len(log)
    BY <1>2 DEF IInv, InLine, Below
  <2>2. received \cup {h} \subseteq 1..h
    BY <1>2, <1>3 DEF IInv, InLine
  <2>3. Below(ToSet(q), ToSet(inflight)) /\ Below(ToSet(q), ToSet(outbound))
    BY <1>2 DEF IInv, InLine, Below
  <2> QED BY <1>1, <1>3, <1>4, <1>5, <1>6, <2>1, <2>2, <2>3 DEF IInv, InLine
<1>9. \A n \in CriticalEvents : n <= h => n \in received \cup {h}
  <2> SUFFICES ASSUME NEW n \in CriticalEvents, n <= h
               PROVE  n \in received \cup {h}
    OBVIOUS
  <2>1. n \in received \cup ToSet(pipe)
    BY <1>2 DEF IInv, Complete
  <2>2. n \in ToSet(q) => h < n
    BY <1>2 DEF Below
  <2>3. n \in Nat
    BY DEF CriticalEvents, Events
  <2> QED BY <1>2, <2>1, <2>2, <2>3
<1>10. Complete'
  <2>1. \A n \in CriticalEvents, m \in ToSet(q) : n <= m => n \in received \cup {h} \cup ToSet(q)
    BY <1>2 DEF IInv, Complete
  <2>2. Streaming => CriticalEvents \subseteq
                       received \cup {h} \cup ToSet(q) \cup ToSet(inflight) \cup ToSet(outbound)
    BY <1>2 DEF IInv, Complete
  <2>3. Streaming' = Streaming
    BY <1>1 DEF Streaming
  <2> QED BY <1>1, <1>4, <1>5, <1>6, <1>9, <2>1, <2>2, <2>3 DEF Complete
<1>11. h \in Events /\ h \notin received
  BY <1>2, <1>3 DEF Events, IInv, InLine
<1>12. \A n \in CriticalEvents \ received : h <= n
  <2>1. \A n \in CriticalEvents : n \in Nat
    BY DEF CriticalEvents, Events
  <2> QED BY <1>2, <1>9, <2>1
<1> QED BY <1>5, <1>7, <1>8, <1>10, <1>11, <1>12 DEF IInv, h

LEMMA ResumeStep ==
  ASSUME IInv, Resume
  PROVE  IInv'
<1>1. /\ ~attached /\ ~connected /\ HistoryServes(lastEventSeq)
      /\ outbound' = GetAfter(lastEventSeq)
      /\ flowControlQueued' = \E i \in 1..Len(outbound') : log[outbound'[i]].kind = "flow"
      /\ connected' = TRUE /\ running' = TRUE /\ attached' = TRUE
      /\ UNCHANGED <<log, history, droppedVerbose, inflight, pipe, clientVars>>
  BY DEF Resume
<1>2. pipe = <<>> /\ inflight = <<>>
  BY <1>1 DEF IInv, Types, Linked
<1>3. ToSet(pipe) = {} /\ ToSet(inflight) = {} /\ ToSet(pipe)' = {} /\ ToSet(inflight)' = {}
  BY <1>1, <1>2, EmptyQueue
<1>4. /\ outbound' \in Seq(Nat) /\ Ascending(outbound)'
      /\ ToSet(outbound)' = (lastEventSeq + 1)..Len(log)
  <2>1. Len(log) \in Nat /\ lastEventSeq \in Nat /\ lastEventSeq <= Len(log)
        /\ history \in Seq(Nat) /\ HistoryIsTail
    BY DEF IInv, Types, InLine
  <2> QED BY <1>1, <2>1, Served DEF Ascending
<1>5. Len(log) \in Nat /\ lastEventSeq \in Nat /\ lastEventSeq <= Len(log)
  BY DEF IInv, Types, InLine
<1>6. Types' /\ Linked'
  BY <1>1, <1>4 DEF IInv, Types, Linked, clientVars
<1>7. HistoryIsTail'
  BY <1>1 DEF IInv, HistoryIsTail
<1>8. InLine'
  <2>1. \A n \in ToSet(outbound)' : lastEventSeq < n /\ n <= Len(log)
    BY <1>4, <1>5
  <2>2. Ascending(pipe)'
    BY <1>1 DEF IInv, InLine, Ascending
  <2> QED BY <1>1, <1>3, <1>4, <2>1, <2>2 DEF IInv, InLine, Below, clientVars
<1>9. CriticalEvents' = CriticalEvents /\ Events' = Events
  BY <1>1 DEF CriticalEvents, Events, Critical
<1>10. Complete'
  <2>1. \A n \in CriticalEvents : n \in received \/ n \in (lastEventSeq + 1)..Len(log)
    <3>1. \A n \in CriticalEvents : n \in 1..Len(log)
      BY DEF CriticalEvents, Events
    <3> QED BY <1>5, <3>1 DEF IInv, Complete
  <2> QED BY <1>1, <1>3, <1>4, <1>9, <2>1 DEF IInv, Complete, clientVars
<1>11. FlowKnown'
  <2>1. flowControlQueued' <=> \E n \in ToSet(outbound)' : log[n].kind = "flow"
    <3>1. \A n : n \in ToSet(outbound') <=> \E i \in 1..Len(outbound') : outbound'[i] = n
      BY <1>4, SetOf
    <3> QED BY <1>1, <3>1
  <2>2. flowControlQueued' \in BOOLEAN
    BY <1>1
  <2>3. flowControlQueued => flowControlQueued'
    <3>1. \A n \in ToSet(outbound) : n \in (lastEventSeq + 1)..Len(log)
      BY SetOf DEF IInv, Types, InLine
    <3> QED BY <1>4, <2>1, <3>1 DEF IInv, FlowKnown
  <2> QED BY <1>1, <1>9, <2>1, <2>2, <2>3 DEF IInv, FlowKnown
<1> QED BY <1>6, <1>7, <1>8, <1>10, <1>11 DEF IInv

-----------------------------------------------------------------------------
(* The theorems.                                                           *)

LEMMA Inductive ==
  ASSUME IInv, [Next]_vars
  PROVE  IInv'
<1>1. CASE UNCHANGED vars
  <2>1. UNCHANGED stateVars /\ UNCHANGED clientVars
        /\ UNCHANGED <<connected, running, inflight, attached, pipe>>
    BY <1>1 DEF vars
  <2>2. HistoryIsTail' /\ FlowKnown' /\ CriticalEvents' = CriticalEvents /\ Len(log') = Len(log)
        /\ ToSet(outbound)' = ToSet(outbound) /\ Ascending(outbound)'
    BY <2>1, SameState
  <2>3. Types' /\ Linked'
    BY <2>1 DEF IInv, Types, Linked, stateVars, clientVars
  <2>4. InLine'
    BY <2>1, <2>2 DEF IInv, InLine, Ascending, clientVars
  <2>5. Complete'
    BY <2>1, <2>2 DEF IInv, Complete, Streaming, clientVars
  <2> QED BY <2>2, <2>3, <2>4, <2>5 DEF IInv
<1>2. CASE SendTerminal \/ SendVerbose
  BY <1>2, SendStep
<1>3. CASE DropVerbose
  BY <1>3, DropStep
<1>4. CASE WaitPop
  BY <1>4, WaitPopStep
<1>5. CASE Send
  BY <1>5, WriteStep
<1>6. CASE ConnectionEnds \/ MarkDisconnected \/ ClientCloses
  BY <1>6, BreakStep
<1>7. CASE ClientReads
  BY <1>7, ReadStep
<1>8. CASE Resume
  BY <1>8, ResumeStep
<1> QED BY <1>1, <1>2, <1>3, <1>4, <1>5, <1>6, <1>7, <1>8 DEF Next, Server, Client

LEMMA Initial == Init => IInv
<1> SUFFICES ASSUME Init PROVE IInv
  OBVIOUS
<1> USE DEF Init
<1>1. Types
  BY EventDeliveryAssumption, EmptyQueue DEF Types
<1>2. HistoryIsTail
  BY EventDeliveryAssumption DEF HistoryIsTail, TailOf
<1>3. ToSet(pipe) = {} /\ ToSet(inflight) = {} /\ ToSet(outbound) = {}
  BY EmptyQueue
<1>4. Events = {} /\ CriticalEvents = {}
  BY DEF Events, CriticalEvents
<1>5. Linked /\ InLine
  BY <1>3, EmptyQueue DEF Linked, InLine, Below
<1>6. Complete
  BY <1>3, <1>4 DEF Complete
<1>7. FlowKnown
  <2>1. droppedVerbose = 0 /\ flowControlQueued = FALSE /\ 0 \in 0..MaxDropped
    BY EventDeliveryAssumption
  <2>2. droppedVerbose \in 0..MaxDropped /\ ~(droppedVerbose > 0)
    BY <2>1
  <2>3. flowControlQueued \in BOOLEAN /\ ~flowControlQueued
    BY <2>1
  <2> HIDE DEF Init
  <2> QED BY <1>4, <2>2, <2>3 DEF FlowKnown
<1> QED BY <1>1, <1>2, <1>5, <1>6, <1>7 DEF IInv

\* IInv is an invariant of the event path.
THEOREM Invariance == Spec => []IInv
BY Initial, Inductive, PTL DEF Spec

\* The types of the variables, the limits of history, pipe and event thread included.
THEOREM TypeCorrect == Spec => []TypeOK
<1>1. IInv => TypeOK
  <2> SUFFICES ASSUME IInv PROVE TypeOK
    OBVIOUS
  <2>1. \A n \in Events : /\ log[n].kind \in {"verbose", "terminal", "flow"}
                          /\ log[n].dropped \in 0..MaxDropped
    <3>1. \A n \in Events : log[n] \in Record
      BY DEF IInv, Types, Events
    <3>2. \A e \in Record : e.kind \in {"verbose", "terminal", "flow"}
      BY DEF Record
    <3> QED BY <3>1, <3>2, DroppedIsNumber
  <2>2. \A i \in 1..Len(history) : history[i] \in Events
    <3>1. PICK k \in Nat : k = Len(history)
      BY DEF IInv, Types
    <3>2. PICK n \in Nat : n = Len(log)
      BY DEF IInv, Types
    <3>3. \A i \in 1..k : history[i] = (n - k) + i
      BY <3>1, <3>2 DEF IInv, HistoryIsTail, TailOf
    <3>4. k <= n
      BY <3>1, <3>2 DEF IInv, HistoryIsTail, TailOf
    <3>5. \A i \in 1..k : (n - k) + i \in 1..n
      BY <3>4
    <3> QED BY <3>1, <3>2, <3>3, <3>5 DEF Events
  <2>3. ASSUME NEW q \in {outbound, inflight, pipe}
        PROVE  \A i \in 1..Len(q) : q[i] \in Events
    <3>1. q \in Seq(Nat)
      BY DEF IInv, Types
    <3>2. \A n \in ToSet(q) : n \in Nat
      BY <3>1, SetOf
    <3>3. \A n \in ToSet(q) : lastEventSeq < n /\ n <= Len(log) /\ lastEventSeq \in Nat
      BY DEF IInv, InLine, Types
    <3>4. \A n \in ToSet(q) : n \in Events
      BY <3>2, <3>3 DEF Events
    <3> QED BY <3>1, <3>4, SetOf
  <2>4. lastEventSeq \in 0..Len(log) /\ received \subseteq Events
    BY DEF IInv, Types, InLine, Events
  <2>5. Len(history) <= HistoryLimit
    BY DEF IInv, HistoryIsTail, TailOf
  <2>6. {flowControlQueued, connected, running, attached} \subseteq BOOLEAN
        /\ droppedVerbose \in 0..MaxDropped /\ Len(inflight) <= 1 /\ Len(pipe) <= PipeLimit
    BY DEF IInv, Types, FlowKnown
  <2> QED BY <2>1, <2>2, <2>3, <2>4, <2>5, <2>6 DEF TypeOK
<1> QED BY <1>1, Invariance, PTL

\* What is in transit, as a sequence and as a set.
LEMMA TransitLine ==
  ASSUME IInv
  PROVE  /\ Transit \in Seq(Nat) /\ Ascending(Transit)
         /\ ToSet(Transit) = ToSet(pipe) \cup ToSet(inflight) \cup ToSet(outbound)
<1>1. /\ pipe \in Seq(Nat) /\ inflight \in Seq(Nat) /\ outbound \in Seq(Nat)
      /\ Len(inflight) <= 1 /\ Ascending(pipe) /\ Ascending(outbound)
      /\ Below(ToSet(pipe), ToSet(inflight)) /\ Below(ToSet(pipe), ToSet(outbound))
      /\ Below(ToSet(inflight), ToSet(outbound))
  BY DEF IInv, Types, InLine
<1>2. Ascending(inflight)
  <2>1. \A i, j \in 1..Len(inflight) : ~(i < j)
    BY <1>1
  <2> QED BY <2>1 DEF Ascending
<1> DEFINE p == pipe \o inflight
<1>3. p \in Seq(Nat) /\ Ascending(p) /\ ToSet(p) = ToSet(pipe) \cup ToSet(inflight)
  BY <1>1, <1>2, Joined
<1> HIDE DEF p
<1>4. Below(ToSet(p), ToSet(outbound))
  BY <1>1, <1>3 DEF Below
<1>5. /\ p \o outbound \in Seq(Nat) /\ Ascending(p \o outbound)
      /\ ToSet(p \o outbound) = ToSet(p) \cup ToSet(outbound)
  BY <1>1, <1>3, <1>4, Joined
<1>6. Transit = p \o outbound
  BY DEF Transit, p
<1> QED BY <1>3, <1>5, <1>6

\* A client that streams gets new events only, each once and in order, over any
\* number of breaks and resumes (SendJobEvent, WaitPop, PrepareResume).
THEOREM NewInOrder == Spec => []NewAndInOrder
<1>1. IInv => NewAndInOrder
  <2> SUFFICES ASSUME IInv PROVE NewAndInOrder
    OBVIOUS
  <2>1. \A i \in 1..Len(Transit) : Transit[i] > lastEventSeq
    <3>1. \A i \in 1..Len(Transit) : Transit[i] \in ToSet(Transit) /\ Transit[i] \in Nat
      BY TransitLine, SetOf
    <3>2. \A n \in ToSet(Transit) : lastEventSeq < n
      BY TransitLine DEF IInv, InLine
    <3>3. lastEventSeq \in Nat
      BY DEF IInv, Types
    <3> QED BY <3>1, <3>2, <3>3
  <2>2. \A i, j \in 1..Len(Transit) : i < j => Transit[i] < Transit[j]
    BY TransitLine DEF Ascending
  <2> QED BY <2>1, <2>2 DEF NewAndInOrder
<1> QED BY <1>1, Invariance, PTL

LEMMA OnTheWay == IInv => CriticalOnTheWay
<1> SUFFICES ASSUME IInv, Streaming, NEW n \in CriticalEvents
             PROVE  n \in received \/ \E i \in 1..Len(Transit) : Transit[i] = n
  BY DEF CriticalOnTheWay
<1>1. n \in received \/ n \in ToSet(Transit)
  BY TransitLine DEF IInv, Complete
<1> QED BY <1>1, TransitLine, SetOf

\* While a connection streams, every critical event has been received or is on its
\* way, whatever the queue evicted, the history trimmed and the pipe lost.
THEOREM NoneMissing == Spec => []CriticalOnTheWay
BY OnTheWay, Invariance, PTL

\* The client of a streaming session knows how many events were dropped, or a
\* FLOW_CONTROL is on its way to it (QueueFlowControlLocked, WaitPop, PrepareResume).
THEOREM DropsTold == Spec => []DropsAnnounced
<1>1. IInv => DropsAnnounced
  <2> SUFFICES ASSUME IInv, Streaming, Announced < droppedVerbose
               PROVE  \E i \in 1..Len(Transit) : log[Transit[i]].kind = "flow"
    BY DEF DropsAnnounced
  <2> DEFINE told == {log[n].dropped : n \in {m \in received : log[m].kind = "flow"}}
  <2>1. told \in SUBSET (0..MaxDropped)
    <3>1. \A n \in received : n \in Events
      BY DEF IInv, Types, InLine, Events
    <3> QED BY <3>1, DroppedIsNumber
  <2>2. told # {} => Announced \in told /\ \A e \in told : e <= Announced
    <3>1. told # {} => \E d \in told : \A e \in told : e <= d
      <4> HIDE DEF told
      <4> QED BY <2>1, Greatest, EventDeliveryAssumption
    <3> QED BY <3>1 DEF Announced
  <2>3. told = {} => Announced = 0
    BY DEF Announced
  <2>4. Announced \in Nat /\ droppedVerbose \in Nat /\ droppedVerbose > 0
    <3>1. droppedVerbose \in Nat
      BY DroppedIsNumber
    <3>2. Announced \in Nat
      <4> HIDE DEF told
      <4>1. \A e \in told : e \in Nat
        BY <2>1
      <4>2. CASE told = {}
        BY <2>3, <4>2
      <4>3. CASE told # {}
        BY <2>2, <4>1, <4>3
      <4> QED BY <4>2, <4>3
    <3> QED BY <3>1, <3>2
  <2>5. CASE flowControlQueued
    <3>1. PICK n \in ToSet(outbound) : log[n].kind = "flow"
      BY <2>5 DEF IInv, FlowKnown
    <3>2. n \in ToSet(Transit)
      BY TransitLine
    <3> QED BY <3>1, <3>2, TransitLine, SetOf
  <2>6. CASE ~flowControlQueued
    <3>1. PICK n \in Events : log[n].kind = "flow" /\ log[n].dropped = droppedVerbose
      BY <2>4, <2>6 DEF IInv, FlowKnown
    <3>2. n \in CriticalEvents
      BY <3>1 DEF CriticalEvents, Critical
    <3>3. n \notin received
      <4>1. n \in received => droppedVerbose \in told
        BY <3>1
      <4> QED BY <2>2, <2>4, <4>1
    <3>4. \E i \in 1..Len(Transit) : Transit[i] = n
      BY <3>2, <3>3, OnTheWay DEF CriticalOnTheWay
    <3> QED BY <3>1, <3>4
  <2> QED BY <2>5, <2>6
<1> QED BY <1>1, Invariance, PTL

Delivered == {n \in received : Critical(n, log)}

LEMMA StepRefines ==
  ASSUME IInv, [Next]_vars
  PROVE  Stream!Next \/ UNCHANGED <<CriticalEvents, Delivered>>
<1>0. Len(log) \in Nat /\ \A n \in received : n \in Events
  BY DEF IInv, Types, InLine, Events
<1>1. ASSUME NEW event \in Record, Emit(event, outbound) \/ Emit(event, Tail(outbound)),
             received' = received
      PROVE  Stream!Next \/ UNCHANGED <<CriticalEvents, Delivered>>
  <2>1. log' = Append(log, event)
    BY <1>1 DEF Emit
  <2>2. /\ Len(log') = Len(log) + 1 /\ log'[Len(log) + 1] = event
        /\ \A n \in Events : log'[n] = log[n]
    BY <2>1 DEF IInv, Types, Events
  <2>3. Delivered' = Delivered
    BY <1>0, <1>1, <2>2 DEF Delivered, Critical
  <2>4. Events' = Events \cup {Len(log) + 1} /\ \A n \in Events : n < Len(log) + 1
    BY <1>0, <2>2 DEF Events
  <2>5. \A n \in Events : n # Len(log) + 1
    BY <1>0 DEF Events
  <2>6. \A n \in Events' : Critical(n, log') <=> IF n = Len(log) + 1 THEN event.kind # "verbose"
                                                                     ELSE Critical(n, log)
    BY <2>2, <2>4, <2>5 DEF Critical
  <2>7. CASE event.kind = "verbose"
    <3>1. CriticalEvents' = CriticalEvents
      BY <2>4, <2>5, <2>6, <2>7 DEF CriticalEvents
    <3> QED BY <2>3, <3>1
  <2>8. CASE event.kind # "verbose"
    <3>1. CriticalEvents' = CriticalEvents \cup {Len(log) + 1}
      BY <2>4, <2>5, <2>6, <2>8 DEF CriticalEvents
    <3>2. /\ Len(log) + 1 \notin CriticalEvents
          /\ \A n \in CriticalEvents : n < Len(log) + 1
      BY <2>4, <2>5 DEF CriticalEvents
    <3>3. Stream!Generate
      BY <2>3, <3>1, <3>2 DEF Stream!Generate, Delivered
    <3> QED BY <3>3 DEF Stream!Next
  <2> QED BY <2>7, <2>8
<1>2. CASE SendTerminal \/ SendVerbose
  <2>1. 0 \in 0..MaxDropped
    BY EventDeliveryAssumption
  <2>2. \E event \in Record : Emit(event, outbound)
    BY <1>2, <2>1 DEF SendTerminal, SendVerbose, Record
  <2>3. received' = received
    BY <1>2 DEF SendTerminal, SendVerbose, clientVars
  <2> QED BY <1>1, <2>2, <2>3
<1>3. ASSUME UNCHANGED <<log, received>>
      PROVE  UNCHANGED <<CriticalEvents, Delivered>>
  BY <1>3 DEF CriticalEvents, Events, Delivered, Critical
<1>4. CASE DropVerbose
  <2>1. received' = received
    BY <1>4 DEF DropVerbose, clientVars
  <2>2. CASE flowControlQueued
    BY <1>3, <1>4, <2>1, <2>2 DEF DropVerbose
  <2>3. CASE ~flowControlQueued
    <3>1. droppedVerbose + 1 \in 0..MaxDropped
      BY <1>4, DroppedIsNumber, EventDeliveryAssumption DEF DropVerbose
    <3>2. [kind |-> "flow", dropped |-> droppedVerbose + 1] \in Record
      BY <3>1 DEF Record
    <3>3. Emit([kind |-> "flow", dropped |-> droppedVerbose + 1], outbound)
      BY <1>4, <2>3 DEF DropVerbose, QueueFlowControl
    <3> QED BY <1>1, <2>1, <3>2, <3>3
  <2> QED BY <2>2, <2>3
<1>5. CASE WaitPop
  <2>1. received' = received
    BY <1>5 DEF WaitPop, clientVars
  <2>2. UNCHANGED log \/ QueueFlowControl(Tail(outbound), droppedVerbose)
    BY <1>5 DEF WaitPop
  <2>3. CASE QueueFlowControl(Tail(outbound), droppedVerbose)
    <3>1. [kind |-> "flow", dropped |-> droppedVerbose] \in Record
      BY DEF IInv, FlowKnown, Record
    <3>2. Emit([kind |-> "flow", dropped |-> droppedVerbose], Tail(outbound))
      BY <2>3 DEF QueueFlowControl
    <3> QED BY <1>1, <2>1, <3>1, <3>2
  <2> QED BY <1>3, <2>1, <2>2, <2>3
<1>6. CASE ClientReads
  <2> DEFINE h == Head(pipe)
  <2>1. received' = received \cup {h} /\ log' = log
    BY <1>6 DEF ClientReads, stateVars
  <2>2. h \in Events /\ h \notin received /\ \A n \in CriticalEvents \ received : h <= n
    BY <1>6, ReadStep
  <2> HIDE DEF h
  <2>3. CriticalEvents' = CriticalEvents
    BY <2>1 DEF CriticalEvents, Events, Critical
  <2>4. CASE Critical(h, log)
    <3>1. Delivered' = Delivered \cup {h}
      BY <2>1, <2>4 DEF Delivered, Critical
    <3>2. h \in CriticalEvents \ Delivered
      BY <2>2, <2>4 DEF CriticalEvents, Delivered
    <3>3. \A n \in CriticalEvents \ Delivered : h <= n
      BY <2>2 DEF CriticalEvents, Delivered
    <3>4. Stream!Deliver
      BY <2>3, <3>1, <3>2, <3>3 DEF Stream!Deliver, Delivered
    <3> QED BY <3>4 DEF Stream!Next
  <2>5. CASE ~Critical(h, log)
    <3>1. Delivered' = Delivered
      BY <2>1, <2>5 DEF Delivered, Critical
    <3> QED BY <2>3, <3>1
  <2> QED BY <2>4, <2>5
<1>7. CASE Send \/ ConnectionEnds \/ MarkDisconnected \/ ClientCloses \/ Resume \/ UNCHANGED vars
  <2>1. UNCHANGED <<log, received>>
    BY <1>7 DEF Send, ConnectionEnds, MarkDisconnected, ClientCloses, Resume, vars, stateVars, clientVars
  <2> QED BY <1>3, <2>1
<1> QED BY <1>2, <1>4, <1>5, <1>6, <1>7 DEF Next, Server, Client

\* The event path of a session implements the abstract stream of critical events:
\* none twice, none skipped, in order.
THEOREM Implements == Spec => StreamSpec
<1>1. Init => Stream!Init
  <2> SUFFICES ASSUME Init PROVE Stream!Init
    OBVIOUS
  <2>1. Events = {} /\ received = {}
    BY DEF Init, Events
  <2> QED BY <2>1 DEF Stream!Init, CriticalEvents
<1>2. IInv /\ [Next]_vars => [Stream!Next]_<<CriticalEvents, Delivered>>
  BY StepRefines
<1> QED BY <1>1, <1>2, Invariance, PTL DEF Spec, StreamSpec, Stream!Spec, Delivered
=============================================================================
