---------------------------- MODULE QueueProofs ----------------------------
(***************************************************************************)
(* Theorems about the tables that some write and others read or claim from *)
(* later: the events of a run and their clients (EventLog), the deliveries *)
(* to the webhooks of a profile (WebhookDelivery) and the embedding jobs   *)
(* of the books (EmbeddingJobs).                                           *)
(***************************************************************************)
EXTENDS EventLog, WebhookDelivery, EmbeddingJobs, SequenceTheorems, FiniteSetTheorems,
        WellFoundedInduction, TLAPS

-----------------------------------------------------------------------------
(***************************************************************************)
(* Theorems about EventLog, for any number of writers, runs, profiles and  *)
(* clients, any page size and any number of broken connections.            *)
(*                                                                         *)
(* The argument is about segments: a sequence of row numbers that is, in   *)
(* order and without a gap, the part of a run's log that follows some      *)
(* position.  A page is one (the first part of this module, by induction   *)
(* over the numbers drawn so far); a row that commits while the lock is    *)
(* held is above every row of its profile, so no commit breaks one; and    *)
(* what a client has received, what is on its way and the page at hand are *)
(* segments that follow one another.                                       *)
(***************************************************************************)

(***************************************************************************)
(* Induction over the natural numbers, for sets                            *)
(***************************************************************************)
LEMMA SmallestElement ==
  ASSUME NEW T \in SUBSET Nat, T # {}
  PROVE  \E n \in T : \A m \in T : n <= m
<1> DEFINE R == OpToRel(<, Nat)
<1>1. IsWellFoundedOn(R, Nat) BY NatLessThanWellFounded
<1>2. \A x, y \in Nat : <<y, x>> \in R <=> y < x BY DEF OpToRel
<1> HIDE DEF R
<1>3. PICK n \in T : \A m \in T : ~(<<m, n>> \in R) BY <1>1, WFMin
<1>4. \A m \in T : ~(m < n) BY <1>2, <1>3
<1> QED BY <1>4

LEMMA NatSetInduction ==
  ASSUME NEW S, 0 \in S, \A n \in Nat : n \in S => n + 1 \in S
  PROVE  Nat \subseteq S
<1> SUFFICES ASSUME Nat \ S # {} PROVE FALSE OBVIOUS
<1>1. PICK n \in Nat \ S : \A m \in Nat \ S : n <= m BY SmallestElement
<1> QED BY <1>1

(***************************************************************************)
(* The rank of a row among the rows of a set                               *)
(***************************************************************************)
LEMMA UpToFinite ==
  ASSUME NEW n \in Nat, NEW S \in SUBSET (1..n)
  PROVE  IsFiniteSet(S) /\ Cardinality(S) \in Nat
<1>1. IsFiniteSet(1..n) BY FS_Interval
<1> QED BY <1>1, FS_Subset, FS_CardinalityType

\* Ranks go from one to the size of the set, and order as the numbers do.
LEMMA RankFacts ==
  ASSUME NEW n \in Nat, NEW S \in SUBSET (1..n), NEW x \in S
  PROVE  /\ Rank(x, S) \in 1..Cardinality(S)
         /\ \A y \in S : x < y => Rank(x, S) < Rank(y, S)
<1> DEFINE Up(z) == {m \in S : m <= z}
<1>1. \A z \in S : Rank(z, S) = Cardinality(Up(z)) BY DEF Rank
<1>2. IsFiniteSet(S) /\ Cardinality(S) \in Nat BY UpToFinite
<1>3. ASSUME NEW z \in S
      PROVE  /\ IsFiniteSet(Up(z)) /\ Cardinality(Up(z)) \in Nat
             /\ Cardinality(Up(z)) <= Cardinality(S) /\ z \in Up(z)
  <2>1. z \in Nat OBVIOUS
  <2> QED BY <2>1, FS_CardinalityType, <1>2, FS_Subset
<1>4. Cardinality(Up(x)) # 0
  <2> HIDE DEF Up
  <2> QED BY FS_EmptySet, <1>3
<1>5. ASSUME NEW y \in S, x < y PROVE Cardinality(Up(x)) < Cardinality(Up(y))
  <2>1. x \in Nat /\ y \in Nat /\ \A m \in S : m \in Nat OBVIOUS
  <2>2. Up(x) \in SUBSET Up(y) /\ y \notin Up(x)
    <3>1. \A m \in S : m <= x => m <= y BY <1>5, <2>1
    <3>2. ~(y <= x) BY <1>5, <2>1
    <3> QED BY <3>1, <3>2
  <2> HIDE DEF Up
  <2> QED BY <1>3, <2>2, FS_Subset
<1> HIDE DEF Up
<1> QED BY <1>1, <1>2, <1>3, <1>4, <1>5

\* Every rank up to the size of the set is taken.
Full(T) == \A j \in 1..Cardinality(T) : \E x \in T : Rank(x, T) = j

LEMMA RankTaken ==
  ASSUME NEW k \in Nat, NEW S \in SUBSET (1..k), NEW i \in 1..Cardinality(S)
  PROVE  \E x \in S : Rank(x, S) = i
<1> DEFINE N == {n \in Nat : \A T \in SUBSET (1..n) : Full(T)}
<1>1. 0 \in N
  <2>1. \A T \in SUBSET (1..0) : T = {} OBVIOUS
  <2> QED BY <2>1, FS_EmptySet DEF Full
<1>2. ASSUME NEW n \in Nat, n \in N PROVE n + 1 \in N
  <2> SUFFICES ASSUME NEW T \in SUBSET (1..(n + 1)) PROVE Full(T) OBVIOUS
  <2>1. CASE n + 1 \notin T BY <1>2, <2>1
  <2>2. CASE n + 1 \in T
    <3> DEFINE U == T \ {n + 1}
    <3>1. Full(U) BY <1>2
    <3>2. IsFiniteSet(T) /\ Cardinality(T) \in Nat
      <4>1. n + 1 \in Nat OBVIOUS
      <4> HIDE DEF N
      <4> QED BY <4>1, UpToFinite
    <3>3. Cardinality(U) = Cardinality(T) - 1 BY <2>2, <3>2, FS_RemoveElement
    <3>4. ASSUME NEW x \in U PROVE Rank(x, T) = Rank(x, U) BY DEF Rank
    <3>5. Rank(n + 1, T) = Cardinality(T)
      <4>1. \A m \in T : m <= n + 1 OBVIOUS
      <4> QED BY <4>1 DEF Rank
    <3>6. U \subseteq T OBVIOUS
    <3> HIDE DEF U
    <3> SUFFICES ASSUME NEW j \in 1..Cardinality(T) PROVE \E x \in T : Rank(x, T) = j BY DEF Full
    <3>7. CASE j = Cardinality(T) BY <2>2, <3>5, <3>7
    <3>8. CASE j # Cardinality(T)
      <4>1. j \in 1..Cardinality(U) BY <3>2, <3>3, <3>8
      <4>2. PICK x \in U : Rank(x, U) = j BY <3>1, <4>1 DEF Full
      <4> QED BY <3>4, <3>6, <4>2
    <3> QED BY <3>7, <3>8
  <2> QED BY <2>1, <2>2
<1> HIDE DEF N
<1>3. Nat \subseteq N BY <1>1, <1>2, NatSetInduction
<1> QED BY <1>3 DEF N, Full

(***************************************************************************)
(* Segments of a log                                                       *)
(***************************************************************************)
LastOf(l, from) == IF l = << >> THEN from ELSE l[Len(l)]

\* l is what log (a set of row numbers) has after the position from and up to
\* the last row of l, in order.
Segment(l, log, from) ==
  /\ \A i, j \in 1..Len(l) : i < j => l[i] < l[j]
  /\ \A i \in 1..Len(l) : l[i] \in log /\ from < l[i]
  /\ \A n \in log : from < n /\ n <= LastOf(l, from) => \E i \in 1..Len(l) : l[i] = n

LEMMA EmptySegment ==
  ASSUME NEW log \in SUBSET Nat, NEW from \in Nat
  PROVE  Segment(<< >>, log, from) /\ LastOf(<< >>, from) = from
  BY DEF Segment, LastOf

LEMMA LastOfNat ==
  ASSUME NEW l \in Seq(Nat), NEW from \in Nat
  PROVE  LastOf(l, from) \in Nat
  BY DEF LastOf

\* The first row of a segment joins the one before it (Receive, Send).
LEMMA SegmentMoves ==
  ASSUME NEW log \in SUBSET Nat, NEW a \in Seq(Nat), NEW b \in Seq(Nat), NEW from \in Nat,
         Segment(a, log, from), Segment(b, log, LastOf(a, from)), b # << >>
  PROVE  /\ Head(b) \in Nat /\ Append(a, Head(b)) \in Seq(Nat) /\ Tail(b) \in Seq(Nat)
         /\ Segment(Append(a, Head(b)), log, from)
         /\ LastOf(Append(a, Head(b)), from) = Head(b)
         /\ Segment(Tail(b), log, Head(b))
         /\ LastOf(Tail(b), Head(b)) = LastOf(b, LastOf(a, from))
<1> DEFINE x == b[1]
           al == Append(a, x)
           t == Tail(b)
           at == LastOf(a, from)
           n == Len(a)
           k == Len(b)
<1>1. Head(b) = x /\ x \in Nat /\ 1 \in 1..k /\ k \in 1..k /\ k \in Nat /\ n \in Nat OBVIOUS
<1>2. /\ al \in Seq(Nat) /\ Len(al) = n + 1 /\ al # << >> /\ al[n + 1] = x
      /\ \A i \in 1..n : al[i] = a[i] BY SMTT(40)
<1>3. t \in Seq(Nat) /\ Len(t) = k - 1 /\ \A i \in 1..(k - 1) : t[i] = b[i + 1] OBVIOUS
<1>4. (\A i \in 1..n : a[i] \in Nat) /\ (\A i \in 1..k : b[i] \in Nat) OBVIOUS
<1>5. at \in Nat BY LastOfNat
<1>6. at = IF a = << >> THEN from ELSE a[n] BY DEF LastOf
<1>7. LastOf(b, at) = b[k] BY DEF LastOf
<1>8. a = << >> <=> n = 0 OBVIOUS
<1>9. LastOf(al, from) = x BY <1>1, <1>2 DEF LastOf
<1>10. \A s \in Seq(Nat) : Len(s) = 0 <=> s = << >> OBVIOUS
<1> HIDE DEF x, al, t, at, n, k
<1>11. LastOf(t, x) = b[k]
  <2>1. CASE k = 1 BY <2>1, <1>10, <1>3 DEF LastOf, x
  <2>2. CASE k # 1
    <3>1. t # << >> /\ t[k - 1] = b[k] BY <1>10, <1>3, <1>1, <2>2
    <3> QED BY <1>3, <3>1 DEF LastOf
  <2> QED BY <2>1, <2>2
<1>12. /\ \A i, j \in 1..n : i < j => a[i] < a[j]
       /\ \A i \in 1..n : a[i] \in log /\ from < a[i]
       /\ \A m \in log : from < m /\ m <= at => \E i \in 1..n : a[i] = m BY DEF Segment, at, n
<1>13. /\ \A i, j \in 1..k : i < j => b[i] < b[j]
       /\ \A i \in 1..k : b[i] \in log /\ at < b[i]
       /\ \A m \in log : at < m /\ m <= LastOf(b, at) => \E i \in 1..k : b[i] = m BY DEF Segment, at, k
<1>14. from <= at /\ \A i \in 1..n : a[i] <= at
  <2>1. CASE n = 0 BY <1>6, <1>8, <2>1
  <2>2. CASE n # 0
    <3>1. at = a[n] /\ n \in 1..n BY <1>1, <1>6, <1>8, <2>2
    <3>2. ASSUME NEW i \in 1..n PROVE a[i] <= at
      <4>1. i < n => a[i] < a[n] BY <1>12, <3>1
      <4> QED BY <1>5, <3>1, <4>1, <1>4, <1>1
    <3> QED BY <1>5, <3>2, <1>12, <3>1
  <2> QED BY <2>1, <2>2
<1>15. at < x /\ x \in log BY <1>1, <1>13 DEF x
<1>16. x <= b[k]
  <2>1. CASE k = 1 BY <1>1, <2>1 DEF x
  <2>2. CASE k # 1 BY <1>1, <1>4, <1>13, <2>2 DEF x
  <2> QED BY <2>1, <2>2
<1>17. Segment(al, log, from)
  <2>1. \A i \in 1..(n + 1) : i \in 1..n \/ i = n + 1 BY <1>1
  <2>2. ASSUME NEW i \in 1..(n + 1), NEW j \in 1..(n + 1), i < j PROVE al[i] < al[j]
    <3>1. i \in 1..n BY <1>1, <2>2
    <3>2. CASE j \in 1..n BY <1>2, <3>1, <3>2, <1>12, <2>2
    <3>3. CASE j = n + 1
      <4>1. a[i] < x BY <1>1, <1>5, <1>15, <1>4, <1>14, <3>1
      <4> QED BY <1>2, <3>1, <3>3, <4>1
    <3> QED BY <2>1, <3>2, <3>3
  <2>3. ASSUME NEW i \in 1..(n + 1) PROVE al[i] \in log /\ from < al[i]
    <3>1. CASE i \in 1..n BY <1>2, <1>12, <3>1
    <3>2. CASE i = n + 1 BY <1>1, <1>2, <1>5, <1>14, <1>15, <3>2
    <3> QED BY <2>1, <3>1, <3>2
  <2>4. ASSUME NEW m \in log, from < m, m <= x PROVE \E i \in 1..(n + 1) : al[i] = m
    <3>1. m \in Nat /\ n + 1 \in 1..(n + 1) /\ \A i \in 1..n : i \in 1..(n + 1) BY <1>1
    <3>2. CASE m <= at
      <4>1. PICK i \in 1..n : a[i] = m BY <1>12, <2>4, <3>2
      <4> QED BY <3>1, <1>2, <4>1
    <3>3. CASE at < m
      <4>1. m <= LastOf(b, at) BY <1>1, <1>7, <1>16, <2>4, <3>1, <1>4
      <4>2. PICK i \in 1..k : b[i] = m BY <1>13, <3>3, <4>1
      <4>3. i # 1 => x < m BY <1>1, <1>13, <4>2 DEF x
      <4> QED BY <1>2, <3>1, <1>1, <2>4, <4>2, <4>3 DEF x
    <3> QED BY <1>5, <3>1, <3>2, <3>3
  <2> QED BY <1>2, <1>9, <2>2, <2>3, <2>4 DEF Segment
<1>18. Segment(t, log, x)
  <2>1. \A i \in 1..(k - 1) : i + 1 \in 1..k /\ 1 < i + 1 BY <1>1
  <2>2. ASSUME NEW i \in 1..(k - 1), NEW j \in 1..(k - 1), i < j PROVE t[i] < t[j] BY <1>3, <1>13, <2>1, <1>1, <2>2
  <2>3. ASSUME NEW i \in 1..(k - 1) PROVE t[i] \in log /\ x < t[i] BY <1>3, <1>1, <1>13, <2>1 DEF x
  <2>4. ASSUME NEW m \in log, x < m, m <= b[k] PROVE \E i \in 1..(k - 1) : t[i] = m
    <3>1. m \in Nat OBVIOUS
    <3>2. PICK i \in 1..k : b[i] = m BY <1>7, <1>13, <2>4, <1>1, <1>5, <1>15, <3>1
    <3>3. i - 1 \in 1..(k - 1) /\ (i - 1) + 1 = i BY <1>1, <2>4, <3>1, <3>2 DEF x
    <3> QED BY <3>3, <1>3, <3>2
  <2> QED BY <1>3, <1>11, <2>2, <2>3, <2>4 DEF Segment
<1> QED BY <1>1, <1>2, <1>3, <1>7, <1>9, <1>11, <1>17, <1>18 DEF al, t, at

\* The same from the start of a log.
LEMMA FirstSegmentMoves ==
  ASSUME NEW log \in SUBSET Nat, NEW a \in Seq(Nat), NEW b \in Seq(Nat),
         Segment(a, log, 0), Segment(b, log, LastOf(a, 0)), b # << >>
  PROVE  /\ Segment(Append(a, Head(b)), log, 0)
         /\ LastOf(Append(a, Head(b)), 0) = Head(b)
         /\ Segment(Tail(b), log, Head(b))
         /\ LastOf(Tail(b), Head(b)) = LastOf(b, LastOf(a, 0))
  BY SegmentMoves

\* Two segments that follow one another are one (ApplyPage).
LEMMA SegmentsJoin ==
  ASSUME NEW log \in SUBSET Nat, NEW a \in Seq(Nat), NEW b \in Seq(Nat), NEW from \in Nat,
         Segment(a, log, from), Segment(b, log, LastOf(a, from))
  PROVE  /\ a \o b \in Seq(Nat) /\ Segment(a \o b, log, from)
         /\ LastOf(a \o b, from) = LastOf(b, LastOf(a, from))
<1> DEFINE at == LastOf(a, from)
           l == a \o b
           n == Len(a)
           k == Len(b)
<1>1. n \in Nat /\ k \in Nat /\ (a = << >> <=> n = 0) /\ (b = << >> <=> k = 0) OBVIOUS
<1>2. /\ l \in Seq(Nat) /\ Len(l) = n + k /\ (l = << >> <=> n + k = 0)
      /\ \A i \in 1..(n + k) : l[i] = IF i <= n THEN a[i] ELSE b[i - n] OBVIOUS
<1>3. (\A i \in 1..n : a[i] \in Nat) /\ (\A i \in 1..k : b[i] \in Nat) OBVIOUS
<1>4. at \in Nat BY LastOfNat
<1>5. at = IF n = 0 THEN from ELSE a[n] BY <1>1 DEF LastOf
<1>6. LastOf(b, at) = IF k = 0 THEN at ELSE b[k] BY <1>1 DEF LastOf
<1>7. LastOf(l, from) = IF n + k = 0 THEN from ELSE l[n + k] BY <1>2 DEF LastOf
<1> HIDE DEF at, l, n, k
<1>8. /\ \A i, j \in 1..n : i < j => a[i] < a[j]
      /\ \A i \in 1..n : a[i] \in log /\ from < a[i]
      /\ \A m \in log : from < m /\ m <= at => \E i \in 1..n : a[i] = m BY DEF Segment, at, n
<1>9. /\ \A i, j \in 1..k : i < j => b[i] < b[j]
      /\ \A i \in 1..k : b[i] \in log /\ at < b[i]
      /\ \A m \in log : at < m /\ m <= LastOf(b, at) => \E i \in 1..k : b[i] = m BY DEF Segment, at, k
<1>10. from <= at /\ \A i \in 1..n : a[i] <= at
  <2>1. CASE n = 0 BY <1>5, <2>1
  <2>2. CASE n # 0
    <3>1. at = a[n] /\ n \in 1..n BY <1>1, <1>5, <2>2
    <3>2. ASSUME NEW i \in 1..n PROVE a[i] <= at
      <4>1. i < n => a[i] < a[n] BY <1>8, <3>1
      <4> QED BY <1>4, <3>1, <4>1, <1>3, <1>1
    <3> QED BY <1>4, <3>2, <1>8, <3>1
  <2> QED BY <2>1, <2>2
<1>11. \A i \in 1..n : i \in 1..(n + k) /\ l[i] = a[i] BY <1>1, <1>2, SMTT(40)
<1>12. ASSUME NEW i \in 1..k PROVE n + i \in 1..(n + k) /\ l[n + i] = b[i]
  <2>1. n + i \in 1..(n + k) /\ ~(n + i <= n) /\ (n + i) - n = i BY <1>1
  <2> QED BY <1>2, <2>1
<1>13. ASSUME NEW i \in 1..(n + k) PROVE i \in 1..n \/ \E j \in 1..k : i = n + j
  <2>1. CASE i <= n BY <1>1, <2>1
  <2>2. CASE ~(i <= n) BY <1>1, <2>2
  <2> QED BY <2>1, <2>2
<1>14. LastOf(l, from) = LastOf(b, at)
  <2>1. CASE k = 0
    <3>1. CASE n = 0 BY <1>5, <1>6, <1>7, <2>1, <3>1
    <3>2. CASE n # 0 BY <1>5, <1>6, <1>7, <1>11, <2>1, <3>2, <1>1
    <3> QED BY <3>1, <3>2
  <2>2. CASE k # 0 BY <1>6, <1>7, <1>12, <2>2, <1>1
  <2> QED BY <2>1, <2>2
<1>15. Segment(l, log, from)
  <2>1. ASSUME NEW i \in 1..(n + k), NEW j \in 1..(n + k), i < j PROVE l[i] < l[j]
    <3>1. CASE i \in 1..n /\ j \in 1..n BY <1>11, <3>1, <1>8, <2>1
    <3>2. ASSUME i \in 1..n, NEW q \in 1..k, j = n + q PROVE l[i] < l[j]
      <4>1. a[i] < b[q] BY <1>4, <1>3, <1>9, <1>10, <3>2
      <4> QED BY <1>11, <1>12, <3>2, <4>1
    <3>3. ASSUME NEW p \in 1..k, i = n + p, NEW q \in 1..k, j = n + q PROVE l[i] < l[j]
      <4>1. p < q BY <1>1, <2>1, <3>3
      <4> QED BY <1>12, <3>3, <1>9, <4>1
    <3>4. ASSUME NEW p \in 1..k, i = n + p, j \in 1..n PROVE l[i] < l[j] BY <1>1, <2>1, <3>4
    <3> QED BY <1>13, <3>1, <3>2, <3>3, <3>4
  <2>2. ASSUME NEW i \in 1..(n + k) PROVE l[i] \in log /\ from < l[i]
    <3>1. CASE i \in 1..n BY <1>8, <1>11, <3>1
    <3>2. ASSUME NEW j \in 1..k, i = n + j PROVE l[i] \in log /\ from < l[i] BY <1>12, <3>2, <1>4, <1>10, <1>3, <1>9
    <3> QED BY <1>13, <3>1, <3>2
  <2>3. ASSUME NEW m \in log, from < m, m <= LastOf(b, at)
        PROVE  \E i \in 1..(n + k) : l[i] = m
    <3>1. CASE m <= at
      <4>1. PICK i \in 1..n : a[i] = m BY <1>8, <2>3, <3>1
      <4> QED BY <1>11, <4>1
    <3>2. CASE at < m
      <4>1. PICK i \in 1..k : b[i] = m BY <1>9, <2>3, <3>2
      <4> QED BY <1>12, <4>1
    <3> QED BY <1>4, <3>1, <3>2
  <2> QED BY <1>2, <1>14, <2>1, <2>2, <2>3 DEF Segment
<1> QED BY <1>2, <1>14, <1>15 DEF l, at

\* Rows that are above all others break no segment (Commit).
LEMMA SegmentStays ==
  ASSUME NEW log \in SUBSET Nat, NEW new \in SUBSET Nat, NEW l \in Seq(Nat),
         NEW from \in Nat, Segment(l, log, from), \A n \in new : \A m \in log : m < n
  PROVE  Segment(l, log \cup new, from)
<1>1. ASSUME NEW n \in new, from < n, n <= LastOf(l, from)
      PROVE  \E i \in 1..Len(l) : l[i] = n
  <2>1. n \in Nat OBVIOUS
  <2>2. CASE l = << >> BY <1>1, <2>1, <2>2 DEF LastOf
  <2>3. CASE l # << >>
    <3>1. Len(l) \in 1..Len(l) /\ LastOf(l, from) = l[Len(l)] BY <2>3 DEF LastOf
    <3> QED BY <1>1, <2>1, <3>1 DEF Segment
  <2> QED BY <2>2, <2>3
<1> QED BY <1>1 DEF Segment

\* How many rows a segment from the beginning has (NothingSkipped).
LEMMA SegmentCount ==
  ASSUME NEW log \in SUBSET (Nat \ {0}), NEW l \in Seq(Nat), Segment(l, log, 0)
  PROVE  Len(l) = Cardinality({n \in log : n <= LastOf(l, 0)})
<1> DEFINE S == {n \in log : n <= LastOf(l, 0)}
           f == [i \in 1..Len(l) |-> l[i]]
<1>1. ASSUME NEW i \in 1..Len(l) PROVE l[i] \in S
  <2>1. LastOf(l, 0) = l[Len(l)] /\ Len(l) \in 1..Len(l) /\ l[Len(l)] \in Nat
        /\ l[i] \in Nat /\ Len(l) \in Nat BY DEF LastOf
  <2>2. l[i] <= l[Len(l)] BY <2>1 DEF Segment
  <2> QED BY <2>1, <2>2 DEF Segment
<1>2. ASSUME NEW n \in S PROVE \E i \in 1..Len(l) : l[i] = n BY DEF Segment
<1>3. ASSUME NEW i \in 1..Len(l), NEW j \in 1..Len(l), l[i] = l[j] PROVE i = j BY <1>3 DEF Segment
<1> HIDE DEF S
<1>4. f \in Bijection(1..Len(l), S) BY <1>2, <1>3, <1>1 DEF Bijection, Injection, Surjection, IsInjective
<1>5. Len(l) \in Nat OBVIOUS
<1> QED BY <1>5, FS_CountingElements, <1>4 DEF S, ExistsBijection

\* A page is a segment: the rows after the cursor, in order, as many as the
\* page takes (list_run_events).
LEMMA PageSegment ==
  ASSUME PageSize \in Nat \ {0}, NEW k, NEW after \in Nat, NEW s \in Nat,
         committed[RunFollowed[k]] \in SUBSET (1..s)
  PROVE  /\ Page(k, after) \in Seq(Nat)
         /\ Segment(Page(k, after), committed[RunFollowed[k]], after)
<1> DEFINE D == committed[RunFollowed[k]]
           T == Unread(k, after)
           c == Cardinality(T)
           size == IF c < PageSize THEN c ELSE PageSize
           pg == Page(k, after)
<1>1. T \in SUBSET (1..s) /\ \A n \in 1..s : n \in T <=> n \in D /\ after < n BY DEF Unread
<1>2. \A n \in T : n \in Nat /\ n \in D /\ after < n BY DEF Unread
<1>3. pg = [i \in 1..size |-> CHOOSE n \in T : Rank(n, T) = i] BY DEF Page
<1>4. c \in Nat BY <1>1, UpToFinite
<1>5. size \in Nat /\ size <= c BY <1>4
<1> HIDE DEF T, c, size, pg, D
<1>6. \A i \in 1..size : i \in 1..c BY <1>4, <1>5
<1>7. ASSUME NEW i \in 1..size PROVE pg[i] \in T /\ Rank(pg[i], T) = i BY <1>3, <1>1, <1>6, RankTaken DEF c
<1>8. pg \in Seq(Nat) /\ Len(pg) = size
  <2>1. pg \in [1..size -> Nat] BY <1>3, <1>2, <1>7
  <2> QED BY <1>5, <2>1
<1>9. ASSUME NEW x \in T, NEW y \in T
      PROVE  /\ x < y <=> Rank(x, T) < Rank(y, T)
             /\ x = y <=> Rank(x, T) = Rank(y, T)
  <2>1. x < y => Rank(x, T) < Rank(y, T) BY <1>1, RankFacts
  <2>2. y < x => Rank(y, T) < Rank(x, T) BY <1>1, RankFacts
  <2>3. Rank(x, T) \in 1..c /\ Rank(y, T) \in 1..c BY <1>1, RankFacts DEF c
  <2>4. x \in Nat /\ y \in Nat BY <1>2
  <2> QED BY <1>4, <2>1, <2>2, <2>3, <2>4
<1>10. ASSUME NEW i \in 1..size, NEW j \in 1..size, i < j PROVE pg[i] < pg[j] BY <1>7, <1>9, <1>10
<1>11. ASSUME NEW i \in 1..size PROVE pg[i] \in D /\ after < pg[i] BY <1>2, <1>7
<1>12. ASSUME NEW n \in D, after < n, n <= LastOf(pg, after)
       PROVE  \E i \in 1..size : pg[i] = n
  <2>1. n \in 1..s /\ n \in T BY <1>1, <1>12 DEF D
  <2>2. size # 0
    <3>1. CASE size = 0 BY <1>2, <1>12, <2>1, <1>8, <3>1 DEF LastOf
    <3> QED BY <3>1
  <2>3. size \in 1..size /\ pg # << >> BY <1>5, <1>8, <2>2
  <2>4. pg[size] \in T /\ Rank(pg[size], T) = size BY <1>7, <2>3
  <2>5. Rank(n, T) \in 1..c BY <1>1, <2>1, RankFacts DEF c
  <2>6. n < pg[size] \/ n = pg[size] BY <1>8, <1>12, <2>3, <1>2, <2>1, <2>4 DEF LastOf
  <2>7. Rank(n, T) <= size
    <3>1. CASE n = pg[size] BY <1>5, <2>4, <3>1
    <3>2. CASE n < pg[size]
      <4>1. Rank(n, T) < Rank(pg[size], T) BY <1>9, <2>1, <2>4, <3>2
      <4> QED BY <1>4, <1>5, <2>4, <2>5, <4>1
    <3> QED BY <2>6, <3>1, <3>2
  <2>8. Rank(n, T) \in 1..size BY <1>4, <1>5, <2>5, <2>7
  <2> QED BY <2>8, <1>9, <2>1, <1>7
<1> QED BY <1>8, <1>10, <1>11, <1>12 DEF Segment, pg, D

(***************************************************************************)
(* The inductive invariant                                                 *)
(***************************************************************************)
Log(k) == committed[RunFollowed[k]]
Spares(l, set) == \A i \in 1..Len(l) : l[i] \notin set

\* The lock of a profile makes a row that is about to commit the highest of
\* its profile.
WritersInv ==
  /\ \A r \in Runs : committed[r] \in SUBSET (1..sequence)
  /\ \A w \in Writers : /\ rows[w] \in SUBSET (1..sequence)
                        /\ writer[w] = Idle => rows[w] = {}
                        /\ writer[w] = "open" => holder[ProfileOfWriter(w)] = {w}
  /\ \A w \in Writers, r \in Runs :
        writer[w] = "open" /\ ProfileOf[r] = ProfileOfWriter(w)
          => \A m \in committed[r], n \in rows[w] : m < n

\* Where a reader stands: received, then the pipe, then the page.
Position(k) ==
  /\ Segment(received[k], Log(k), 0)
  /\ Segment(pipe[k], Log(k), LastOf(received[k], 0))
  /\ Segment(page[k], Log(k), cursor[k])
  /\ k \in Pollers \/ client[k] = "on" => cursor[k] = LastOf(pipe[k], LastOf(received[k], 0))
  /\ k \in Pollers => pipe[k] = << >>
  /\ client[k] # "on" => page[k] = << >> /\ pipe[k] = << >>

\* What a session that was revoked has not seen: its pipe is free of it, and
\* so is a page that was checked.
Access(k) ==
  /\ allowed[k] => barred[k] = {}
  /\ Spares(received[k], barred[k])
  /\ Spares(pipe[k], barred[k])
  /\ checked[k] => Spares(page[k], barred[k])

ReadersInv == \A k \in Clients : Position(k) /\ (k \in Sockets => Access(k))

EventLogInv == TypeOK /\ WritersInv /\ ReadersInv

LEMMA EventLogInvInit == Init => EventLogInv
<1> SUFFICES ASSUME Init PROVE EventLogInv OBVIOUS
<1>1. RunFollowed \in [Clients -> Runs] /\ MaxLosses \in Nat BY EventLogAssumption
<1>2. ASSUME NEW k \in Clients PROVE Position(k) /\ Access(k)
  <2>1. Len(<< >>) = 0 OBVIOUS
  <2> QED BY <2>1, EmptySegment, <1>1 DEF Init, Position, Access, Spares, Log
<1> QED BY <1>2, <1>1 DEF EventLogInv, ReadersInv, Init, WritersInv, Idle, TypeOK

(***************************************************************************)
(* The shapes of the state                                                 *)
(***************************************************************************)
LEMMA TypeStep ==
  ASSUME EventLogInv, [Next]_vars
  PROVE  TypeOK'
<1>1. TypeOK /\ MaxLosses \in Nat /\ RunFollowed \in [Clients -> Runs]
      /\ Clients = Sockets \cup Pollers BY EventLogAssumption DEF EventLogInv, Clients
<1>2. ASSUME NEW w \in Writers, LockEventSequence(w) PROVE TypeOK'
  BY <1>1, <1>2 DEF LockEventSequence, TypeOK, readVars, Idle
<1>3. ASSUME NEW w \in Writers, Insert(w) PROVE TypeOK' BY <1>1, <1>3 DEF Insert, TypeOK, readVars
<1>4. ASSUME NEW w \in Writers, Commit(w) PROVE TypeOK'
  <2>1. committed' \in [Runs -> SUBSET Nat] BY <1>1, <1>4 DEF Commit, TypeOK
  <2> QED BY <1>1, <1>4, <2>1 DEF Commit, EndWrite, TypeOK
<1>5. ASSUME NEW w \in Writers, Rollback(w) PROVE TypeOK' BY <1>1, <1>5 DEF Rollback, EndWrite, TypeOK, readVars
<1>6. ASSUME NEW k \in Sockets, Connect(k) PROVE TypeOK'
  BY <1>1, <1>6 DEF Connect, ResumeAfter, TypeOK, logVars, LastReceived
<1>7. ASSUME NEW k \in Clients PROVE Page(k, cursor[k]) \in Seq(Nat)
  BY EventLogAssumption, PageSegment, <1>1 DEF Log, EventLogInv, WritersInv, TypeOK
<1>8. ASSUME NEW k \in Sockets, Fetch(k) PROVE TypeOK' BY <1>1, <1>7, <1>8 DEF Fetch, CheckedAtFetch, TypeOK, logVars
<1>9. ASSUME NEW k \in Sockets, CheckSession(k) PROVE TypeOK'
  <2>1. CASE allowed[k] BY <1>1, <1>9, <2>1 DEF CheckSession, TypeOK, logVars
  <2>2. CASE ~allowed[k]
    <3>1. /\ client' = [client EXCEPT ![k] = "off"]
          /\ page' = [page EXCEPT ![k] = << >>] /\ pipe' = [pipe EXCEPT ![k] = << >>]
      BY <1>9, <2>2 DEF CheckSession, Close
    <3>2. page' \in [Clients -> Seq(Nat)] /\ pipe' \in [Clients -> Seq(Nat)]
          /\ client' \in [Clients -> {"off", "on", "status", "stopped"}] BY <1>1, <3>1 DEF TypeOK
    <3> QED BY <1>1, <1>9, <2>2, <3>2 DEF CheckSession, TypeOK, logVars
  <2> QED BY <2>1, <2>2
<1>10. ASSUME NEW k \in Sockets, Send(k) PROVE TypeOK' BY <1>1, <1>10 DEF Send, TypeOK, logVars
<1>11. ASSUME NEW k \in Sockets, Receive(k) PROVE TypeOK' BY <1>1, <1>11 DEF Receive, TypeOK, logVars
<1>12. ASSUME NEW k \in Sockets, Disconnect(k) PROVE TypeOK' BY <1>1, <1>12 DEF Disconnect, Close, TypeOK, logVars
<1>13. ASSUME NEW k \in Pollers, PollEvents(k) PROVE TypeOK'
  <2>1. PICK v \in {"on", "status", "stopped"} : client' = [client EXCEPT ![k] = v] BY <1>13 DEF PollEvents
  <2>2. page' \in [Clients -> Seq(Nat)]
    <3>1. page \in [Clients -> Seq(Nat)] /\ Page(k, cursor[k]) \in Seq(Nat) BY <1>1, <1>7 DEF TypeOK
    <3> QED BY <3>1, <1>13 DEF PollEvents
  <2> QED BY <1>1, <1>13, <2>2, <2>1 DEF PollEvents, TypeOK, logVars
<1>14. ASSUME NEW k \in Pollers, ApplyPage(k) PROVE TypeOK' BY <1>1, <1>14 DEF ApplyPage, TypeOK, logVars
<1>15. ASSUME NEW k \in Pollers, PollStatus(k) PROVE TypeOK'
  <2>1. PICK v \in {"off", "stopped"} : client' = [client EXCEPT ![k] = v] BY <1>15 DEF PollStatus
  <2> QED BY <1>1, <1>15, <2>1 DEF PollStatus, TypeOK, logVars
<1>16. ASSUME NEW k \in Clients, Revoke(k) PROVE TypeOK' BY <1>1, <1>16 DEF Revoke, TypeOK, logVars
<1>17. CASE UNCHANGED vars BY <1>1, <1>17 DEF TypeOK, vars, logVars, readVars
<1> QED BY <1>2, <1>3, <1>4, <1>5, <1>6, <1>8, <1>9, <1>10, <1>11, <1>12, <1>13, <1>14, <1>15, <1>16, <1>17 DEF Next

(***************************************************************************)
(* The writers and the lock                                                *)
(***************************************************************************)
LEMMA WritersStep ==
  ASSUME EventLogInv, [Next]_vars
  PROVE  WritersInv'
<1>1. /\ TypeOK /\ WritersInv
      /\ RunOf \in [Writers -> Runs] /\ ProfileOf \in [Runs -> Profiles] BY EventLogAssumption DEF EventLogInv
<1>2. \A w \in Writers : RunOf[w] \in Runs /\ ProfileOfWriter(w) \in Profiles BY <1>1 DEF ProfileOfWriter
<1>3. ASSUME NEW w \in Writers, LockEventSequence(w) PROVE WritersInv'
  <2>1. ASSUME NEW v \in Writers, v # w, writer[v] = "open"
        PROVE  ProfileOfWriter(v) # ProfileOfWriter(w) BY <1>1, <1>3, <2>1 DEF LockEventSequence, LockFree, WritersInv
  <2>2. UNCHANGED <<sequence, rows, committed>> BY <1>3 DEF LockEventSequence
  <2>3. /\ holder'[ProfileOfWriter(w)] = {w} /\ writer'[w] = "open"
        /\ \A v \in Writers : v # w => writer'[v] = writer[v]
        /\ \A p \in Profiles : p # ProfileOfWriter(w) => holder'[p] = holder[p]
    BY <1>1, <1>2, <1>3 DEF LockEventSequence, TypeOK
  <2>4. ASSUME NEW v \in Writers, writer'[v] = "open"
        PROVE  holder'[ProfileOfWriter(v)] = {v} BY <1>1, <1>2, <2>1, <2>3, <2>4 DEF WritersInv
  <2>5. ASSUME NEW v \in Writers, NEW r \in Runs, writer'[v] = "open",
               ProfileOf[r] = ProfileOfWriter(v)
        PROVE  \A m \in committed'[r], n \in rows'[v] : m < n
    BY <1>1, <2>2, <2>3, <2>5, <1>3 DEF WritersInv, LockEventSequence
  <2> QED BY <1>1, <2>2, <2>4, <2>5, <2>3 DEF WritersInv, ProfileOfWriter, Idle
<1>4. ASSUME NEW w \in Writers, Insert(w) PROVE WritersInv'
  <2>1. sequence \in Nat /\ sequence' = sequence + 1 BY <1>1, <1>4 DEF Insert, TypeOK
  <2>2. \A n \in 1..sequence : n \in 1..(sequence + 1) /\ n < sequence + 1 BY <2>1
  <2>3. UNCHANGED <<writer, holder, committed>> BY <1>4 DEF Insert
  <2>4. rows'[w] = rows[w] \cup {sequence + 1} /\ writer[w] = "open" BY <1>1, <1>4 DEF Insert, TypeOK
  <2>5. \A v \in Writers : v # w => rows'[v] = rows[v] BY <1>1, <1>4 DEF Insert, TypeOK
  <2>6. ASSUME NEW r \in Runs PROVE committed'[r] \in SUBSET (1..sequence') BY <1>1, <2>3, <2>1, <2>2 DEF WritersInv
  <2>7. ASSUME NEW v \in Writers, NEW r \in Runs, writer'[v] = "open",
               ProfileOf[r] = ProfileOfWriter(v), NEW m \in committed'[r], NEW n \in rows'[v]
        PROVE  m < n
    <3>1. m \in 1..sequence /\ m \in committed[r] BY <1>1, <2>3 DEF WritersInv
    <3>2. CASE n \in rows[v] BY <1>1, <2>3, <2>7, <3>1, <3>2 DEF WritersInv
    <3>3. CASE n = sequence + 1 BY <2>2, <3>1, <3>3
    <3> QED BY <2>5, <2>7, <3>2, <3>3, <2>4
  <2> QED BY <1>1, <2>3, <2>4, <2>5, <2>6, <2>7, <2>1, <2>2 DEF WritersInv, ProfileOfWriter, Idle
<1>5. ASSUME NEW w \in Writers, EndWrite(w) PROVE
        \A v \in Writers : writer'[v] = "open" =>
           /\ v # w /\ writer[v] = "open" /\ ProfileOfWriter(v) # ProfileOfWriter(w)
           /\ holder'[ProfileOfWriter(v)] = holder[ProfileOfWriter(v)]
  <2>1. ASSUME NEW v \in Writers, writer'[v] = "open" PROVE v # w /\ writer[v] = "open"
    BY <1>1, <1>5, <2>1 DEF EndWrite, TypeOK
  <2>2. ASSUME NEW v \in Writers, v # w, writer[v] = "open"
        PROVE  ProfileOfWriter(v) # ProfileOfWriter(w) BY <1>1, <1>5, <2>2 DEF EndWrite, WritersInv
  <2> QED BY <1>1, <1>2, <1>5, <2>1, <2>2 DEF EndWrite, TypeOK
<1>6. ASSUME NEW w \in Writers, EndWrite(w)
      PROVE  \A v \in Writers : writer'[v] = Idle => writer[v] = Idle BY <1>1, <1>6 DEF EndWrite, TypeOK, Idle
<1>7. ASSUME NEW w \in Writers, Commit(w) PROVE WritersInv'
  <2>1. UNCHANGED <<sequence, rows>> /\ EndWrite(w) BY <1>7 DEF Commit
  <2>2. \A r \in Runs : r # RunOf[w] => committed'[r] = committed[r] BY <1>1, <1>2, <1>7 DEF Commit, TypeOK
  <2>3. \A r \in Runs : committed'[r] \in SUBSET (1..sequence')
    BY <1>1, <2>1, <2>2, <1>2, <1>7 DEF WritersInv, Commit, TypeOK
  <2>4. ASSUME NEW v \in Writers, writer'[v] = "open"
        PROVE  holder'[ProfileOfWriter(v)] = {v} BY <1>1, <1>5, <2>1, <2>4 DEF WritersInv
  <2>5. ASSUME NEW v \in Writers, NEW r \in Runs, writer'[v] = "open",
               ProfileOf[r] = ProfileOfWriter(v)
        PROVE  \A m \in committed'[r], n \in rows'[v] : m < n
    BY <1>1, <2>1, <2>2, <2>5, <1>5 DEF WritersInv, ProfileOfWriter
  <2> QED BY <2>3, <2>4, <2>5, <1>1, <1>6, <2>1 DEF WritersInv, ProfileOfWriter
<1>8. ASSUME NEW w \in Writers, Rollback(w) PROVE WritersInv'
  BY <1>1, <1>5, <1>6, <1>8 DEF WritersInv, ProfileOfWriter, Rollback
<1>9. CASE UNCHANGED logVars BY <1>1, <1>9 DEF WritersInv, ProfileOfWriter, logVars
<1>10. ASSUME NEW k \in Sockets, \/ Connect(k) \/ Fetch(k) \/ CheckSession(k) \/ Send(k)
                                 \/ Receive(k) \/ Disconnect(k)
       PROVE  UNCHANGED logVars BY <1>10 DEF Connect, Fetch, CheckSession, Send, Receive, Disconnect
<1>11. ASSUME NEW k \in Pollers, PollEvents(k) \/ ApplyPage(k) \/ PollStatus(k)
       PROVE  UNCHANGED logVars BY <1>11 DEF PollEvents, ApplyPage, PollStatus
<1>12. ASSUME NEW k \in Clients, Revoke(k) PROVE UNCHANGED logVars BY <1>12 DEF Revoke
<1>13. CASE UNCHANGED vars BY <1>9, <1>13 DEF vars
<1> QED BY <1>3, <1>4, <1>7, <1>8, <1>9, <1>10, <1>11, <1>12, <1>13 DEF Next

(***************************************************************************)
(* The readers                                                             *)
(***************************************************************************)
Reader(k) == <<received[k], pipe[k], page[k], cursor[k], client[k]>>
Pass(k) == <<allowed[k], barred[k], checked[k]>>

SocketStep(k) == Connect(k) \/ Fetch(k) \/ CheckSession(k) \/ Send(k) \/ Receive(k) \/ Disconnect(k)
PollerStep(k) == PollEvents(k) \/ ApplyPage(k) \/ PollStatus(k)

\* A step of one reader is no step of another.
LEMMA OthersKeep ==
  ASSUME TypeOK, NEW k \in Clients, SocketStep(k) \/ PollerStep(k) \/ Revoke(k),
         NEW j \in Clients, j # k
  PROVE  Reader(j)' = Reader(j) /\ Pass(j)' = Pass(j)
<1>1. CASE Connect(k) BY <1>1 DEF Connect, TypeOK, Reader, Pass
<1>2. CASE Fetch(k) BY <1>2 DEF Fetch, TypeOK, Reader, Pass
<1>3. CASE CheckSession(k)
  <2>1. CASE allowed[k] BY <1>3, <2>1 DEF CheckSession, TypeOK, Reader, Pass
  <2>2. CASE ~allowed[k] BY <1>3, <2>2 DEF CheckSession, Close, TypeOK, Reader, Pass
  <2> QED BY <2>1, <2>2
<1>4. CASE Send(k) BY <1>4 DEF Send, TypeOK, Reader, Pass
<1>5. CASE Receive(k) BY <1>5 DEF Receive, TypeOK, Reader, Pass
<1>6. CASE Disconnect(k) BY <1>6 DEF Disconnect, Close, TypeOK, Reader, Pass
<1>7. CASE PollEvents(k) BY <1>7 DEF PollEvents, TypeOK, Reader, Pass
<1>8. CASE ApplyPage(k) BY <1>8 DEF ApplyPage, TypeOK, Reader, Pass
<1>9. CASE PollStatus(k) BY <1>9 DEF PollStatus, TypeOK, Reader, Pass
<1>10. CASE Revoke(k) BY <1>10 DEF Revoke, TypeOK, Reader, Pass
<1> QED BY <1>1, <1>2, <1>3, <1>4, <1>5, <1>6, <1>7, <1>8, <1>9, <1>10 DEF SocketStep, PollerStep

LEMMA LogsKeep ==
  ASSUME NEW k \in Clients, SocketStep(k) \/ PollerStep(k) \/ Revoke(k)
  PROVE  Log(k)' = Log(k) /\ UNCHANGED committed /\ (~Revoke(k) => UNCHANGED <<allowed, barred>>)
  BY DEF SocketStep, PollerStep, Connect, Fetch, CheckSession, Send, Receive, Disconnect, PollEvents, ApplyPage,
    PollStatus, Revoke, logVars, Log

\* What is known of the client that takes the step.
LEMMA ReaderFacts ==
  ASSUME EventLogInv, NEW k \in Clients
  PROVE  /\ Log(k) \in SUBSET Nat /\ Log(k) \in SUBSET (1..sequence) /\ sequence \in Nat
         /\ received[k] \in Seq(Nat) /\ pipe[k] \in Seq(Nat) /\ page[k] \in Seq(Nat)
         /\ cursor[k] \in Nat /\ LastOf(received[k], 0) \in Nat
         /\ LastReceived(k) = LastOf(received[k], 0)
<1>1. TypeOK BY DEF EventLogInv
<1>2. received[k] \in Seq(Nat) /\ pipe[k] \in Seq(Nat) /\ page[k] \in Seq(Nat)
      /\ cursor[k] \in Nat /\ sequence \in Nat BY <1>1 DEF TypeOK
<1>3. LastOf(received[k], 0) \in Nat BY <1>2, LastOfNat
<1>4. LastReceived(k) = LastOf(received[k], 0) BY DEF LastReceived, LastOf
<1> QED BY <1>2, <1>3, <1>4, EventLogAssumption DEF EventLogInv, WritersInv, Log

\* The rows fetched follow the cursor.
LEMMA FetchPosition ==
  ASSUME EventLogInv, NEW k \in Clients, Position(k), page'[k] = Page(k, cursor[k]),
         Log(k)' = Log(k), client'[k] = "on", k \in Pollers \/ client[k] = "on",
         received'[k] = received[k], pipe'[k] = pipe[k], cursor'[k] = cursor[k]
  PROVE  Position(k)'
<1>1. Segment(Page(k, cursor[k]), Log(k), cursor[k]) BY ReaderFacts, PageSegment, EventLogAssumption DEF Log
<1>2. Segment(pipe'[k], Log(k)', LastOf(received'[k], 0)) BY DEF Position
<1> QED BY <1>2, <1>1 DEF Position

\* A socket that closes loses what it had not delivered, and nothing else.
LEMMA ClosePosition ==
  ASSUME EventLogInv, NEW k \in Clients, k \notin Pollers, Position(k), Close(k),
         Log(k)' = Log(k), received'[k] = received[k], cursor'[k] = cursor[k]
  PROVE  Position(k)'
  BY ReaderFacts, EmptySegment DEF Position, EventLogInv, TypeOK, Close

LEMMA SocketPosition ==
  ASSUME EventLogInv, NEW k \in Sockets, SocketStep(k)
  PROVE  Position(k)'
<1>1. /\ k \in Clients /\ k \notin Pollers /\ Position(k) /\ TypeOK
      /\ Log(k)' = Log(k) BY LogsKeep, EventLogAssumption DEF EventLogInv, ReadersInv, Clients
<1>2. CASE Connect(k)
  <2>1. /\ cursor'[k] = LastOf(received[k], 0) /\ client'[k] = "on"
        /\ received'[k] = received[k] /\ pipe'[k] = << >> /\ page'[k] = << >>
    <3>1. UNCHANGED <<received, pipe, page>> BY <1>2 DEF Connect
    <3> QED BY <1>1, <3>1, ReaderFacts, <1>2 DEF Connect, ResumeAfter, TypeOK, Position
  <2> QED BY <1>1, <2>1, ReaderFacts, EmptySegment DEF Position
<1>3. CASE Fetch(k) BY <1>1, FetchPosition, <1>3 DEF Fetch, TypeOK
<1>4. CASE CheckSession(k)
  <2>1. CASE allowed[k] BY <1>1, <1>4, <2>1 DEF Position, CheckSession
  <2>2. CASE ~allowed[k] BY <1>1, ClosePosition, <1>4, <2>2 DEF CheckSession
  <2> QED BY <2>1, <2>2
<1>5. CASE Send(k)
  <2> DEFINE x == Head(page[k])
  <2>1. /\ cursor'[k] = x /\ pipe'[k] = Append(pipe[k], x) /\ page'[k] = Tail(page[k])
        /\ UNCHANGED <<received, client>> /\ page[k] # << >> BY <1>1, <1>5 DEF Send, TypeOK
  <2>2. client[k] = "on" /\ cursor[k] = LastOf(pipe[k], LastOf(received[k], 0)) BY <1>1, <2>1 DEF Position
  <2>3. /\ Segment(Append(pipe[k], x), Log(k), LastOf(received[k], 0))
        /\ LastOf(Append(pipe[k], x), LastOf(received[k], 0)) = x
        /\ Segment(Tail(page[k]), Log(k), x)
    <3>1. /\ Log(k) \in SUBSET Nat /\ pipe[k] \in Seq(Nat) /\ page[k] \in Seq(Nat)
          /\ LastOf(received[k], 0) \in Nat BY <1>1, ReaderFacts
    <3> QED BY <2>1, <3>1, SegmentMoves, <1>1, <2>2 DEF Position
  <2> HIDE DEF x
  <2> QED BY <1>1, <2>1, <2>2, <2>3 DEF Position
<1>6. CASE Receive(k)
  <2> DEFINE x == Head(pipe[k])
  <2>1. /\ received'[k] = Append(received[k], x) /\ pipe'[k] = Tail(pipe[k])
        /\ UNCHANGED <<page, cursor, client>> /\ pipe[k] # << >> BY <1>1, <1>6 DEF Receive, TypeOK
  <2>2. /\ Segment(Append(received[k], x), Log(k), 0)
        /\ LastOf(Append(received[k], x), 0) = x
        /\ Segment(Tail(pipe[k]), Log(k), x)
        /\ LastOf(Tail(pipe[k]), x) = LastOf(pipe[k], LastOf(received[k], 0))
    BY <2>1, FirstSegmentMoves, <1>1, ReaderFacts DEF Position
  <2> HIDE DEF x
  <2> QED BY <1>1, <2>1, <2>2 DEF Position
<1>7. CASE Disconnect(k) BY <1>1, ClosePosition, <1>7 DEF Disconnect
<1> QED BY <1>2, <1>3, <1>4, <1>5, <1>6, <1>7 DEF SocketStep

LEMMA PollerPosition ==
  ASSUME EventLogInv, NEW k \in Pollers, PollerStep(k)
  PROVE  Position(k)'
<1>1. /\ k \in Clients /\ Position(k) /\ TypeOK /\ Log(k)' = Log(k) BY LogsKeep DEF EventLogInv, ReadersInv, Clients
<1>2. CASE PollEvents(k)
  <2>1. UNCHANGED <<received, pipe, cursor>> BY <1>2 DEF PollEvents
  <2>2. CASE client'[k] = "on" BY <1>1, <2>1, <2>2, FetchPosition, <1>2 DEF PollEvents, TypeOK
  <2>3. CASE client'[k] # "on" BY <1>1, <2>1, <2>3, <1>2 DEF Position, PollEvents, TypeOK
  <2> QED BY <2>2, <2>3
<1>3. CASE ApplyPage(k)
  <2> DEFINE at == LastOf(received[k], 0)
             last == LastOf(page[k], at)
  <2>1. pipe[k] = << >> /\ pipe'[k] = << >> BY <1>1, <1>3 DEF ApplyPage, Position
  <2>2. cursor[k] = at BY <1>1, <2>1 DEF Position, LastOf
  <2>3. cursor'[k] = last BY <2>2, <1>1, <1>3 DEF LastOf, ApplyPage, TypeOK
  <2>4. Segment(received[k] \o page[k], Log(k), 0)
        /\ LastOf(received[k] \o page[k], 0) = last BY <1>1, ReaderFacts, SegmentsJoin, <2>2 DEF Position
  <2>5. Segment(<< >>, Log(k), last) /\ LastOf(<< >>, last) = last BY <1>1, ReaderFacts, EmptySegment, LastOfNat
  <2> HIDE DEF at, last
  <2> QED BY <1>1, <2>1, <2>3, <2>4, <2>5, <1>3 DEF Position, ApplyPage, TypeOK
<1>4. CASE PollStatus(k) BY <1>1, <1>4 DEF Position, PollStatus
<1> QED BY <1>2, <1>3, <1>4 DEF PollerStep

\* Moving a row from one list to the next keeps both free of the others.
LEMMA SparesMoves ==
  ASSUME NEW set, NEW a \in Seq(Nat), NEW b \in Seq(Nat), b # << >>, Spares(a, set), Spares(b, set)
  PROVE  Spares(Append(a, Head(b)), set) /\ Spares(Tail(b), set)
<1> DEFINE x == b[1]
           al == Append(a, x)
           t == Tail(b)
           n == Len(a)
           k == Len(b)
<1>1. Head(b) = x /\ 1 \in 1..k /\ k \in Nat /\ n \in Nat OBVIOUS
<1>2. Len(al) = n + 1 /\ al[n + 1] = x /\ \A i \in 1..n : al[i] = a[i] OBVIOUS
<1>3. Len(t) = k - 1 /\ \A i \in 1..(k - 1) : t[i] = b[i + 1] OBVIOUS
<1>4. (\A i \in 1..n : a[i] \notin set) /\ (\A i \in 1..k : b[i] \notin set) BY DEF Spares
<1> HIDE DEF al, t, n, k
<1>5. \A i \in 1..(n + 1) : i \in 1..n \/ i = n + 1 BY <1>1
<1>6. \A i \in 1..(k - 1) : i + 1 \in 1..k BY <1>1
<1>7. Spares(al, set) BY <1>1, <1>2, <1>4, <1>5 DEF Spares
<1>8. Spares(t, set) BY <1>1, <1>3, <1>4, <1>6 DEF Spares
<1> QED BY <1>1, <1>7, <1>8 DEF al, t

\* The session is checked after the rows were fetched, so what was committed
\* since it was revoked is on no page that passes.
LEMMA SocketAccess ==
  ASSUME EventLogInv, NEW k \in Sockets, SocketStep(k)
  PROVE  Access(k)'
<1>1. /\ k \in Clients /\ Position(k) /\ Access(k) /\ TypeOK
      /\ allowed'[k] = allowed[k] /\ barred'[k] = barred[k]
  <2>1. ~Revoke(k)
    BY DEF SocketStep, Connect, Fetch, CheckSession, Send, Receive, Disconnect, Revoke, EventLogInv, TypeOK, Clients
  <2> QED BY <2>1, LogsKeep DEF EventLogInv, ReadersInv, Clients
<1>2. \A set : Spares(<< >>, set) BY DEF Spares
<1>3. page[k] \in Seq(Nat) /\ pipe[k] \in Seq(Nat) /\ received[k] \in Seq(Nat) BY <1>1 DEF TypeOK
<1>4. CASE Connect(k) BY <1>1, <1>4 DEF Connect, Access
<1>5. CASE Fetch(k) BY <1>1, <1>5 DEF Access, Fetch, CheckedAtFetch, TypeOK
<1>6. CASE CheckSession(k)
  <2>1. CASE allowed[k] BY <1>1, <1>6, <2>1 DEF Access, Spares, CheckSession
  <2>2. CASE ~allowed[k] BY <1>1, <1>2, <1>6, <2>2 DEF Access, CheckSession, Close, TypeOK
  <2> QED BY <2>1, <2>2
<1>7. CASE Send(k)
  <2>1. /\ checked[k] /\ page[k] # << >> /\ checked'[k] = checked[k]
        /\ received'[k] = received[k]
        /\ pipe'[k] = Append(pipe[k], Head(page[k])) /\ page'[k] = Tail(page[k]) BY <1>1, <1>7 DEF Send, TypeOK
  <2> QED BY <1>1, <2>1, <1>3, SparesMoves DEF Access
<1>8. CASE Receive(k)
  <2>1. /\ pipe[k] # << >> /\ checked'[k] = checked[k] /\ page'[k] = page[k]
        /\ received'[k] = Append(received[k], Head(pipe[k])) /\ pipe'[k] = Tail(pipe[k])
    BY <1>1, <1>8 DEF Receive, TypeOK
  <2> QED BY <1>1, <2>1, <1>3, SparesMoves DEF Access
<1>9. CASE Disconnect(k) BY <1>1, <1>2, <1>9 DEF Access, Disconnect, Close, TypeOK
<1> QED BY <1>4, <1>5, <1>6, <1>7, <1>8, <1>9 DEF SocketStep

LEMMA RevokeReader ==
  ASSUME EventLogInv, NEW k \in Clients, Revoke(k)
  PROVE  Position(k)' /\ (k \in Sockets => Access(k)')
<1>1. Position(k) /\ (k \in Sockets => Access(k)) /\ TypeOK BY DEF EventLogInv, ReadersInv
<1>2. UNCHANGED <<committed, barred, page, checked, cursor, pipe, received, client>>
      /\ ~allowed'[k] BY <1>1 DEF Revoke, logVars, TypeOK
<1> QED BY <1>1, <1>2 DEF Position, Log, Access

\* What a client has of its log is spared by rows that are above the log.
LEMMA NewRowsAreUnseen ==
  ASSUME NEW log \in SUBSET Nat, NEW new \in SUBSET Nat, NEW l \in Seq(Nat), NEW from \in Nat,
         NEW old, Segment(l, log, from), \A n \in new : \A m \in log : m < n, Spares(l, old)
  PROVE  Spares(l, old \cup new)
<1> SUFFICES ASSUME NEW i \in 1..Len(l), l[i] \in new PROVE FALSE BY DEF Spares
<1> QED BY DEF Segment

LEMMA CommitReader ==
  ASSUME EventLogInv, NEW w \in Writers, Commit(w), NEW k \in Clients
  PROVE  Position(k)' /\ (k \in Sockets => Access(k)')
<1> DEFINE new == IF RunFollowed[k] = RunOf[w] THEN rows[w] ELSE {}
<1>1. /\ Position(k) /\ (k \in Sockets => Access(k)) /\ TypeOK /\ WritersInv
      /\ RunFollowed[k] \in Runs /\ RunOf[w] \in Runs BY EventLogAssumption DEF EventLogInv, ReadersInv
<1>2. UNCHANGED <<page, checked, cursor, pipe, received, client, allowed>> /\ EndWrite(w) BY DEF Commit
<1>3. Log(k)' = Log(k) \cup new BY <1>1 DEF Commit, Log, TypeOK
<1>4. new \in SUBSET Nat BY <1>1 DEF TypeOK
<1>5. \A n \in new : \A m \in Log(k) : m < n
  <2>1. CASE RunFollowed[k] = RunOf[w] BY <1>1, <2>1, <1>2 DEF WritersInv, Log, EndWrite, ProfileOfWriter
  <2>2. CASE RunFollowed[k] # RunOf[w] BY <2>2
  <2> QED BY <2>1, <2>2
<1>6. barred'[k] = IF allowed[k] THEN barred[k] ELSE barred[k] \cup new BY <1>1 DEF Commit, TypeOK
<1> HIDE DEF new
<1>7. /\ Log(k) \in SUBSET Nat /\ received[k] \in Seq(Nat) /\ pipe[k] \in Seq(Nat)
      /\ page[k] \in Seq(Nat) /\ cursor[k] \in Nat /\ LastOf(received[k], 0) \in Nat /\ 0 \in Nat BY ReaderFacts
<1>8. /\ Segment(received[k], Log(k), 0)
      /\ Segment(pipe[k], Log(k), LastOf(received[k], 0))
      /\ Segment(page[k], Log(k), cursor[k]) BY <1>1 DEF Position
<1>9. Position(k)'
  <2>1. Segment(pipe[k], Log(k) \cup new, LastOf(received[k], 0)) BY <1>4, <1>5, <1>7, <1>8, SegmentStays
  <2>2. Segment(page[k], Log(k) \cup new, cursor[k]) BY <1>4, <1>5, <1>7, <1>8, SegmentStays
  <2> QED BY <1>1, <1>2, <1>3, <2>1, <2>2, <1>4, <1>5, <1>7, <1>8, SegmentStays DEF Position
<1>10. ASSUME k \in Sockets PROVE Access(k)'
  <2>1. CASE allowed[k] BY <1>1, <1>2, <1>10, <1>6, <2>1 DEF Access
  <2>2. CASE ~allowed[k]
    <3>1. Spares(received[k], barred[k] \cup new) BY <1>1, <1>4, <1>5, <1>7, <1>8, <1>10, NewRowsAreUnseen DEF Access
    <3>2. Spares(pipe[k], barred[k] \cup new) BY <1>1, <1>4, <1>5, <1>7, <1>8, <1>10, NewRowsAreUnseen DEF Access
    <3>3. checked[k] => Spares(page[k], barred[k] \cup new)
      BY <1>1, <1>4, <1>5, <1>7, <1>8, <1>10, NewRowsAreUnseen DEF Access
    <3> QED BY <1>2, <2>2, <3>1, <3>2, <3>3, <1>6 DEF Access
  <2> QED BY <2>1, <2>2
<1> QED BY <1>9, <1>10

LEMMA ReadersStep ==
  ASSUME EventLogInv, [Next]_vars
  PROVE  ReadersInv'
<1> SUFFICES ASSUME NEW k \in Clients
             PROVE  Position(k)' /\ (k \in Sockets => Access(k)') BY DEF ReadersInv
<1>1. Position(k) /\ (k \in Sockets => Access(k)) /\ TypeOK /\ ReadersInv
      /\ Sockets \cap Pollers = {} /\ Clients = Sockets \cup Pollers
  BY EventLogAssumption DEF EventLogInv, ReadersInv, Clients
<1>2. ASSUME Reader(k)' = Reader(k), Pass(k)' = Pass(k), UNCHANGED committed
      PROVE  Position(k)' /\ (k \in Sockets => Access(k)') BY <1>1, <1>2 DEF Position, Reader, Log, Access, Pass
<1>3. ASSUME NEW j \in Clients, SocketStep(j) \/ PollerStep(j) \/ Revoke(j), j # k
      PROVE  Position(k)' /\ (k \in Sockets => Access(k)') BY <1>1, <1>2, <1>3, OthersKeep, LogsKeep
<1>4. ASSUME NEW j \in Sockets, SocketStep(j) PROVE Position(k)' /\ (k \in Sockets => Access(k)')
  BY <1>1, <1>3, <1>4, SocketPosition, SocketAccess
<1>5. ASSUME NEW j \in Pollers, PollerStep(j) PROVE Position(k)' /\ (k \in Sockets => Access(k)')
  BY <1>1, <1>3, <1>5, PollerPosition
<1>6. ASSUME NEW j \in Clients, Revoke(j) PROVE Position(k)' /\ (k \in Sockets => Access(k)')
  BY <1>1, <1>3, <1>6, RevokeReader
<1>7. ASSUME NEW w \in Writers, LockEventSequence(w) \/ Insert(w) \/ Rollback(w)
      PROVE  Position(k)' /\ (k \in Sockets => Access(k)')
  BY <1>2, <1>7 DEF LockEventSequence, Insert, Rollback, readVars, Reader, Pass
<1>8. CASE UNCHANGED vars BY <1>2, <1>8 DEF vars, logVars, readVars, Reader, Pass
<1>9. ASSUME NEW w \in Writers, Commit(w) PROVE Position(k)' /\ (k \in Sockets => Access(k)') BY <1>9, CommitReader
<1>10. CASE Next BY <1>4, <1>5, <1>6, <1>7, <1>9, <1>10 DEF Next, SocketStep, PollerStep
<1> QED BY <1>8, <1>10

(***************************************************************************)
(* The invariant gives the property                                        *)
(***************************************************************************)
LEMMA EventLogSafe ==
  ASSUME EventLogInv
  PROVE  DeliveredAsCommitted
<1>1. ASSUME NEW k \in Clients
      PROVE  /\ Len(received[k]) = Cardinality({n \in Log(k) : n <= LastReceived(k)})
             /\ \A i \in 1..Len(received[k]) : received[k][i] \in Log(k)
                                               /\ received[k][i] <= LastReceived(k)
             /\ \A i \in 1..(Len(received[k]) - 1) : received[k][i] < received[k][i + 1]
  <2> DEFINE l == received[k]
             n == Len(l)
             last == LastReceived(k)
  <2>1. /\ Log(k) \in SUBSET (1..sequence) /\ sequence \in Nat /\ l \in Seq(Nat)
        /\ last = LastOf(l, 0) BY ReaderFacts
  <2>2. Segment(l, Log(k), 0) BY DEF EventLogInv, ReadersInv, Position
  <2>3. Log(k) \in SUBSET (Nat \ {0}) BY <2>1
  <2>4. n \in Nat /\ (\A i \in 1..n : l[i] \in Nat) /\ (n # 0 => last = l[n]) BY <2>1 DEF LastOf
  <2> HIDE DEF l, n, last
  <2>5. (\A i, j \in 1..n : i < j => l[i] < l[j]) /\ (\A i \in 1..n : l[i] \in Log(k)) BY <2>2 DEF Segment, n
  <2>6. ASSUME NEW i \in 1..n PROVE l[i] <= last
    <3>1. n \in 1..n /\ n # 0 /\ l[i] \in Nat BY <2>4
    <3>2. last = l[n] /\ l[n] \in Nat BY <2>4, <3>1
    <3> QED BY <3>1, <3>2, <2>4, <2>5
  <2>7. ASSUME NEW i \in 1..(n - 1) PROVE l[i] < l[i + 1] BY <2>5, <2>4
  <2> QED BY <2>5, <2>6, <2>7, <2>1, <2>2, <2>3, SegmentCount DEF l, n, last
<1>2. \A k \in Clients : DOMAIN received[k] = 1..Len(received[k]) BY DEF EventLogInv, TypeOK
<1>3. RevokedSeesNothingNew BY <1>2 DEF EventLogInv, ReadersInv, Access, Spares, RevokedSeesNothingNew, Clients
<1> QED BY <1>3, <1>1, <1>2 DEF EventLogInv, DeliveredAsCommitted, NothingSkipped, Log

\* What a client has applied is every event of its run up to the last one, once
\* each and in order, over whatever pages and sockets, and nothing that was
\* committed after its session was revoked (lock_event_sequence, handle_socket,
\* list_run_events).
THEOREM EveryEventOnceInOrder == Spec => []DeliveredAsCommitted
<1>1. Init => EventLogInv BY EventLogInvInit
<1>2. EventLogInv /\ [Next]_vars => EventLogInv' BY TypeStep, WritersStep, ReadersStep DEF EventLogInv
<1>3. EventLogInv => DeliveredAsCommitted BY EventLogSafe
<1> QED BY <1>1, <1>2, <1>3, PTL DEF Spec

-----------------------------------------------------------------------------
(***************************************************************************)
(* Theorems about WebhookDelivery, for any number of deliveries, servers   *)
(* and attempts.                                                           *)
(*                                                                         *)
(* OutcomeOfLastClaim rests on what a token stands for.  A claim writes    *)
(* the number of its attempt into the row and into the task it starts, so  *)
(* no two tasks of a delivery have one token (OneTaskPerClaim), no task is *)
(* ahead of the row, and the row carries a token only while it runs        *)
(* (RowsAgree).  A task that passes the fence is then the last claim's,    *)
(* and after it has recorded its outcome nobody is left who could change   *)
(* what that claim got (NobodyOverwrites).                                 *)
(***************************************************************************)

DeliveryStatuses == {"absent", "accepted", "queued", "running", "succeeded", "failed", "dead"}
DeliveryRows == [status : DeliveryStatuses, target : BOOLEAN, attempts : 0 .. max_attempts,
                 lease_token : 0 .. max_attempts, live : BOOLEAN, due : BOOLEAN]
Tasks == [d : Deliveries, token : 1 .. max_attempts, got : Outcomes \cup {"none"}]

Shapes ==
  /\ delivery \in [Deliveries -> DeliveryRows]
  /\ tasks \in [Schedulers -> SUBSET Tasks]
  /\ answers \in [Deliveries -> [1 .. max_attempts -> Outcomes \cup {"none"}]]

\* webhook_deliveries_lease_check, and what recover_stuck_deliveries leaves.
RowsAgree ==
  \A d \in Deliveries :
    /\ Status(d) = "running" => delivery[d].attempts # 0
                                /\ delivery[d].lease_token = delivery[d].attempts
    /\ Status(d) # "running" => delivery[d].lease_token = 0
    /\ Status(d) = "absent" => delivery[d].attempts = 0
    /\ Status(d) \in {"accepted", "queued"} => delivery[d].attempts < max_attempts
    /\ Status(d) = "dead" => delivery[d].attempts = max_attempts

\* A task is of a claim that was made, and what it got is on record.
TasksOfClaims ==
  \A w \in Schedulers : \A t \in tasks[w] :
    /\ t.token <= delivery[t.d].attempts
    /\ t.got # "none" => answers[t.d][t.token] = t.got

OneTaskPerClaim ==
  \A v, w \in Schedulers : \A s \in tasks[v], t \in tasks[w] :
    s.d = t.d /\ s.token = t.token => v = w /\ s = t

NobodyOverwrites ==
  \A d \in Deliveries : Status(d) \in {"succeeded", "failed"} =>
    \A w \in Schedulers : \A t \in tasks[w] : t.d = d => t.token # delivery[d].attempts

Recorded ==
  \A d \in Deliveries :
    /\ Status(d) = "succeeded" => answers[d][delivery[d].attempts] = "success"
    /\ Status(d) = "failed" => answers[d][delivery[d].attempts] = "permanent"

DeliveryInv == /\ Shapes /\ RowsAgree /\ TasksOfClaims /\ OneTaskPerClaim
               /\ NobodyOverwrites /\ Recorded

-----------------------------------------------------------------------------
\* The classes that an answer or an error falls into (webhook_scheduler.rs,
\* deliver_one).
LEMMA OutcomeFacts == Outcomes = {"success", "permanent", "retryable"}
<1>1. \A v \in TargetVerdicts, r \in SendResults :
        Outcome(v, r) \in {"success", "permanent", "retryable"} BY DEF Outcome
<1>2. {"success", "permanent", "retryable"} \subseteq Outcomes BY DEF TargetVerdicts, SendResults, Outcome, Outcomes
<1> QED BY <1>2, <1>1 DEF Outcomes

\* The columns of a row.
LEMMA RowColumns ==
  ASSUME Shapes, NEW d \in Deliveries
  PROVE  /\ delivery[d] \in DeliveryRows
         /\ delivery[d].status \in DeliveryStatuses /\ delivery[d].attempts \in 0 .. max_attempts
         /\ delivery[d].lease_token \in 0 .. max_attempts
  BY DEF Shapes, DeliveryRows

\* The fields of a task.
LEMMA TaskFields ==
  ASSUME Shapes, NEW w \in Schedulers, NEW t \in tasks[w]
  PROVE  /\ t \in Tasks /\ t.d \in Deliveries /\ t.token \in 1 .. max_attempts
         /\ t.got \in Outcomes \cup {"none"}
  BY DEF Shapes, Tasks

\* A row that is new, or whose attempts do not change, while no task and no
\* answer does: what the requests, recover_stuck_deliveries and the clock do.
LEMMA RowChanges ==
  ASSUME DeliveryInv, UNCHANGED <<tasks, answers>>,
         delivery' \in [Deliveries -> DeliveryRows],
         \A d \in Deliveries :
           \/ delivery'[d] = delivery[d]
           \/ /\ delivery'[d].attempts = delivery[d].attempts
              /\ delivery'[d].status \in {"accepted", "queued", "running", "dead"}
              /\ delivery'[d].status = "running" =>
                   /\ delivery[d].status = "running"
                   /\ delivery'[d].lease_token = delivery[d].lease_token
              /\ delivery'[d].status # "running" => delivery'[d].lease_token = 0
              /\ delivery'[d].status \in {"accepted", "queued"} =>
                   delivery[d].attempts < max_attempts
              /\ delivery'[d].status = "dead" => delivery[d].attempts = max_attempts
  PROVE  DeliveryInv'
<1>1. \A d \in Deliveries : delivery'[d].attempts = delivery[d].attempts OBVIOUS
<1>2. TasksOfClaims' BY <1>1, TaskFields DEF DeliveryInv, TasksOfClaims
<1>3. OneTaskPerClaim' BY DEF DeliveryInv, OneTaskPerClaim
<1>4. NobodyOverwrites' BY <1>1 DEF DeliveryInv, NobodyOverwrites, Status
<1>5. Recorded' BY <1>1 DEF DeliveryInv, Recorded, Status
<1> QED BY <1>2, <1>3, <1>4, <1>5 DEF DeliveryInv, Shapes, RowsAgree, Status

\* receive_webhook and the INSERTs of other programs.
LEMMA NewRows ==
  ASSUME DeliveryInv, NEW d \in Deliveries,
         (\E v \in Verified : ReceiveWebhook(d, v)) \/ Enqueue(d)
  PROVE  DeliveryInv'
<1> USE WebhookAssumption
<1> DEFINE accepted == [NoDelivery EXCEPT !.status = "accepted", !.due = TRUE]
           queued == [NoDelivery EXCEPT !.status = "queued", !.target = TRUE, !.due = TRUE]
<1>1. \A row \in {accepted, queued} :
        /\ row \in DeliveryRows /\ row.status \in {"accepted", "queued"}
        /\ row.attempts = 0 /\ row.lease_token = 0
  <2>1. NoDelivery \in DeliveryRows /\ NoDelivery.attempts = 0 /\ NoDelivery.lease_token = 0
    BY DEF NoDelivery, DeliveryRows, DeliveryStatuses
  <2> QED BY <2>1, ZenonT(40) DEF DeliveryRows, DeliveryStatuses
<1>2. PICK row \in {accepted, queued} : delivery' = [delivery EXCEPT ![d] = row] BY DEF ReceiveWebhook, Enqueue
<1> HIDE DEF accepted, queued
<1>3. Shapes BY DEF DeliveryInv
<1> QED
  BY <1>1, RowChanges, RowColumns, <1>2, <1>3 DEF ReceiveWebhook, Enqueue, Status, DeliveryInv, RowsAgree, Shapes

\* A row whose task is given up.
Dropped(row, status, due) == [row EXCEPT !.status = status, !.lease_token = 0, !.due = due]

\* It keeps its attempts and loses its token.
LEMMA DroppedRow ==
  ASSUME NEW row \in DeliveryRows, NEW status \in {"dead", "queued"}, NEW due \in BOOLEAN
  PROVE  /\ Dropped(row, status, due) \in DeliveryRows
         /\ Dropped(row, status, due).status = status
         /\ Dropped(row, status, due).lease_token = 0
         /\ Dropped(row, status, due).attempts = row.attempts
<1>1. 0 \in 0 .. max_attempts BY WebhookAssumption
<1> QED BY <1>1 DEF DeliveryRows, Dropped, DeliveryStatuses

\* recover_stuck_deliveries takes the token of what nobody works on any more,
\* and the clock only changes what is due and what is live.
LEMMA RecoveredRows ==
  ASSUME DeliveryInv, NEW w \in Schedulers, BuryExpired(w) \/ RequeueExpired(w)
  PROVE  DeliveryInv'
<1> USE WebhookAssumption
<1>1. UNCHANGED <<tasks, answers>> BY DEF BuryExpired, RequeueExpired
<1>2. \A d \in Deliveries : delivery[d] \in DeliveryRows BY RowColumns DEF DeliveryInv
<1>3. Shapes BY DEF DeliveryInv
<1>4. \A d \in Deliveries : Expired(d) =>
        delivery[d].status = "running" /\ delivery[d].attempts \in 0 .. max_attempts
  BY <1>3, RowColumns DEF Expired, Status
<1>5. CASE UNCHANGED delivery BY <1>1, <1>3, <1>5, RowChanges DEF Shapes
<1>6. CASE BuryExpired(w) /\ delivery' = [d \in Deliveries |->
              IF Expired(d) /\ delivery[d].attempts >= max_attempts
              THEN Dropped(delivery[d], "dead", FALSE)
              ELSE delivery[d]]
  <2>1. delivery' \in [Deliveries -> DeliveryRows] BY <1>2, <1>3, <1>6, DroppedRow DEF Shapes
  <2>2. \A d \in Deliveries :
          \/ delivery'[d] = delivery[d]
          \/ /\ Expired(d) /\ delivery[d].attempts >= max_attempts /\ delivery'[d].status = "dead"
             /\ delivery'[d].lease_token = 0 /\ delivery'[d].attempts = delivery[d].attempts BY <1>2, <1>6, DroppedRow
  <2> QED BY <1>1, <1>4, <2>1, <2>2, RowChanges
<1>7. CASE RequeueExpired(w) /\ delivery' = [d \in Deliveries |->
              IF Expired(d) /\ delivery[d].attempts < max_attempts
              THEN Dropped(delivery[d], "queued", TRUE)
              ELSE delivery[d]] BY <1>1, <1>4, RowChanges, <1>2, <1>3, <1>7, DroppedRow DEF Shapes
<1> QED BY <1>5, <1>6, <1>7 DEF BuryExpired, RequeueExpired, Dropped

LEMMA ClockRows ==
  ASSUME DeliveryInv, NEW d \in Deliveries, BackoffEnds(d) \/ LeaseExpires(d)
  PROVE  DeliveryInv'
<1>1. Shapes /\ delivery[d] \in DeliveryRows /\ UNCHANGED <<tasks, answers>>
  BY RowColumns DEF DeliveryInv, BackoffEnds, LeaseExpires
<1>2. PICK due \in BOOLEAN, live \in BOOLEAN :
         delivery' = [delivery EXCEPT ![d] = [@ EXCEPT !.due = due, !.live = live]]
  <2>1. CASE BackoffEnds(d) BY <1>1, <2>1 DEF DeliveryRows, BackoffEnds, Shapes
  <2>2. CASE LeaseExpires(d) BY <1>1, <2>2 DEF DeliveryRows, LeaseExpires, Shapes
  <2> QED BY <2>1, <2>2
<1> QED BY <1>1, RowChanges, <1>2 DEF DeliveryInv, RowsAgree, Status, Shapes, DeliveryRows, BackoffEnds, LeaseExpires

\* Tasks may go, with the server or with their outcome refused.
LEMMA TasksGo ==
  ASSUME DeliveryInv, UNCHANGED <<delivery, answers>>,
         tasks' \in [Schedulers -> SUBSET Tasks],
         \A w \in Schedulers : tasks'[w] \subseteq tasks[w]
  PROVE  DeliveryInv'
<1>1. TasksOfClaims' BY DEF DeliveryInv, TasksOfClaims
<1>2. OneTaskPerClaim' BY DEF DeliveryInv, OneTaskPerClaim
<1>3. NobodyOverwrites' BY DEF DeliveryInv, NobodyOverwrites, Status
<1> QED BY <1>1, <1>2, <1>3 DEF DeliveryInv, Shapes, RowsAgree, Recorded, Status

\* claim_deliveries: every row it takes gets a token that no task has yet.
LEMMA ClaimedRows ==
  ASSUME DeliveryInv, NEW w \in Schedulers, NEW claimed \in SUBSET Deliveries,
         ClaimDeliveries(w, claimed)
  PROVE  DeliveryInv'
<1> DEFINE Claimed(d) == [delivery[d] EXCEPT !.status = "running", !.attempts = @ + 1, !.due = FALSE,
                            !.lease_token = delivery[d].attempts + 1, !.live = TRUE]
           Started(d) == [d |-> d, token |-> delivery[d].attempts + 1, got |-> "none"]
<1>1. Shapes BY DEF DeliveryInv
<1>2. \A d \in claimed : d \in Deliveries /\ delivery[d].status \in {"accepted", "queued"}
                          /\ delivery[d].attempts + 1 \in 1 .. max_attempts
  <2>1. \A d \in claimed : d \in Deliveries /\ Status(d) \in {"accepted", "queued"}
    BY DEF ClaimDeliveries, ClaimableDeliveries
  <2> QED BY <2>1, WebhookAssumption, <1>1, RowColumns DEF Status, DeliveryInv, RowsAgree
<1>3. \A d \in claimed : /\ Claimed(d) \in DeliveryRows /\ Claimed(d).status = "running"
                          /\ Claimed(d).attempts = delivery[d].attempts + 1
                          /\ Claimed(d).lease_token = delivery[d].attempts + 1
  <2> SUFFICES ASSUME NEW d \in claimed
               PROVE  /\ Claimed(d) \in DeliveryRows /\ Claimed(d).status = "running"
                      /\ Claimed(d).attempts = delivery[d].attempts + 1
                      /\ Claimed(d).lease_token = delivery[d].attempts + 1 OBVIOUS
  <2>1. delivery[d].attempts + 1 \in 0 .. max_attempts BY <1>2, WebhookAssumption
  <2> QED BY <2>1, <1>1, <1>2, RowColumns DEF DeliveryRows, DeliveryStatuses
<1>4. \A d \in claimed : /\ Started(d) \in Tasks /\ Started(d).d = d /\ Started(d).got = "none"
                          /\ Started(d).token = delivery[d].attempts + 1 BY <1>2 DEF Tasks
<1>5. /\ \A d \in Deliveries : delivery'[d] = IF d \in claimed THEN Claimed(d) ELSE delivery[d]
      /\ delivery' = [d \in Deliveries |-> IF d \in claimed THEN Claimed(d) ELSE delivery[d]]
      /\ tasks' = [tasks EXCEPT ![w] = @ \cup {Started(d) : d \in claimed}]
      /\ UNCHANGED answers BY DEF ClaimDeliveries
<1> HIDE DEF Claimed, Started
<1>6. Shapes' BY <1>1, <1>5, <1>3, <1>4 DEF Shapes
\* a task is an old one, or starts the claim just made
<1>7. \A v \in Schedulers : \A t \in tasks'[v] :
        \/ /\ t \in tasks[v] /\ t.d \in Deliveries /\ t.token <= delivery[t.d].attempts
           /\ t.token \in Nat
           /\ t.got # "none" => answers[t.d][t.token] = t.got
        \/ v = w /\ t.d \in claimed /\ t = Started(t.d)
  BY <1>1, <1>4, TaskFields, <1>5 DEF DeliveryInv, TasksOfClaims, Shapes
<1>8. \A d \in Deliveries : delivery[d].attempts \in Nat /\ delivery'[d].attempts \in Nat
                             /\ delivery[d].attempts <= delivery'[d].attempts BY <1>1, <1>3, <1>5, RowColumns
<1>9. TasksOfClaims'
  <2> SUFFICES ASSUME NEW v \in Schedulers, NEW t \in tasks'[v]
               PROVE  /\ t.token <= delivery'[t.d].attempts
                      /\ t.got # "none" => answers[t.d][t.token] = t.got BY <1>5 DEF TasksOfClaims
  <2>1. CASE /\ t \in tasks[v] /\ t.d \in Deliveries /\ t.token <= delivery[t.d].attempts
             /\ t.token \in Nat
             /\ t.got # "none" => answers[t.d][t.token] = t.got BY <1>8, <2>1
  <2>2. CASE v = w /\ t.d \in claimed /\ t = Started(t.d) BY <1>8, <1>2, <1>3, <1>4, <1>5, <2>2
  <2> QED BY <1>7, <2>1, <2>2
<1>10. OneTaskPerClaim'
  <2> SUFFICES ASSUME NEW u \in Schedulers, NEW v \in Schedulers,
                      NEW s \in tasks'[u], NEW t \in tasks'[v],
                      s.d = t.d, s.token = t.token
               PROVE  u = v /\ s = t BY DEF OneTaskPerClaim
  <2> QED BY <1>2, <1>4, <1>7, <1>8 DEF DeliveryInv, OneTaskPerClaim
<1>11. NobodyOverwrites'
  <2> SUFFICES ASSUME NEW d \in Deliveries, delivery'[d].status \in {"succeeded", "failed"},
                      NEW v \in Schedulers, NEW t \in tasks'[v], t.d = d
               PROVE  t.token # delivery'[d].attempts BY DEF NobodyOverwrites, Status
  <2> QED BY <1>5, <1>7, <1>3 DEF DeliveryInv, NobodyOverwrites, Status
<1> QED BY <1>6, <1>9, <1>10, <1>11, <1>2, <1>3, <1>5 DEF DeliveryInv, RowsAgree, Status, Recorded

\* deliver_one: what a task gets is what its own claim got.
LEMMA Delivered ==
  ASSUME DeliveryInv, NEW w \in Schedulers, NEW t \in tasks[w], NEW outcome \in Outcomes,
         DeliverOne(w, t, outcome)
  PROVE  DeliveryInv'
<1> DEFINE sent == [t EXCEPT !.got = outcome]
<1>1. Shapes BY DEF DeliveryInv
<1>2. /\ t \in Tasks /\ t.d \in Deliveries /\ t.token \in 1 .. max_attempts /\ t.got = "none"
  BY <1>1, TaskFields DEF DeliverOne, ResolveTarget
<1>3. sent \in Tasks /\ sent.d = t.d /\ sent.token = t.token /\ sent.got = outcome BY <1>2 DEF Tasks
<1>4. /\ tasks' = [tasks EXCEPT ![w] = (@ \ {t}) \cup {sent}]
      /\ answers' = [answers EXCEPT ![t.d][t.token] = outcome]
      /\ UNCHANGED delivery BY DEF DeliverOne
<1> HIDE DEF sent
<1>5. /\ answers'[t.d][t.token] = outcome
      /\ \A d \in Deliveries, n \in 1 .. max_attempts :
           d # t.d \/ n # t.token => answers'[d][n] = answers[d][n] BY <1>1, <1>2, <1>4 DEF Shapes
<1>6. \A v \in Schedulers : \A s \in tasks'[v] :
        \/ s \in tasks[v] /\ (v = w => s # t)
        \/ v = w /\ s = sent BY <1>1, <1>4 DEF Shapes
<1>7. TasksOfClaims'
  <2> SUFFICES ASSUME NEW v \in Schedulers, NEW s \in tasks'[v]
               PROVE  /\ s.token <= delivery[s.d].attempts
                      /\ s.got # "none" => answers'[s.d][s.token] = s.got BY <1>4 DEF TasksOfClaims
  <2>1. CASE s \in tasks[v] /\ (v = w => s # t)
    BY <1>5, <2>1, <1>1, TaskFields DEF DeliveryInv, TasksOfClaims, OneTaskPerClaim
  <2>2. CASE v = w /\ s = sent BY <1>3, <1>5, <2>2 DEF DeliveryInv, TasksOfClaims
  <2> QED BY <1>6, <2>1, <2>2
<1>8. OneTaskPerClaim' BY <1>3, <1>6 DEF DeliveryInv, OneTaskPerClaim
<1>9. NobodyOverwrites' BY <1>3, <1>4, <1>6 DEF DeliveryInv, NobodyOverwrites, Status
<1>10. Recorded'
  <2> SUFFICES ASSUME NEW d \in Deliveries
               PROVE  /\ Status(d) = "succeeded" => answers'[d][delivery[d].attempts] = "success"
                      /\ Status(d) = "failed" => answers'[d][delivery[d].attempts] = "permanent"
    BY <1>4 DEF Recorded, Status
  <2>1. CASE d = t.d BY <1>5, <2>1, <1>2, <1>1, RowColumns DEF DeliveryInv, Recorded, NobodyOverwrites, TasksOfClaims
  <2>2. CASE d # t.d BY <1>1, <1>2, <1>4, <2>2 DEF DeliveryInv, Recorded, Shapes
  <2> QED BY <2>1, <2>2
<1> QED BY <1>7, <1>8, <1>9, <1>10, <1>4, <1>1, <1>2, <1>3 DEF DeliveryInv, RowsAgree, Status, Shapes

\* deliver_one's last statement: under the fence the task is the last claim's,
\* and it is the only one of that claim.
LEMMA Persisted ==
  ASSUME DeliveryInv, NEW w \in Schedulers, NEW t \in tasks[w], PersistOutcome(w, t)
  PROVE  DeliveryInv'
<1>1. Shapes BY DEF DeliveryInv
<1>2. /\ t \in Tasks /\ t.d \in Deliveries /\ t.token \in 1 .. max_attempts
      /\ t.got \in {"success", "permanent", "retryable"} BY <1>1, TaskFields, OutcomeFacts DEF PersistOutcome
<1>3. tasks' = [tasks EXCEPT ![w] = @ \ {t}] /\ UNCHANGED answers BY DEF PersistOutcome
<1>4. /\ tasks' \in [Schedulers -> SUBSET Tasks]
      /\ tasks'[w] = tasks[w] \ {t} /\ \A v \in Schedulers \ {w} : tasks'[v] = tasks[v] BY <1>1, <1>3 DEF Shapes
<1>5. CASE UNCHANGED delivery BY <1>3, <1>4, <1>5, TasksGo
<1>6. CASE OutcomeFence(t) /\ delivery' = [delivery EXCEPT ![t.d].status = StatusAfter(t),
                               ![t.d].lease_token = 0, ![t.d].live = FALSE]
  <2>1. /\ delivery[t.d] \in DeliveryRows /\ delivery[t.d].status = "running"
        /\ delivery[t.d].attempts = t.token
    BY <1>1, <1>2, <1>6, RowColumns DEF OutcomeFence, DeliveryInv, RowsAgree, Status
  <2>2. /\ StatusAfter(t) \in {"succeeded", "failed", "dead", "queued"}
        /\ StatusAfter(t) = "succeeded" => t.got = "success"
        /\ StatusAfter(t) = "failed" => t.got = "permanent"
        /\ StatusAfter(t) = "dead" => t.token >= max_attempts
        /\ StatusAfter(t) = "queued" => ~(t.token >= max_attempts) BY <1>2 DEF StatusAfter
  <2>3. /\ delivery' \in [Deliveries -> DeliveryRows]
        /\ delivery'[t.d].status = StatusAfter(t) /\ delivery'[t.d].lease_token = 0
        /\ delivery'[t.d].attempts = t.token
        /\ \A d \in Deliveries \ {t.d} : delivery'[d] = delivery[d]
    <3>1. StatusAfter(t) \in DeliveryStatuses /\ 0 \in 0 .. max_attempts
      BY <2>2, WebhookAssumption DEF DeliveryStatuses
    <3> QED BY <1>1, <1>2, <2>1, <3>1, <1>6 DEF Shapes, DeliveryRows
\* no other task has the token of the row
  <2>4. \A v \in Schedulers : \A s \in tasks'[v] :
          s \in tasks[v] /\ (s.d = t.d => s.token # t.token) BY <1>4 DEF DeliveryInv, OneTaskPerClaim
  <2>5. TasksOfClaims' BY <1>1, <1>3, <2>4, TaskFields, <2>1, <2>3 DEF DeliveryInv, TasksOfClaims
  <2>6. OneTaskPerClaim' BY <2>4 DEF DeliveryInv, OneTaskPerClaim
  <2>7. NobodyOverwrites' BY <2>1, <2>3, <2>4 DEF DeliveryInv, NobodyOverwrites, Status
  <2>8. Recorded' BY <1>3, <2>2, <2>3, <1>2 DEF DeliveryInv, Recorded, Status, TasksOfClaims
  <2> QED
    BY <2>5, <2>6, <2>7, <2>8, <1>1, <1>3, <1>4, <2>3, <1>2, <2>2, WebhookAssumption DEF DeliveryInv, Shapes,
      RowsAgree, Status
<1> QED BY <1>5, <1>6 DEF PersistOutcome

LEMMA WebhookInitially == WebhookInit => DeliveryInv
<1> SUFFICES ASSUME WebhookInit PROVE DeliveryInv OBVIOUS
<1>1. RowsAgree /\ NobodyOverwrites /\ Recorded
  BY DEF RowsAgree, NobodyOverwrites, Recorded, NoDelivery, Status, WebhookInit
<1> QED
  BY <1>1, WebhookAssumption DEF DeliveryInv, WebhookInit, TasksOfClaims, OneTaskPerClaim, Shapes, NoDelivery,
    DeliveryRows, DeliveryStatuses

LEMMA WebhookStep == DeliveryInv /\ [WebhookNext]_whvars => DeliveryInv'
<1> SUFFICES ASSUME DeliveryInv, [WebhookNext]_whvars PROVE DeliveryInv' OBVIOUS
<1>1. Shapes BY DEF DeliveryInv
<1>2. ASSUME NEW d \in Deliveries, NEW v \in Verified, ReceiveWebhook(d, v) PROVE DeliveryInv' BY <1>2, NewRows
<1>3. ASSUME NEW d \in Deliveries, Enqueue(d) PROVE DeliveryInv' BY <1>3, NewRows
<1>4. ASSUME NEW d \in Deliveries, BackoffEnds(d) \/ LeaseExpires(d) PROVE DeliveryInv' BY <1>4, ClockRows
<1>5. ASSUME NEW w \in Schedulers, BuryExpired(w) \/ RequeueExpired(w) PROVE DeliveryInv' BY <1>5, RecoveredRows
<1>6. ASSUME NEW w \in Schedulers, Tick(w) \/ SchedulerCrash(w) PROVE DeliveryInv'
  BY TasksGo, <1>1, <1>6 DEF Shapes, Tick, SchedulerCrash
<1>7. ASSUME NEW w \in Schedulers, NEW claimed \in SUBSET Deliveries, ClaimDeliveries(w, claimed)
      PROVE  DeliveryInv' BY <1>7, ClaimedRows
<1>8. ASSUME NEW w \in Schedulers, NEW t \in tasks[w], NEW o \in Outcomes, DeliverOne(w, t, o)
      PROVE  DeliveryInv' BY <1>8, Delivered
<1>9. ASSUME NEW w \in Schedulers, NEW t \in tasks[w], PersistOutcome(w, t) PROVE DeliveryInv' BY <1>9, Persisted
<1>10. CASE UNCHANGED whvars BY <1>1, <1>10, TasksGo DEF whvars, Shapes
<1> QED BY <1>2, <1>3, <1>4, <1>5, <1>6, <1>7, <1>8, <1>9, <1>10 DEF WebhookNext

\* However leases expire under workers that still send, what a row records is
\* what its last claim got, and no claim is made beyond max_attempts
\* (claim_deliveries, recover_stuck_deliveries, deliver_one).
THEOREM LastClaimDecides == WebhookSpec => []OutcomeOfLastClaim
<1>1. DeliveryInv => OutcomeOfLastClaim
  <2> SUFFICES ASSUME DeliveryInv, NEW d \in Deliveries
               PROVE  LET n == delivery[d].attempts IN
                        /\ n <= max_attempts
                        /\ Status(d) = "succeeded" => answers[d][n] = "success"
                        /\ Status(d) = "failed" => answers[d][n] = "permanent"
                        /\ Status(d) = "dead" => n = max_attempts BY DEF OutcomeOfLastClaim
  <2> QED BY WebhookAssumption, RowColumns DEF DeliveryInv, Recorded, RowsAgree
<1> QED BY <1>1, WebhookInitially, WebhookStep, PTL DEF WebhookSpec

-----------------------------------------------------------------------------
(***************************************************************************)
(* Theorems about EmbeddingJobs, for any number of models, workers,        *)
(* attempts and revisions.                                                 *)
(*                                                                         *)
(* EmbeddingInv adds to JobsAndBooksAgree what the workers' locals are:    *)
(* a worker past its claim has a row of the queue, and one that is about   *)
(* to cancel its job has read another revision than the job's.  The last   *)
(* is why cancel_stale never cancels the job that its own enqueue_book     *)
(* finds in place.  NothingForgotten is kept by every step of a server     *)
(* that cannot seed a model; what a seeding server does is the finding of  *)
(* ModelChangeSchedules.                                                   *)
(***************************************************************************)

JobRows == [model : Models, rev : Nat \ {0},
            status : ActiveStatuses \cup {"completed", "failed", "canceled"},
            attempts : 0..MaxAttempts, claims : Nat, token : Nat, live : BOOLEAN]
BookRows == [rev : Nat \ {0}, status : {"pending", "stale", "ready", "failed"},
             model : Models \cup {None}]
BusyPcs == {"revision", "stale", "chunks", "batch", "begin", "publish", "failure", "fail_book"}
Locals == [pc : BusyPcs \cup {"scan", "fail_books", "claim"}, job : Nat, token : Nat,
           attempts : 0..MaxAttempts, seen : Nat, chunks : Nat, left : Int, live : BOOLEAN,
           lost : SUBSET Nat]

\* What the locals of a worker say of the queue.
Agrees(x, queue) ==
  /\ x.job \in {0} \cup DOMAIN queue
  /\ x.lost \subseteq DOMAIN queue
  /\ x.pc \in BusyPcs => x.job \in DOMAIN queue
  /\ x.pc = "stale" => x.seen # 0 /\ x.seen # queue[x.job].rev

EmbeddingInv ==
  /\ EmbeddingTypeOK
  /\ worker \in [Workers -> Locals]
  /\ \A w \in Workers : Agrees(worker[w], jobs)
  /\ seeding => Seedable
  /\ book.status = "ready" => book.model \in Models /\ vectors[book.model] = book.rev
-----------------------------------------------------------------------------
(* The queue *)

\* A row of the queue, and the locals of a worker.
LEMMA RowsAndLocals ==
  ASSUME EmbeddingInv
  PROVE  /\ jobs \in Seq(JobRows)
         /\ \A j \in DOMAIN jobs : j \in Nat \ {0} /\ jobs[j] \in JobRows
         /\ \A w \in Workers : worker[w] \in Locals /\ Agrees(worker[w], jobs)
         /\ book \in BookRows
<1>1. jobs \in Seq(JobRows) /\ book \in BookRows BY DEF EmbeddingInv, EmbeddingTypeOK, JobRows, BookRows
<1> QED BY <1>1 DEF EmbeddingInv

\* What a statement does to the rows that are there: model and revision stay.
Keeps(old, new) ==
  \A j \in DOMAIN old : j \in DOMAIN new /\ new[j].model = old[j].model /\ new[j].rev = old[j].rev

\* A job is running exactly when it has a lease token.
TokensFit(queue) ==
  \A j \in DOMAIN queue : (queue[j].token # 0) = (queue[j].status = "running")

\* enqueue_book adds at most a row at the end (enqueue_book of embedding.rs).
LEMMA EnqueuedRows ==
  ASSUME EmbeddingInv, NEW queue \in Seq(JobRows), TokensFit(queue),
         NEW m \in Models \cup {None}, NEW rev \in Nat \ {0}
  PROVE  /\ Enqueued(queue, m, rev) \in Seq(JobRows)
         /\ TokensFit(Enqueued(queue, m, rev))
         /\ Keeps(queue, Enqueued(queue, m, rev))
         /\ \A j \in DOMAIN queue : Enqueued(queue, m, rev)[j] = queue[j]
         /\ \/ m = None \/ Covered(m, rev)
            \/ \E j \in DOMAIN Enqueued(queue, m, rev) :
                 /\ Enqueued(queue, m, rev)[j].model = m
                 /\ Enqueued(queue, m, rev)[j].status = "queued"
<1>1. CASE m = None \/ Covered(m, rev) BY <1>1 DEF Enqueued, Keeps
<1>2. CASE ~(m = None \/ Covered(m, rev))
  <2>1. /\ Job(m, rev).model = m /\ Job(m, rev).status = "queued"
        /\ Job(m, rev).token = 0 BY DEF Job
  <2> DEFINE longer == Append(queue, Job(m, rev))
  <2>2. /\ longer \in Seq(JobRows) /\ Len(longer) = Len(queue) + 1
        /\ DOMAIN queue = 1..Len(queue) /\ DOMAIN longer = 1..(Len(queue) + 1)
        /\ Len(queue) \in Nat
        /\ \A j \in 1..Len(queue) : longer[j] = queue[j]
        /\ longer[Len(queue) + 1] = Job(m, rev) BY <1>2, EmbeddingAssumption DEF Job, JobRows, ActiveStatuses
  <2>3. Enqueued(queue, m, rev) = longer BY <1>2 DEF Enqueued
  <2> HIDE DEF longer
  <2>4. Len(queue) + 1 \in DOMAIN longer /\ DOMAIN queue \subseteq DOMAIN longer BY <2>2
  <2>5. Keeps(queue, longer) BY <2>2, <2>4 DEF Keeps
  <2> QED BY <2>1, <2>2, <2>3, <2>4, <2>5 DEF TokensFit
<1> QED BY <1>1, <1>2

\* The status, token and lease of a row that is given back or ended.
LEMMA DroppedQueue ==
  ASSUME NEW queue \in Seq(JobRows), queue = jobs, TokensFit(jobs), NEW j \in DOMAIN queue,
         NEW status \in {"retry", "completed", "failed", "canceled"}
  PROVE  /\ JobDropped(j, status) \in Seq(JobRows) /\ TokensFit(JobDropped(j, status))
         /\ Keeps(queue, JobDropped(j, status)) /\ DOMAIN JobDropped(j, status) = DOMAIN queue
         /\ JobDropped(j, status)[j].status = status
         /\ JobDropped(j, status)[j] \in JobRows
         /\ \A i \in DOMAIN queue \ {j} : JobDropped(j, status)[i] = queue[i]
<1>1. queue[j] \in JobRows OBVIOUS
<1> DEFINE row == [queue[j] EXCEPT !.status = status, !.token = 0, !.live = FALSE]
<1>2. /\ row \in JobRows /\ row.model = queue[j].model /\ row.rev = queue[j].rev
      /\ row.token = 0 /\ row.status = status BY <1>1 DEF JobRows, ActiveStatuses
<1>3. JobDropped(j, status) = [queue EXCEPT ![j] = row] BY <1>1 DEF JobDropped, JobRows
<1> HIDE DEF row
<1> QED BY <1>2, <1>3 DEF TokensFit, Keeps
-----------------------------------------------------------------------------
(* What a step may do *)

\* A step keeps the invariant if it rewrites or extends the queue without
\* changing what a row embeds, and the locals it sets agree with the queue it
\* leaves.
LEMMA InvKept ==
  ASSUME EmbeddingInv,
         jobs' \in Seq(JobRows), TokensFit(jobs'), Keeps(jobs, jobs'),
         worker' \in [Workers -> Locals],
         \A w \in Workers : worker'[w] = worker[w] \/ Agrees(worker'[w], jobs'),
         book' \in BookRows, vectors' \in [Models -> Nat], active' \in Models \cup {None},
         activation' \subseteq [model : Models, rev : Nat \ {0}],
         seeding' \in BOOLEAN, seeding' => Seedable,
         (book'.status = "ready" => book'.model \in Models /\ vectors'[book'.model] = book'.rev)
  PROVE  EmbeddingInv'
<1>1. \A w \in Workers : Agrees(worker'[w], jobs')
  <2> SUFFICES ASSUME NEW w \in Workers, worker'[w] = worker[w]
               PROVE  Agrees(worker'[w], jobs') OBVIOUS
  <2> QED BY DEF Agrees, Keeps, BusyPcs, EmbeddingInv
<1> HIDE DEF EmbeddingTypeOK
<1> QED BY <1>1 DEF EmbeddingInv, EmbeddingTypeOK, BookRows, JobRows, TokensFit, Agrees

\* The rows of the queue when no statement touches them.
LEMMA QueueLeft ==
  ASSUME EmbeddingInv
  PROVE  jobs \in Seq(JobRows) /\ TokensFit(jobs) /\ Keeps(jobs, jobs)
  BY RowsAndLocals DEF EmbeddingInv, EmbeddingTypeOK, TokensFit, Keeps

\* What the invariant says of the book, its vectors and the profile.
LEMMA BookLeft ==
  ASSUME EmbeddingInv
  PROVE  /\ book \in BookRows /\ vectors \in [Models -> Nat] /\ active \in Models \cup {None}
         /\ activation \subseteq [model : Models, rev : Nat \ {0}]
         /\ seeding \in BOOLEAN /\ (seeding => Seedable)
         /\ book.status = "ready" => book.model \in Models /\ vectors[book.model] = book.rev
  BY RowsAndLocals DEF EmbeddingInv, EmbeddingTypeOK

\* A worker sets its locals.
LEMMA LocalsSet ==
  ASSUME EmbeddingInv, NEW w \in Workers, NEW x \in Locals, Set(w, x), Agrees(x, jobs')
  PROVE  /\ worker' \in [Workers -> Locals]
         /\ \A v \in Workers : worker'[v] = worker[v] \/ Agrees(worker'[v], jobs')
  BY DEF EmbeddingInv, Set

\* A step of a worker that leaves the queue and the book alone.
LEMMA LocalStep ==
  ASSUME EmbeddingInv, NEW w \in Workers, NEW x \in Locals, Set(w, x), Agrees(x, jobs),
         UNCHANGED <<book, vectors, active, jobs, activation, seeding>>
  PROVE  EmbeddingInv'
  BY QueueLeft, BookLeft, InvKept, LocalsSet

\* A worker at rest.
LEMMA AtRest ==
  /\ NoJob \in Locals /\ [NoJob EXCEPT !.pc = "claim"] \in Locals
  /\ \A queue : Agrees(NoJob, queue) /\ Agrees([NoJob EXCEPT !.pc = "claim"], queue)
<1>1. NoJob \in Locals BY EmbeddingAssumption DEF NoJob, Locals, BusyPcs
<1>2. /\ NoJob.job = 0 /\ NoJob.lost = {} /\ NoJob.pc = "scan"
      /\ [NoJob EXCEPT !.pc = "claim"].job = 0
      /\ [NoJob EXCEPT !.pc = "claim"].lost = {}
      /\ [NoJob EXCEPT !.pc = "claim"].pc = "claim" BY DEF NoJob
<1> QED BY <1>1, <1>2 DEF Agrees, BusyPcs, Locals

\* A row that does its book's work, or waits for retry_job.
Attended(row) == IsActive(row) \/ row.status = "failed"

\* A step that leaves book, vectors and active model alone forgets nothing if
\* it cancels and completes no row.
LEMMA StillAttended ==
  ASSUME EmbeddingInv, NothingForgotten, Keeps(jobs, jobs'),
         book'.rev = book.rev, UNCHANGED <<vectors, active>>,
         \A j \in DOMAIN jobs : Attended(jobs[j]) => Attended(jobs'[j])
  PROVE  NothingForgotten'
<1> SUFFICES ASSUME active # None, vectors[active] # book.rev
             PROVE  \E j \in DOMAIN jobs' : jobs'[j].model = active /\ Attended(jobs'[j])
  BY DEF NothingForgotten, Attended
<1>1. PICK j \in DOMAIN jobs : jobs[j].model = active /\ Attended(jobs[j]) BY DEF NothingForgotten, Attended
<1> QED BY <1>1 DEF Keeps

\* enqueue_book for the model that is active after the step leaves a row of it
\* that nothing of the step ends.
LEMMA Attends ==
  ASSUME NEW queue, NEW m, NEW rev,
         jobs' = Enqueued(queue, m, rev), active' = m,
         \/ m = None
         \/ \E j \in DOMAIN jobs' : jobs'[j].model = m /\ Attended(jobs'[j])
  PROVE  NothingForgotten'
  BY DEF NothingForgotten, Attended

-----------------------------------------------------------------------------
(* The requests *)

\* A book as it is created or was embedded before.
LEMMA InitEmbedding ==
  ASSUME EmbeddingInit
  PROVE  EmbeddingInv /\ NothingForgotten
<1>1. PICK m \in IF active = None THEN {None} ELSE Models \cup {None} :
        /\ book = [rev |-> 1, model |-> m,
                   status |-> CASE m = None -> "pending"
                                [] m # None /\ m = active -> "ready"
                                [] OTHER -> "stale"]
        /\ vectors = [n \in Models |-> IF n = m THEN 1 ELSE 0]
        /\ jobs = IF active = m THEN << >> ELSE <<Job(active, 1)>> BY DEF EmbeddingInit
<1>2. /\ book \in BookRows /\ vectors \in [Models -> Nat] /\ active \in Models \cup {None}
      /\ book.rev = 1 /\ book.model = m
      /\ activation = {} /\ seeding = FALSE
      /\ (m = None => book.status = "pending")
  <2>1. CASE m = None BY <2>1, <1>1 DEF EmbeddingInit, BookRows
  <2>2. CASE m # None /\ m = active BY <2>2, <1>1 DEF EmbeddingInit, BookRows
  <2>3. CASE m # None /\ m # active BY <2>3, <1>1 DEF EmbeddingInit, BookRows
  <2> QED BY <2>1, <2>2, <2>3
<1>3. book.status = "ready" => book.model \in Models /\ vectors[book.model] = book.rev
  <2>1. CASE m = None BY <2>1, <1>2
  <2>2. CASE m # None BY <1>1, <2>2, <1>2
  <2> QED BY <2>1, <2>2
<1>4. /\ jobs \in Seq(JobRows) /\ TokensFit(jobs)
      /\ active = m \/ \E j \in DOMAIN jobs : jobs[j].model = active /\ Attended(jobs[j])
  <2>1. CASE active = m BY <2>1, <1>1 DEF TokensFit
  <2>2. CASE active # m
    <3>1. Job(active, 1) \in JobRows BY EmbeddingAssumption, <2>2, <1>1, <1>2 DEF Job, JobRows, ActiveStatuses
    <3>2. /\ jobs = <<Job(active, 1)>> /\ jobs \in Seq(JobRows) /\ DOMAIN jobs = {1}
          /\ jobs[1] = Job(active, 1) BY <3>1, <2>2, <1>1
    <3> QED BY <3>2 DEF TokensFit, Attended, IsActive, ActiveStatuses, Job
  <2> QED BY <2>1, <2>2
<1>5. NothingForgotten
  <2>1. CASE active = m /\ active # None BY <2>1, <1>1, <1>2 DEF NothingForgotten
  <2>2. CASE ~(active = m) \/ active = None BY <2>2, <1>4 DEF NothingForgotten, Attended
  <2> QED BY <2>1, <2>2
<1>6. worker \in [Workers -> Locals] /\ \A w \in Workers : worker[w] = NoJob BY AtRest DEF EmbeddingInit
<1> HIDE DEF EmbeddingTypeOK
<1> QED
  BY <1>2, <1>3, <1>5, <1>6, <1>4, AtRest DEF EmbeddingInv, EmbeddingTypeOK, BookRows, JobRows, TokensFit, Agrees

\* What Enqueued does for the active model, in the words of the lemmas above.
LEMMA EnqueuedAttends ==
  ASSUME EmbeddingInv, NEW queue \in Seq(JobRows), TokensFit(queue), Keeps(jobs, queue),
         NEW m \in Models \cup {None}, NEW rev \in Nat \ {0},
         \A j \in DOMAIN jobs : jobs[j].rev = rev => queue[j] = jobs[j]
  PROVE  /\ Enqueued(queue, m, rev) \in Seq(JobRows) /\ TokensFit(Enqueued(queue, m, rev))
         /\ Keeps(jobs, Enqueued(queue, m, rev))
         /\ \/ m = None
            \/ \E j \in DOMAIN Enqueued(queue, m, rev) :
                 /\ Enqueued(queue, m, rev)[j].model = m
                 /\ Attended(Enqueued(queue, m, rev)[j])
<1> DEFINE new == Enqueued(queue, m, rev)
<1>1. /\ new \in Seq(JobRows) /\ TokensFit(new) /\ Keeps(queue, new)
      /\ \A j \in DOMAIN queue : new[j] = queue[j]
      /\ \/ m = None \/ Covered(m, rev)
         \/ \E j \in DOMAIN new : new[j].model = m /\ new[j].status = "queued" BY EnqueuedRows, ZenonT(40)
<1> HIDE DEF new
<1>2. Keeps(jobs, new) BY <1>1 DEF Keeps
<1>3. CASE Covered(m, rev)
  <2>1. PICK j \in DOMAIN jobs : jobs[j].model = m /\ jobs[j].rev = rev /\ IsActive(jobs[j]) BY <1>3 DEF Covered
  <2> QED BY <1>1, <1>2, <2>1 DEF new, Attended, Keeps
<1>4. CASE m = None \/ \E j \in DOMAIN new : new[j].model = m /\ new[j].status = "queued"
  BY <1>1, <1>2, <1>4 DEF new, Attended, IsActive, ActiveStatuses
<1> QED BY <1>1, <1>3, <1>4

LEMMA EditStep ==
  ASSUME EmbeddingInv, Edit
  PROVE  EmbeddingInv' /\ NothingForgotten'
<1>1. book \in BookRows /\ active \in Models \cup {None} BY BookLeft
<1>2. /\ book' \in BookRows /\ book'.status = "stale" /\ book'.rev = book.rev + 1
      /\ book.rev + 1 \in Nat \ {0}
  <2>1. book.rev + 1 \in Nat \ {0} BY <1>1 DEF BookRows
  <2> QED BY <1>1, <2>1 DEF BookRows, Edit, Edited
<1>3. /\ jobs' \in Seq(JobRows) /\ TokensFit(jobs') /\ Keeps(jobs, jobs')
      /\ \/ active = None
         \/ \E j \in DOMAIN jobs' : jobs'[j].model = active /\ Attended(jobs'[j])
  BY <1>1, <1>2, QueueLeft, EnqueuedAttends DEF Edit
<1>4. /\ vectors' \in [Models -> Nat] /\ worker' = worker /\ active' = active
      /\ activation' = activation /\ seeding' = seeding /\ worker \in [Workers -> Locals] BY DEF Edit, EmbeddingInv
<1> QED BY <1>3, <1>4, <1>2, BookLeft, InvKept DEF NothingForgotten, Attended

LEMMA ActivateStep ==
  ASSUME EmbeddingInv, NEW m \in Models, Activate(m), NothingForgotten \/ Seedable
  PROVE  EmbeddingInv' /\ (NothingForgotten' \/ Seedable)
<1>1. book \in BookRows /\ active \in Models \cup {None} /\ book.rev \in Nat \ {0} BY BookLeft DEF BookRows
<1>2. /\ vectors' = vectors /\ worker' = worker /\ seeding' = seeding
      /\ worker \in [Workers -> Locals] BY DEF Activate, EmbeddingInv
<1>3. CASE book.model # m
  <2>1. /\ active' = m /\ book' = [book EXCEPT !.status = "stale"]
        /\ jobs' = Enqueued(jobs, m, book.rev) /\ activation' = activation BY <1>3 DEF Activate
  <2>2. /\ jobs' \in Seq(JobRows) /\ TokensFit(jobs') /\ Keeps(jobs, jobs')
        /\ \/ m = None
           \/ \E j \in DOMAIN jobs' : jobs'[j].model = m /\ Attended(jobs'[j])
    BY <1>1, <2>1, QueueLeft, EnqueuedAttends
  <2> QED BY <2>1, <2>2, <1>2, BookLeft, InvKept, <1>1 DEF NothingForgotten, Attended, BookRows
<1>4. CASE book.model = m
  <2>1. /\ activation' = {[model |-> m, rev |-> book.rev]}
        /\ active' = active /\ book' = book /\ jobs' = jobs BY <1>4 DEF Activate
  <2> QED BY <1>2, <2>1, QueueLeft, BookLeft, InvKept, <1>1 DEF NothingForgotten
<1> QED BY <1>3, <1>4

LEMMA CommitStep ==
  ASSUME EmbeddingInv, NEW a \in activation, CommitActivation(a)
  PROVE  EmbeddingInv' /\ NothingForgotten'
<1>1. a.model \in Models /\ a.rev \in Nat \ {0} BY BookLeft
<1>2. /\ jobs' \in Seq(JobRows) /\ TokensFit(jobs') /\ Keeps(jobs, jobs')
      /\ \/ a.model = None
         \/ \E j \in DOMAIN jobs' : jobs'[j].model = a.model /\ Attended(jobs'[j])
  BY <1>1, QueueLeft, EnqueuedAttends DEF CommitActivation
<1>3. /\ vectors' = vectors /\ worker' = worker /\ active' = a.model /\ book' = book
      /\ activation' \subseteq activation /\ seeding' = seeding
      /\ worker \in [Workers -> Locals] BY DEF CommitActivation, EmbeddingInv
<1> QED BY <1>2, <1>3, <1>1, BookLeft, InvKept DEF NothingForgotten, Attended

LEMMA SeedStep ==
  ASSUME EmbeddingInv, FindNoModel \/ ActivateDefault, NothingForgotten \/ Seedable
  PROVE  EmbeddingInv' /\ (NothingForgotten' \/ Seedable)
  BY QueueLeft, BookLeft, InvKept, EmbeddingAssumption DEF FindNoModel, ActivateDefault, EmbeddingInv

\* One row of the queue is rewritten.
LEMMA RowSet ==
  ASSUME EmbeddingInv, NEW j \in DOMAIN jobs, NEW row \in JobRows,
         jobs' = [jobs EXCEPT ![j] = row],
         row.model = jobs[j].model, row.rev = jobs[j].rev,
         (row.token # 0) = (row.status = "running")
  PROVE  /\ jobs' \in Seq(JobRows) /\ TokensFit(jobs') /\ Keeps(jobs, jobs')
         /\ DOMAIN jobs' = DOMAIN jobs /\ jobs'[j] = row
         /\ \A i \in DOMAIN jobs \ {j} : jobs'[i] = jobs[i]
  BY QueueLeft DEF TokensFit, Keeps

LEMMA RetryJobStep ==
  ASSUME EmbeddingInv, NEW j \in DOMAIN jobs, RetryJob(j), NothingForgotten \/ Seedable
  PROVE  EmbeddingInv' /\ (NothingForgotten' \/ Seedable)
<1>1. jobs[j] \in JobRows BY RowsAndLocals
<1> DEFINE row == [jobs[j] EXCEPT !.status = "retry", !.attempts = 0]
<1>2. /\ row \in JobRows /\ row.model = jobs[j].model /\ row.rev = jobs[j].rev
      /\ row.token = jobs[j].token /\ row.status = "retry"
  <2>1. 0 \in 0..MaxAttempts BY EmbeddingAssumption DEF EmbeddingAssumption
  <2> QED BY <1>1, <2>1 DEF JobRows, ActiveStatuses
<1>3. jobs' = [jobs EXCEPT ![j] = row] BY <1>1 DEF RetryJob, JobRows
<1>4. jobs[j].token = 0 BY <1>1, QueueLeft DEF RetryJob, Retryable, TokensFit, JobRows
<1> HIDE DEF row
<1>5. /\ jobs' \in Seq(JobRows) /\ TokensFit(jobs') /\ Keeps(jobs, jobs')
      /\ DOMAIN jobs' = DOMAIN jobs /\ jobs'[j] = row
      /\ \A i \in DOMAIN jobs \ {j} : jobs'[i] = jobs[i] BY <1>2, <1>3, <1>4, RowSet
<1>6. \A i \in DOMAIN jobs : Attended(jobs[i]) => Attended(jobs'[i])
  BY <1>2, <1>5 DEF Attended, IsActive, ActiveStatuses
<1> QED BY <1>5, <1>6, StillAttended, BookLeft, InvKept DEF RetryJob, EmbeddingInv

LEMMA ExpireStep ==
  ASSUME EmbeddingInv, NEW j \in DOMAIN jobs, Expire(j), NothingForgotten \/ Seedable
  PROVE  EmbeddingInv' /\ (NothingForgotten' \/ Seedable)
<1>1. jobs[j] \in JobRows BY RowsAndLocals
<1> DEFINE row == [jobs[j] EXCEPT !.live = FALSE]
<1>2. /\ row \in JobRows /\ row.model = jobs[j].model /\ row.rev = jobs[j].rev
      /\ row.token = jobs[j].token /\ row.status = jobs[j].status BY <1>1 DEF JobRows
<1>3. jobs' = [jobs EXCEPT ![j] = row] BY <1>1 DEF Expire, JobRows
<1> HIDE DEF row
<1>4. /\ jobs' \in Seq(JobRows) /\ TokensFit(jobs') /\ Keeps(jobs, jobs')
      /\ DOMAIN jobs' = DOMAIN jobs /\ jobs'[j] = row
      /\ \A i \in DOMAIN jobs \ {j} : jobs'[i] = jobs[i] BY <1>2, <1>3, RowSet, <1>1, QueueLeft DEF TokensFit
<1>5. \A i \in DOMAIN jobs : Attended(jobs[i]) => Attended(jobs'[i])
  BY <1>2, <1>4 DEF Attended, IsActive, ActiveStatuses
<1> QED BY <1>4, <1>5, StillAttended, BookLeft, InvKept DEF Expire, EmbeddingInv

-----------------------------------------------------------------------------
(* The workers *)

\* A step of a worker that rewrites rows without ending one for good: what it
\* leaves is kept, and nothing is forgotten.
LEMMA RowsStep ==
  ASSUME EmbeddingInv, NEW w \in Workers, NEW x \in Locals, Set(w, x), Agrees(x, jobs'),
         jobs' \in Seq(JobRows), TokensFit(jobs'), Keeps(jobs, jobs'),
         \A j \in DOMAIN jobs : Attended(jobs[j]) => Attended(jobs'[j]),
         UNCHANGED <<book, vectors, active, activation, seeding>>,
         NothingForgotten \/ Seedable
  PROVE  EmbeddingInv' /\ (NothingForgotten' \/ Seedable)
  BY StillAttended, BookLeft, InvKept, LocalsSet

\* A step of a worker that only sets its locals.
LEMMA LocalsStep ==
  ASSUME EmbeddingInv, NEW w \in Workers, NEW x \in Locals, Set(w, x), Agrees(x, jobs),
         UNCHANGED <<book, vectors, active, jobs, activation, seeding>>,
         NothingForgotten \/ Seedable
  PROVE  EmbeddingInv' /\ (NothingForgotten' \/ Seedable)
  BY LocalStep DEF NothingForgotten

\* The two statements of reclaim_expired that rewrite rows.
LEMMA ReclaimedRows ==
  ASSUME EmbeddingInv, NEW S, NEW status \in {"retry", "failed"},
         jobs' = [j \in DOMAIN jobs |-> IF j \in S THEN JobDropped(j, status)[j] ELSE jobs[j]]
  PROVE  /\ jobs' \in Seq(JobRows) /\ TokensFit(jobs') /\ Keeps(jobs, jobs')
         /\ \A j \in DOMAIN jobs : Attended(jobs[j]) => Attended(jobs'[j])
         /\ DOMAIN jobs' = DOMAIN jobs
<1>1. jobs \in Seq(JobRows) /\ TokensFit(jobs) BY QueueLeft
<1>2. \A j \in DOMAIN jobs : /\ jobs'[j] \in JobRows
                             /\ jobs'[j].model = jobs[j].model /\ jobs'[j].rev = jobs[j].rev
                             /\ (jobs'[j].token # 0) = (jobs'[j].status = "running")
                             /\ Attended(jobs[j]) => Attended(jobs'[j])
  <2> SUFFICES ASSUME NEW j \in DOMAIN jobs
               PROVE  /\ jobs'[j] \in JobRows
                      /\ jobs'[j].model = jobs[j].model /\ jobs'[j].rev = jobs[j].rev
                      /\ (jobs'[j].token # 0) = (jobs'[j].status = "running")
                      /\ Attended(jobs[j]) => Attended(jobs'[j]) OBVIOUS
  <2>1. CASE j \in S BY <2>1, <1>1, DroppedQueue DEF TokensFit, Keeps, Attended, IsActive, ActiveStatuses
  <2>2. CASE j \notin S BY <1>1, <2>2 DEF TokensFit
  <2> QED BY <2>1, <2>2
<1>3. PICK n \in Nat : jobs \in [1..n -> JobRows] BY <1>1, SeqDef
<1> QED BY <1>2, SeqDef, <1>3 DEF TokensFit, Keeps

LEMMA ReclaimExhaustedStep ==
  ASSUME EmbeddingInv, NEW w \in Workers, ReclaimExhausted(w), NothingForgotten \/ Seedable
  PROVE  EmbeddingInv' /\ (NothingForgotten' \/ Seedable)
<1>1. /\ jobs' \in Seq(JobRows) /\ TokensFit(jobs') /\ Keeps(jobs, jobs')
      /\ \A j \in DOMAIN jobs : Attended(jobs[j]) => Attended(jobs'[j])
      /\ DOMAIN jobs' = DOMAIN jobs BY ReclaimedRows DEF ReclaimExhausted
<1> DEFINE x == [NoJob EXCEPT !.pc = "fail_books", !.lost = Exhausted]
<1>2. Exhausted \subseteq DOMAIN jobs /\ Exhausted \subseteq Nat BY RowsAndLocals DEF Exhausted, ExpiredJobs
<1>3. x \in Locals /\ x.pc = "fail_books" /\ x.lost = Exhausted /\ x.job = 0 BY <1>2, AtRest DEF Locals, NoJob
<1>4. Set(w, x) /\ UNCHANGED <<book, vectors, active, activation, seeding>> BY DEF ReclaimExhausted
<1> HIDE DEF x
<1> QED BY <1>1, <1>3, <1>4, RowsStep, <1>2 DEF Agrees, BusyPcs

\* The second statement of a failure, which may find another revision or model.
LEMMA MarkedBook ==
  ASSUME EmbeddingInv, NEW j \in DOMAIN jobs, MarkFailed(j)
  PROVE  /\ book' \in BookRows /\ book'.rev = book.rev
         /\ book' = book \/ book'.status = "failed"
  BY BookLeft DEF MarkFailed, BookRows

\* A step of a worker that may mark the book as failed.
LEMMA BookStep ==
  ASSUME EmbeddingInv, NEW w \in Workers, NEW x \in Locals, Set(w, x), Agrees(x, jobs),
         NEW j \in DOMAIN jobs, MarkFailed(j),
         UNCHANGED <<vectors, active, jobs, activation, seeding>>,
         NothingForgotten \/ Seedable
  PROVE  EmbeddingInv' /\ (NothingForgotten' \/ Seedable)
<1>1. /\ book' \in BookRows /\ book'.rev = book.rev
      /\ book' = book \/ book'.status = "failed" BY MarkedBook
<1>2. EmbeddingInv' BY <1>1, QueueLeft, BookLeft, InvKept, LocalsSet
<1> QED BY <1>1, <1>2 DEF NothingForgotten

LEMMA FailBooksStep ==
  ASSUME EmbeddingInv, NEW w \in Workers, FailBooks(w), NothingForgotten \/ Seedable
  PROVE  EmbeddingInv' /\ (NothingForgotten' \/ Seedable)
<1>1. PICK j \in worker[w].lost :
        MarkFailed(j) /\ Set(w, [worker[w] EXCEPT !.lost = @ \ {j}]) BY DEF FailBooks
<1>2. worker[w] \in Locals /\ Agrees(worker[w], jobs) BY RowsAndLocals
<1> DEFINE x == [worker[w] EXCEPT !.lost = worker[w].lost \ {j}]
<1>3. /\ x \in Locals /\ x.pc = worker[w].pc /\ x.job = worker[w].job
      /\ x.seen = worker[w].seen /\ x.lost \subseteq worker[w].lost BY <1>2 DEF Locals
<1>4. Set(w, x) /\ j \in DOMAIN jobs BY <1>1, <1>2 DEF Agrees
<1> HIDE DEF x
<1>5. UNCHANGED <<vectors, active, jobs, activation, seeding>> BY DEF FailBooks
<1> QED BY <1>1, <1>3, <1>4, <1>5, BookStep, <1>2 DEF Agrees

LEMMA ReclaimOthersStep ==
  ASSUME EmbeddingInv, NEW w \in Workers, ReclaimOthers(w), NothingForgotten \/ Seedable
  PROVE  EmbeddingInv' /\ (NothingForgotten' \/ Seedable)
<1> DEFINE S == {j \in DOMAIN jobs : j \in ExpiredJobs /\ jobs[j].attempts < MaxAttempts}
<1>1. jobs' = [j \in DOMAIN jobs |-> IF j \in S THEN JobDropped(j, "retry")[j] ELSE jobs[j]] BY DEF ReclaimOthers
<1>2. /\ jobs' \in Seq(JobRows) /\ TokensFit(jobs') /\ Keeps(jobs, jobs')
      /\ \A j \in DOMAIN jobs : Attended(jobs[j]) => Attended(jobs'[j])
      /\ DOMAIN jobs' = DOMAIN jobs
  <2> HIDE DEF S
  <2> QED BY <1>1, ReclaimedRows
<1>3. worker[w] \in Locals /\ Agrees(worker[w], jobs) BY RowsAndLocals
<1> DEFINE x == [worker[w] EXCEPT !.pc = "claim"]
<1>4. /\ x \in Locals /\ x.pc = "claim" /\ x.job = worker[w].job
      /\ x.lost = worker[w].lost BY <1>3 DEF Locals
<1>5. Set(w, x) /\ UNCHANGED <<book, vectors, active, activation, seeding>> BY DEF ReclaimOthers, Goto
<1> HIDE DEF x
<1> QED BY <1>2, <1>4, <1>5, RowsStep, <1>3 DEF Agrees, BusyPcs

LEMMA ClaimStep ==
  ASSUME EmbeddingInv, NEW w \in Workers, Claim(w), NothingForgotten \/ Seedable
  PROVE  EmbeddingInv' /\ (NothingForgotten' \/ Seedable)
<1>1. UNCHANGED <<book, vectors, active, activation, seeding>> BY DEF Claim
<1>2. CASE Set(w, NoJob) /\ UNCHANGED jobs BY <1>1, <1>2, AtRest, LocalsStep
<1>3. ASSUME NEW j \in DOMAIN jobs, Claimable(j),
             jobs' = [jobs EXCEPT ![j].status = "running", ![j].attempts = @ + 1,
                                  ![j].claims = @ + 1, ![j].token = jobs[j].claims + 1,
                                  ![j].live = TRUE],
             Set(w, [NoJob EXCEPT !.pc = "revision", !.job = j,
                                 !.token = jobs[j].claims + 1,
                                 !.attempts = jobs[j].attempts + 1])
      PROVE  EmbeddingInv' /\ (NothingForgotten' \/ Seedable)
  <2>1. jobs[j] \in JobRows /\ j \in Nat \ {0} BY RowsAndLocals
  <2>2. /\ jobs[j].claims + 1 \in Nat \ {0} /\ jobs[j].claims + 1 \in Nat
        /\ jobs[j].attempts + 1 \in 0..MaxAttempts
    BY <1>3, <2>1, EmbeddingAssumption DEF JobRows, Claimable, EmbeddingAssumption
  <2> DEFINE row == [jobs[j] EXCEPT !.status = "running", !.attempts = jobs[j].attempts + 1,
                                    !.claims = jobs[j].claims + 1,
                                    !.token = jobs[j].claims + 1, !.live = TRUE]
  <2>3. /\ row \in JobRows /\ row.model = jobs[j].model /\ row.rev = jobs[j].rev
        /\ row.token # 0 /\ row.status = "running" BY <2>1, <2>2 DEF JobRows, ActiveStatuses
  <2>4. jobs' = [jobs EXCEPT ![j] = row] BY <1>3, <2>1 DEF JobRows
  <2> DEFINE x == [NoJob EXCEPT !.pc = "revision", !.job = j,
                               !.token = jobs[j].claims + 1,
                               !.attempts = jobs[j].attempts + 1]
  <2>5. x \in Locals /\ x.pc = "revision" /\ x.job = j /\ x.lost = {} BY <2>1, <2>2, AtRest DEF Locals, NoJob, BusyPcs
  <2>6. Set(w, x) BY <1>3
  <2> HIDE DEF row, x
  <2>7. /\ jobs' \in Seq(JobRows) /\ TokensFit(jobs') /\ Keeps(jobs, jobs')
        /\ DOMAIN jobs' = DOMAIN jobs /\ jobs'[j] = row
        /\ \A i \in DOMAIN jobs \ {j} : jobs'[i] = jobs[i] BY <2>3, <2>4, RowSet
  <2> QED BY <1>1, <2>5, <2>6, <2>7, RowsStep, <2>3 DEF Attended, IsActive, ActiveStatuses, Agrees
<1> QED BY <1>2, <1>3 DEF Claim

LEMMA ReadRevisionStep ==
  ASSUME EmbeddingInv, NEW w \in Workers, ReadRevision(w), NothingForgotten \/ Seedable
  PROVE  EmbeddingInv' /\ (NothingForgotten' \/ Seedable)
<1>1. worker[w] \in Locals /\ Agrees(worker[w], jobs) BY RowsAndLocals
<1>2. book.rev \in Nat \ {0} BY BookLeft DEF BookRows
<1> DEFINE next == IF book.rev = JobOf(w).rev THEN "chunks" ELSE "stale"
           x == [worker[w] EXCEPT !.seen = book.rev, !.pc = next]
<1>3. next \in BusyPcs /\ (next = "stale" => book.rev # JobOf(w).rev) BY DEF BusyPcs
<1>4. Set(w, x) /\ UNCHANGED <<book, vectors, active, jobs, activation, seeding>> BY DEF ReadRevision
<1> HIDE DEF next
<1>5. /\ x \in Locals /\ x.pc = next /\ x.job = worker[w].job
      /\ x.lost = worker[w].lost /\ x.seen = book.rev BY <1>1, <1>2, <1>3 DEF Locals
<1> HIDE DEF x
<1> QED BY <1>4, <1>5, LocalsStep, <1>1, <1>2, <1>3 DEF Agrees, JobOf, ReadRevision, At, BusyPcs

\* A worker goes on to another statement of process, or to record_failure.
LEMMA WorkerGoesOn ==
  ASSUME EmbeddingInv, NEW w \in Workers, worker[w].pc \in BusyPcs,
         NEW pc \in BusyPcs \ {"stale"}, NEW chunks \in Nat, NEW left \in Int, NEW live \in BOOLEAN,
         Set(w, [worker[w] EXCEPT !.pc = pc, !.chunks = chunks, !.left = left, !.live = live]),
         UNCHANGED <<book, vectors, active, jobs, activation, seeding>>,
         NothingForgotten \/ Seedable
  PROVE  EmbeddingInv' /\ (NothingForgotten' \/ Seedable)
<1>1. worker[w] \in Locals /\ Agrees(worker[w], jobs) BY RowsAndLocals
<1> DEFINE x == [worker[w] EXCEPT !.pc = pc, !.chunks = chunks, !.left = left, !.live = live]
<1>2. x \in Locals /\ x.pc = pc /\ x.job = worker[w].job /\ x.lost = worker[w].lost BY <1>1 DEF Locals
<1>3. Set(w, x) OBVIOUS
<1> HIDE DEF x
<1> QED BY <1>2, <1>3, LocalsStep, <1>1 DEF Agrees

\* The statements of process that read and ask, and its failures.
LEMMA ProcessStep ==
  ASSUME EmbeddingInv, NEW w \in Workers, NothingForgotten \/ Seedable,
         ReadChunks(w) \/ EmbedBatch(w) \/ BeginPublish(w) \/ ProcessFails(w)
  PROVE  EmbeddingInv' /\ (NothingForgotten' \/ Seedable)
<1>1. worker[w] \in Locals BY RowsAndLocals
<1>2. Batches \in Int BY EmbeddingAssumption DEF EmbeddingAssumption
<1>3. /\ worker[w].chunks \in Nat /\ worker[w].left \in Int /\ worker[w].live \in BOOLEAN
      /\ worker[w].left - 1 \in Int BY <1>1 DEF Locals
<1>4. CASE ReadChunks(w)
  <2>1. /\ worker[w].pc \in BusyPcs /\ "batch" \in BusyPcs \ {"stale"}
        /\ UNCHANGED <<book, vectors, active, jobs, activation, seeding>> BY <1>4 DEF ReadChunks, At, BusyPcs
  <2>2. Set(w, [worker[w] EXCEPT !.pc = "batch", !.chunks = book.rev, !.left = Batches,
                                 !.live = worker[w].live]) BY <1>1, <1>4 DEF ReadChunks, Set, Locals
  <2> QED BY <1>2, <1>3, <2>1, <2>2, WorkerGoesOn, BookLeft DEF BookRows
<1>5. CASE EmbedBatch(w)
  <2> DEFINE next == IF worker[w].left > 1 THEN "batch" ELSE "begin"
  <2>1. /\ worker[w].pc \in BusyPcs /\ next \in BusyPcs \ {"stale"}
        /\ UNCHANGED <<book, vectors, active, jobs, activation, seeding>> BY <1>5 DEF EmbedBatch, At, BusyPcs
  <2>2. Set(w, [worker[w] EXCEPT !.left = @ - 1, !.pc = next]) BY <1>5 DEF EmbedBatch
  <2> HIDE DEF next
  <2>3. Set(w, [worker[w] EXCEPT !.pc = next, !.chunks = worker[w].chunks,
                                 !.left = worker[w].left - 1, !.live = worker[w].live]) BY <1>1, <2>2 DEF Set, Locals
  <2> QED BY <1>3, <2>1, <2>3, WorkerGoesOn
<1>6. CASE BeginPublish(w)
  <2> DEFINE live == Holds(w) /\ JobOf(w).live
  <2>1. /\ worker[w].pc \in BusyPcs /\ "publish" \in BusyPcs \ {"stale"}
        /\ UNCHANGED <<book, vectors, active, jobs, activation, seeding>> BY <1>6 DEF BeginPublish, At, BusyPcs
  <2>2. live \in BOOLEAN /\ Set(w, [worker[w] EXCEPT !.live = live, !.pc = "publish"])
    BY <1>6, RowsAndLocals, <2>1 DEF BeginPublish, JobOf, Holds, JobRows, Agrees
  <2> HIDE DEF live
  <2>3. Set(w, [worker[w] EXCEPT !.pc = "publish", !.chunks = worker[w].chunks,
                                 !.left = worker[w].left, !.live = live]) BY <1>1, <2>2 DEF Set, Locals
  <2> QED BY <1>3, <2>1, <2>2, <2>3, WorkerGoesOn
<1>7. CASE ProcessFails(w)
  <2>1. Set(w, [worker[w] EXCEPT !.pc = "failure", !.chunks = worker[w].chunks,
                                 !.left = worker[w].left, !.live = worker[w].live])
    BY <1>1, <1>7 DEF ProcessFails, Goto, Set, Locals
  <2> QED BY <1>3, <2>1, WorkerGoesOn, <1>7 DEF ProcessFails, BusyPcs
<1> QED BY <1>4, <1>5, <1>6, <1>7

\* A job that is given up because its book was edited: the row that
\* enqueue_book finds in place is of the revision seen, never the one canceled.
LEMMA CancelStaleStep ==
  ASSUME EmbeddingInv, NEW w \in Workers, CancelStale(w)
  PROVE  EmbeddingInv' /\ NothingForgotten'
<1> DEFINE canceled == IF Holds(w) THEN JobDropped(worker[w].job, "canceled") ELSE jobs
<1>1. /\ jobs' = Enqueued(canceled, active, worker[w].seen) /\ Set(w, NoJob)
      /\ UNCHANGED <<book, vectors, active, activation, seeding>>
      /\ worker[w].pc = "stale" BY DEF CancelStale, At
<1>2. /\ worker[w].job \in DOMAIN jobs /\ worker[w].seen \in Nat \ {0}
      /\ worker[w].seen # jobs[worker[w].job].rev BY <1>1, RowsAndLocals DEF Agrees, BusyPcs, Locals
<1>3. active \in Models \cup {None} BY BookLeft
<1>4. /\ canceled \in Seq(JobRows) /\ TokensFit(canceled) /\ Keeps(jobs, canceled)
      /\ \A j \in DOMAIN jobs : jobs[j].rev = worker[w].seen => canceled[j] = jobs[j]
  <2>1. CASE Holds(w) BY <2>1, <1>2, QueueLeft, DroppedQueue
  <2>2. CASE ~Holds(w) BY <2>2, QueueLeft
  <2> QED BY <2>1, <2>2
<1> HIDE DEF canceled
<1>5. /\ jobs' \in Seq(JobRows) /\ TokensFit(jobs') /\ Keeps(jobs, jobs')
      /\ \/ active = None
         \/ \E j \in DOMAIN jobs' : jobs'[j].model = active /\ Attended(jobs'[j])
  BY <1>1, <1>2, <1>3, <1>4, EnqueuedAttends, ZenonT(40)
<1> QED BY <1>1, <1>5, BookLeft, InvKept, AtRest, LocalsSet DEF NothingForgotten, Attended

\* A completed job of the active model leaves its vectors, one of another
\* model leaves the active model's job alone.
LEMMA PublishStep ==
  ASSUME EmbeddingInv, NEW w \in Workers, NEW ack \in BOOLEAN, Publish(w, ack),
         NothingForgotten \/ Seedable
  PROVE  EmbeddingInv' /\ (NothingForgotten' \/ Seedable)
<1> DEFINE j == worker[w].job
           m == jobs[j].model
<1>1. /\ worker[w] \in Locals /\ Agrees(worker[w], jobs) /\ worker[w].pc = "publish"
      /\ j \in DOMAIN jobs /\ jobs[j] \in JobRows BY RowsAndLocals DEF Publish, At, Agrees, BusyPcs
<1>2. m \in Models BY <1>1 DEF JobRows
<1>3. /\ book \in BookRows /\ book.rev \in Nat BY BookLeft DEF BookRows
<1>4. /\ vectors' = [vectors EXCEPT ![m] = book.rev]
      /\ jobs' = JobDropped(j, "completed")
      /\ book' = IF active = m THEN [book EXCEPT !.status = "ready", !.model = m] ELSE book
      /\ UNCHANGED <<active, activation, seeding>> BY DEF Publish, JobOf
<1>5. \E x \in Locals : Set(w, x) /\ x.job \in {0, j} /\ x.lost \subseteq DOMAIN jobs
                        /\ x.pc # "stale" /\ (x.pc \in BusyPcs => x.job = j)
  <2>1. CASE ack BY <2>1, AtRest DEF Publish, NoJob, BusyPcs
  <2>2. CASE ~ack
    <3> DEFINE x == [worker[w] EXCEPT !.pc = "failure"]
    <3>1. x \in Locals /\ x.pc = "failure" /\ x.job = j /\ x.lost = worker[w].lost BY <1>1 DEF Locals, BusyPcs
    <3>2. Set(w, x) BY <2>2 DEF Publish, Goto
    <3> HIDE DEF x
    <3> QED BY <3>1, <3>2, <1>1 DEF Agrees
  <2> QED BY <2>1, <2>2
<1> HIDE DEF j, m
<1>6. /\ jobs' \in Seq(JobRows) /\ TokensFit(jobs') /\ Keeps(jobs, jobs')
      /\ DOMAIN jobs' = DOMAIN jobs
      /\ \A i \in DOMAIN jobs \ {j} : jobs'[i] = jobs[i] BY <1>1, <1>4, QueueLeft, DroppedQueue
<1>7. /\ worker' \in [Workers -> Locals]
      /\ \A v \in Workers : worker'[v] = worker[v] \/ Agrees(worker'[v], jobs')
  <2>1. PICK x \in Locals : Set(w, x) /\ x.job \in {0, j} /\ x.lost \subseteq DOMAIN jobs
                            /\ x.pc # "stale" /\ (x.pc \in BusyPcs => x.job = j) BY <1>5
  <2> QED BY <2>1, LocalsSet, <1>1, <1>6 DEF Agrees
<1>8. /\ vectors' \in [Models -> Nat] /\ vectors'[m] = book.rev
      /\ \A n \in Models \ {m} : vectors'[n] = vectors[n] BY <1>2, <1>3, <1>4, BookLeft
<1>9. /\ book' \in BookRows /\ book'.rev = book.rev
      /\ \/ book' = book
         \/ book'.model = m BY <1>2, <1>3, <1>4 DEF BookRows
<1>10. book'.status = "ready" => book'.model \in Models /\ vectors'[book'.model] = book'.rev
  <2>1. CASE book' = book BY <2>1, <1>8, BookLeft
  <2>2. CASE book'.model = m BY <2>2, <1>2, <1>8, <1>9
  <2> QED BY <2>1, <2>2, <1>9
<1>11. ASSUME NothingForgotten PROVE NothingForgotten'
  <2> SUFFICES ASSUME active # None, vectors'[active] # book.rev
               PROVE  \E i \in DOMAIN jobs' : jobs'[i].model = active /\ Attended(jobs'[i])
    BY <1>4, <1>9 DEF NothingForgotten, Attended
  <2>1. active \in Models \ {m} BY <1>8, BookLeft
  <2>2. PICK i \in DOMAIN jobs : jobs[i].model = active /\ Attended(jobs[i])
    BY <1>11, <1>8, <2>1 DEF NothingForgotten, Attended
  <2> QED BY <2>2, <1>6, <2>1 DEF m
<1> QED BY <1>11, <1>4, <1>6, <1>7, <1>8, <1>9, <1>10, BookLeft, InvKept

LEMMA RecordFailureStep ==
  ASSUME EmbeddingInv, NEW w \in Workers, NEW retryable \in BOOLEAN, RecordFailure(w, retryable),
         NothingForgotten \/ Seedable
  PROVE  EmbeddingInv' /\ (NothingForgotten' \/ Seedable)
<1>1. /\ worker[w] \in Locals /\ Agrees(worker[w], jobs) /\ worker[w].pc = "failure"
      /\ worker[w].job \in DOMAIN jobs
      /\ UNCHANGED <<book, vectors, active, activation, seeding>>
  BY RowsAndLocals DEF RecordFailure, At, Agrees, BusyPcs
<1> DEFINE final == ~retryable \/ worker[w].attempts >= MaxAttempts
           status == IF final THEN "failed" ELSE "retry"
           x == [worker[w] EXCEPT !.pc = "fail_book"]
<1>2. CASE Holds(w)
  <2>1. jobs' = JobDropped(worker[w].job, status) /\ (Set(w, x) \/ Set(w, NoJob)) BY <1>2 DEF RecordFailure, Goto
  <2>2. status \in {"failed", "retry"} OBVIOUS
  <2>3. x \in Locals /\ x.pc = "fail_book" /\ x.job = worker[w].job /\ x.lost = worker[w].lost
    BY <1>1 DEF Locals, BusyPcs
  <2> HIDE DEF status, x
  <2>4. /\ jobs' \in Seq(JobRows) /\ TokensFit(jobs') /\ Keeps(jobs, jobs')
        /\ DOMAIN jobs' = DOMAIN jobs /\ jobs'[worker[w].job].status = status
        /\ \A i \in DOMAIN jobs \ {worker[w].job} : jobs'[i] = jobs[i] BY <1>1, <2>1, <2>2, QueueLeft, DroppedQueue
  <2> QED BY <1>1, <2>1, <2>3, <2>4, AtRest, RowsStep, <2>2 DEF Attended, IsActive, ActiveStatuses, Agrees
<1>3. CASE ~Holds(w) BY <1>1, AtRest, LocalsStep, <1>3 DEF RecordFailure
<1> QED BY <1>2, <1>3

LEMMA FailBookStep ==
  ASSUME EmbeddingInv, NEW w \in Workers, FailBook(w), NothingForgotten \/ Seedable
  PROVE  EmbeddingInv' /\ (NothingForgotten' \/ Seedable)
  BY AtRest, BookStep, RowsAndLocals DEF FailBook, At, Agrees, BusyPcs

\* A crash, or a statement of the loop that fails.
LEMMA CrashStep ==
  ASSUME EmbeddingInv, NEW w \in Workers, ReclaimFails(w) \/ Restart(w),
         NothingForgotten \/ Seedable
  PROVE  EmbeddingInv' /\ (NothingForgotten' \/ Seedable)
  BY AtRest, LocalsStep DEF ReclaimFails, Restart

-----------------------------------------------------------------------------

LEMMA EmbeddingInductive ==
  ASSUME EmbeddingInv, NothingForgotten \/ Seedable, [EmbeddingNext]_embeddingVars
  PROVE  EmbeddingInv' /\ (NothingForgotten' \/ Seedable)
<1>1. CASE Request BY <1>1, EditStep, ActivateStep, SeedStep, CommitStep, RetryJobStep DEF Request
<1>2. ASSUME NEW w \in Workers, Loop(w)
      PROVE  EmbeddingInv' /\ (NothingForgotten' \/ Seedable)
  BY <1>2, ReclaimExhaustedStep, FailBooksStep, ReclaimOthersStep, ClaimStep, ReadRevisionStep, CancelStaleStep,
    ProcessStep, PublishStep, RecordFailureStep, FailBookStep DEF Loop
<1>3. CASE UNCHANGED embeddingVars
  BY <1>3, QueueLeft, BookLeft, InvKept DEF embeddingVars, NothingForgotten, EmbeddingInv
<1> QED BY <1>1, <1>2, <1>3, CrashStep, ExpireStep DEF EmbeddingNext

\* Whatever edits, activations, crashes, expired leases and late workers do, a
\* running job has its lease token, every worker's job and every lost job is a
\* row, and a book that says "ready" has vectors of its current text for the
\* model it names (process, update_book, activate, reclaim_expired).
THEOREM BooksAndJobs == EmbeddingSpec => []JobsAndBooksAgree
<1>1. EmbeddingInit => EmbeddingInv /\ (NothingForgotten \/ Seedable) BY InitEmbedding
<1>2. EmbeddingInv /\ (NothingForgotten \/ Seedable) /\ [EmbeddingNext]_embeddingVars
        => EmbeddingInv' /\ (NothingForgotten \/ Seedable)' BY EmbeddingInductive
<1>3. EmbeddingInv => JobsAndBooksAgree BY BookLeft DEF EmbeddingInv, JobsAndBooksAgree, ReadyIsCurrent
<1> QED BY <1>1, <1>2, <1>3, PTL DEF EmbeddingSpec

\* On a server without the key of the default model, the current text of the
\* book always has vectors of the active model or a job that makes them,
\* whatever enqueue_book, cancel_stale, activate, retry_job and the workers do
\* at the same time.
THEOREM NoBookForgotten ==
  ASSUME ~Seedable
  PROVE  EmbeddingSpec => []NothingForgotten
<1>1. EmbeddingInit => EmbeddingInv /\ NothingForgotten BY InitEmbedding
<1>2. EmbeddingInv /\ NothingForgotten /\ [EmbeddingNext]_embeddingVars
        => EmbeddingInv' /\ NothingForgotten' BY EmbeddingInductive
<1> QED BY <1>1, <1>2, PTL DEF EmbeddingSpec
=============================================================================
