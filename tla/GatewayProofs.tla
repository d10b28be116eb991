--------------------------- MODULE GatewayProofs ---------------------------
(***************************************************************************)
(* Theorems about what lies between a run and the providers, for any       *)
(* number of clients, models, offers and lines: the rate limiter           *)
(* (RateLimiter), the routes and budgets of model requests                 *)
(* (ModelRegistry), the context of a run (RunContext) and the streams of   *)
(* the providers (ProviderStream).  What is folded over a list, summed or  *)
(* picked from it comes first.                                             *)
(*                                                                         *)
(* LimiterInv: every hit that was admitted is still counted for every      *)
(* window that starts now or later.  RegistryInv: the budget of a turn     *)
(* fits the window of the model it asks and of every model it may fall     *)
(* back to.  ContextInv: the newest message and enough of the others are   *)
(* in the context, and the offers are the ones that were built.            *)
(* StreamInv: what was parsed is what the executor saw, what is queued for *)
(* it and the data lines at hand, and a stream that is over has an error   *)
(* at the head of its queue or the end of a whole answer.                  *)
(***************************************************************************)
EXTENDS RateLimiter, ModelRegistry, RunContext, ProviderStream, ListOps, Functions,
        FiniteSetTheorems, SequenceTheorems, WellFoundedInduction, TLAPS

(***************************************************************************)
(* Sums, picked lists and sequences                                        *)
(***************************************************************************)
\* The least number of a set, as a witness.
LEMMA LeastOfNumbers ==
  ASSUME NEW S, S \subseteq Nat, S # {}
  PROVE  \E n \in S : \A m \in S : n <= m
<1> DEFINE R == OpToRel(<, Nat)
<1>1. IsWellFoundedOn(R, Nat) BY NatLessThanWellFounded
<1> HIDE DEF R
<1>2. PICK n \in S : \A m \in S : ~(<<m, n>> \in R) BY <1>1, WFMin
<1>3. \A m \in S : ~(m < n) BY <1>2 DEF R, OpToRel
<1>4. \A m \in S : n <= m BY <1>3
<1> QED BY <1>4

\* What holds at the first number of a stretch, and at the next one whenever it
\* holds at a number, holds everywhere in it.
LEMMA UpTheStretch ==
  ASSUME NEW a \in Nat, NEW b \in Nat, NEW G, a \in G,
         \A k \in (a + 1) .. b : k - 1 \in G => k \in G
  PROVE  \A k \in a .. b : k \in G
<1> DEFINE Missed == {k \in a .. b : k \notin G}
<1>1. SUFFICES Missed = {} OBVIOUS
<1>2. SUFFICES ASSUME Missed # {} PROVE FALSE OBVIOUS
<1>3. Missed \subseteq Nat OBVIOUS
<1>4. PICK k \in Missed : \A m \in Missed : k <= m
  <2> HIDE DEF Missed
  <2> QED BY <1>2, <1>3, LeastOfNumbers
<1>5. k \in a .. b /\ k \notin G /\ k # a BY <1>4
<1>6. k \in (a + 1) .. b /\ k - 1 \in a .. b /\ ~(k <= k - 1) BY <1>5
<1>7. k - 1 \notin Missed
  <2> HIDE DEF Missed
  <2> QED BY <1>4, <1>6
<1> QED BY <1>5, <1>6, <1>7

-----------------------------------------------------------------------------
(* Sums *)

\* Of some subsets of a finite set, one that has no smaller one among them:
\* without the element a fold takes first it is not one of them any more.
LEMMA SmallestSubset ==
  ASSUME NEW D, IsFiniteSet(D), NEW Wrong, Wrong \subseteq SUBSET D, Wrong # {}
  PROVE  \E s \in Wrong : \A x \in s : s \ {x} \notin Wrong
<1>1. \A s \in Wrong : IsFiniteSet(s) /\ Cardinality(s) \in Nat BY FS_Subset, FS_CardinalityType
<1> DEFINE sizes == {Cardinality(s) : s \in Wrong}
<1>2. sizes \subseteq Nat /\ sizes # {} BY <1>1
<1>3. PICK n \in sizes : \A m \in sizes : n <= m BY <1>2, LeastOfNumbers
<1>4. PICK s \in Wrong : n = Cardinality(s) OBVIOUS
<1>5. ASSUME NEW x \in s, s \ {x} \in Wrong PROVE FALSE
  <2>1. Cardinality(s \ {x}) = Cardinality(s) - 1 BY <1>1, FS_RemoveElement
  <2>2. n <= Cardinality(s \ {x}) BY <1>3, <1>5
  <2> QED BY <1>1, <1>4, <2>1, <2>2
<1> QED BY <1>5

\* What the sum of a function is made of: the sums over the subsets of its
\* domain, each with the element that is taken first.
First(s) == CHOOSE x \in s : TRUE
SumsUp(f, g) ==
    g = [s \in SUBSET DOMAIN f |-> IF s = {} THEN 0 ELSE f[First(s)] + g[s \ {First(s)}]]

LEMMA SumsAreNumbers ==
  ASSUME NEW D, IsFiniteSet(D), NEW f \in [D -> Nat], NEW g, SumsUp(f, g)
  PROVE  \A s \in SUBSET D : g[s] \in Nat
<1> DEFINE Wrong == {s \in SUBSET D : g[s] \notin Nat}
<1> SUFFICES ASSUME Wrong # {} PROVE FALSE OBVIOUS
<1>1. PICK s \in Wrong : \A x \in s : s \ {x} \notin Wrong BY SmallestSubset
<1>2. s # {} BY DEF SumsUp
<1>3. First(s) \in s BY <1>2 DEF First
<1>4. g[s] = f[First(s)] + g[s \ {First(s)}] BY <1>2 DEF SumsUp
<1>5. f[First(s)] \in Nat BY <1>3
<1>6. g[s] \in Nat BY <1>4, <1>5, <1>1, <1>3
<1> QED BY <1>6

LEMMA SumsExist ==
  ASSUME NEW D, IsFiniteSet(D), NEW f \in [D -> Nat]
  PROVE  \E g : SumsUp(f, g)
<1>1. \A s \in SUBSET D : IsFiniteSet(s) /\ Cardinality(s) \in Nat BY FS_Subset, FS_CardinalityType
<1> DEFINE Small(n) == {s \in SUBSET D : Cardinality(s) <= n}
           Fits(n, g) == \A s \in Small(n) :
                           g[s] = IF s = {} THEN 0 ELSE f[First(s)] + g[s \ {First(s)}]
           Wrong == {n \in Nat : ~ \E g : Fits(n, g)}
<1>2. Wrong = {}
  <2> SUFFICES ASSUME Wrong # {} PROVE FALSE OBVIOUS
  <2>1. PICK n \in Wrong : \A m \in Wrong : n <= m BY LeastOfNumbers
  <2>2. n # 0
    <3>1. Fits(0, [s \in SUBSET D |-> 0]) BY <1>1, FS_EmptySet
    <3>2. 0 \notin Wrong BY <3>1
    <3> QED BY <3>2
  <2>3. n - 1 \in Nat /\ n - 1 \notin Wrong
    <3> HIDE DEF Wrong
    <3>1. n \in Nat BY DEF Wrong
    <3> QED BY <2>1, <2>2, <3>1
  <2>4. PICK g : Fits(n - 1, g) BY <2>3
  <2> DEFINE h == [s \in SUBSET D |-> IF s = {} THEN 0 ELSE f[First(s)] + g[s \ {First(s)}]]
  <2>5. ASSUME NEW s \in Small(n), s # {}
        PROVE  h[s] = f[First(s)] + h[s \ {First(s)}]
    <3>1. Cardinality(s \ {First(s)}) = Cardinality(s) - 1 BY <1>1, FS_RemoveElement, <2>5 DEF First
    <3>2. s \ {First(s)} \in Small(n - 1) BY <1>1, <2>3, <3>1
    <3> QED BY <2>5, <3>2, <2>4
  <2>6. h[{}] = 0 OBVIOUS
  <2> HIDE DEF h
  <2> QED BY <2>1, <2>5, <2>6
<1>3. PICK g : Fits(Cardinality(D), g) BY <1>2, FS_CardinalityType
<1> DEFINE h == [s \in SUBSET D |-> g[s]]
<1>4. ASSUME NEW s \in SUBSET D
      PROVE  h[s] = IF s = {} THEN 0 ELSE f[First(s)] + h[s \ {First(s)}] BY <1>3, FS_Subset
<1>5. h = [s \in SUBSET D |-> h[s]] OBVIOUS
<1> HIDE DEF h
<1> QED BY <1>4, <1>5 DEF SumsUp

LEMMA SumIsLast ==
  ASSUME NEW D, IsFiniteSet(D), NEW f \in [D -> Nat]
  PROVE  \E g : SumsUp(f, g) /\ SumFunction(f) = g[D]
<1>1. PICK g : SumsUp(f, g) BY SumsExist
<1> DEFINE it == CHOOSE g1 : SumsUp(f, g1)
<1>2. SumFunction(f) = it[D] BY DEF SumsUp, First, SumFunction, SumFunctionOnSet, FoldFunctionOnSet, MapThenFoldSet
<1> QED BY <1>2, <1>1

\* A part of a sum is the sum of the part.
LEMMA SumsAgree ==
  ASSUME NEW D, IsFiniteSet(D), NEW f \in [D -> Nat],
         NEW E, E \subseteq D, NEW e \in [E -> Nat], \A x \in E : e[x] = f[x],
         NEW a, SumsUp(f, a), NEW b, SumsUp(e, b)
  PROVE  \A s \in SUBSET E : a[s] = b[s]
<1> DEFINE Wrong == {s \in SUBSET E : a[s] # b[s]}
<1> SUFFICES ASSUME Wrong # {} PROVE FALSE OBVIOUS
<1>1. PICK s \in Wrong : \A x \in s : s \ {x} \notin Wrong BY SmallestSubset, FS_Subset
<1>2. s \in SUBSET E /\ s \in SUBSET D /\ a[s] # b[s] BY <1>1
<1>3. s # {} BY <1>2 DEF SumsUp
<1>4. PICK x \in s : x = First(s) BY <1>3 DEF First
<1>5. PICK t \in SUBSET E : t = s \ {x} /\ a[t] = b[t] BY <1>1, <1>2
<1>6. a[s] = f[x] + a[t] BY <1>2, <1>3, <1>4, <1>5 DEF SumsUp
<1>7. e[x] = f[x] BY <1>2
<1> QED BY <1>2, <1>5, <1>6, <1>7, <1>3, <1>4 DEF SumsUp

\* Any element of a set may be added last.
LEMMA AnyLast ==
  ASSUME NEW D, IsFiniteSet(D), NEW f \in [D -> Nat], NEW a, SumsUp(f, a)
  PROVE  \A s \in SUBSET D : \A w \in s : a[s] = f[w] + a[s \ {w}]
<1> DEFINE Wrong == {s \in SUBSET D : \E w \in s : a[s] # f[w] + a[s \ {w}]}
<1> SUFFICES ASSUME Wrong # {} PROVE FALSE OBVIOUS
<1>1. PICK s \in Wrong : \A x \in s : s \ {x} \notin Wrong BY SmallestSubset
<1>2. PICK w \in s : a[s] # f[w] + a[s \ {w}] BY <1>1
<1>3. s \in SUBSET D BY <1>1
<1>4. PICK x \in s : x = First(s) BY <1>2 DEF First
<1>5. a[s] = f[x] + a[s \ {x}] BY <1>3, <1>4 DEF SumsUp
<1>6. w # x BY <1>2, <1>4, <1>5
<1>7. a[s \ {w}] = f[x] + a[(s \ {w}) \ {x}] BY <1>1, <1>3, <1>6
<1>8. (s \ {x}) \ {w} = (s \ {w}) \ {x} /\ (s \ {x}) \ {w} \in SUBSET D BY <1>3
<1>9. PICK r \in SUBSET D : r = (s \ {x}) \ {w} BY <1>8
<1>10. f[x] + (f[w] + a[r]) = f[w] + (f[x] + a[r]) BY SumsAreNumbers, <1>3
<1> QED BY <1>2, <1>5, <1>7, <1>8, <1>9, <1>10, <1>1, <1>3, <1>6

\* The sum with one more summand.
LEMMA SumWith ==
  ASSUME NEW D, IsFiniteSet(D), NEW f \in [D -> Nat], NEW w \in D
  PROVE  /\ SumFunction(f) = f[w] + SumFunction([x \in D \ {w} |-> f[x]])
         /\ SumFunction([x \in D \ {w} |-> f[x]]) \in Nat
<1>1. PICK E : E = D \ {w} OBVIOUS
<1>2. PICK a : SumsUp(f, a) /\ SumFunction(f) = a[D] BY SumIsLast
<1>3. IsFiniteSet(E) /\ E \subseteq D BY <1>1, FS_Subset
<1> DEFINE e == [x \in E |-> f[x]]
<1>4. e \in [E -> Nat] /\ \A x \in E : e[x] = f[x] BY <1>3
<1> HIDE DEF e
<1>5. PICK b : SumsUp(e, b) /\ SumFunction(e) = b[E] BY <1>3, <1>4, SumIsLast
<1>6. a[D] = f[w] + a[D \ {w}] BY <1>2, AnyLast
<1>7. b[E] \in Nat BY <1>3, <1>4, <1>5, SumsAreNumbers
<1>8. SumFunction(f) = f[w] + SumFunction(e) /\ SumFunction(e) \in Nat
  BY <1>1, <1>2, <1>5, <1>6, <1>7, <1>3, <1>4, SumsAgree
<1> QED BY <1>1, <1>8 DEF e

\* Sums of lists.
LEMMA SumOfAppended ==
  ASSUME NEW s \in Seq(Nat), NEW x \in Nat
  PROVE  SumFunction(Append(s, x)) = SumFunction(s) + x /\ SumFunction(s) \in Nat
<1>1. Append(s, x) \in Seq(Nat) OBVIOUS
<1>2. PICK t \in Seq(Nat) : t = Append(s, x) BY <1>1
<1>3. PICK n \in Nat : n = Len(s) OBVIOUS
<1>4. Len(t) = n + 1 /\ t[n + 1] = x /\ \A i \in 1 .. n : s[i] = t[i] BY <1>2, <1>3
<1>5. PICK D : D = 1 .. n + 1 OBVIOUS
<1>6. PICK E : E = 1 .. n OBVIOUS
<1>7. PICK w \in D : w = n + 1 BY <1>5
<1>8. IsFiniteSet(D) BY <1>5, FS_Interval
<1>9. t \in [D -> Nat] BY <1>4, <1>5, <1>2, LenProperties
<1>10. E = D \ {w} BY <1>5, <1>6, <1>7
<1>11. s = [i \in D \ {w} |-> t[i]] BY <1>3, <1>4, <1>6, <1>10
<1>12. /\ SumFunction(t) = t[w] + SumFunction([i \in D \ {w} |-> t[i]])
       /\ SumFunction([i \in D \ {w} |-> t[i]]) \in Nat BY <1>8, <1>9, SumWith
<1>13. SumFunction(t) = t[w] + SumFunction(s) /\ SumFunction(s) \in Nat BY <1>11, <1>12
<1>14. PICK sum \in Nat : sum = SumFunction(s) BY <1>13
<1> QED BY <1>2, <1>14, <1>4, <1>7, <1>13

LEMMA SumOfNone == SumFunction(<< >>) = 0
<1>1. << >> \in [{} -> Nat] /\ IsFiniteSet({}) BY FS_EmptySet
<1>2. PICK a : SumsUp(<< >>, a) /\ SumFunction(<< >>) = a[{}] BY <1>1, SumIsLast
<1> QED BY <1>2 DEF SumsUp

-----------------------------------------------------------------------------
(* Picked *)

\* How the members are picked, one place after the other.
PicksUp(u, s, I) ==
    /\ u[0] = << >>
    /\ \A k \in 1 .. Len(s) : u[k] = IF k \in I THEN Append(u[k - 1], s[k]) ELSE u[k - 1]

LEMMA PicksSomehow ==
  ASSUME NEW T, NEW s \in Seq(T), NEW I
  PROVE  \E u : PicksUp(u, s, I) /\ DOMAIN u = 0 .. Len(s)
<1> DEFINE n == Len(s)
           Upto(u, k) == /\ u[0] = << >>
                         /\ \A i \in 1 .. k : u[i] = IF i \in I THEN Append(u[i - 1], s[i]) ELSE u[i - 1]
           G == {k \in 0 .. n : \E u : DOMAIN u = 0 .. k /\ Upto(u, k)}
<1>1. n \in Nat OBVIOUS
<1>2. 0 \in G
  <2> DEFINE u == [i \in 0 .. 0 |-> << >>]
  <2>1. DOMAIN u = 0 .. 0 /\ Upto(u, 0) OBVIOUS
  <2>2. \E v : DOMAIN v = 0 .. 0 /\ Upto(v, 0) BY <2>1
  <2> QED BY <2>2, <1>1
<1>3. ASSUME NEW k \in (0 + 1) .. n, k - 1 \in G PROVE k \in G
  <2>1. PICK u : DOMAIN u = 0 .. (k - 1) /\ Upto(u, k - 1) BY <1>3
  <2>2. k \in Nat /\ k \in 0 .. n /\ 0 <= k - 1 /\ k - 1 \in Nat BY <1>1
  <2> DEFINE new == IF k \in I THEN Append(u[k - 1], s[k]) ELSE u[k - 1]
             g == [i \in 0 .. k |-> IF i = k THEN new ELSE u[i]]
  <2>3. \A i \in 0 .. (k - 1) : g[i] = u[i] BY <2>2
  <2>4. g[k] = new BY <2>2
  <2>5. DOMAIN g = 0 .. k OBVIOUS
  <2> HIDE DEF g
  <2>6. g[0] = << >> BY <2>1, <2>3, <2>2
  <2>7. ASSUME NEW i \in 1 .. k
        PROVE  g[i] = IF i \in I THEN Append(g[i - 1], s[i]) ELSE g[i - 1]
    <3>1. i - 1 \in 0 .. (k - 1) /\ g[i - 1] = u[i - 1] BY <2>2, <2>3
    <3>2. CASE i = k BY <2>4, <3>1, <3>2
    <3>3. CASE i # k BY <2>1, <3>1, <2>3, <2>2, <3>3
    <3> QED BY <3>2, <3>3
  <2> QED BY <2>2, <2>5, <2>6, <2>7
<1>4. n \in G
  <2> HIDE DEF G
  <2>1. \A k \in 0 .. n : k \in G BY <1>1, <1>2, <1>3, UpTheStretch
  <2> QED BY <2>1, <1>1
<1> QED BY <1>4 DEF PicksUp

LEMMA PickedIsLast ==
  ASSUME NEW T, NEW s \in Seq(T), NEW I
  PROVE  \E u : PicksUp(u, s, I) /\ Picked(s, I) = u[Len(s)]
<1> DEFINE n == Len(s)
           Is(f) == f = [i \in 0 .. n |-> IF i = 0 THEN << >>
                                          ELSE IF i \in I THEN Append(f[i - 1], s[i]) ELSE f[i - 1]]
<1>1. n \in Nat OBVIOUS
<1>2. PICK u : PicksUp(u, s, I) /\ DOMAIN u = 0 .. n BY PicksSomehow
<1> DEFINE h == [i \in 0 .. n |-> u[i]]
<1>3. \A i \in 0 .. n : h[i] = u[i] OBVIOUS
<1>4. h = [i \in 0 .. n |-> h[i]] OBVIOUS
<1> HIDE DEF h
<1>5. ASSUME NEW i \in 0 .. n
      PROVE  h[i] = IF i = 0 THEN << >>
                    ELSE IF i \in I THEN Append(h[i - 1], s[i]) ELSE h[i - 1]
  <2>1. CASE i = 0 BY <1>2, <1>3, <2>1 DEF PicksUp
  <2>2. CASE i # 0 BY <1>2, <2>2, <1>3, <1>1 DEF PicksUp
  <2> QED BY <2>1, <2>2
<1>6. Is(h) BY <1>4, <1>5
<1> DEFINE it == CHOOSE f : Is(f)
<1>7. Is(it)
  <2> HIDE DEF Is
  <2> QED BY <1>6
<1>8. Picked(s, I) = it[n] BY DEF Picked
<1> HIDE DEF it
<1>9. PicksUp(it, s, I)
  <2>1. 0 \in 0 .. n BY <1>1
  <2>2. \A i \in 1 .. n : i \in 0 .. n /\ i # 0 BY <1>1
  <2> QED BY <2>1, <2>2, <1>7 DEF PicksUp
<1> QED BY <1>8, <1>9

\* What holds of the empty list, and of a list with a member more whenever it
\* holds of the list, holds of all.
LEMMA ListsGrow ==
  ASSUME NEW T, NEW G, << >> \in G, \A s \in Seq(T) : \A x \in T : s \in G => Append(s, x) \in G
  PROVE  \A s \in Seq(T) : s \in G
<1> DEFINE sizes == {n \in Nat : \E s \in Seq(T) : s \notin G /\ Len(s) = n}
<1> SUFFICES ASSUME NEW s0 \in Seq(T), s0 \notin G PROVE FALSE OBVIOUS
<1>1. sizes \subseteq Nat /\ Len(s0) \in sizes OBVIOUS
<1>2. PICK n \in sizes : \A m \in sizes : n <= m
  <2> HIDE DEF sizes
  <2> QED BY <1>1, LeastOfNumbers
<1>3. PICK s \in Seq(T) : s \notin G /\ Len(s) = n BY <1>2
<1>4. n \in Nat /\ n # 0
  <2>1. CASE n = 0 BY <1>3, <2>1
  <2> QED BY <1>2, <2>1
<1> DEFINE r == [i \in 1 .. n - 1 |-> s[i]]
<1>5. r \in Seq(T) /\ Len(r) = n - 1 BY <1>3, <1>4
<1>6. s[n] \in T BY <1>3, <1>4
<1>7. s = Append(r, s[n])
  <2>1. \A i \in 1 .. n : Append(r, s[n])[i] = s[i] BY <1>4, <1>5
  <2> HIDE DEF r
  <2> QED BY <1>3, <2>1, <1>4, <1>5, <1>6
<1>8. r \notin G
  <2> HIDE DEF r
  <2> QED BY <1>3, <1>5, <1>6, <1>7
<1>9. n - 1 \in sizes
  <2> HIDE DEF r
  <2> QED BY <1>4, <1>5, <1>8
<1> HIDE DEF sizes
<1> QED BY <1>4, <1>2, <1>9

LEMMA PickedNone == ASSUME NEW I PROVE Picked(<< >>, I) = << >>
<1>1. << >> \in Seq({}) OBVIOUS
<1>2. PICK u : PicksUp(u, << >>, I) /\ Picked(<< >>, I) = u[Len(<< >>)] BY <1>1, PickedIsLast
<1> QED BY <1>2 DEF PicksUp

LEMMA PickedAppend ==
  ASSUME NEW T, NEW s \in Seq(T), NEW x \in T, NEW I
  PROVE  Picked(Append(s, x), I) = IF Len(s) + 1 \in I THEN Append(Picked(s, I), x) ELSE Picked(s, I)
<1>1. Append(s, x) \in Seq(T) OBVIOUS
<1>2. PICK t \in Seq(T) : t = Append(s, x) BY <1>1
<1>3. PICK n \in Nat : n = Len(s) OBVIOUS
<1>4. Len(t) = n + 1 /\ t[n + 1] = x /\ \A i \in 1 .. n : t[i] = s[i] BY <1>2, <1>3
<1>5. PICK u : PicksUp(u, s, I) /\ Picked(s, I) = u[n] BY <1>3, PickedIsLast
<1>6. PICK v : PicksUp(v, t, I) /\ Picked(t, I) = v[n + 1] BY <1>4, PickedIsLast
<1>7. \A k \in 1 .. n + 1 : v[k] = IF k \in I THEN Append(v[k - 1], t[k]) ELSE v[k - 1] BY <1>4, <1>6 DEF PicksUp
<1> DEFINE G == {k \in 0 .. n : u[k] = v[k]}
<1>8. 0 \in G BY <1>3, <1>5, <1>6 DEF PicksUp
<1>9. ASSUME NEW k \in (0 + 1) .. n, k - 1 \in G PROVE k \in G
  <2>1. k \in 1 .. n /\ k \in 1 .. n + 1 /\ k \in 0 .. n BY <1>3
  <2>2. u[k] = v[k] BY <1>7, <2>1, <1>3, <1>5, <1>4, <1>9 DEF PicksUp
  <2> QED BY <2>1, <2>2
<1>10. n \in G
  <2> HIDE DEF G
  <2>1. \A k \in 0 .. n : k \in G BY <1>8, <1>9, UpTheStretch
  <2> QED BY <2>1
<1>11. v[n + 1] = IF n + 1 \in I THEN Append(v[n], x) ELSE v[n] BY <1>4, <1>7
<1> QED BY <1>2, <1>3, <1>5, <1>6, <1>10, <1>11

\* Where the members that are picked come from: f[j] is the place of the j-th.
PlacesOf(p, s, I, f) ==
    /\ f \in [1 .. Len(p) -> Nat]
    /\ \A j \in 1 .. Len(p) : f[j] \in 1 .. Len(s) /\ f[j] \in I /\ p[j] = s[f[j]]
    /\ \A j, k \in 1 .. Len(p) : j < k => f[j] < f[k]
    /\ \A i \in 1 .. Len(s) : i \in I => \E j \in 1 .. Len(p) : f[j] = i

LEMMA PickedInOrder ==
  ASSUME NEW T, NEW I
  PROVE  \A s \in Seq(T) : /\ Picked(s, I) \in Seq(T)
                           /\ \E f : PlacesOf(Picked(s, I), s, I, f)
<1> DEFINE G == {s \in Seq(T) : /\ Picked(s, I) \in Seq(T)
                                /\ \E f : PlacesOf(Picked(s, I), s, I, f)}
<1>1. << >> \in G
  <2>1. << >> \in Seq(T) /\ Picked(<< >>, I) = << >> BY PickedNone
  <2>2. PlacesOf(<< >>, << >>, I, << >>) BY DEF PlacesOf
  <2> QED BY <2>1, <2>2
<1>2. ASSUME NEW s \in Seq(T), NEW x \in T, s \in G PROVE Append(s, x) \in G
  <2>1. Append(s, x) \in Seq(T) OBVIOUS
  <2>2. PICK t \in Seq(T) : t = Append(s, x) BY <2>1
  <2>3. PICK n \in Nat : n = Len(s) OBVIOUS
  <2>4. Len(t) = n + 1 /\ t[n + 1] = x /\ \A i \in 1 .. n : t[i] = s[i] BY <2>2, <2>3
  <2>5. PICK p \in Seq(T) : p = Picked(s, I) BY <1>2
  <2>6. PICK f : PlacesOf(p, s, I, f) BY <1>2, <2>5
  <2>7. PICK m \in Nat : m = Len(p) OBVIOUS
  <2>8. /\ f \in [1 .. m -> Nat]
        /\ \A j \in 1 .. m : f[j] \in 1 .. n /\ f[j] \in I /\ p[j] = s[f[j]]
        /\ \A j, k \in 1 .. m : j < k => f[j] < f[k]
        /\ \A i \in 1 .. n : i \in I => \E j \in 1 .. m : f[j] = i BY <2>3, <2>6, <2>7 DEF PlacesOf
  <2>9. Picked(t, I) = IF n + 1 \in I THEN Append(p, x) ELSE p BY <2>2, <2>3, <2>5, PickedAppend
  <2>10. CASE n + 1 \notin I
    <3>1. PlacesOf(p, t, I, f)
      <4>1. \A j \in 1 .. m : f[j] \in 1 .. n + 1 /\ f[j] \in I /\ p[j] = t[f[j]] BY <2>4, <2>8
      <4>2. ASSUME NEW i \in 1 .. n + 1, i \in I PROVE \E j \in 1 .. m : f[j] = i
        <5>1. i \in 1 .. n BY <2>10, <4>2
        <5> QED BY <2>8, <4>2, <5>1
      <4> QED BY <2>4, <2>7, <2>8, <4>1, <4>2 DEF PlacesOf
    <3> QED BY <2>2, <2>9, <2>10, <3>1
  <2>11. CASE n + 1 \in I
    <3>1. Append(p, x) \in Seq(T) OBVIOUS
    <3>2. PICK q \in Seq(T) : q = Append(p, x) BY <3>1
    <3>3. Len(q) = m + 1 /\ q[m + 1] = x /\ \A j \in 1 .. m : q[j] = p[j] BY <2>7, <3>2
    <3> DEFINE g == [j \in 1 .. m + 1 |-> IF j = m + 1 THEN n + 1 ELSE f[j]]
    <3>4. g \in [1 .. m + 1 -> Nat] /\ g[m + 1] = n + 1 /\ \A j \in 1 .. m : g[j] = f[j] BY <2>8
    <3> HIDE DEF g
    <3>5. ASSUME NEW j \in 1 .. m + 1
          PROVE  g[j] \in 1 .. n + 1 /\ g[j] \in I /\ q[j] = t[g[j]]
      <4>1. CASE j = m + 1 BY <2>4, <2>11, <3>3, <3>4, <4>1
      <4>2. CASE j # m + 1
        <5>1. j \in 1 .. m BY <4>2
        <5>2. f[j] \in 1 .. n /\ f[j] \in I /\ p[j] = s[f[j]] BY <2>8, <5>1
        <5> QED BY <5>2, <2>4, <3>3, <3>4, <5>1
      <4> QED BY <4>1, <4>2
    <3>6. ASSUME NEW j \in 1 .. m + 1, NEW k \in 1 .. m + 1, j < k PROVE g[j] < g[k]
      <4>1. j \in 1 .. m /\ g[j] = f[j] /\ f[j] \in 1 .. n BY <2>8, <3>4, <3>6
      <4>2. CASE k = m + 1 BY <3>4, <4>1, <4>2
      <4>3. CASE k # m + 1 BY <2>8, <3>6, <4>1, <3>4, <4>3
      <4> QED BY <4>2, <4>3
    <3>7. ASSUME NEW i \in 1 .. n + 1, i \in I PROVE \E j \in 1 .. m + 1 : g[j] = i
      <4>1. CASE i = n + 1 BY <3>4, <4>1
      <4>2. CASE i # n + 1
        <5>1. PICK j \in 1 .. m : f[j] = i BY <2>8, <3>7, <4>2
        <5> QED BY <3>4, <5>1
      <4> QED BY <4>1, <4>2
    <3>8. PlacesOf(q, t, I, g) BY <2>4, <3>3, <3>4, <3>5, <3>6, <3>7 DEF PlacesOf
    <3> QED BY <2>2, <2>9, <2>11, <3>2, <3>8
  <2> QED BY <2>10, <2>11
<1>3. \A s \in Seq(T) : s \in G
  <2> HIDE DEF G
  <2> QED BY <1>1, <1>2, ListsGrow
<1> QED BY <1>3

\* Only the places that a list has matter.
LEMMA PickedSame ==
  ASSUME NEW T, NEW I, NEW J
  PROVE  \A s \in Seq(T) : (\A i \in 1 .. Len(s) : i \in I <=> i \in J) => Picked(s, I) = Picked(s, J)
<1> DEFINE G == {s \in Seq(T) : (\A i \in 1 .. Len(s) : i \in I <=> i \in J) => Picked(s, I) = Picked(s, J)}
<1>1. << >> \in G BY PickedNone
<1>2. ASSUME NEW s \in Seq(T), NEW x \in T, s \in G PROVE Append(s, x) \in G
  <2>1. Append(s, x) \in Seq(T) /\ Len(Append(s, x)) = Len(s) + 1 /\ Len(s) \in Nat OBVIOUS
  <2>2. ASSUME \A i \in 1 .. Len(s) + 1 : i \in I <=> i \in J
        PROVE  Picked(Append(s, x), I) = Picked(Append(s, x), J)
    <3>1. Picked(Append(s, x), I) = IF Len(s) + 1 \in I THEN Append(Picked(s, I), x) ELSE Picked(s, I) BY PickedAppend
    <3>2. Picked(Append(s, x), J) = IF Len(s) + 1 \in J THEN Append(Picked(s, J), x) ELSE Picked(s, J) BY PickedAppend
    <3> QED BY <3>1, <3>2, <2>1, <2>2, <1>2
  <2> QED BY <2>1, <2>2
<1>3. \A s \in Seq(T) : s \in G
  <2> HIDE DEF G
  <2> QED BY <1>1, <1>2, ListsGrow
<1> QED BY <1>3

(***************************************************************************)
(* RateLimiter                                                             *)
(***************************************************************************)
(* The rate limiter *)

SlotRow == Nat \X Nat

\* The hits of the slots from one time on.
HitsFrom(slots, x) == [i \in DOMAIN slots |-> IF slots[i][1] >= x THEN slots[i][2] ELSE 0]
HitsSince(slots, x) == SumFunction(HitsFrom(slots, x))

LEMMA HitsOfAppended ==
  ASSUME NEW s \in Seq(SlotRow), NEW q \in SlotRow, NEW x \in Nat
  PROVE  /\ HitsSince(s, x) \in Nat
         /\ HitsSince(Append(s, q), x) = HitsSince(s, x) + (IF q[1] >= x THEN q[2] ELSE 0)
<1>1. Append(s, q) \in Seq(SlotRow) OBVIOUS
<1>2. PICK t \in Seq(SlotRow) : t = Append(s, q) BY <1>1
<1>3. PICK n \in Nat : n = Len(s) OBVIOUS
<1>4. /\ Len(t) = n + 1 /\ t[n + 1] = q /\ DOMAIN t = 1 .. n + 1 /\ DOMAIN s = 1 .. n
      /\ \A i \in 1 .. n : t[i] = s[i] BY <1>2, <1>3
<1>5. PICK add \in Nat : add = IF q[1] >= x THEN q[2] ELSE 0 BY DEF SlotRow
<1> DEFINE f == HitsFrom(s, x)
           g == HitsFrom(t, x)
<1>6. f \in [1 .. n -> Nat] /\ \A i \in 1 .. n : s[i] \in SlotRow
  <2>1. \A i \in 1 .. n : s[i] \in SlotRow BY <1>4
  <2> QED BY <1>4, <2>1 DEF HitsFrom, SlotRow
<1>7. f \in Seq(Nat) /\ Len(f) = n
  <2> HIDE DEF f
  <2> QED BY <1>6
<1>8. g = Append(f, add)
  <2>1. Append(f, add) \in [1 .. n + 1 -> Nat] /\ Append(f, add)[n + 1] = add
        /\ \A i \in 1 .. n : Append(f, add)[i] = f[i]
    <3> HIDE DEF f
    <3>1. Append(f, add) \in Seq(Nat) /\ Len(Append(f, add)) = n + 1 BY <1>7
    <3>2. Append(f, add)[n + 1] = add /\ \A i \in 1 .. n : Append(f, add)[i] = f[i] BY <1>7
    <3> QED BY <3>1, <3>2, LenProperties
  <2>2. g \in [1 .. n + 1 -> Nat] BY <1>4 DEF HitsFrom, SlotRow
  <2>3. g[n + 1] = add BY <1>4, <1>5 DEF HitsFrom
  <2>4. \A i \in 1 .. n : g[i] = f[i] BY <1>4 DEF HitsFrom
  <2>5. \A i \in 1 .. n + 1 : g[i] = Append(f, add)[i]
    <3> HIDE DEF f, g
    <3> QED BY <2>1, <2>3, <2>4
  <2> HIDE DEF f, g
  <2> QED BY <2>1, <2>2, <2>5
<1> HIDE DEF f, g
<1> QED BY <1>2, <1>5, <1>8, <1>7, SumOfAppended DEF HitsSince, f, g

LEMMA HitsOfNone == ASSUME NEW x PROVE HitsSince(<< >>, x) = 0
  BY SumOfNone DEF HitsSince, HitsFrom

\* The slots that a window retains lose no hit of that window.
InWindow(s, start) == {i \in DOMAIN s : s[i][1] >= start}
LEMMA RetainedHits ==
  ASSUME NEW start \in Nat
  PROVE  \A s \in Seq(SlotRow) : \A x \in Nat :
            x >= start => HitsSince(Picked(s, InWindow(s, start)), x) = HitsSince(s, x)
<1> DEFINE G == {s \in Seq(SlotRow) : \A x \in Nat :
            x >= start => HitsSince(Picked(s, InWindow(s, start)), x) = HitsSince(s, x)}
<1>1. << >> \in G BY PickedNone
<1>2. ASSUME NEW s \in Seq(SlotRow), NEW q \in SlotRow, s \in G PROVE Append(s, q) \in G
  <2>1. Append(s, q) \in Seq(SlotRow) OBVIOUS
  <2>2. PICK t \in Seq(SlotRow) : t = Append(s, q) BY <2>1
  <2>3. PICK n \in Nat : n = Len(s) OBVIOUS
  <2>4. /\ Len(t) = n + 1 /\ t[n + 1] = q /\ DOMAIN t = 1 .. n + 1 /\ DOMAIN s = 1 .. n
        /\ \A i \in 1 .. n : t[i] = s[i] BY <2>2, <2>3
  <2> DEFINE I == InWindow(t, start)
             J == InWindow(s, start)
  <2>5. \A i \in 1 .. Len(s) : i \in I <=> i \in J BY <2>3, <2>4 DEF InWindow
  <2>6. n + 1 \in I <=> q[1] >= start BY <2>4 DEF InWindow
  <2> HIDE DEF I, J
  <2>7. PICK p \in Seq(SlotRow) : p = Picked(s, J) BY PickedInOrder
  <2>8. Picked(t, I) = IF q[1] >= start THEN Append(p, q) ELSE p
    BY <2>2, <2>3, <2>6, <2>7, PickedAppend, <2>5, PickedSame
  <2>9. ASSUME NEW x \in Nat, x >= start
        PROVE  HitsSince(Picked(t, I), x) = HitsSince(t, x)
    <3>1. HitsSince(p, x) = HitsSince(s, x) BY <1>2, <2>7, <2>9 DEF J
    <3>2. HitsSince(t, x) = HitsSince(s, x) + (IF q[1] >= x THEN q[2] ELSE 0) /\ HitsSince(s, x) \in Nat
      BY <2>2, HitsOfAppended
    <3>3. HitsSince(Append(p, q), x) = HitsSince(p, x) + (IF q[1] >= x THEN q[2] ELSE 0) BY HitsOfAppended
    <3>4. CASE q[1] >= start BY <2>8, <3>1, <3>2, <3>3, <3>4
    <3>5. CASE ~(q[1] >= start) BY <2>8, <3>1, <3>5, <3>2, <2>9 DEF SlotRow
    <3> QED BY <3>4, <3>5
  <2> QED BY <2>2, <2>9 DEF I
<1>3. \A s \in Seq(SlotRow) : s \in G
  <2> HIDE DEF G
  <2> QED BY <1>1, <1>2, ListsGrow
<1> QED BY <1>3

\* The hits of a later time are among those of an earlier one.
LEMMA FewerHitsLater ==
  ASSUME NEW x \in Nat, NEW y \in Nat, x <= y
  PROVE  \A s \in Seq(SlotRow) : HitsSince(s, y) <= HitsSince(s, x)
<1> DEFINE G == {s \in Seq(SlotRow) : HitsSince(s, y) <= HitsSince(s, x)}
<1>1. << >> \in G
  <2>1. HitsSince(<< >>, x) = 0 /\ HitsSince(<< >>, y) = 0 BY HitsOfNone
  <2> QED BY <2>1
<1>2. ASSUME NEW s \in Seq(SlotRow), NEW q \in SlotRow, s \in G PROVE Append(s, q) \in G
  <2>1. Append(s, q) \in Seq(SlotRow) OBVIOUS
  <2>2. PICK a \in Nat : a = HitsSince(s, x) BY HitsOfAppended
  <2>3. PICK b \in Nat : b = HitsSince(s, y) BY HitsOfAppended
  <2>4. b <= a BY <1>2, <2>2, <2>3
  <2>5. HitsSince(Append(s, q), x) = a + (IF q[1] >= x THEN q[2] ELSE 0) BY <2>2, HitsOfAppended
  <2>6. HitsSince(Append(s, q), y) = b + (IF q[1] >= y THEN q[2] ELSE 0) BY <2>3, HitsOfAppended
  <2>7. q[1] \in Nat /\ q[2] \in Nat BY DEF SlotRow
  <2>8. HitsSince(Append(s, q), y) <= HitsSince(Append(s, q), x) BY <2>4, <2>5, <2>6, <2>7
  <2> QED BY <2>1, <2>8
<1>3. \A s \in Seq(SlotRow) : s \in G
  <2> HIDE DEF G
  <2> QED BY <1>1, <1>2, ListsGrow
<1> QED BY <1>3

\* What the limiter keeps: every hit that it has let through in a window is
\* still in the slots of that window, for a window that begins now or later.
\* The times are those that the requests read, each no later than now and
\* read no longer before the hit than the longest wait.
AdmittedRow == Nat \X Nat
SlotOf(t) == (t \div Second) * Second
AdmittedFrom(adm, x) == {i \in DOMAIN adm : SlotOf(adm[i][1]) >= x}
Recent(adm, now, w) == {i \in DOMAIN adm : adm[i][1] + w >= now + (Second - 1)}
StartAt(now, w) == IF now > w THEN now - w ELSE 0

SlotsFit(now, slots) ==
    /\ slots \in Seq(SlotRow)
    /\ \A i \in DOMAIN slots : slots[i][1] % Second = 0 /\ slots[i][1] <= now /\ slots[i][2] >= 1
PassedFit(now, adm, wait) ==
    /\ adm \in Seq(AdmittedRow)
    /\ \A i \in DOMAIN adm : adm[i][1] <= now /\ adm[i][2] <= adm[i][1] + wait
AllCounted(slots, adm, start) ==
    \A x \in Nat : x >= start => Cardinality(AdmittedFrom(adm, x)) <= HitsSince(slots, x)
BucketFits(now, slots, adm, w, limit) ==
    /\ SlotsFit(now, slots)
    /\ AllCounted(slots, adm, StartAt(now, w))
    /\ Cardinality(Recent(adm, now, w)) <= limit
LimiterInv ==
    /\ clock \in Nat /\ hits \in Nat /\ waited \in Nat
    /\ DOMAIN buckets = Buckets /\ DOMAIN admitted = Buckets /\ DOMAIN login = Logins
    /\ \A a \in Logins : /\ login[a].read \in Nat /\ login[a].read <= clock /\ login[a].key \in Buckets
                         /\ login[a] = [at |-> login[a].at, key |-> login[a].key, read |-> login[a].read]
    /\ pruning.read \in Nat /\ pruning.read <= clock
    /\ pruning = [at |-> pruning.at, key |-> pruning.key, read |-> pruning.read]
    /\ \A b \in Buckets : /\ PassedFit(clock, admitted[b], waited)
                          /\ BucketFits(clock, buckets[b], admitted[b], WindowOfBucket(b), LimitOf(b))

LEMMA BucketConstants ==
  ASSUME NEW b \in Buckets
  PROVE  WindowOfBucket(b) \in Nat /\ LimitOf(b) \in Nat
  BY LimiterAssumption DEF LimitOf, WindowOfBucket

\* The slot of a time is a whole number of seconds, and less than one before it.
LEMMA SlotsRoundDown ==
  ASSUME NEW t \in Nat
  PROVE  /\ SlotOf(t) \in Nat /\ SlotOf(t) <= t /\ t <= SlotOf(t) + (Second - 1)
         /\ SlotOf(t) % Second = 0
<1>1. PICK s \in Nat : s = Second /\ s > 0 BY LimiterAssumption
<1>2. PICK q \in Nat : q = t \div s BY <1>1
<1>3. (q * s) % s = 0 BY <1>1
<1>4. SlotOf(t) = q * s BY <1>1, <1>2 DEF SlotOf
<1> QED BY <1>1, <1>3, <1>4, <1>2

LEMMA LimiterInitially == LimiterInit => LimiterInv
<1> SUFFICES ASSUME LimiterInit PROVE LimiterInv OBVIOUS
<1>1. ASSUME NEW b \in Buckets PROVE BucketFits(0, << >>, << >>, WindowOfBucket(b), LimitOf(b))
  <2>1. Cardinality({}) = 0 BY FS_EmptySet
  <2>2. ASSUME NEW x \in Nat PROVE Cardinality(AdmittedFrom(<< >>, x)) <= HitsSince(<< >>, x)
    <3>1. AdmittedFrom(<< >>, x) = {} /\ HitsSince(<< >>, x) = 0 BY HitsOfNone DEF AdmittedFrom
    <3>2. Cardinality(AdmittedFrom(<< >>, x)) = 0 BY <2>1, <3>1
    <3> QED BY <3>1, <3>2
  <2>3. Cardinality(Recent(<< >>, 0, WindowOfBucket(b))) <= LimitOf(b) BY <2>1, BucketConstants DEF Recent
  <2> QED BY <2>2, <2>3 DEF BucketFits, SlotsFit, AllCounted
<1>2. PassedFit(0, << >>, 0) BY DEF PassedFit
<1>3. Outside.read = 0 /\ Outside.key \in Buckets
      /\ Outside = [at |-> Outside.at, key |-> Outside.key, read |-> Outside.read] BY DEF Outside, Buckets
<1>4. clock = 0 /\ hits = 0 /\ waited = 0 /\ pruning = Outside
      /\ login = [a \in Logins |-> Outside] /\ buckets = [b \in Buckets |-> << >>]
      /\ admitted = [b \in Buckets |-> << >>] BY DEF LimiterInit
<1>5. /\ DOMAIN login = Logins /\ \A a \in Logins : login[a] = Outside
      /\ DOMAIN buckets = Buckets /\ \A b \in Buckets : buckets[b] = << >>
      /\ DOMAIN admitted = Buckets /\ \A b \in Buckets : admitted[b] = << >> BY <1>4
<1> HIDE DEF Outside
<1> QED BY <1>1, <1>2, <1>3, <1>4, <1>5 DEF LimiterInv

\* Time passes for a bucket, and waits grow longer.
LEMMA BucketWaits ==
  ASSUME NEW now \in Nat, NEW slots, NEW adm, NEW w \in Nat, NEW limit \in Nat, NEW wait \in Nat,
         PassedFit(now, adm, wait), BucketFits(now, slots, adm, w, limit)
  PROVE  BucketFits(now + 1, slots, adm, w, limit) /\ PassedFit(now + 1, adm, wait)
<1>1. /\ slots \in Seq(SlotRow) /\ adm \in Seq(AdmittedRow)
      /\ \A i \in DOMAIN slots : slots[i][1] % Second = 0 /\ slots[i][1] <= now /\ slots[i][2] >= 1
      /\ \A i \in DOMAIN adm : adm[i][1] <= now /\ adm[i][2] <= adm[i][1] + wait
  BY DEF BucketFits, SlotsFit, PassedFit
<1>2. \A i \in DOMAIN slots : slots[i] \in SlotRow BY <1>1
<1>3. \A i \in DOMAIN slots : slots[i][1] <= now + 1 BY <1>1, <1>2 DEF SlotRow
<1>4. \A i \in DOMAIN adm : adm[i] \in AdmittedRow BY <1>1
<1>5. \A i \in DOMAIN adm : adm[i][1] \in Nat /\ adm[i][1] <= now + 1 BY <1>1, <1>4 DEF AdmittedRow
<1>6. Cardinality(Recent(adm, now + 1, w)) <= limit
  <2>1. IsFiniteSet(Recent(adm, now, w)) BY FS_Subset, <1>1, FS_Interval DEF Recent
  <2>2. Cardinality(Recent(adm, now, w)) <= limit BY DEF BucketFits
  <2>3. Recent(adm, now + 1, w) \subseteq Recent(adm, now, w)
    <3>1. PICK d \in Nat : d = Second - 1 BY LimiterAssumption
    <3> QED BY <1>5, <3>1 DEF Recent
  <2>4. Cardinality(Recent(adm, now + 1, w)) <= Cardinality(Recent(adm, now, w))
        /\ IsFiniteSet(Recent(adm, now + 1, w)) BY <2>1, <2>3, FS_Subset
  <2>5. Cardinality(Recent(adm, now + 1, w)) \in Nat /\ Cardinality(Recent(adm, now, w)) \in Nat
    BY <2>1, <2>4, FS_CardinalityType
  <2> QED BY <2>2, <2>4, <2>5
<1>7. AllCounted(slots, adm, StartAt(now + 1, w))
  <2>1. \A x \in Nat : x >= StartAt(now + 1, w) => x >= StartAt(now, w) BY DEF StartAt
  <2> QED BY <2>1 DEF AllCounted, BucketFits
<1> QED BY <1>1, <1>3, <1>5, <1>6, <1>7 DEF BucketFits, SlotsFit, PassedFit

LEMMA WaitsGrow ==
  ASSUME NEW now \in Nat, NEW adm, NEW wait \in Nat, NEW more \in Nat, wait <= more, PassedFit(now, adm, wait)
  PROVE  PassedFit(now, adm, more)
<1>1. \A i \in DOMAIN adm : adm[i] \in AdmittedRow BY DEF PassedFit
<1>2. ASSUME NEW i \in DOMAIN adm PROVE adm[i][2] <= adm[i][1] + more
  <2>1. adm[i][1] \in Nat /\ adm[i][2] \in Nat BY <1>1 DEF AdmittedRow
  <2>2. adm[i][2] <= adm[i][1] + wait BY DEF PassedFit
  <2> QED BY <2>1, <2>2
<1> QED BY <1>2 DEF PassedFit

\* What a bucket retains, to one who read the clock some time ago.
LEMMA BucketRetains ==
  ASSUME NEW now \in Nat, NEW slots, NEW adm, NEW w \in Nat, NEW limit \in Nat, NEW read \in Nat,
         read <= now, BucketFits(now, slots, adm, w, limit)
  PROVE  BucketFits(now, Picked(slots, InWindow(slots, StartAt(read, w))), adm, w, limit)
<1>1. /\ slots \in Seq(SlotRow)
      /\ \A i \in DOMAIN slots : slots[i][1] % Second = 0 /\ slots[i][1] <= now /\ slots[i][2] >= 1
  BY DEF BucketFits, SlotsFit
<1>2. StartAt(read, w) \in Nat /\ StartAt(now, w) \in Nat /\ StartAt(read, w) <= StartAt(now, w) BY DEF StartAt
<1>3. PICK start \in Nat : start = StartAt(read, w) BY <1>2
<1>4. PICK I : I = InWindow(slots, start) OBVIOUS
<1>5. Picked(slots, I) \in Seq(SlotRow) /\ \E f : PlacesOf(Picked(slots, I), slots, I, f) BY <1>1, PickedInOrder
<1>6. PICK p \in Seq(SlotRow) : p = Picked(slots, I) BY <1>5
<1>7. PICK f : PlacesOf(p, slots, I, f) BY <1>5, <1>6
<1>8. DOMAIN slots = 1 .. Len(slots) /\ DOMAIN p = 1 .. Len(p) BY <1>1
<1>9. \A j \in DOMAIN p : f[j] \in DOMAIN slots /\ p[j] = slots[f[j]] BY <1>7, <1>8 DEF PlacesOf
<1>10. \A j \in DOMAIN p : p[j][1] % Second = 0 /\ p[j][1] <= now /\ p[j][2] >= 1 BY <1>1, <1>9
<1>11. ASSUME NEW x \in Nat, x >= StartAt(now, w) PROVE Cardinality(AdmittedFrom(adm, x)) <= HitsSince(p, x)
  <2>1. x >= start BY <1>2, <1>3, <1>11
  <2>2. HitsSince(p, x) = HitsSince(slots, x) BY <1>1, <1>4, <1>6, <2>1, RetainedHits
  <2> QED BY <1>11, <2>2 DEF BucketFits, AllCounted
<1>12. Cardinality(Recent(adm, now, w)) <= limit BY DEF BucketFits
<1> QED BY <1>3, <1>4, <1>6, <1>10, <1>11, <1>12 DEF BucketFits, SlotsFit, AllCounted

\* The slots with one hit more, in the slot of the second.
HitIn(slots, slot) ==
    IF slots # << >> /\ slots[Len(slots)][1] = slot
    THEN [slots EXCEPT ![Len(slots)] = <<slot, slots[Len(slots)][2] + 1>>]
    ELSE Append(slots, <<slot, 1>>)

LEMMA HitCounts ==
  ASSUME NEW s \in Seq(SlotRow), NEW slot \in Nat
  PROVE  /\ HitIn(s, slot) \in Seq(SlotRow)
         /\ \A x \in Nat : /\ HitsSince(s, x) \in Nat
                           /\ HitsSince(HitIn(s, slot), x) = HitsSince(s, x) + (IF slot >= x THEN 1 ELSE 0)
<1>1. CASE s # << >> /\ s[Len(s)][1] = slot
  <2>1. PICK n \in Nat : n = Len(s) OBVIOUS
  <2>2. n # 0 BY <1>1, <2>1
  <2>3. s[n] \in SlotRow /\ s[n][1] = slot BY <1>1, <2>1, <2>2
  <2>4. PICK h \in Nat : h = s[n][2] BY <2>3 DEF SlotRow
  <2>5. s[n] = <<slot, h>> BY <2>3, <2>4 DEF SlotRow
  <2> DEFINE r == [i \in 1 .. n - 1 |-> s[i]]
  <2>6. r \in Seq(SlotRow) /\ Len(r) = n - 1 /\ \A i \in 1 .. n - 1 : r[i] = s[i] BY <2>1, <2>2
  <2> HIDE DEF r
  <2>7. <<slot, h>> \in SlotRow /\ <<slot, h + 1>> \in SlotRow BY <2>4 DEF SlotRow
  <2>8. s = Append(r, <<slot, h>>)
    <3>1. PICK v \in SlotRow : v = <<slot, h>> BY <2>7
    <3>2. Append(r, v) \in Seq(SlotRow) BY <2>6
    <3>3. PICK a \in Seq(SlotRow) : a = Append(r, v) BY <3>2
    <3>4. Len(a) = n /\ \A i \in 1 .. n : a[i] = IF i = n THEN v ELSE r[i] BY <2>2, <2>6, <3>3
    <3>5. v = s[n] BY <3>1, <2>5
    <3>6. \A i \in 1 .. n : a[i] = s[i] BY <3>4, <3>5, <2>6
    <3>7. a = s BY <3>4, <3>6, <2>1
    <3> QED BY <3>1, <3>3, <3>7
  <2>9. HitIn(s, slot) = Append(r, <<slot, h + 1>>)
    <3>1. PICK v \in SlotRow : v = <<slot, h + 1>> BY <2>7
    <3>2. [s EXCEPT ![n] = v] \in Seq(SlotRow) /\ Append(r, v) \in Seq(SlotRow) BY <2>1, <2>2, <2>6
    <3>3. PICK a \in Seq(SlotRow) : a = [s EXCEPT ![n] = v] BY <3>2
    <3>4. PICK b \in Seq(SlotRow) : b = Append(r, v) BY <3>2
    <3>5. Len(b) = n /\ \A i \in 1 .. n : b[i] = IF i = n THEN v ELSE s[i] BY <2>2, <2>6, <3>4
    <3>6. a = b BY <3>5, <2>1, <2>2, <3>3
    <3> QED BY <3>1, <1>1, <2>1, <2>4, <3>3, <3>4, <3>6 DEF HitIn
  <2>10. Append(r, <<slot, h + 1>>) \in Seq(SlotRow) BY <2>6, <2>7
  <2>11. ASSUME NEW x \in Nat
         PROVE  /\ HitsSince(s, x) \in Nat
                /\ HitsSince(HitIn(s, slot), x) = HitsSince(s, x) + (IF slot >= x THEN 1 ELSE 0)
    <3>1. HitsSince(s, x) = HitsSince(r, x) + (IF slot >= x THEN h ELSE 0) BY <2>6, <2>7, <2>8, HitsOfAppended
    <3>2. PICK v \in SlotRow : v = <<slot, h + 1>> /\ v[1] = slot /\ v[2] = h + 1 BY <2>7
    <3>3. HitsSince(Append(r, v), x) = HitsSince(r, x) + (IF v[1] >= x THEN v[2] ELSE 0) BY <2>6, HitsOfAppended
    <3>4. HitsSince(HitIn(s, slot), x) = HitsSince(r, x) + (IF slot >= x THEN h + 1 ELSE 0) BY <2>9, <3>2, <3>3
    <3>5. PICK m \in Nat : m = HitsSince(r, x) BY <2>6, <2>7, HitsOfAppended
    <3>6. CASE slot >= x
      <4>1. m + h \in Nat /\ m + (h + 1) = (m + h) + 1 BY <2>4
      <4> QED BY <3>6, <4>1, <3>1, <3>4, <3>5
    <3>7. CASE ~(slot >= x) BY <2>4, <3>1, <3>4, <3>5, <3>7
    <3> QED BY <3>6, <3>7
  <2> QED BY <2>9, <2>10, <2>11
<1>2. CASE ~(s # << >> /\ s[Len(s)][1] = slot)
  <2>1. HitIn(s, slot) = Append(s, <<slot, 1>>) BY <1>2 DEF HitIn
  <2>2. <<slot, 1>> \in SlotRow BY DEF SlotRow
  <2>3. Append(s, <<slot, 1>>) \in Seq(SlotRow) BY <2>2
  <2>4. ASSUME NEW x \in Nat
        PROVE  /\ HitsSince(s, x) \in Nat
               /\ HitsSince(HitIn(s, slot), x) = HitsSince(s, x) + (IF slot >= x THEN 1 ELSE 0)
    BY <2>1, <2>2, HitsOfAppended
  <2> QED BY <2>1, <2>3, <2>4
<1> QED BY <1>1, <1>2

\* All hits of a list of slots are no fewer than those of a window.
LEMMA AllHits ==
  ASSUME NEW s \in Seq(SlotRow), NEW x \in Nat
  PROVE  TotalHits(s) \in Nat /\ HitsSince(s, x) \in Nat /\ HitsSince(s, x) <= TotalHits(s)
<1>1. \A i \in DOMAIN s : s[i] \in SlotRow OBVIOUS
<1>2. \A i \in DOMAIN s : s[i][1] >= 0 BY <1>1 DEF SlotRow
<1>3. TotalHits(s) = HitsSince(s, 0) BY <1>2 DEF TotalHits, HitsSince, HitsFrom
<1>4. <<0, 0>> \in SlotRow BY DEF SlotRow
<1>5. HitsSince(s, 0) \in Nat /\ HitsSince(s, x) \in Nat BY <1>4, HitsOfAppended
<1> QED BY <1>3, <1>5, FewerHitsLater

\* The slots after a hit with a time of before.
LEMMA SlotsAfterHit ==
  ASSUME NEW now \in Nat, NEW slots, NEW read \in Nat, read <= now, SlotsFit(now, slots)
  PROVE  SlotsFit(now, HitIn(slots, SlotOf(read)))
<1>1. /\ slots \in Seq(SlotRow)
      /\ \A i \in DOMAIN slots : slots[i][1] % Second = 0 /\ slots[i][1] <= now /\ slots[i][2] >= 1
  BY DEF SlotsFit
<1>2. SlotOf(read) \in Nat BY SlotsRoundDown
<1>3. PICK slot \in Nat : slot = SlotOf(read) BY <1>2
<1>4. slot <= now /\ slot % Second = 0 BY <1>3, SlotsRoundDown
<1>5. PICK n \in Nat : n = Len(slots) BY <1>1
<1>6. DOMAIN slots = 1 .. n /\ \A i \in 1 .. n : slots[i] \in SlotRow BY <1>1, <1>5
<1>7. PICK more \in Seq(SlotRow) : more = HitIn(slots, slot) BY <1>1, HitCounts
<1>8. ASSUME NEW i \in DOMAIN more
      PROVE  more[i][1] % Second = 0 /\ more[i][1] <= now /\ more[i][2] >= 1
  <2>1. CASE slots # << >> /\ slots[Len(slots)][1] = slot
    <3>1. n \in 1 .. n BY <1>1, <1>5, <2>1
    <3>2. PICK h \in Nat : h = slots[n][2] BY <1>6, <3>1 DEF SlotRow
    <3>3. PICK v : v = <<slot, h + 1>> OBVIOUS
    <3>4. v[1] = slot /\ v[2] >= 1 BY <3>2, <3>3
    <3>5. i \in 1 .. n /\ more[i] = IF i = n THEN v ELSE slots[i]
      BY <1>5, <1>6, <1>7, <2>1, <3>2, <3>3 DEF HitIn
    <3> QED BY <1>1, <1>4, <1>6, <3>4, <3>5
  <2>2. CASE ~(slots # << >> /\ slots[Len(slots)][1] = slot)
    <3>1. PICK v : v = <<slot, 1>> OBVIOUS
    <3>2. v[1] = slot /\ v[2] >= 1 /\ v \in SlotRow BY <3>1 DEF SlotRow
    <3>3. more = Append(slots, v) BY <1>7, <2>2, <3>1 DEF HitIn
    <3>4. i \in 1 .. n + 1 /\ more[i] = IF i = n + 1 THEN v ELSE slots[i] BY <1>1, <1>5, <3>2, <3>3
    <3>5. CASE i = n + 1 BY <1>4, <3>2, <3>4, <3>5
    <3>6. CASE i # n + 1
      <4>1. i \in 1 .. n BY <3>4, <3>6
      <4> QED BY <1>1, <1>6, <3>4, <3>6, <4>1
    <3> QED BY <3>5, <3>6
  <2> QED BY <2>1, <2>2
<1> QED BY <1>3, <1>7, <1>8 DEF SlotsFit

\* A hit in a bucket.  It is let through when there is room for it.
LEMMA BucketHit ==
  ASSUME NEW now \in Nat, NEW slots, NEW adm \in Seq(AdmittedRow), NEW w \in Nat, NEW limit \in Nat,
         NEW read \in Nat, read <= now, BucketFits(now, slots, adm, w, limit)
  PROVE  /\ BucketFits(now, HitIn(slots, SlotOf(read)), adm, w, limit)
         /\ TotalHits(HitIn(slots, SlotOf(read))) <= limit
              => BucketFits(now, HitIn(slots, SlotOf(read)), Append(adm, <<read, now>>), w, limit)
<1>1. slots \in Seq(SlotRow) BY DEF BucketFits, SlotsFit
<1>2. StartAt(now, w) \in Nat BY DEF StartAt
<1>3. PICK slot \in Nat : slot = SlotOf(read) BY SlotsRoundDown
<1>4. PICK start \in Nat : start = StartAt(now, w) BY <1>2
<1>5. PICK more \in Seq(SlotRow) : more = HitIn(slots, slot) BY <1>1, HitCounts
<1>6. SlotsFit(now, more) BY <1>3, <1>5, SlotsAfterHit DEF BucketFits
<1>7. \A x \in Nat : /\ HitsSince(slots, x) \in Nat
                     /\ HitsSince(more, x) = HitsSince(slots, x) + (IF slot >= x THEN 1 ELSE 0)
  BY <1>1, <1>5, HitCounts
<1>8. \A x \in Nat : x >= start => Cardinality(AdmittedFrom(adm, x)) <= HitsSince(slots, x)
  BY <1>4 DEF BucketFits, AllCounted
<1>9. DOMAIN adm = 1 .. Len(adm) /\ Len(adm) \in Nat /\ IsFiniteSet(DOMAIN adm) BY FS_Interval
<1>10. \A x \in Nat : IsFiniteSet(AdmittedFrom(adm, x)) /\ Cardinality(AdmittedFrom(adm, x)) \in Nat
  BY <1>9, FS_Subset, FS_CardinalityType DEF AdmittedFrom
<1>11. BucketFits(now, more, adm, w, limit)
  <2>1. ASSUME NEW x \in Nat, x >= start PROVE Cardinality(AdmittedFrom(adm, x)) <= HitsSince(more, x)
    <3>1. PICK h \in Nat : h = HitsSince(slots, x) BY <1>7
    <3>2. PICK c \in Nat : c = Cardinality(AdmittedFrom(adm, x)) /\ c <= h BY <1>8, <1>10, <2>1, <3>1
    <3>3. HitsSince(more, x) = h \/ HitsSince(more, x) = h + 1 BY <1>7, <3>1
    <3>4. c <= h + 1 BY <3>2
    <3> QED BY <3>2, <3>3, <3>4
  <2>2. Cardinality(Recent(adm, now, w)) <= limit BY DEF BucketFits
  <2> QED BY <1>4, <1>6, <2>1, <2>2 DEF BucketFits, AllCounted
<1>12. ASSUME TotalHits(more) <= limit
       PROVE  BucketFits(now, more, Append(adm, <<read, now>>), w, limit)
  <2>1. PICK row : row = <<read, now>> OBVIOUS
  <2> row \in AdmittedRow /\ row[1] = read BY <2>1 DEF AdmittedRow
  <2>2. Append(adm, row) \in Seq(AdmittedRow) OBVIOUS
  <2>3. PICK new \in Seq(AdmittedRow) : new = Append(adm, row) BY <2>2
  <2>4. PICK a \in Nat : a = Len(adm) OBVIOUS
  <2>5. /\ DOMAIN adm = 1 .. a /\ DOMAIN new = 1 .. a + 1 /\ new[a + 1] = row
        /\ \A i \in 1 .. a : new[i] = adm[i] BY <2>3, <2>4
  <2>6. ASSUME NEW x \in Nat, x >= start PROVE Cardinality(AdmittedFrom(new, x)) <= HitsSince(more, x)
    <3>1. AdmittedFrom(new, x) = IF slot >= x THEN AdmittedFrom(adm, x) \cup {a + 1} ELSE AdmittedFrom(adm, x)
      <4>1. \A i \in 1 .. a : i \in 1 .. a + 1 OBVIOUS
      <4>2. a + 1 \in 1 .. a + 1 OBVIOUS
      <4> QED BY <1>3, <2>1, <2>5, <4>1, <4>2 DEF AdmittedFrom
    <3>2. a + 1 \notin AdmittedFrom(adm, x) BY <2>5 DEF AdmittedFrom
    <3>3. Cardinality(AdmittedFrom(adm, x) \cup {a + 1}) = Cardinality(AdmittedFrom(adm, x)) + 1
      BY <1>10, <3>2, FS_AddElement
    <3>4. Cardinality(AdmittedFrom(adm, x)) <= HitsSince(slots, x) BY <1>8, <2>6
    <3>5. PICK c \in Nat : c = Cardinality(AdmittedFrom(adm, x)) BY <1>10
    <3>6. PICK h \in Nat : h = HitsSince(slots, x) BY <1>7
    <3>7. CASE slot >= x BY <3>4, <3>5, <3>6, <1>7, <3>1, <3>3, <3>7
    <3>8. CASE ~(slot >= x) BY <3>4, <3>5, <3>6, <1>7, <3>1, <3>8
    <3> QED BY <3>7, <3>8
  <2>7. Cardinality(Recent(new, now, w)) <= limit
    <3>1. IsFiniteSet(DOMAIN new) BY <2>5, FS_Interval
    <3>2. IsFiniteSet(AdmittedFrom(new, start)) BY <3>1, FS_Subset DEF AdmittedFrom
    <3>3. Recent(new, now, w) \subseteq AdmittedFrom(new, start)
      <4>1. ASSUME NEW i \in DOMAIN new, new[i][1] + w >= now + (Second - 1) PROVE SlotOf(new[i][1]) >= start
        <5>1. new[i] \in AdmittedRow BY <2>3
        <5>2. PICK t \in Nat : t = new[i][1] BY <5>1 DEF AdmittedRow
        <5>3. SlotOf(t) \in Nat /\ t <= SlotOf(t) + (Second - 1) BY SlotsRoundDown
        <5>4. PICK s \in Nat : s = SlotOf(t) BY <5>3
        <5>5. PICK d \in Nat : d = Second - 1 BY LimiterAssumption
        <5>6. s + w >= now
          <6>1. t <= s + d /\ t + w >= now + d BY <4>1, <5>2, <5>3, <5>4, <5>5
          <6> QED BY <6>1
        <5> QED BY <5>2, <5>4, <1>4, <5>6 DEF StartAt
      <4> QED BY <4>1 DEF Recent, AdmittedFrom
    <3>4. Cardinality(Recent(new, now, w)) <= Cardinality(AdmittedFrom(new, start))
          /\ IsFiniteSet(Recent(new, now, w)) BY <3>2, <3>3, FS_Subset
    <3>5. Cardinality(AdmittedFrom(new, start)) <= HitsSince(more, start) BY <2>6
    <3>6. PICK h \in Nat : h = HitsSince(more, start) /\ h <= limit
      <4>1. PICK total \in Nat : total = TotalHits(more) BY AllHits
      <4>2. PICK h \in Nat : h = HitsSince(more, start) BY AllHits
      <4>3. h <= total BY <4>1, <4>2, AllHits
      <4> QED BY <1>12, <4>1, <4>2, <4>3
    <3>7. PICK c \in Nat : c = Cardinality(Recent(new, now, w)) BY <3>4, FS_CardinalityType
    <3>8. PICK e \in Nat : e = Cardinality(AdmittedFrom(new, start)) BY <3>2, FS_CardinalityType
    <3> QED BY <3>4, <3>5, <3>6, <3>7, <3>8
  <2> QED BY <1>4, <1>6, <2>1, <2>3, <2>6, <2>7 DEF BucketFits, AllCounted
<1> QED BY <1>3, <1>5, <1>11, <1>12

\* Each step keeps what the limiter knows.
LEMMA RetainedIs ==
  ASSUME NEW b, NEW now
  PROVE  Retained(b, now) = Picked(buckets[b], InWindow(buckets[b], StartAt(now, WindowOfBucket(b))))
  BY DEF Retained, InWindow, StartAt, WindowStart

LEMMA HitIs ==
  ASSUME NEW b, NEW now PROVE Hit(b, now) = HitIn(Retained(b, now), SlotOf(now))
  BY DEF Hit, HitIn, Last, ReplaceAt, Slot, SlotOf

LEMMA HitKeeps ==
  ASSUME LimiterInv, NEW b \in Buckets, NEW read \in Nat, read <= clock
  PROVE  /\ BucketFits(clock, Hit(b, read), admitted[b], WindowOfBucket(b), LimitOf(b))
         /\ ~Over(b, read) => BucketFits(clock, Hit(b, read), Append(admitted[b], <<read, clock>>),
                                         WindowOfBucket(b), LimitOf(b))
<1>1. /\ clock \in Nat /\ WindowOfBucket(b) \in Nat /\ LimitOf(b) \in Nat
      /\ BucketFits(clock, buckets[b], admitted[b], WindowOfBucket(b), LimitOf(b))
      /\ admitted[b] \in Seq(AdmittedRow) BY BucketConstants DEF LimiterInv, PassedFit
<1>2. PICK w \in Nat : w = WindowOfBucket(b) BY <1>1
<1>3. PICK limit \in Nat : limit = LimitOf(b) BY <1>1
<1>4. PICK r : r = Retained(b, read) OBVIOUS
<1>5. BucketFits(clock, r, admitted[b], w, limit) BY <1>1, <1>2, <1>3, <1>4, RetainedIs, BucketRetains
<1>6. /\ BucketFits(clock, HitIn(r, SlotOf(read)), admitted[b], w, limit)
      /\ TotalHits(HitIn(r, SlotOf(read))) <= limit
           => BucketFits(clock, HitIn(r, SlotOf(read)), Append(admitted[b], <<read, clock>>), w, limit)
  BY <1>1, <1>5, BucketHit
<1>7. Hit(b, read) = HitIn(r, SlotOf(read)) BY <1>4, HitIs
<1>8. ~Over(b, read) => TotalHits(Hit(b, read)) <= limit
  <2>1. Hit(b, read) \in Seq(SlotRow) BY <1>6, <1>7 DEF BucketFits, SlotsFit
  <2>2. PICK total \in Nat : total = TotalHits(Hit(b, read)) BY <2>1, AllHits
  <2> QED BY <1>3, <2>2 DEF Over
<1> QED BY <1>2, <1>3, <1>6, <1>7, <1>8

\* A request or prune() that has read the clock.
WaitFits(row) ==
    /\ row.read \in Nat /\ row.read <= clock /\ row.key \in Buckets
    /\ row = [at |-> row.at, key |-> row.key, read |-> row.read]
LEMMA WaitsFit ==
  ASSUME LimiterInv, NEW a \in Logins, NEW b \in Buckets, NEW c
  PROVE  /\ WaitFits(login[a]) /\ WaitFits(Outside) /\ WaitFits([at |-> c, key |-> b, read |-> clock])
         /\ WaitFits([login[a] EXCEPT !.at = c])
  BY DEF LimiterInv, WaitFits, Outside, Buckets

\* A login that moves on, no bucket changing.
LEMMA LoginMoves ==
  ASSUME LimiterInv, NEW a \in Logins, NEW row, WaitFits(row), login' = [login EXCEPT ![a] = row],
         UNCHANGED <<clock, buckets, pruning, admitted, waited>>, hits' \in Nat
  PROVE  LimiterInv'
<1>1. DOMAIN login' = Logins /\ \A d \in Logins : login'[d] = IF d = a THEN row ELSE login[d] BY DEF LimiterInv
<1> QED BY <1>1 DEF LimiterInv, WaitFits, WindowOfBucket, LimitOf

LEMMA TakeHitKeeps ==
  ASSUME LimiterInv, NEW a \in Logins, TakeHit(a) PROVE LimiterInv'
<1>1. PICK b \in Buckets : b = login[a].key BY DEF LimiterInv
<1>2. PICK read \in Nat : read = login[a].read /\ read <= clock BY DEF LimiterInv
<1>3. /\ clock \in Nat /\ waited \in Nat /\ clock' = clock /\ pruning' = pruning /\ hits' = hits
      /\ DOMAIN buckets = Buckets /\ DOMAIN admitted = Buckets /\ DOMAIN login = Logins
  BY DEF LimiterInv, TakeHit
<1>4. waited' = IF clock - read > waited THEN clock - read ELSE waited BY <1>2 DEF TakeHit
<1>5. waited' \in Nat /\ waited <= waited' /\ clock <= read + waited' BY <1>2, <1>3, <1>4
<1>6. buckets' = [buckets EXCEPT ![b] = Hit(b, read)] BY <1>1, <1>2 DEF TakeHit
<1>7. \/ admitted' = admitted
      \/ ~Over(b, read) /\ admitted' = [admitted EXCEPT ![b] = Append(@, <<read, clock>>)]
  BY <1>1, <1>2 DEF TakeHit
<1>8. \E row : WaitFits(row) /\ login' = [login EXCEPT ![a] = row]
  <2>1. WaitFits(Outside) /\ WaitFits([login[a] EXCEPT !.at = "global"]) BY <1>1, WaitsFit
  <2>2. login' = [login EXCEPT ![a] = Outside] \/ login' = [login EXCEPT ![a] = [@ EXCEPT !.at = "global"]]
    BY DEF TakeHit
  <2> QED BY <2>1, <2>2
<1>9. \A d \in Logins : WaitFits(login'[d])
  <2>1. \A d \in Logins : WaitFits(login[d]) BY DEF LimiterInv, WaitFits
  <2> QED BY <1>3, <1>8, <2>1
<1>10. \A c \in Buckets : PassedFit(clock, admitted[c], waited') BY <1>3, <1>5, WaitsGrow DEF LimiterInv
<1>11. PassedFit(clock, Append(admitted[b], <<read, clock>>), waited')
  <2>1. PICK adm \in Seq(AdmittedRow) : adm = admitted[b] BY <1>10 DEF PassedFit
  <2>2. \A i \in DOMAIN adm : adm[i][1] <= clock /\ adm[i][2] <= adm[i][1] + waited' BY <1>10, <2>1 DEF PassedFit
  <2>3. PICK row : row = <<read, clock>> OBVIOUS
  <2> row \in AdmittedRow /\ row[1] = read /\ row[2] = clock BY <1>3, <2>3 DEF AdmittedRow
  <2>4. Append(adm, row) \in Seq(AdmittedRow) OBVIOUS
  <2>5. PICK new \in Seq(AdmittedRow) : new = Append(adm, row) BY <2>4
  <2>6. \A i \in DOMAIN new : new[i] = row \/ (i \in DOMAIN adm /\ new[i] = adm[i]) BY <2>5
  <2>7. \A i \in DOMAIN new : new[i][1] <= clock /\ new[i][2] <= new[i][1] + waited'
    BY <1>2, <1>5, <2>2, <2>3, <2>6
  <2> QED BY <2>1, <2>3, <2>5, <2>7 DEF PassedFit
<1>12. ASSUME NEW c \in Buckets
       PROVE  /\ PassedFit(clock, admitted'[c], waited')
              /\ BucketFits(clock, buckets'[c], admitted'[c], WindowOfBucket(c), LimitOf(c))
  <2>1. CASE c = b
    <3>1. buckets'[b] = Hit(b, read) BY <1>3, <1>6
    <3>2. CASE admitted' = admitted BY <1>2, <1>10, <2>1, <3>1, <3>2, HitKeeps
    <3>3. CASE ~Over(b, read) /\ admitted' = [admitted EXCEPT ![b] = Append(@, <<read, clock>>)]
      <4>1. admitted'[b] = Append(admitted[b], <<read, clock>>) BY <1>3, <3>3
      <4> QED BY <1>2, <1>11, <2>1, <3>1, <3>3, <4>1, HitKeeps
    <3> QED BY <1>7, <3>2, <3>3
  <2>2. CASE c # b
    <3>1. buckets'[c] = buckets[c] /\ admitted'[c] = admitted[c] BY <1>3, <1>6, <1>7, <2>2
    <3> QED BY <1>10, <3>1 DEF LimiterInv
  <2> QED BY <2>1, <2>2
<1>13. DOMAIN buckets' = Buckets /\ DOMAIN admitted' = Buckets /\ DOMAIN login' = Logins
  BY <1>3, <1>6, <1>7, <1>8
<1> QED BY <1>3, <1>5, <1>9, <1>12, <1>13 DEF LimiterInv, WaitFits

LEMMA PruneLockedKeeps ==
  ASSUME LimiterInv, PruneLocked PROVE LimiterInv'
<1>1. PICK read \in Nat : read = pruning.read /\ read <= clock BY DEF LimiterInv
<1>2. UNCHANGED <<clock, login, admitted, waited, hits, prunes>> BY DEF PruneLocked
<1>3. DOMAIN buckets' = Buckets /\ \A b \in Buckets : buckets'[b] = buckets[b] \/ buckets'[b] = Retained(b, read)
  BY <1>1 DEF PruneLocked
<1>4. ASSUME NEW b \in Buckets
      PROVE  BucketFits(clock, buckets'[b], admitted[b], WindowOfBucket(b), LimitOf(b))
  <2>1. BucketFits(clock, Retained(b, read), admitted[b], WindowOfBucket(b), LimitOf(b))
    BY <1>1, RetainedIs, BucketConstants, BucketRetains DEF LimiterInv
  <2> QED BY <1>3, <2>1 DEF LimiterInv
<1>5. pruning'.read \in Nat /\ pruning'.read <= clock
      /\ pruning' = [at |-> pruning'.at, key |-> pruning'.key, read |-> pruning'.read]
  BY DEF PruneLocked, LimiterInv, Outside
<1> QED BY <1>2, <1>3, <1>4, <1>5 DEF LimiterInv

LEMMA LimiterStep == LimiterInv /\ [LimiterNext]_rlvars => LimiterInv'
<1> SUFFICES ASSUME LimiterInv, [LimiterNext]_rlvars PROVE LimiterInv' OBVIOUS
<1>1. CASE UNCHANGED rlvars BY <1>1 DEF rlvars, LimiterInv
<1>2. CASE PassTime
  <2>1. /\ clock \in Nat /\ clock' = clock + 1 /\ waited \in Nat
        /\ UNCHANGED <<buckets, login, pruning, admitted, waited, hits, prunes>> BY <1>2 DEF PassTime, LimiterInv
  <2>2. \A b \in Buckets : /\ PassedFit(clock + 1, admitted[b], waited)
                           /\ BucketFits(clock + 1, buckets[b], admitted[b], WindowOfBucket(b), LimitOf(b))
    BY <2>1, BucketWaits, BucketConstants DEF LimiterInv
  <2>3. \A r \in Nat : r <= clock => r <= clock + 1 BY <2>1
  <2> QED BY <2>1, <2>2, <2>3 DEF LimiterInv
<1>3. CASE PruneBegins
  <2>1. UNCHANGED <<clock, buckets, login, admitted, waited, hits>> BY <1>3 DEF PruneBegins
  <2>2. pruning' = [at |-> "keys", key |-> GlobalBucket, read |-> clock] BY <1>3 DEF PruneBegins, Outside
  <2>3. pruning'.read \in Nat /\ pruning'.read <= clock
        /\ pruning' = [at |-> pruning'.at, key |-> pruning'.key, read |-> pruning'.read]
    BY <2>2 DEF LimiterInv
  <2> QED BY <2>1, <2>3 DEF LimiterInv
<1>4. CASE PruneLocked BY <1>4, PruneLockedKeeps
<1>5. ASSUME NEW a \in Logins, LoginStep(a) PROVE LimiterInv'
  <2>1. ASSUME NEW k \in ClientKeys, BeginLogin(a, k) PROVE LimiterInv'
    <3>1. k \in Buckets /\ hits' \in Nat BY <2>1 DEF Buckets, BeginLogin, LimiterInv
    <3>2. WaitFits([at |-> "lock", key |-> k, read |-> clock]) BY <3>1, WaitsFit
    <3> QED BY <2>1, <3>1, <3>2, LoginMoves DEF BeginLogin
  <2>2. CASE TakeHit(a) BY <2>2, TakeHitKeeps
  <2>3. CASE CheckGlobal(a)
    <3>1. GlobalBucket \in Buckets /\ hits' \in Nat BY <2>3 DEF Buckets, CheckGlobal, LimiterInv
    <3>2. WaitFits([at |-> "lock", key |-> GlobalBucket, read |-> clock]) BY <3>1, WaitsFit
    <3> QED BY <2>3, <3>1, <3>2, LoginMoves DEF CheckGlobal
  <2>4. CASE DropLogin(a)
    <3>1. WaitFits(Outside) /\ hits' \in Nat BY <2>4, WaitsFit DEF DropLogin, LimiterInv
    <3> QED BY <2>4, <3>1, LoginMoves DEF DropLogin
  <2> QED BY <1>5, <2>1, <2>2, <2>3, <2>4 DEF LoginStep
<1> QED BY <1>1, <1>2, <1>3, <1>4, <1>5 DEF LimiterNext

LEMMA LimiterFollows == LimiterInv => RateHeld /\ LimiterTypeOK
<1> SUFFICES ASSUME LimiterInv PROVE RateHeld /\ LimiterTypeOK OBVIOUS
<1>1. ASSUME NEW b \in Buckets
      PROVE  Cardinality(CountedLately(b)) <= LimitOf(b) /\ Cardinality(PassedLately(b)) <= LimitOf(b)
  <2>1. PICK w \in Nat : w = WindowOfBucket(b) BY BucketConstants
  <2>2. PICK adm \in Seq(AdmittedRow) : adm = admitted[b] BY DEF LimiterInv, PassedFit
  <2>3. clock \in Nat /\ waited \in Nat BY DEF LimiterInv
  <2>4. \A i \in DOMAIN adm : adm[i] \in AdmittedRow OBVIOUS
  <2>5. \A i \in DOMAIN adm : adm[i][2] <= adm[i][1] + waited BY <2>2 DEF LimiterInv, PassedFit
  <2>6. PICK d \in Nat : d = Second - 1 BY LimiterAssumption
  <2>7. CountedLately(b) = Recent(adm, clock, w) BY <2>1, <2>2 DEF CountedLately, Recent
  <2>8. PassedLately(b) \subseteq CountedLately(b)
    <3>1. ASSUME NEW i \in DOMAIN adm, adm[i][2] + w >= clock + d + waited PROVE adm[i][1] + w >= clock + d
      <4>1. adm[i][1] \in Nat /\ adm[i][2] \in Nat BY <2>4 DEF AdmittedRow
      <4> QED BY <2>3, <2>5, <3>1, <4>1
    <3> QED BY <2>1, <2>2, <2>6, <3>1 DEF CountedLately, PassedLately
  <2>9. IsFiniteSet(CountedLately(b))
    <3>1. IsFiniteSet(DOMAIN adm) BY FS_Interval
    <3> QED BY <2>7, <3>1, FS_Subset DEF Recent
  <2>10. Cardinality(PassedLately(b)) <= Cardinality(CountedLately(b)) /\ IsFiniteSet(PassedLately(b))
    BY <2>8, <2>9, FS_Subset
  <2>11. PICK c \in Nat : c = Cardinality(CountedLately(b)) BY <2>9, FS_CardinalityType
  <2>12. PICK e \in Nat : e = Cardinality(PassedLately(b)) BY <2>10, FS_CardinalityType
  <2>13. c <= LimitOf(b) /\ LimitOf(b) \in Nat BY <2>1, <2>2, <2>7, <2>11, BucketConstants DEF LimiterInv, BucketFits
  <2> QED BY <2>10, <2>11, <2>12, <2>13
<1>2. LimiterTypeOK BY DEF LimiterInv, LimiterTypeOK, BucketFits, SlotsFit
<1> QED BY <1>1, <1>2 DEF RateHeld

\* Of the hits with a time of the last window, less a second's rounding, no
\* bucket lets more pass than its limit, although the requests that made them
\* read the clock before they waited for the lock and may overtake each other,
\* and however the slots are pruned (rate_limiter.rs, WindowCounter::hit); of
\* those that passed in the window, no more either once it is cut by the
\* longest such wait.
THEOREM RateIsHeld == LimiterSpec => [](RateHeld /\ LimiterTypeOK)
  BY LimiterInitially, LimiterStep, LimiterFollows, PTL DEF LimiterSpec

(***************************************************************************)
(* ModelRegistry                                                           *)
(***************************************************************************)
(* The registry of chat models *)

\* Lists without a model.
LEMMA WithoutModel ==
  ASSUME NEW list \in Seq(ChatModels), NEW m
  PROVE  /\ Without(m, list) \in Seq(ChatModels)
         /\ ToSet(Without(m, list)) \subseteq ToSet(list) \ {m}
         /\ IsInjective(list) => IsInjective(Without(m, list))
<1>1. PICK I : I = {i \in DOMAIN list : list[i] # m} OBVIOUS
<1>2. Picked(list, I) \in Seq(ChatModels) /\ \E f : PlacesOf(Picked(list, I), list, I, f) BY PickedInOrder
<1>3. PICK p \in Seq(ChatModels) : p = Picked(list, I) BY <1>2
<1>4. PICK f : PlacesOf(p, list, I, f) BY <1>2, <1>3
<1>5. DOMAIN p = 1 .. Len(p) /\ DOMAIN list = 1 .. Len(list) /\ Len(p) \in Nat OBVIOUS
<1>6. /\ \A j \in DOMAIN p : f[j] \in DOMAIN list /\ f[j] \in I /\ p[j] = list[f[j]]
      /\ \A j, k \in DOMAIN p : j < k => f[j] < f[k] BY <1>4, <1>5 DEF PlacesOf
<1>7. ASSUME IsInjective(list) PROVE IsInjective(p)
  <2>1. ASSUME NEW j \in DOMAIN p, NEW k \in DOMAIN p, p[j] = p[k] PROVE j = k
    <3>1. ~(j < k) /\ ~(k < j) BY <1>6, <1>7, <2>1, <1>5 DEF IsInjective
    <3> QED BY <1>5, <3>1
  <2> QED BY <2>1 DEF IsInjective
<1> QED BY <1>1, <1>3, <1>7, <1>6 DEF Without, ToSet

\* The limits of a chain of models are those of the least of them.
LEMMA LimitsAreLeast ==
  ASSUME NEW chain \in Seq(ChatModels), chain # << >>
  PROVE  \A i \in DOMAIN chain : Limits(chain) <= WindowOf[chain[i]]
<1> DEFINE S == {WindowOf[chain[i]] : i \in DOMAIN chain}
<1>1. S \subseteq Nat BY RegistryAssumption
<1>2. S # {}
  <2>1. 1 \in DOMAIN chain OBVIOUS
  <2> QED BY <2>1
<1>3. \A i \in DOMAIN chain : WindowOf[chain[i]] \in S OBVIOUS
<1>4. Limits(chain) = CHOOSE x \in S : \A y \in S : x <= y BY DEF Limits, Min
<1> HIDE DEF S
<1>5. \E x \in S : \A y \in S : x <= y BY <1>1, <1>2, LeastOfNumbers
<1> QED BY <1>3, <1>4, <1>5

\* A run that names its model has read limits that each model it may still
\* come to has room for.
TurnFields == {"pc", "requested", "named", "budget", "routes", "selected"}
TurnFits(t, fb) ==
    t.named =>
        /\ t.pc = "routes" => /\ t.budget <= WindowOf[t.requested]
                              /\ \A m \in ToSet(fb[t.requested]) : t.budget <= WindowOf[m]
        /\ t.pc = "open" => \A i \in DOMAIN t.routes : t.budget <= WindowOf[t.routes[i]]
        /\ t.pc = "answering" => t.budget <= WindowOf[t.selected]
RegistryInv ==
    /\ registered \subseteq ChatModels /\ registered \subseteq providers
    /\ active \in registered \cup {NoModel}
    /\ \A c \in TaskClasses : taskRoute[c] \in registered \cup {NoModel}
    /\ DOMAIN taskRoute = TaskClasses
    /\ fallbacks \in [ChatModels -> Seq(ChatModels)]
    /\ \A m \in ChatModels : /\ ToSet(fallbacks[m]) \subseteq registered
                             /\ IsInjective(fallbacks[m]) /\ m \notin ToSet(fallbacks[m])
    /\ DOMAIN turn = TurnFields
    /\ turn.requested \in ChatModels \cup {NoModel}
    /\ turn.named => turn.requested \in registered
    /\ TurnFits(turn, fallbacks)

LEMMA RegistryInitially == RegistryInit => RegistryInv
<1> SUFFICES ASSUME RegistryInit PROVE RegistryInv OBVIOUS
<1>1. /\ DOMAIN turn = TurnFields /\ turn.requested = NoModel /\ turn.named = FALSE BY DEF Fresh, TurnFields, RegistryInit
<1>2. TurnFits(turn, fallbacks) BY <1>1 DEF TurnFits
<1> QED BY <1>1, <1>2 DEF RegistryInv, ToSet, IsInjective, RegistryInit

LEMMA CreateKeeps ==
  ASSUME RegistryInv, NEW m \in ChatModels, NEW list \in Lists, NEW a \in BOOLEAN,
         CreateChatModel(m, list, a)
  PROVE  RegistryInv'
<1>1. /\ m \notin registered /\ ToSet(list) \subseteq registered /\ IsInjective(list)
      /\ registered' = registered \cup {m} /\ providers' = providers \cup {m}
      /\ fallbacks' = [fallbacks EXCEPT ![m] = list]
      /\ active' \in {m, active}
      /\ taskRoute' = taskRoute /\ turn' = turn BY DEF CreateChatModel, ValidFallbacks
<1>2. list \in Seq(ChatModels)
  <2>1. PICK n \in 0 .. 2 : list \in [1 .. n -> ChatModels] BY DEF Lists
  <2> QED BY <2>1
<1>3. ASSUME NEW n \in ChatModels
      PROVE  /\ ToSet(fallbacks'[n]) \subseteq registered'
             /\ IsInjective(fallbacks'[n]) /\ n \notin ToSet(fallbacks'[n])
  <2>1. CASE n = m BY <1>1, <2>1 DEF RegistryInv
  <2>2. CASE n # m BY <1>1, <2>2 DEF RegistryInv
  <2> QED BY <2>1, <2>2
<1>4. TurnFits(turn', fallbacks') BY <1>1 DEF TurnFits, RegistryInv
<1> QED BY <1>1, <1>3, <1>4, <1>2 DEF RegistryInv

LEMMA DeleteKeeps ==
  ASSUME RegistryInv, NEW q \in ModelRequests, FinishDelete(q) PROVE RegistryInv'
<1>1. PICK m : m = deletion[q].model OBVIOUS
<1>2. /\ registered' = registered \ {m} /\ providers' \in {providers, providers \ {m}}
      /\ fallbacks' = [other \in ChatModels |-> IF other = m THEN <<>> ELSE Without(m, fallbacks[other])]
      /\ taskRoute' = [c \in TaskClasses |-> IF taskRoute[c] = m THEN NoModel ELSE taskRoute[c]]
      /\ active' = IF active = m THEN NoModel ELSE active
      /\ turn' = [turn EXCEPT !.requested = IF turn.pc = "queued" THEN IF @ = m THEN NoModel ELSE @ ELSE @,
                              !.named = @ /\ turn.requested # m] BY <1>1 DEF FinishDelete
<1>3. \A n \in ChatModels : /\ Without(m, fallbacks[n]) \in Seq(ChatModels)
                            /\ ToSet(Without(m, fallbacks[n])) \subseteq ToSet(fallbacks[n]) \ {m}
                            /\ IsInjective(fallbacks[n]) => IsInjective(Without(m, fallbacks[n]))
  BY WithoutModel DEF RegistryInv
<1>4. << >> \in Seq(ChatModels) /\ ToSet(<< >>) = {} /\ IsInjective(<< >>) BY DEF ToSet, IsInjective
<1>5. ASSUME NEW n \in ChatModels
      PROVE  /\ ToSet(fallbacks'[n]) \subseteq registered'
             /\ IsInjective(fallbacks'[n]) /\ n \notin ToSet(fallbacks'[n])
  <2>1. CASE n = m BY <1>2, <1>4, <2>1
  <2>2. CASE n # m BY <1>2, <1>3, <2>2 DEF RegistryInv
  <2> QED BY <2>1, <2>2
<1>6. PICK t : t = turn' OBVIOUS
<1>7. /\ DOMAIN t = TurnFields
      /\ t.requested \in {turn.requested, NoModel}
      /\ t.named = (turn.named /\ turn.requested # m) /\ (turn.requested # m => t.requested = turn.requested)
      /\ t.pc = turn.pc /\ t.budget = turn.budget
      /\ t.routes = turn.routes /\ t.selected = turn.selected BY <1>2, <1>6 DEF RegistryInv, TurnFields
<1>8. TurnFits(t, fallbacks')
  <2>1. CASE ~t.named BY <2>1 DEF TurnFits
  <2>2. CASE t.named
    <3>1. TurnFits(turn, fallbacks) BY DEF RegistryInv
    <3> QED BY <1>7, <3>1, <1>2, <1>3, <2>2 DEF TurnFits, RegistryInv
  <2> QED BY <2>1, <2>2
<1>9. /\ registered' \subseteq ChatModels /\ registered' \subseteq providers'
      /\ active' \in registered' \cup {NoModel} BY <1>2 DEF RegistryInv
<1>10. DOMAIN taskRoute' = TaskClasses /\ \A c \in TaskClasses : taskRoute'[c] \in registered' \cup {NoModel}
  BY <1>2 DEF RegistryInv
<1>11. t.requested \in ChatModels \cup {NoModel} /\ (t.named => t.requested \in registered')
  BY <1>2, <1>7 DEF RegistryInv
<1> QED BY <1>5, <1>6, <1>7, <1>8, <1>9, <1>10, <1>11, <1>2, <1>3, <1>4 DEF RegistryInv

LEMMA ReadLimitsKeeps == ASSUME RegistryInv, ReadLimits PROVE RegistryInv'
<1>1. /\ turn.pc = "limits"
      /\ turn' = IF Chain = << >> THEN [turn EXCEPT !.pc = "failed"]
                 ELSE [turn EXCEPT !.pc = "routes", !.budget = Limits(Chain)]
      /\ UNCHANGED <<registered, providers, fallbacks, active, taskRoute>> BY DEF ReadLimits
<1>2. PICK t : t = turn' OBVIOUS
<1>3. /\ DOMAIN t = TurnFields
      /\ t.requested = turn.requested /\ t.named = turn.named
      /\ t.pc = IF Chain = << >> THEN "failed" ELSE "routes"
      /\ t.pc = "routes" => t.budget = Limits(Chain) BY <1>1, <1>2 DEF RegistryInv, TurnFields
<1>4. TurnFits(t, fallbacks)
  <2>1. CASE t.named /\ t.pc = "routes"
    <3>1. PICK m \in ChatModels : m = turn.requested /\ m # NoModel /\ m \in registered
      BY <1>3, <2>1, RegistryAssumption DEF RegistryInv
    <3>2. PICK list \in Seq(ChatModels) : list = fallbacks[m] BY <3>1 DEF RegistryInv
    <3>3. <<m>> \o list \in Seq(ChatModels) OBVIOUS
    <3>4. PICK chain \in Seq(ChatModels) : chain = <<m>> \o list BY <3>3
    <3>5. /\ chain # << >> /\ 1 \in DOMAIN chain /\ chain[1] = m
          /\ \A j \in DOMAIN list : j + 1 \in DOMAIN chain /\ chain[j + 1] = list[j] BY <3>4
    <3>6. \A i \in DOMAIN chain : Limits(chain) <= WindowOf[chain[i]] BY <3>5, LimitsAreLeast
    <3>7. t.budget = Limits(chain) BY <1>3, <2>1, <3>4, <3>1, <3>2 DEF Chain, Primary
    <3> QED BY <1>3, <2>1, <3>1, <3>2, <3>5, <3>6, <3>7 DEF TurnFits, ToSet
  <2>2. CASE ~t.named \/ t.pc = "failed" BY <2>2 DEF TurnFits
  <2> QED BY <1>3, <2>1, <2>2
<1> QED BY <1>1, <1>2, <1>3, <1>4 DEF RegistryInv

LEMMA LoadRoutesKeeps == ASSUME RegistryInv, NEW usable, LoadRoutes(usable) PROVE RegistryInv'
<1>1. PICK order \in Orders(Chain) :
        LET inOrder == [i \in DOMAIN Chain |-> Chain[order[i]]]
            routes == Picked(inOrder, {i \in DOMAIN Chain : inOrder[i] \in usable})
        IN turn' = IF routes = <<>> THEN [turn EXCEPT !.pc = "failed"]
                   ELSE [turn EXCEPT !.pc = "open", !.routes = routes] BY DEF LoadRoutes
<1>2. turn.pc = "routes" /\ UNCHANGED <<registered, providers, fallbacks, active, taskRoute>> BY DEF LoadRoutes
<1>3. PICK inOrder : inOrder = [i \in DOMAIN Chain |-> Chain[order[i]]] OBVIOUS
<1>4. PICK I : I = {i \in DOMAIN Chain : inOrder[i] \in usable} OBVIOUS
<1>5. PICK routes : routes = Picked(inOrder, I) OBVIOUS
<1>6. PICK t : t = turn' OBVIOUS
<1>7. /\ DOMAIN t = TurnFields
      /\ t.requested = turn.requested /\ t.named = turn.named /\ t.budget = turn.budget
      /\ t.pc \in {"failed", "open"}
      /\ t.pc = "open" => t.routes = routes BY <1>6, <1>1, <1>3, <1>4, <1>5 DEF RegistryInv, TurnFields
<1>8. TurnFits(t, fallbacks)
  <2>1. CASE t.named /\ t.pc = "open"
    <3>1. PICK m \in ChatModels : m = turn.requested /\ m # NoModel /\ m \in registered
      BY <1>7, <2>1, RegistryAssumption DEF RegistryInv
    <3>2. PICK list \in Seq(ChatModels) : list = fallbacks[m] BY <3>1 DEF RegistryInv
    <3>3. Chain = <<m>> \o list BY <3>1, <3>2 DEF Chain, Primary
    <3>4. <<m>> \o list \in Seq(ChatModels) OBVIOUS
    <3>5. PICK chain \in Seq(ChatModels) : chain = <<m>> \o list BY <3>4
    <3>6. \A i \in DOMAIN chain : chain[i] = m \/ \E j \in DOMAIN list : chain[i] = list[j]
      <4>1. ASSUME NEW i \in DOMAIN chain PROVE chain[i] = m \/ \E j \in DOMAIN list : chain[i] = list[j]
        <5>1. CASE i = 1 BY <3>5, <5>1
        <5>2. CASE i # 1 BY <3>5, <5>2
        <5> QED BY <5>1, <5>2
      <4> QED BY <4>1
    <3>7. turn.budget <= WindowOf[m] /\ \A j \in DOMAIN list : turn.budget <= WindowOf[list[j]]
      BY <1>2, <1>7, <2>1, <3>1, <3>2 DEF TurnFits, ToSet, RegistryInv
    <3>8. DOMAIN chain = 1 .. Len(chain) /\ order \in [DOMAIN chain -> DOMAIN chain] BY <3>3, <3>5 DEF Orders
    <3>9. inOrder \in Seq(ChatModels) /\ Len(inOrder) = Len(chain)
          /\ \A i \in DOMAIN inOrder : \E j \in DOMAIN chain : inOrder[i] = chain[j]
      <4>1. inOrder = [i \in 1 .. Len(chain) |-> chain[order[i]]] BY <1>3, <3>3, <3>5, <3>8
      <4>2. \A i \in 1 .. Len(chain) : order[i] \in DOMAIN chain BY <3>8
      <4>3. Len(chain) \in Nat OBVIOUS
      <4> QED BY <4>1, <4>2, <4>3
    <3>10. \A i \in DOMAIN inOrder : turn.budget <= WindowOf[inOrder[i]] BY <3>9, <3>6, <3>7
    <3>11. routes \in Seq(ChatModels) /\ \E f : PlacesOf(routes, inOrder, I, f) BY <1>5, <3>9, PickedInOrder
    <3>12. PICK f : PlacesOf(routes, inOrder, I, f) BY <3>11
    <3>13. \A j \in DOMAIN routes : f[j] \in DOMAIN inOrder /\ routes[j] = inOrder[f[j]]
      <4>1. PICK rr \in Seq(ChatModels) : rr = routes BY <3>11
      <4>2. PICK io \in Seq(ChatModels) : io = inOrder BY <3>9
      <4> QED BY <3>12, <4>1, <4>2 DEF PlacesOf
    <3> QED BY <1>7, <2>1, <3>10, <3>13 DEF TurnFits
  <2>2. CASE ~(t.named /\ t.pc = "open") BY <1>7, <2>2 DEF TurnFits
  <2> QED BY <2>1, <2>2
<1> QED BY <1>2, <1>6, <1>7, <1>8 DEF RegistryInv

LEMMA OpenRouteKeeps == ASSUME RegistryInv, NEW i, OpenRoute(i) PROVE RegistryInv'
<1>1. /\ turn.pc = "open" /\ i \in DOMAIN turn.routes
      /\ turn' = IF turn.routes[i] \in registered
                 THEN [turn EXCEPT !.pc = "answering", !.selected = turn.routes[i]]
                 ELSE [turn EXCEPT !.pc = "failed"]
      /\ UNCHANGED <<registered, providers, fallbacks, active, taskRoute>> BY DEF OpenRoute
<1>2. PICK t : t = turn' OBVIOUS
<1>3. /\ DOMAIN t = TurnFields
      /\ t.requested = turn.requested /\ t.named = turn.named /\ t.budget = turn.budget
      /\ t.pc \in {"failed", "answering"}
      /\ t.pc = "answering" => t.selected = turn.routes[i] BY <1>1, <1>2 DEF RegistryInv, TurnFields
<1> QED BY <1>1, <1>2, <1>3 DEF RegistryInv, TurnFits

LEMMA SubmitKeeps == ASSUME RegistryInv, NEW m \in ChatModels \cup {NoModel}, Submit(m) PROVE RegistryInv'
<1>1. /\ (IF m = NoModel THEN active ELSE m) \in registered
      /\ turn' = [Fresh EXCEPT !.pc = "queued", !.requested = m, !.named = (m # NoModel)]
      /\ UNCHANGED <<registered, providers, fallbacks, active, taskRoute>> BY DEF Submit
<1>2. PICK t : t = turn' OBVIOUS
<1> QED BY <1>1, <1>2 DEF RegistryInv, TurnFits, Fresh, TurnFields

LEMMA RegistryStep == RegistryInv /\ [RegistryNext]_mrvars => RegistryInv'
<1> SUFFICES ASSUME RegistryInv, [RegistryNext]_mrvars PROVE RegistryInv' OBVIOUS
<1>1. CASE UNCHANGED mrvars BY <1>1 DEF mrvars, RegistryInv
<1>2. ASSUME NEW m \in ChatModels, NEW list \in Lists, NEW a \in BOOLEAN, CreateChatModel(m, list, a)
      PROVE  RegistryInv' BY <1>2, CreateKeeps
<1>3. ASSUME NEW m \in ChatModels, ActivateChatModel(m) PROVE RegistryInv' BY <1>3 DEF ActivateChatModel, RegistryInv
<1>4. ASSUME NEW m \in ChatModels, NEW c \in TaskClasses, UpsertTaskRoute(c, m) PROVE RegistryInv'
  BY <1>4 DEF UpsertTaskRoute, RegistryInv
<1>5. ASSUME NEW c \in TaskClasses, DeleteTaskRoute(c) PROVE RegistryInv' BY <1>5 DEF DeleteTaskRoute, RegistryInv
<1>6. ASSUME NEW q \in ModelRequests, NEW m \in ChatModels, NEW whole \in BOOLEAN, CheckDelete(q, m, whole)
      PROVE  RegistryInv' BY <1>6 DEF CheckDelete, RegistryInv
<1>7. ASSUME NEW q \in ModelRequests, FinishDelete(q) PROVE RegistryInv' BY <1>7, DeleteKeeps
<1>8. ASSUME NEW m \in ChatModels \cup {NoModel}, Submit(m) PROVE RegistryInv' BY <1>8, SubmitKeeps
<1>9. CASE ReadLimits BY <1>9, ReadLimitsKeeps
<1>10. ASSUME NEW usable \in SUBSET ChatModels, LoadRoutes(usable) PROVE RegistryInv' BY <1>10, LoadRoutesKeeps
<1>11. ASSUME NEW i \in 1 .. 6, OpenRoute(i) PROVE RegistryInv' BY <1>11, OpenRouteKeeps
<1>12. CASE ReadRow
  <2>1. PICK t : t = turn' OBVIOUS
  <2>2. /\ DOMAIN t = TurnFields /\ t.requested = turn.requested /\ t.named = turn.named /\ t.pc = "limits"
        /\ UNCHANGED <<registered, providers, fallbacks, active, taskRoute>>
    BY <1>12, <2>1 DEF ReadRow, RegistryInv, TurnFields
  <2> QED BY <2>1, <2>2 DEF RegistryInv, TurnFits
<1> QED BY <1>1, <1>2, <1>3, <1>4, <1>5, <1>6, <1>7, <1>8, <1>9, <1>10, <1>11, <1>12 DEF RegistryNext

\* A run that names its model is answered by one that has room for what its
\* context was built for (model_limits, load_routes), and nothing refers to a
\* model that was deleted (model_api.rs).
THEOREM RequestsFit == RegistrySpec => [](RequestFits /\ RegistryTypeOK)
<1>1. RegistryInv => RequestFits /\ RegistryTypeOK BY DEF RegistryInv, TurnFits, RequestFits, RegistryTypeOK
<1> QED BY <1>1, RegistryInitially, RegistryStep, PTL DEF RegistrySpec

(***************************************************************************)
(* RunContext                                                              *)
(***************************************************************************)
(***************************************************************************)
(* build_context chooses one offer after the other.                        *)
(***************************************************************************)
ChoosesUp(u, s) == u[0] = EmptyContext /\ \A k \in 1 .. Len(s) : u[k] = Choose(u[k - 1], s[k])

LEMMA ChoosesSomehow ==
  ASSUME NEW T, NEW s \in Seq(T)
  PROVE  \E u : ChoosesUp(u, s) /\ DOMAIN u = 0 .. Len(s)
<1> DEFINE n == Len(s)
           Upto(u, k) == u[0] = EmptyContext /\ \A i \in 1 .. k : u[i] = Choose(u[i - 1], s[i])
           G == {k \in 0 .. n : \E u : DOMAIN u = 0 .. k /\ Upto(u, k)}
<1>1. n \in Nat OBVIOUS
<1>2. 0 \in G
  <2> DEFINE u == [i \in 0 .. 0 |-> EmptyContext]
  <2>1. DOMAIN u = 0 .. 0 /\ Upto(u, 0) OBVIOUS
  <2>2. \E v : DOMAIN v = 0 .. 0 /\ Upto(v, 0) BY <2>1
  <2> QED BY <2>2, <1>1
<1>3. ASSUME NEW k \in (0 + 1) .. n, k - 1 \in G PROVE k \in G
  <2>1. PICK u : DOMAIN u = 0 .. (k - 1) /\ Upto(u, k - 1) BY <1>3
  <2>2. k \in Nat /\ k \in 0 .. n /\ 0 <= k - 1 /\ k - 1 \in Nat BY <1>1
  <2> DEFINE new == Choose(u[k - 1], s[k])
             g == [i \in 0 .. k |-> IF i = k THEN new ELSE u[i]]
  <2>3. \A i \in 0 .. (k - 1) : g[i] = u[i] BY <2>2
  <2>4. g[k] = new BY <2>2
  <2>5. DOMAIN g = 0 .. k OBVIOUS
  <2> HIDE DEF g
  <2>6. g[0] = EmptyContext BY <2>1, <2>3, <2>2
  <2>7. ASSUME NEW i \in 1 .. k PROVE g[i] = Choose(g[i - 1], s[i])
    <3>1. i - 1 \in 0 .. (k - 1) /\ g[i - 1] = u[i - 1] BY <2>2, <2>3
    <3>2. CASE i = k BY <2>4, <3>1, <3>2
    <3>3. CASE i # k BY <2>1, <3>1, <2>3, <2>2, <3>3
    <3> QED BY <3>2, <3>3
  <2> QED BY <2>2, <2>5, <2>6, <2>7
<1>4. n \in G
  <2> HIDE DEF G
  <2>1. \A k \in 0 .. n : k \in G BY <1>1, <1>2, <1>3, UpTheStretch
  <2> QED BY <2>1, <1>1
<1> QED BY <1>4 DEF ChoosesUp

LEMMA ChosenIsLast ==
  ASSUME NEW T, NEW s \in Seq(T)
  PROVE  \E u : ChoosesUp(u, s) /\ Chosen(s) = u[Len(s)]
<1> DEFINE n == Len(s)
           Is(f) == f = [i \in 0 .. n |-> IF i = 0 THEN EmptyContext ELSE Choose(f[i - 1], s[i])]
<1>1. n \in Nat OBVIOUS
<1>2. PICK u : ChoosesUp(u, s) /\ DOMAIN u = 0 .. n BY ChoosesSomehow
<1> DEFINE h == [i \in 0 .. n |-> u[i]]
<1>3. \A i \in 0 .. n : h[i] = u[i] OBVIOUS
<1>4. h = [i \in 0 .. n |-> h[i]] OBVIOUS
<1> HIDE DEF h
<1>5. ASSUME NEW i \in 0 .. n PROVE h[i] = IF i = 0 THEN EmptyContext ELSE Choose(h[i - 1], s[i])
  <2>1. CASE i = 0 BY <1>2, <1>3, <2>1 DEF ChoosesUp
  <2>2. CASE i # 0 BY <1>2, <2>2, <1>3, <1>1 DEF ChoosesUp
  <2> QED BY <2>1, <2>2
<1>6. Is(h) BY <1>4, <1>5
<1> DEFINE it == CHOOSE f : Is(f)
<1>7. Is(it)
  <2> HIDE DEF Is
  <2> QED BY <1>6
<1>8. Chosen(s) = it[n] BY DEF Chosen
<1> HIDE DEF it
<1>9. ChoosesUp(it, s)
  <2>1. \A i \in 1 .. n : i \in 0 .. n /\ i # 0 BY <1>1
  <2> QED BY <2>1, <1>7, <1>1 DEF ChoosesUp
<1> QED BY <1>8, <1>9

LEMMA ChosenOfNone == Chosen(<< >>) = EmptyContext
<1>1. << >> \in Seq({}) OBVIOUS
<1>2. PICK u : ChoosesUp(u, << >>) /\ Chosen(<< >>) = u[Len(<< >>)] BY <1>1, ChosenIsLast
<1> QED BY <1>2 DEF ChoosesUp

LEMMA ChosenOfAppended ==
  ASSUME NEW T, NEW s \in Seq(T), NEW x \in T
  PROVE  Chosen(Append(s, x)) = Choose(Chosen(s), x)
<1>1. Append(s, x) \in Seq(T) OBVIOUS
<1>2. PICK t \in Seq(T) : t = Append(s, x) BY <1>1
<1>3. PICK n \in Nat : n = Len(s) OBVIOUS
<1>4. Len(t) = n + 1 /\ t[n + 1] = x /\ \A i \in 1 .. n : t[i] = s[i] BY <1>2, <1>3
<1>5. PICK u : ChoosesUp(u, s) /\ Chosen(s) = u[n] BY <1>3, ChosenIsLast
<1>6. PICK v : ChoosesUp(v, t) /\ Chosen(t) = v[n + 1] BY <1>4, ChosenIsLast
<1>7. \A k \in 1 .. n + 1 : v[k] = Choose(v[k - 1], t[k]) BY <1>4, <1>6 DEF ChoosesUp
<1> DEFINE G == {k \in 0 .. n : u[k] = v[k]}
<1>8. 0 \in G BY <1>3, <1>5, <1>6 DEF ChoosesUp
<1>9. ASSUME NEW k \in (0 + 1) .. n, k - 1 \in G PROVE k \in G
  <2>1. k \in 1 .. n /\ k \in 1 .. n + 1 /\ k \in 0 .. n BY <1>3
  <2>2. u[k] = v[k] BY <1>7, <2>1, <1>3, <1>5, <1>4, <1>9 DEF ChoosesUp
  <2> QED BY <2>1, <2>2
<1>10. n \in G
  <2> HIDE DEF G
  <2>1. \A k \in 0 .. n : k \in G BY <1>8, <1>9, UpTheStretch
  <2> QED BY <2>1
<1>11. v[n + 1] = Choose(v[n], x) BY <1>4, <1>7
<1> QED BY <1>2, <1>3, <1>5, <1>6, <1>10, <1>11

Offers == [size : Sizes, priority : {400, 300, 250}]
SizesOf(list) == [k \in DOMAIN list |-> list[k].size]
AtLeast(list, p) == Picked(list, {k \in DOMAIN list : list[k].priority >= p})
Descending(list) == \A i, j \in 1 .. Len(list) : i < j => list[i].priority >= list[j].priority

LEMMA SameLists ==
  ASSUME NEW T, NEW a \in Seq(T), NEW b \in Seq(T), Len(a) = Len(b), \A i \in 1 .. Len(a) : a[i] = b[i]
  PROVE  a = b
  OBVIOUS

LEMMA SizesOfAppended ==
  ASSUME NEW s \in Seq(Offers), NEW x \in Offers
  PROVE  /\ Total(SizesOf(Append(s, x))) = Total(SizesOf(s)) + x.size
         /\ Total(SizesOf(s)) \in Nat
<1>1. PICK n \in Nat : n = Len(s) OBVIOUS
<1>2. x.size \in Nat /\ \A i \in 1 .. n : s[i].size \in Nat
  <2>1. \A i \in 1 .. n : s[i] \in Offers BY <1>1
  <2> QED BY <2>1, ContextAssumption DEF Offers
<1>3. SizesOf(s) = [k \in 1 .. n |-> s[k].size] BY <1>1 DEF SizesOf
<1>4. PICK a \in Seq(Nat) : a = SizesOf(s) /\ Len(a) = n /\ \A i \in 1 .. n : a[i] = s[i].size
  <2>1. SizesOf(s) \in Seq(Nat) /\ Len(SizesOf(s)) = n BY <1>2, <1>3
  <2> QED BY <1>3, <2>1
<1>5. PICK t \in Seq(Offers) : t = Append(s, x)
  <2>1. Append(s, x) \in Seq(Offers) OBVIOUS
  <2> QED BY <2>1
<1>6. Len(t) = n + 1 /\ t[n + 1] = x /\ \A i \in 1 .. n : t[i] = s[i] BY <1>1, <1>5
<1>7. SizesOf(t) = [k \in 1 .. n + 1 |-> t[k].size] BY <1>6 DEF SizesOf
<1>8. PICK b \in Seq(Nat) : b = SizesOf(t) /\ Len(b) = n + 1 /\ \A i \in 1 .. n + 1 : b[i] = t[i].size
  <2>1. \A i \in 1 .. n + 1 : t[i].size \in Nat
    <3>1. \A i \in 1 .. n + 1 : i \in 1 .. n \/ i = n + 1 OBVIOUS
    <3> QED BY <1>2, <1>6, <3>1
  <2>2. SizesOf(t) \in Seq(Nat) /\ Len(SizesOf(t)) = n + 1 BY <1>7, <2>1
  <2> QED BY <1>7, <2>2
<1>9. PICK c \in Seq(Nat) : c = Append(a, x.size)
  <2>1. Append(a, x.size) \in Seq(Nat) BY <1>2
  <2> QED BY <2>1
<1>10. Len(c) = n + 1 /\ c[n + 1] = x.size /\ \A i \in 1 .. n : c[i] = a[i] BY <1>2, <1>4, <1>9
<1>11. Len(b) = Len(c) /\ \A i \in 1 .. Len(b) : b[i] = c[i]
  <2>1. ASSUME NEW i \in 1 .. n + 1 PROVE b[i] = c[i]
    <3>1. CASE i = n + 1 BY <1>6, <1>8, <1>10, <3>1
    <3>2. CASE i # n + 1
      <4>1. b[i] = t[i].size /\ t[i] = s[i] /\ c[i] = a[i] /\ a[i] = s[i].size BY <1>4, <1>6, <1>8, <1>10, <3>2
      <4> QED BY <4>1
    <3> QED BY <3>1, <3>2
  <2> QED BY <1>8, <1>10, <2>1
<1>12. b = c BY <1>11, SameLists
<1>13. SumFunction(Append(a, x.size)) = SumFunction(a) + x.size /\ SumFunction(a) \in Nat BY <1>2, SumOfAppended
<1> QED BY <1>4, <1>5, <1>8, <1>9, <1>12, <1>13 DEF Total

LEMMA SizesOfNone == SizesOf(<< >>) = << >> /\ Total(<< >>) = 0
  BY SumOfNone DEF Total, SizesOf

LEMMA AtLeastAppended ==
  ASSUME NEW s \in Seq(Offers), NEW x \in Offers, NEW p
  PROVE  /\ AtLeast(s, p) \in Seq(Offers)
         /\ AtLeast(Append(s, x), p) = IF x.priority >= p THEN Append(AtLeast(s, p), x) ELSE AtLeast(s, p)
<1>1. PICK t \in Seq(Offers) : t = Append(s, x)
  <2>1. Append(s, x) \in Seq(Offers) OBVIOUS
  <2> QED BY <2>1
<1>2. PICK I : I = {k \in DOMAIN t : t[k].priority >= p} OBVIOUS
<1>3. PICK J : J = {k \in DOMAIN s : s[k].priority >= p} OBVIOUS
<1>4. Picked(Append(s, x), I) = IF Len(s) + 1 \in I THEN Append(Picked(s, I), x) ELSE Picked(s, I) BY PickedAppend
<1>5. Len(s) + 1 \in I <=> x.priority >= p BY <1>1, <1>2
<1>6. Picked(s, I) = Picked(s, J) BY PickedSame, <1>1, <1>2, <1>3
<1>7. AtLeast(s, p) = Picked(s, J) BY <1>3 DEF AtLeast
<1>8. Picked(s, J) \in Seq(Offers) BY PickedInOrder
<1> QED BY <1>1, <1>4, <1>5, <1>6, <1>7, <1>8, <1>2 DEF AtLeast

LEMMA AtLeastNone == ASSUME NEW p PROVE AtLeast(<< >>, p) = << >>
  BY PickedNone DEF AtLeast

\* Nothing is left out where all have the priority.
LEMMA AtLeastAll ==
  ASSUME NEW p
  PROVE  \A s \in Seq(Offers) : (\A i \in 1 .. Len(s) : s[i].priority >= p) => AtLeast(s, p) = s
<1> DEFINE G == {s \in Seq(Offers) : (\A i \in 1 .. Len(s) : s[i].priority >= p) => AtLeast(s, p) = s}
<1>1. << >> \in G BY AtLeastNone
<1>2. ASSUME NEW s \in Seq(Offers), NEW x \in Offers, s \in G PROVE Append(s, x) \in G
  <2>1. PICK t \in Seq(Offers) : t = Append(s, x)
    <3>1. Append(s, x) \in Seq(Offers) OBVIOUS
    <3> QED BY <3>1
  <2>2. ASSUME \A i \in 1 .. Len(t) : t[i].priority >= p PROVE AtLeast(t, p) = t
    <3>1. Len(t) = Len(s) + 1 /\ t[Len(s) + 1] = x /\ \A i \in 1 .. Len(s) : t[i] = s[i] BY <2>1
    <3> QED BY <2>1, AtLeastAppended, <2>2, <3>1, <1>2
  <2> QED BY <2>1, <2>2
<1>3. \A s \in Seq(Offers) : \A x \in Offers : s \in G => Append(s, x) \in G
  <2> HIDE DEF G
  <2> QED BY <1>2
<1>4. \A s \in Seq(Offers) : s \in G
  <2> HIDE DEF G
  <2> QED BY <1>1, <1>3, ListsGrow
<1> QED BY <1>4

(***************************************************************************)
(* What is chosen of a list of offers, and why the others are not.         *)
(***************************************************************************)
Contexts == [selected : Seq(Offers), omitted : Seq(Offers), used : Nat]

ChosenFits(r, s) ==
    /\ r \in Contexts
    /\ Len(r.selected) + Len(r.omitted) = Len(s)
    /\ r.used = Total(SizesOf(r.selected))
    /\ \A i \in 1 .. Len(r.selected) : \E j \in 1 .. Len(s) : r.selected[i] = s[j]
    /\ \A i \in 1 .. Len(r.omitted) :
          r.omitted[i].size + Total(SizesOf(AtLeast(r.selected, r.omitted[i].priority))) > OptionalBudget

LEMMA OneMore ==
  ASSUME NEW a \in Nat, NEW b \in Nat, NEW c \in Nat, a + b = c
  PROVE  (a + 1) + b = c + 1 /\ a + (b + 1) = c + 1
  OBVIOUS

LEMMA ChoiceKeeps ==
  ASSUME NEW s \in Seq(Offers), NEW x \in Offers, NEW r, ChosenFits(r, s), OptionalBudget \in Nat,
         \A j \in 1 .. Len(s) : s[j].priority >= x.priority
  PROVE  ChosenFits(Choose(r, x), Append(s, x))
<1>1. r \in Contexts BY DEF ChosenFits
<1>2. PICK selected \in Seq(Offers), omitted \in Seq(Offers), sum \in Nat :
         selected = r.selected /\ omitted = r.omitted /\ sum = r.used BY <1>1 DEF Contexts
<1>3. PICK t \in Seq(Offers) : t = Append(s, x)
  <2>1. Append(s, x) \in Seq(Offers) OBVIOUS
  <2> QED BY <2>1
<1>4. Len(t) = Len(s) + 1 /\ t[Len(s) + 1] = x /\ \A i \in 1 .. Len(s) : t[i] = s[i] BY <1>3
<1>5. x.size \in Nat BY ContextAssumption DEF Offers
<1>6. /\ Len(selected) + Len(omitted) = Len(s)
      /\ sum = Total(SizesOf(selected))
      /\ \A i \in 1 .. Len(selected) : \E j \in 1 .. Len(s) : selected[i] = s[j]
      /\ \A i \in 1 .. Len(omitted) :
            omitted[i].size + Total(SizesOf(AtLeast(selected, omitted[i].priority))) > OptionalBudget
  BY <1>2 DEF ChosenFits
<1>7. /\ Len(selected) \in Nat /\ Len(omitted) \in Nat /\ Len(s) \in Nat
      /\ (Len(selected) + 1) + Len(omitted) = Len(s) + 1
      /\ Len(selected) + (Len(omitted) + 1) = Len(s) + 1
  <2>1. Len(selected) \in Nat /\ Len(omitted) \in Nat /\ Len(s) \in Nat OBVIOUS
  <2> QED BY <1>6, <2>1, OneMore
<1>8. CASE sum + x.size <= OptionalBudget
  <2>1. PICK more \in Seq(Offers) : more = Append(selected, x)
    <3>1. Append(selected, x) \in Seq(Offers) OBVIOUS
    <3> QED BY <3>1
  <2>2. PICK new : new = Choose(r, x) OBVIOUS
  <2>3. new.selected = more /\ new.omitted = omitted /\ new.used = sum + x.size /\ new \in Contexts
    <3>1. new = [selected |-> more, omitted |-> omitted, used |-> sum + x.size]
      BY <1>1, <1>2, <2>1, <1>8, <2>2 DEF Contexts, Choose
    <3> QED BY <1>5, <3>1 DEF Contexts
  <2>4. /\ Len(more) = Len(selected) + 1 /\ more[Len(selected) + 1] = x
        /\ \A i \in 1 .. Len(selected) : more[i] = selected[i] BY <2>1
  <2>5. Len(more) + Len(omitted) = Len(t) BY <1>4, <1>7, <2>4
  <2>6. sum + x.size = Total(SizesOf(more)) BY <1>6, <2>1, SizesOfAppended
  <2>7. ASSUME NEW i \in 1 .. Len(more) PROVE \E j \in 1 .. Len(t) : more[i] = t[j]
    <3>1. CASE i \in 1 .. Len(selected)
      <4>1. PICK j \in 1 .. Len(s) : selected[i] = s[j] BY <1>6, <3>1
      <4> QED BY <1>4, <2>4, <3>1, <4>1, <1>7
    <3>2. CASE i \notin 1 .. Len(selected) BY <1>4, <2>4, <1>7, <3>2
    <3> QED BY <3>1, <3>2
  <2>8. ASSUME NEW i \in 1 .. Len(omitted)
        PROVE  omitted[i].size + Total(SizesOf(AtLeast(more, omitted[i].priority))) > OptionalBudget
    <3>1. PICK c \in Offers : c = omitted[i] OBVIOUS
    <3>2. PICK kept \in Seq(Offers) : kept = AtLeast(selected, c.priority) BY AtLeastAppended
    <3>3. AtLeast(more, c.priority) = IF x.priority >= c.priority THEN Append(kept, x) ELSE kept
      <4>1. PICK p : p = c.priority OBVIOUS
      <4>2. AtLeast(Append(selected, x), p)
              = IF x.priority >= p THEN Append(AtLeast(selected, p), x) ELSE AtLeast(selected, p) BY AtLeastAppended
      <4> QED BY <2>1, <3>2, <4>1, <4>2
    <3>4. /\ Total(SizesOf(Append(kept, x))) = Total(SizesOf(kept)) + x.size
          /\ Total(SizesOf(kept)) \in Nat BY SizesOfAppended
    <3>5. c.size + Total(SizesOf(kept)) > OptionalBudget BY <1>6, <3>1, <3>2
    <3>6. c.size \in Nat BY ContextAssumption DEF Offers
    <3>7. PICK held \in Nat : held = Total(SizesOf(kept)) BY <3>4
    <3>8. c.size + Total(SizesOf(AtLeast(more, c.priority))) > OptionalBudget
      <4>1. CASE x.priority >= c.priority
        <5>1. Total(SizesOf(AtLeast(more, c.priority))) = held + x.size BY <3>3, <3>4, <3>7, <4>1
        <5> QED BY <1>5, <3>5, <3>6, <3>7, <5>1
      <4>2. CASE ~(x.priority >= c.priority) BY <3>3, <3>5, <4>2
      <4> QED BY <4>1, <4>2
    <3> QED BY <3>1, <3>8
  <2> QED BY <1>3, <2>2, <2>3, <2>5, <2>6, <2>7, <2>8 DEF ChosenFits
<1>9. CASE ~(sum + x.size <= OptionalBudget)
  <2>1. PICK more \in Seq(Offers) : more = Append(omitted, x)
    <3>1. Append(omitted, x) \in Seq(Offers) OBVIOUS
    <3> QED BY <3>1
  <2>2. PICK new : new = Choose(r, x) OBVIOUS
  <2>3. new.selected = selected /\ new.omitted = more /\ new.used = sum /\ new \in Contexts
    BY <1>1, <1>2, <2>1, <1>9, <2>2 DEF Contexts, Choose
  <2>4. /\ Len(more) = Len(omitted) + 1 /\ more[Len(omitted) + 1] = x
        /\ \A i \in 1 .. Len(omitted) : more[i] = omitted[i] BY <2>1
  <2>5. Len(selected) + Len(more) = Len(t) BY <1>4, <1>7, <2>4
  <2>6. \A i \in 1 .. Len(selected) : \E j \in 1 .. Len(t) : selected[i] = t[j] BY <1>4, <1>6, <1>7
  <2>7. AtLeast(selected, x.priority) = selected BY AtLeastAll, <1>6
  <2>8. ASSUME NEW i \in 1 .. Len(more)
        PROVE  more[i].size + Total(SizesOf(AtLeast(selected, more[i].priority))) > OptionalBudget
    <3>1. CASE i \in 1 .. Len(omitted) BY <1>6, <2>4, <3>1
    <3>2. CASE i \notin 1 .. Len(omitted)
      <4>1. i = Len(omitted) + 1 BY <1>7, <2>4, <3>2
      <4> QED BY <1>6, <2>4, <2>7, <4>1, <1>5, <1>9
    <3> QED BY <3>1, <3>2
  <2> QED BY <1>3, <1>6, <2>2, <2>3, <2>5, <2>6, <2>8 DEF ChosenFits
<1> QED BY <1>8, <1>9

LEMMA ChosenGood ==
  ASSUME OptionalBudget \in Nat
  PROVE  \A s \in Seq(Offers) : Descending(s) => ChosenFits(Chosen(s), s)
<1> DEFINE G == {s \in Seq(Offers) : Descending(s) => ChosenFits(Chosen(s), s)}
<1>1. << >> \in G
  <2>1. << >> \in Seq(Offers) /\ Len(<< >>) = 0 OBVIOUS
  <2>2. PICK e : e = EmptyContext OBVIOUS
  <2>3. ChosenFits(e, << >>) BY <2>1, SizesOfNone, <2>2 DEF ChosenFits, Contexts, EmptyContext
  <2> QED BY <2>1, <2>2, <2>3, ChosenOfNone
<1>2. ASSUME NEW s \in Seq(Offers), NEW x \in Offers, s \in G PROVE Append(s, x) \in G
  <2>1. PICK t \in Seq(Offers) : t = Append(s, x)
    <3>1. Append(s, x) \in Seq(Offers) OBVIOUS
    <3> QED BY <3>1
  <2>2. Len(t) = Len(s) + 1 /\ t[Len(s) + 1] = x /\ \A i \in 1 .. Len(s) : t[i] = s[i] BY <2>1
  <2>3. ASSUME Descending(t) PROVE ChosenFits(Chosen(t), t)
    <3>1. Descending(s) /\ \A j \in 1 .. Len(s) : s[j].priority >= x.priority BY <2>2, <2>3 DEF Descending
    <3> QED BY <2>1, ChosenOfAppended, <3>1, ChoiceKeeps, <1>2
  <2> QED BY <2>1, <2>3
<1>3. \A s \in Seq(Offers) : \A x \in Offers : s \in G => Append(s, x) \in G
  <2> HIDE DEF G
  <2> QED BY <1>2
<1>4. \A s \in Seq(Offers) : s \in G
  <2> HIDE DEF G
  <2> QED BY <1>1, <1>3, ListsGrow
<1> QED BY <1>4

LEMMA OfPriorityFits ==
  ASSUME NEW s \in Seq(Offers), NEW p
  PROVE  /\ OfPriority(s, p) \in Seq(Offers)
         /\ \A i \in 1 .. Len(OfPriority(s, p)) : OfPriority(s, p)[i].priority = p
<1>1. PICK I : I = {i \in DOMAIN s : s[i].priority = p} OBVIOUS
<1>2. Picked(s, I) \in Seq(Offers) /\ \E f : PlacesOf(Picked(s, I), s, I, f) BY PickedInOrder
<1>3. PICK q \in Seq(Offers) : q = Picked(s, I) BY <1>2
<1>4. PICK f : PlacesOf(q, s, I, f) BY <1>2, <1>3
<1> QED BY <1>1, <1>3, <1>4 DEF OfPriority, PlacesOf

LEMMA OfPriorityAppended ==
  ASSUME NEW s \in Seq(Offers), NEW x \in Offers, NEW p
  PROVE  OfPriority(Append(s, x), p) = IF x.priority = p THEN Append(OfPriority(s, p), x) ELSE OfPriority(s, p)
<1>1. PICK t \in Seq(Offers) : t = Append(s, x)
  <2>1. Append(s, x) \in Seq(Offers) OBVIOUS
  <2> QED BY <2>1
<1>2. PICK I : I = {k \in DOMAIN t : t[k].priority = p} OBVIOUS
<1>3. PICK J : J = {k \in DOMAIN s : s[k].priority = p} OBVIOUS
<1>4. Picked(Append(s, x), I) = IF Len(s) + 1 \in I THEN Append(Picked(s, I), x) ELSE Picked(s, I) BY PickedAppend
<1>5. Len(s) + 1 \in I <=> x.priority = p BY <1>1, <1>2
<1>6. Picked(s, I) = Picked(s, J) BY PickedSame, <1>1, <1>2, <1>3
<1>7. OfPriority(s, p) = Picked(s, J) BY <1>3 DEF OfPriority
<1> QED BY <1>1, <1>4, <1>5, <1>6, <1>7, <1>2 DEF OfPriority

Sorted(s) == Len(OfPriority(s, 400)) + Len(OfPriority(s, 300)) + Len(OfPriority(s, 250))

LEMMA OffersJoined ==
  \A g, l \in Seq(Offers) :
     /\ Len(g \o l) = Len(g) + Len(l)
     /\ \A i \in 1 .. Len(g) + Len(l) :
           (g \o l)[i] = IF i <= Len(g) THEN g[i] ELSE l[i - Len(g)]
  OBVIOUS

LEMMA AllAreSorted == \A s \in Seq(Offers) : Sorted(s) = Len(s)
<1> DEFINE G == {s \in Seq(Offers) : Sorted(s) = Len(s)}
<1>1. << >> \in G BY PickedNone DEF Sorted, OfPriority
<1>2. ASSUME NEW s \in Seq(Offers), NEW x \in Offers, s \in G PROVE Append(s, x) \in G
  <2>1. PICK h \in Seq(Offers), m \in Seq(Offers), l \in Seq(Offers) :
           h = OfPriority(s, 400) /\ m = OfPriority(s, 300) /\ l = OfPriority(s, 250) BY OfPriorityFits
  <2>2. Len(h) + Len(m) + Len(l) = Len(s) BY <1>2, <2>1 DEF Sorted
  <2>3. /\ OfPriority(Append(s, x), 400) = IF x.priority = 400 THEN Append(h, x) ELSE h
        /\ OfPriority(Append(s, x), 300) = IF x.priority = 300 THEN Append(m, x) ELSE m
        /\ OfPriority(Append(s, x), 250) = IF x.priority = 250 THEN Append(l, x) ELSE l BY <2>1, OfPriorityAppended
  <2>4. Len(Append(h, x)) = Len(h) + 1 /\ Len(Append(m, x)) = Len(m) + 1 /\ Len(Append(l, x)) = Len(l) + 1 OBVIOUS
  <2>5. PICK a \in Nat, b \in Nat, c \in Nat : a = Len(h) /\ b = Len(m) /\ c = Len(l) OBVIOUS
  <2>6. (a + 1) + b + c = Len(s) + 1 /\ a + (b + 1) + c = Len(s) + 1 /\ a + b + (c + 1) = Len(s) + 1 BY <2>2, <2>5
  <2>7. Sorted(Append(s, x)) = Len(s) + 1
    <3>1. CASE x.priority = 400 BY <2>3, <2>4, <2>5, <2>6, <3>1 DEF Sorted
    <3>2. CASE x.priority = 300 BY <2>3, <2>4, <2>5, <2>6, <3>2 DEF Sorted
    <3>3. CASE x.priority = 250 BY <2>3, <2>4, <2>5, <2>6, <3>3 DEF Sorted
    <3> QED BY <3>1, <3>2, <3>3 DEF Offers
  <2> QED BY <2>7
<1>3. \A s \in Seq(Offers) : \A x \in Offers : s \in G => Append(s, x) \in G
  <2> HIDE DEF G
  <2> QED BY <1>2
<1>4. \A s \in Seq(Offers) : s \in G
  <2> HIDE DEF G
  <2> QED BY <1>1, <1>3, ListsGrow
<1> QED BY <1>4

LEMMA ByPriorityFits ==
  ASSUME NEW s \in Seq(Offers)
  PROVE  /\ ByPriority(s) \in Seq(Offers) /\ Len(ByPriority(s)) = Len(s)
         /\ Descending(ByPriority(s))
<1>1. PICK h \in Seq(Offers), m \in Seq(Offers), l \in Seq(Offers) :
         h = OfPriority(s, 400) /\ m = OfPriority(s, 300) /\ l = OfPriority(s, 250) BY OfPriorityFits
<1>2. /\ \A i \in 1 .. Len(h) : h[i].priority = 400
      /\ \A i \in 1 .. Len(m) : m[i].priority = 300
      /\ \A i \in 1 .. Len(l) : l[i].priority = 250 BY <1>1, OfPriorityFits
<1>3. PICK g \in Seq(Offers) : g = h \o m
  <2>1. h \o m \in Seq(Offers) OBVIOUS
  <2> QED BY <2>1
<1>4. PICK q \in Seq(Offers) : q = g \o l
  <2>1. g \o l \in Seq(Offers) OBVIOUS
  <2> QED BY <2>1
<1>5. PICK a \in Nat, b \in Nat, c \in Nat : a = Len(h) /\ b = Len(m) /\ c = Len(l) OBVIOUS
<1>6. /\ Len(g) = a + b
      /\ \A i \in 1 .. a + b : g[i] = IF i <= a THEN h[i] ELSE m[i - a] BY <1>3, <1>5
<1>7. /\ Len(q) = a + b + c
      /\ \A i \in 1 .. a + b + c : q[i] = IF i <= a + b THEN g[i] ELSE l[i - (a + b)]
  <2>1. PICK k \in Nat : k = a + b /\ Len(g) = k BY <1>5, <1>6
  <2>2. Len(q) = k + c /\ \A i \in 1 .. k + c : q[i] = IF i <= k THEN g[i] ELSE l[i - k]
    <3>1. k = Len(g) /\ c = Len(l) /\ q = g \o l BY <1>4, <1>5, <2>1
    <3> QED BY <3>1, OffersJoined
  <2>3. a + b = k BY <2>1
  <2>4. ASSUME NEW i \in 1 .. a + b + c
        PROVE  q[i] = IF i <= a + b THEN g[i] ELSE l[i - (a + b)] BY <2>3, <2>2
  <2> QED BY <2>4, <2>2, <2>3
<1>8. \A i \in 1 .. a + b + c :
         q[i].priority = IF i <= a THEN 400 ELSE IF i <= a + b THEN 300 ELSE 250
  <2>1. ASSUME NEW i \in 1 .. a + b + c
        PROVE  q[i].priority = IF i <= a THEN 400 ELSE IF i <= a + b THEN 300 ELSE 250
    <3>1. CASE i <= a BY <1>2, <1>5, <3>1, <1>6, <1>7
    <3>2. CASE ~(i <= a) /\ i <= a + b
      <4>1. i - a \in 1 .. b /\ i \in 1 .. a + b BY <3>2
      <4>2. q[i] = m[i - a] BY <1>6, <1>7, <3>2, <4>1
      <4> QED BY <1>2, <1>5, <3>2, <4>1, <4>2
    <3>3. CASE ~(i <= a + b)
      <4>1. i - (a + b) \in 1 .. c /\ ~(i <= a) BY <3>3
      <4>2. q[i] = l[i - (a + b)] BY <1>7, <3>3
      <4> QED BY <1>2, <1>5, <3>3, <4>1, <4>2
    <3> QED BY <3>1, <3>2, <3>3
  <2> QED BY <2>1
<1>9. Descending(q)
  <2>1. ASSUME NEW i \in 1 .. Len(q), NEW j \in 1 .. Len(q), i < j PROVE q[i].priority >= q[j].priority
    <3>1. i \in 1 .. a + b + c /\ j \in 1 .. a + b + c BY <1>7
    <3>2. PICK v \in {400, 300, 250}, w \in {400, 300, 250} :
             /\ v = (IF i <= a THEN 400 ELSE IF i <= a + b THEN 300 ELSE 250)
             /\ w = (IF j <= a THEN 400 ELSE IF j <= a + b THEN 300 ELSE 250) OBVIOUS
    <3>3. q[i].priority = v /\ q[j].priority = w BY <1>8, <3>1, <3>2
    <3>4. v >= w BY <2>1, <3>1, <3>2
    <3> QED BY <3>3, <3>4
  <2> QED BY <2>1 DEF Descending
<1>10. a + b + c = Len(s)
  <2>1. Sorted(s) = Len(s) BY AllAreSorted
  <2> QED BY <1>1, <1>5, <2>1 DEF Sorted
<1> QED BY <1>7, <1>9, <1>10, <1>1, <1>3, <1>4 DEF ByPriority

(***************************************************************************)
(* From the trimming on, the kept messages are the newest ones, and all    *)
(* longer suffixes of the history took too much; what was built stays what *)
(* build_context made of the offers.                                       *)
(***************************************************************************)
ContextShapes ==
    /\ budget \in Budgets /\ history \in Seq(Sizes) /\ history # << >> /\ recent \in Seq(Sizes)
    /\ used \in Nat
    /\ ctx \in Failures \cup {"start", "trim", "retrieve", "select", "assemble", "built"}

NewestKept ==
    ctx \in {"trim", "retrieve", "select", "assemble", "built"} =>
        /\ PolicyTokens < budget
        /\ Len(recent) \in 1 .. Len(history) /\ recent = Newest(Len(recent))
        /\ \A more \in Len(recent) + 1 .. Len(history) : ~WithinTwoThirds(more)

EnoughKept ==
    ctx \in {"retrieve", "select", "assemble", "built"} =>
        WithinTwoThirds(Len(recent)) /\ Total(recent) <= ContentBudget

OffersBuilt ==
    /\ ctx \in {"select", "assemble", "built"} => candidates \in Seq(Offers)
    /\ ctx \in {"assemble", "built"} =>
          /\ built \in Contexts
          /\ Len(built.selected) + Len(built.omitted) = Len(candidates)
          /\ \A i \in 1 .. Len(built.omitted) :
                built.omitted[i].size + Total(SizesOf(AtLeast(built.selected, built.omitted[i].priority)))
                    > OptionalBudget
    /\ ctx = "built" => used <= budget

ContextInv == ContextShapes /\ NewestKept /\ EnoughKept /\ OffersBuilt

LEMMA SizesAreNumbers == ASSUME NEW s \in Seq(Sizes) PROVE s \in Seq(Nat) /\ Total(s) \in Nat
<1>1. s \in Seq(Nat)
  <2>1. \A i \in 1 .. Len(s) : s[i] \in Nat
    <3>1. \A i \in 1 .. Len(s) : s[i] \in Sizes OBVIOUS
    <3> QED BY <3>1, ContextAssumption
  <2> QED BY <2>1
<1> QED BY <1>1, SumOfAppended DEF Total

LEMMA ListsOfSizes == ASSUME NEW n \in Nat, NEW s \in UpTo(n) PROVE s \in Seq(Sizes)
  BY DEF UpTo

LEMMA ContextInitially == ContextInit => ContextInv
<1> SUFFICES ASSUME ContextInit PROVE ContextInv OBVIOUS
<1> QED
  BY ListsOfSizes, ContextAssumption DEF ContextInit, ContextInv, ContextShapes, NewestKept, EnoughKept, OffersBuilt

LEMMA ReadRecentKeeps == ContextInv /\ ReadRecent => ContextInv'
<1> SUFFICES ASSUME ContextInv, ReadRecent PROVE ContextInv' OBVIOUS
<1>1. /\ UNCHANGED <<budget, history, candidates, built, used>>
      /\ \/ PolicyTokens >= budget /\ ctx' = "policy_too_large" /\ recent' = recent
         \/ ~(PolicyTokens >= budget) /\ ctx' = "trim" /\ recent' = history BY DEF ReadRecent, Fail
<1>2. PICK h \in Seq(Sizes) : h = history /\ h # << >> BY DEF ContextInv, ContextShapes
<1>3. PICK n \in Nat : n = Len(h) /\ n # 0 BY <1>2
<1>4. SubSeq(h, n - n + 1, n) = h
  <2>1. PICK g \in Seq(Sizes) : g = SubSeq(h, 1, n) BY <1>3
  <2> QED BY <2>1, <1>3, SameLists
<1>5. CASE PolicyTokens >= budget /\ ctx' = "policy_too_large" /\ recent' = recent
  BY <1>1, <1>5 DEF ContextInv, ContextShapes, NewestKept, EnoughKept, OffersBuilt, Failures
<1>6. CASE ~(PolicyTokens >= budget) /\ ctx' = "trim" /\ recent' = history
  <2>1. Len(history) \in 1 .. Len(history) /\ (Len(history) + 1) .. Len(history) = {} BY <1>2, <1>3
  <2>2. NewestKept'
    BY <1>1, <1>6, <2>1, ContextAssumption, <1>2, <1>3, <1>4 DEF NewestKept, ContextInv, ContextShapes, Newest
  <2> QED BY <1>1, <1>6, <2>2 DEF ContextInv, ContextShapes, EnoughKept, OffersBuilt
<1> QED BY <1>1, <1>5, <1>6

LEMMA SuffixPlaces ==
  ASSUME NEW T, NEW h \in Seq(T), NEW n \in Nat, n = Len(h), NEW k \in Nat, k \in 1 .. n,
         NEW g \in Seq(T), g = SubSeq(h, n - k + 1, n)
  PROVE  Len(g) = k /\ \A i \in 1 .. k : g[i] = h[n - k + i]
  OBVIOUS

LEMMA TrimRecentKeeps == ContextInv /\ TrimRecent => ContextInv'
<1> SUFFICES ASSUME ContextInv, TrimRecent PROVE ContextInv' OBVIOUS
<1>1. PICK third : third = (ContentBudget * 2) \div 3 OBVIOUS
<1>2. /\ ctx = "trim" /\ UNCHANGED <<budget, history, candidates, built, used>>
      /\ \/ Len(recent) > 1 /\ Total(recent) > third /\ recent' = Tail(recent) /\ ctx' = ctx
         \/ /\ ~(Len(recent) > 1 /\ Total(recent) > third) /\ recent' = recent
            /\ \/ Total(recent) > ContentBudget /\ ctx' = "latest_too_large"
               \/ ~(Total(recent) > ContentBudget) /\ ctx' = "retrieve" BY <1>1 DEF TrimRecent, Fail
<1>3. PICK h \in Seq(Sizes) : h = history BY DEF ContextInv, ContextShapes
<1>4. PICK r \in Seq(Sizes) : r = recent BY DEF ContextInv, ContextShapes
<1>5. PICK n \in Nat, m \in Nat : n = Len(h) /\ m = Len(r) OBVIOUS
<1>6. /\ m \in 1 .. n /\ r = SubSeq(h, n - m + 1, n) /\ PolicyTokens < budget
      /\ \A more \in m + 1 .. n : ~WithinTwoThirds(more) BY <1>2, <1>3, <1>4, <1>5 DEF ContextInv, NewestKept, Newest
<1>7. PICK room \in Nat : room = ContentBudget BY <1>6, ContextAssumption DEF ContentBudget, ContextInv, ContextShapes
<1>8. third \in Nat BY <1>1, <1>7
<1>9. PICK total \in Nat : total = Total(r) BY SizesAreNumbers
<1>10. Newest(m) = r BY <1>3, <1>5, <1>6 DEF Newest
<1>11. \A k : WithinTwoThirds(k)' <=> WithinTwoThirds(k) BY <1>2 DEF WithinTwoThirds, Newest, ContentBudget
<1>12. CASE Len(recent) > 1 /\ Total(recent) > third /\ recent' = Tail(recent) /\ ctx' = ctx
  <2>1. m > 1 /\ total > third BY <1>4, <1>5, <1>9, <1>12
  <2>2. ~WithinTwoThirds(m) BY <1>1, <1>8, <1>9, <1>10, <2>1 DEF WithinTwoThirds
  <2>3. PICK t \in Seq(Sizes) : t = Tail(r)
    <3>1. Tail(r) \in Seq(Sizes) BY <1>5, <1>6
    <3> QED BY <3>1
  <2>4. PICK k \in Nat : k = m - 1 /\ k \in 1 .. n BY <1>6, <2>1
  <2>5. Len(t) = k /\ \A i \in 1 .. k : t[i] = r[i + 1] BY <1>5, <2>1, <2>3, <2>4
  <2>6. \A i \in 1 .. m : r[i] = h[n - m + i]
    <3>1. m \in 1 .. n /\ r = SubSeq(h, n - m + 1, n) BY <1>6
    <3>2. PICK q \in Seq(Sizes) : q = SubSeq(h, n - m + 1, n) BY <3>1
    <3>3. m \in 1 .. n BY <3>1
    <3>4. Len(q) = m /\ \A i \in 1 .. m : q[i] = h[n - m + i] BY <3>3, <3>2, SuffixPlaces, <1>5
    <3> QED BY <3>1, <3>2, <3>4
  <2>7. PICK g \in Seq(Sizes) : g = SubSeq(h, n - k + 1, n)
    <3>1. SubSeq(h, n - k + 1, n) \in Seq(Sizes) BY <1>5, <2>4
    <3> QED BY <3>1
  <2>8. Len(g) = k /\ \A i \in 1 .. k : g[i] = h[n - k + i] BY <1>5, <2>4, <2>7
  <2>9. \A i \in 1 .. k : t[i] = g[i]
    <3>1. ASSUME NEW i \in 1 .. k PROVE t[i] = g[i]
      <4>1. i + 1 \in 1 .. m /\ n - m + (i + 1) = n - k + i BY <2>4
      <4> QED BY <2>5, <2>6, <2>8, <4>1
    <3> QED BY <3>1
  <2>10. t = g BY <2>5, <2>8, <2>9, SameLists
  <2>11. \A more \in k + 1 .. n : ~WithinTwoThirds(more) BY <1>6, <2>2, <2>4
  <2> QED
    BY <1>2, <1>12, <2>3, <1>3, <1>5, <1>6, <1>11, <2>4, <2>11, <1>4, <2>5, <2>7, <2>10 DEF ContextInv, ContextShapes,
      EnoughKept, OffersBuilt, NewestKept, Newest
<1>13. CASE ~(Len(recent) > 1 /\ Total(recent) > third) /\ recent' = recent /\ ctx' = "latest_too_large"
  BY <1>2, <1>13 DEF ContextInv, ContextShapes, NewestKept, EnoughKept, OffersBuilt, Failures
<1>14. CASE /\ ~(Len(recent) > 1 /\ Total(recent) > third) /\ recent' = recent
            /\ ~(Total(recent) > ContentBudget) /\ ctx' = "retrieve"
  <2>1. m = 1 \/ total <= third
    <3>1. ~(m > 1 /\ total > third) /\ m >= 1 BY <1>4, <1>5, <1>6, <1>9, <1>14
    <3> QED BY <1>8, <3>1
  <2>2. EnoughKept'
    BY <1>2, <1>4, <1>5, <1>11, <1>14, <1>1, <1>9, <1>10, <2>1, <1>7 DEF EnoughKept, ContentBudget, WithinTwoThirds
  <2> QED BY <1>2, <1>14, <2>2, <1>11 DEF ContextInv, ContextShapes, OffersBuilt, NewestKept, Newest
<1> QED BY <1>2, <1>12, <1>13, <1>14

LEMMA OfferedFit ==
  ASSUME NEW sizes \in Seq(Sizes), NEW p \in {400, 300, 250}
  PROVE  Offer(sizes, p) \in Seq(Offers)
<1>1. PICK n \in Nat : n = Len(sizes) OBVIOUS
<1> QED BY <1>1 DEF Offers, Offer

LEMMA RetrieveKeeps ==
  ASSUME ContextInv, NEW found \in UpTo(MaxFound), NEW pinned \in UpTo(MaxPinned), NEW worktrees \in UpTo(1),
         RetrieveBooks(found, pinned, worktrees)
  PROVE  ContextInv'
<1>1. /\ ctx = "retrieve" /\ ctx' = "select" /\ UNCHANGED <<budget, history, recent, built, used>>
      /\ candidates' = Offer(found, 300) \o Offer(pinned, 400) \o Offer(worktrees, 250) BY DEF RetrieveBooks
<1>2. PICK a \in Seq(Offers), b \in Seq(Offers), c \in Seq(Offers) :
         a = Offer(found, 300) /\ b = Offer(pinned, 400) /\ c = Offer(worktrees, 250)
  BY OfferedFit, ListsOfSizes, ContextAssumption
<1>3. candidates' \in Seq(Offers) BY <1>1, <1>2
<1> QED
  BY <1>1, <1>3 DEF ContextInv, OffersBuilt, ContextShapes, NewestKept, EnoughKept, WithinTwoThirds, Newest,
    ContentBudget

LEMMA BuildKeeps == ContextInv /\ BuildContext => ContextInv'
<1> SUFFICES ASSUME ContextInv, BuildContext PROVE ContextInv' OBVIOUS
<1>1. /\ ctx = "select" /\ ctx' = "assemble" /\ UNCHANGED <<budget, history, recent, candidates, used>>
      /\ built' = Chosen(ByPriority(candidates)) BY DEF BuildContext
<1>2. PICK offers \in Seq(Offers) : offers = candidates BY <1>1 DEF ContextInv, OffersBuilt
<1>3. PICK ordered \in Seq(Offers) :
         ordered = ByPriority(offers) /\ Len(ordered) = Len(offers) /\ Descending(ordered) BY ByPriorityFits
<1>4. OptionalBudget \in Nat
  <2>1. PICK total \in Nat : total = Total(recent) BY SizesAreNumbers DEF ContextInv, ContextShapes
  <2> QED
    BY <2>1, <1>1, ContextAssumption DEF OptionalBudget, ContentBudget, ContextInv, ContextShapes, NewestKept,
      EnoughKept
<1>5. PICK r : r = Chosen(ordered) /\ ChosenFits(r, ordered) BY <1>3, <1>4, ChosenGood
<1>6. /\ r \in Contexts
      /\ Len(r.selected) + Len(r.omitted) = Len(offers)
      /\ \A i \in 1 .. Len(r.omitted) :
            r.omitted[i].size + Total(SizesOf(AtLeast(r.selected, r.omitted[i].priority))) > OptionalBudget
  BY <1>3, <1>5 DEF ChosenFits
<1>7. OffersBuilt' BY <1>1, <1>2, <1>6, <1>3, <1>5 DEF OffersBuilt, OptionalBudget, ContentBudget
<1> QED BY <1>7, <1>1 DEF ContextInv, ContextShapes, NewestKept, EnoughKept, WithinTwoThirds, Newest, ContentBudget

LEMMA WrappedIsNumber == ASSUME NEW s \in Seq(Offers) PROVE Wrapped(s) \in Nat
<1>1. PICK n \in Nat : n = Len(s) OBVIOUS
<1>2. PICK g : g = [i \in DOMAIN s |-> s[i].size + WrapTokens] OBVIOUS
<1>3. g \in Seq(Nat)
  <2>1. \A i \in 1 .. n : s[i].size + WrapTokens \in Nat
    <3>1. \A i \in 1 .. n : s[i] \in Offers BY <1>1
    <3>2. \A i \in 1 .. n : s[i].size \in Nat
      <4>1. ASSUME NEW i \in 1 .. n PROVE s[i].size \in Nat
        <5>1. s[i].size \in Sizes BY <3>1 DEF Offers
        <5> QED BY <5>1, ContextAssumption
      <4> QED BY <4>1
    <3> QED BY <3>2, ContextAssumption
  <2> QED BY <2>1, <1>1, <1>2
<1>4. SumFunction(g) \in Nat BY <1>3, SumOfAppended
<1> QED BY <1>2, <1>4, ContextAssumption DEF Wrapped, Total

LEMMA AssembleKeeps == ContextInv /\ Assemble => ContextInv'
<1> SUFFICES ASSUME ContextInv, Assemble PROVE ContextInv' OBVIOUS
<1>1. /\ ctx = "assemble" /\ UNCHANGED <<budget, history, recent, candidates, built>>
      /\ used' = PolicyTokens + Wrapped(built.selected) + Total(recent)
      /\ \/ used' > budget /\ ctx' = "assembled_too_large"
         \/ ~(used' > budget) /\ ctx' = "built" BY DEF Assemble, Exceeds, Fail
<1>2. used' \in Nat
  <2>1. Wrapped(built.selected) \in Nat BY WrappedIsNumber, <1>1 DEF ContextInv, OffersBuilt, Contexts
  <2> QED BY <1>1, <2>1, ContextAssumption, SizesAreNumbers DEF ContextInv, ContextShapes
<1>3. ctx' = "built" => used' <= budget BY <1>1, <1>2, ContextAssumption DEF ContextInv, ContextShapes
<1>4. OffersBuilt' BY <1>1, <1>3 DEF ContextInv, OffersBuilt, OptionalBudget, ContentBudget
<1> QED
  BY <1>4, <1>1, <1>2 DEF ContextInv, NewestKept, EnoughKept, WithinTwoThirds, Newest, ContentBudget, ContextShapes,
    Failures

LEMMA ContextStep == ContextInv /\ [ContextNext]_ctxvars => ContextInv'
<1> SUFFICES ASSUME ContextInv, [ContextNext]_ctxvars PROVE ContextInv' OBVIOUS
<1>1. CASE UNCHANGED ctxvars
  BY <1>1 DEF ctxvars, ContextInv, ContextShapes, NewestKept, EnoughKept, OffersBuilt, WithinTwoThirds, Newest,
    ContentBudget, OptionalBudget
<1>2. CASE ReadRecent BY <1>2, ReadRecentKeeps
<1>3. CASE TrimRecent BY <1>3, TrimRecentKeeps
<1>4. CASE BuildContext BY <1>4, BuildKeeps
<1>5. CASE Assemble BY <1>5, AssembleKeeps
<1>6. ASSUME NEW found \in UpTo(MaxFound), NEW pinned \in UpTo(MaxPinned), NEW worktrees \in UpTo(1),
             RetrieveBooks(found, pinned, worktrees)
      PROVE  ContextInv' BY <1>6, RetrieveKeeps
<1> QED BY <1>1, <1>2, <1>3, <1>4, <1>5, <1>6 DEF ContextNext

LEMMA ContextsFit == ContextInv => ContextFits /\ ContextTypeOK
<1> SUFFICES ASSUME ContextInv PROVE ContextFits /\ ContextTypeOK OBVIOUS
<1>1. ASSUME ctx = "built" PROVE ContextFits
  <2>1. PICK n \in 1 .. Len(history) : n = Len(recent) BY <1>1 DEF ContextInv, NewestKept
  <2>2. \A i \in 1 .. Len(built.omitted) :
           built.omitted[i].size + Total(SizesOf(AtLeast(built.selected, built.omitted[i].priority)))
               > OptionalBudget BY <1>1 DEF ContextInv, OffersBuilt
  <2> QED BY <2>2, <1>1, <2>1 DEF ContextFits, SizesOf, AtLeast, ContextInv, NewestKept, EnoughKept, OffersBuilt
<1> QED BY <1>1 DEF ContextFits, ContextInv, ContextShapes, ContextTypeOK

\* A context that is sent fits the window, keeps the newest messages, as many
\* as the rules allow, and leaves out only what did not fit beside what was
\* chosen before it (build_messages of run_api.rs, build_context).
THEOREM ContextsAreBest == ContextSpec => [](ContextFits /\ ContextTypeOK)
  BY ContextInitially, ContextStep, ContextsFit, PTL DEF ContextSpec

(***************************************************************************)
(* ProviderStream                                                          *)
(***************************************************************************)
(***************************************************************************)
(* What has been parsed is what the executor saw, then what is queued for  *)
(* it, then the data lines of the event being read.  A stream that is over *)
(* has an error at the head of its queue, or the end of a whole answer.    *)
(***************************************************************************)
Words == {"text", "call", "nullcall", "usage"}
AllLines == Payloads \cup {"blank", "comment", "done"}
Events == Words \cup {"completed", "error"}

\* What a line says, and what the executor is shown of an answer that `last`
\* finishes.
Heard(line) == IF line \in Unheard THEN << >> ELSE <<line>>
ShownAfter(words, last) == words \o Yields(last)

Parsed(n) == Said(SubSeq(body, 1, n))

StreamFits ==
    /\ kind \in {"ollama", "sse"} /\ body \in Bodies[kind] /\ route \in 1 .. Routes
    /\ arrived \in Nat /\ 3 * parsed <= arrived /\ arrived <= 3 * Len(body) /\ parsed \in Nat
    /\ sseData \in Seq(Payloads) /\ (kind = "ollama" => sseData = << >>)
    /\ queue \in Seq(Events)
    /\ completed \in BOOLEAN
    /\ network \in {"closed", "open", "ended", "broken"}
    /\ seen \in Seq(Words)
    /\ round \in {"opening", "streaming", "done", "failed"}

OnItsWay ==
    round \in {"opening", "streaming"} /\ ~completed =>
        /\ queue \in Seq(Words)
        /\ network # "ended" => Parsed(parsed) = (seen \o queue) \o Said(sseData)
        /\ network = "ended" => arrived = 3 * parsed /\ sseData = << >>

Ending(taken) ==
    \E n \in 1 .. Len(body), words \in Seq(Words), last \in Finishing :
        Parsed(n) = Append(words, last) /\ taken = ShownAfter(words, last)

OverWell ==
    /\ round = "opening" => ~completed /\ network = "closed"
    /\ round = "streaming" /\ completed =>
          \/ queue # << >> /\ Head(queue) = "error"
          \/ \E taken \in Seq(Words) : Ending(taken) /\ seen \o queue = Append(taken, "completed")

DoneWell == round = "done" => Ending(seen)

StreamInv == StreamFits /\ OnItsWay /\ OverWell /\ DoneWell

LEMMA BodyLines == ASSUME StreamFits
                   PROVE  /\ body \in Seq(AllLines)
                          /\ kind = "ollama" => body \in Seq(OllamaLines)
                          /\ kind = "sse" => body \in Seq(SseLines)
                          /\ Len(body) \in 0 .. MaxLines
<1>1. PICK n \in 0 .. MaxLines : body \in [1 .. n -> IF kind = "ollama" THEN OllamaLines ELSE SseLines]
  BY DEF Body, StreamFits, Bodies
<1>2. n \in Nat BY <1>1
<1>3. CASE kind = "ollama"
  <2>1. body \in [1 .. n -> OllamaLines] BY <1>1, <1>3
  <2>2. PICK b \in Seq(OllamaLines) : b = body BY <1>2, <2>1
  <2>3. b \in Seq(AllLines) BY DEF OllamaLines, AllLines, Payloads
  <2> QED BY <1>1, <1>3, <2>2, <2>3, <1>2, <2>1
<1>4. CASE kind # "ollama"
  <2>1. body \in [1 .. n -> SseLines] BY <1>1, <1>4
  <2>2. PICK b \in Seq(SseLines) : b = body BY <1>2, <2>1
  <2>3. b \in Seq(AllLines) BY DEF SseLines, AllLines
  <2> QED BY <1>1, <1>4, <2>2, <2>3, <1>2, <2>1
<1> QED BY <1>3, <1>4

LEMMA SaidOfAppended ==
  ASSUME NEW s \in Seq(AllLines), NEW x \in AllLines
  PROVE  Said(Append(s, x)) = IF x \in Unheard THEN Said(s) ELSE Append(Said(s), x)
<1>1. Append(s, x) \in Seq(AllLines) OBVIOUS
<1>2. PICK t \in Seq(AllLines) : t = Append(s, x) BY <1>1
<1>3. PICK I : I = {i \in DOMAIN t : t[i] \notin Unheard} OBVIOUS
<1>4. PICK J : J = {i \in DOMAIN s : s[i] \notin Unheard} OBVIOUS
<1>5. Picked(Append(s, x), I) = IF Len(s) + 1 \in I THEN Append(Picked(s, I), x) ELSE Picked(s, I) BY PickedAppend
<1>6. Len(s) + 1 \in I <=> x \notin Unheard BY <1>2, <1>3
<1>7. Picked(s, I) = Picked(s, J) BY PickedSame, <1>2, <1>3, <1>4
<1>8. Said(s) = Picked(s, J) BY <1>4 DEF Said
<1> QED BY <1>2, <1>5, <1>6, <1>7, <1>8, <1>3 DEF Said

LEMMA ParsedNext ==
  ASSUME StreamFits, NEW n \in Nat, n < Len(body)
  PROVE  Parsed(n + 1) = IF body[n + 1] \in Unheard THEN Parsed(n) ELSE Append(Parsed(n), body[n + 1])
<1>1. PICK b \in Seq(AllLines) : b = body BY BodyLines
<1>2. PICK s \in Seq(AllLines) : s = SubSeq(b, 1, n)
  <2>1. SubSeq(b, 1, n) \in Seq(AllLines) BY <1>1
  <2> QED BY <2>1
<1>3. PICK t \in Seq(AllLines) : t = SubSeq(b, 1, n + 1)
  <2>1. SubSeq(b, 1, n + 1) \in Seq(AllLines) BY <1>1
  <2> QED BY <2>1
<1>4. b[n + 1] \in AllLines BY <1>1
<1>5. t = Append(s, b[n + 1])
  <2>1. PICK u \in Seq(AllLines) : u = Append(s, b[n + 1])
    <3>1. Append(s, b[n + 1]) \in Seq(AllLines) BY <1>4
    <3> QED BY <3>1
  <2>2. Len(t) = Len(u) /\ \A i \in 1 .. Len(t) : t[i] = u[i] BY <1>1, <1>3, <2>1, <1>2
  <2> QED BY <2>1, <2>2
<1>6. Parsed(n) = Said(s) /\ Parsed(n + 1) = Said(t) BY <1>1, <1>2, <1>3 DEF Parsed
<1> QED BY <1>1, <1>6, <1>4, <1>5, SaidOfAppended

LEMMA SaidNothing == Said(<< >>) = << >>
  BY PickedNone DEF Said

LEMMA ParsedNone == Parsed(0) = << >>
<1>1. SubSeq(body, 1, 0) = << >> OBVIOUS
<1> QED BY <1>1, SaidNothing DEF Parsed

LEMMA SaidLines == \A s \in Seq(AllLines) : Said(s) \in Seq(AllLines)
<1> SUFFICES ASSUME NEW s \in Seq(AllLines) PROVE Said(s) \in Seq(AllLines) OBVIOUS
<1>1. PICK I : I = {i \in DOMAIN s : s[i] \notin Unheard} OBVIOUS
<1> QED BY <1>1, PickedInOrder DEF Said

LEMMA SaidMore ==
  ASSUME NEW s \in Seq(AllLines), NEW x \in AllLines
  PROVE  Said(Append(s, x)) = Said(s) \o Heard(x)
<1>1. PICK t \in Seq(AllLines) : t = Said(s) BY SaidLines
<1>2. t \o << >> = t /\ t \o <<x>> = Append(t, x) OBVIOUS
<1> QED BY <1>1, <1>2, SaidOfAppended DEF Heard

LEMMA SaidOne == ASSUME NEW x \in AllLines PROVE Said(<<x>>) = Heard(x)
<1>1. PICK none \in Seq(AllLines) : none = << >>
  <2>1. << >> \in Seq(AllLines) OBVIOUS
  <2> QED BY <2>1
<1>2. Append(none, x) = <<x>> BY <1>1
<1>3. PICK h \in Seq(AllLines) : h = Heard(x)
  <2>1. <<x>> \in Seq(AllLines) /\ << >> \in Seq(AllLines) OBVIOUS
  <2> QED BY <2>1 DEF Heard
<1>4. Said(none) = << >> BY <1>1, SaidNothing
<1>5. << >> \o h = h OBVIOUS
<1> QED BY <1>2, <1>3, <1>4, <1>5, SaidMore

LEMMA YieldsWords == \A p \in AllLines : p # "bad" => Yields(p) \in Seq(Words)
<1> SUFFICES ASSUME NEW p \in AllLines, p # "bad" PROVE Yields(p) \in Seq(Words) OBVIOUS
<1>1. CASE p = "final"
  <2>1. <<"text">> \in Seq(Words) BY DEF Words
  <2> QED BY <2>1, <1>1 DEF Yields
<1>2. CASE p = "done"
  <2>1. <<"text", "usage">> \in Seq(Words) BY DEF Words
  <2> QED BY <2>1, <1>2 DEF Yields
<1>3. CASE p \in Unheard \cup {"[DONE]"} BY <1>3 DEF Yields, Unheard
<1>4. CASE p \in Words
  <2>1. <<p>> \in Seq(Words) BY <1>4
  <2> QED BY <2>1, <1>4 DEF Yields, Words, Unheard
<1> QED BY <1>1, <1>2, <1>3, <1>4 DEF AllLines, Payloads, Words, Unheard

(***************************************************************************)
(* What reading a line, or the data of an event, comes to, beside the data *)
(* that waited for it.                                                     *)
(***************************************************************************)
ReadsOn(r, data, added) ==
    /\ r.ok /\ ~r.done /\ r.events \in Seq(Words)
    /\ r.events # << >> => r.sse = << >>
    /\ Said(data) \o added = r.events \o Said(r.sse)

Finishes(r, data, added) ==
    /\ r.ok /\ r.done
    /\ \E last \in Finishing : Said(data) \o added = <<last>> /\ r.events = Yields(last) \o <<"completed">>

Outcome(r, data, added) ==
    /\ r.ok \in BOOLEAN /\ r.done \in BOOLEAN
    /\ r.sse \in Seq(Payloads) /\ r.events \in Seq(Events)
    /\ kind = "ollama" => r.sse = << >>
    /\ ReadsOn(r, data, added) \/ Finishes(r, data, added) \/ (~r.ok /\ ~r.done /\ r.events = << >>)

LEMMA OneThenOne == ASSUME NEW a, NEW b PROVE <<a>> \o <<b>> = <<a, b>>
<1>1. <<a>> \o <<b>> \in Seq({a, b}) /\ <<a, b>> \in Seq({a, b}) OBVIOUS
<1>2. PICK s \in Seq({a, b}) : s = <<a>> \o <<b>> BY <1>1
<1>3. PICK t \in Seq({a, b}) : t = <<a, b>> BY <1>1
<1>4. Len(s) = 2 /\ s[1] = a /\ s[2] = b BY <1>2
<1>5. \A i \in 1 .. 2 : i = 1 \/ i = 2 OBVIOUS
<1>6. Len(s) = Len(t) /\ \A i \in 1 .. Len(s) : s[i] = t[i] BY <1>4, <1>5, <1>3
<1>7. s = t BY <1>6
<1> QED BY <1>2, <1>3, <1>7

LEMMA LongerThanOne == ASSUME NEW d, NEW a, Len(d) > 1 PROVE d # <<a>> /\ d # << >>
<1>1. Len(<<a>>) = 1 /\ Len(<< >>) = 0 OBVIOUS
<1>2. ASSUME d = <<a>> PROVE FALSE BY <1>1, <1>2
<1>3. ASSUME d = << >> PROVE FALSE BY <1>1, <1>3
<1> QED BY <1>2, <1>3

LEMMA OneLong == ASSUME NEW P, NEW d \in Seq(P), d # << >>, ~(Len(d) > 1) PROVE Len(d) = 1
  OBVIOUS

LEMMA Grouped ==
  ASSUME NEW T, NEW a \in Seq(T), NEW b \in Seq(T), NEW c \in Seq(T)
  PROVE  (a \o b) \o c = a \o (b \o c)
  OBVIOUS

LEMMA AtTheEnd == ASSUME NEW T, NEW a \in Seq(T), NEW x \in T PROVE a \o <<x>> = Append(a, x)
  OBVIOUS

LEMMA NotEmpty == ASSUME NEW T, NEW a \in Seq(T), NEW x \in T PROVE Append(a, x) # << >>
<1>1. Append(a, x) \in Seq(T) /\ Len(Append(a, x)) = Len(a) + 1 OBVIOUS
<1>2. PICK b \in Seq(T) : b = Append(a, x) /\ Len(b) = Len(a) + 1 BY <1>1
<1> QED BY <1>2

LEMMA WhenItGoesOn ==
  ASSUME NEW rest \in Seq(Payloads), NEW words \in Seq(Words), NEW d, NEW added, NEW r,
         r.ok = TRUE, r.done = FALSE, r.sse = rest, r.events = words,
         words # << >> => rest = << >>, kind = "ollama" => rest = << >>, Said(d) \o added = words \o Said(rest)
  PROVE  Outcome(r, d, added)
<1>1. words \in Seq(Events) BY DEF Words, Events
<1> QED BY <1>1 DEF Outcome, ReadsOn

LEMMA WhenItFinishes ==
  ASSUME NEW last \in Finishing, NEW d, NEW added, NEW r,
         r.ok = TRUE, r.done = TRUE, r.sse = << >>,
         r.events = Yields(last) \o <<"completed">>, Said(d) \o added = <<last>>
  PROVE  Outcome(r, d, added)
<1>1. PICK shown \in Seq(Words) : shown = Yields(last)
  BY YieldsWords DEF Finishing, AllLines, Payloads
<1>2. r.events \in Seq(Events)
  <2>1. shown \in Seq(Events) /\ <<"completed">> \in Seq(Events) BY DEF Events
  <2>2. shown \o <<"completed">> \in Seq(Events) BY <2>1
  <2> QED BY <1>1, <2>2
<1>3. << >> \in Seq(Payloads) OBVIOUS
<1> QED BY <1>2, <1>3 DEF Outcome, Finishes

LEMMA ValueRead ==
  ASSUME NEW p \in Payloads \cup {"done"}
  PROVE  Outcome(ParseValue(p), << >>, Heard(p)) /\ Outcome(ParseValue(p), <<p>>, << >>)
<1>1. PICK h \in Seq(AllLines) : h = Heard(p)
  <2>1. <<p>> \in Seq(AllLines) /\ << >> \in Seq(AllLines) BY DEF AllLines
  <2> QED BY <2>1 DEF Heard
<1>2. Said(<<p>>) = h /\ Said(<< >>) = << >> BY <1>1, SaidOne, SaidNothing DEF AllLines
<1>3. h \o << >> = h /\ << >> \o h = h OBVIOUS
<1>4. CASE p \in Words \cup {"mute"}
  <2>1. h = Yields(p) BY <1>1, <1>4 DEF Heard, Yields, Words, Unheard
  <2>2. h \in Seq(Words) BY <2>1, YieldsWords, <1>4 DEF AllLines, Words
  <2>3. PICK r : r = ParseValue(p) OBVIOUS
  <2>4. r.ok = TRUE /\ r.done = FALSE /\ r.sse = << >> /\ r.events = h
    BY <1>1, <2>1, <2>3, <1>4 DEF ParseValue, Nothing, Words
  <2>5. << >> \in Seq(Payloads) OBVIOUS
  <2>6. Said(<< >>) \o h = h \o Said(<< >>) /\ Said(<<p>>) \o << >> = h \o Said(<< >>) BY <1>2, <1>3
  <2>7. Outcome(r, << >>, h) BY <2>2, <2>4, <2>5, <2>6, WhenItGoesOn
  <2>8. Outcome(r, <<p>>, << >>) BY <2>2, <2>4, <2>5, <2>6, WhenItGoesOn
  <2> QED BY <1>1, <2>3, <2>7, <2>8
<1>5. CASE p \in {"final", "done"}
  <2>1. h = <<p>> /\ p \in Finishing BY <1>1, <1>5 DEF Heard, Unheard, Finishing
  <2>2. PICK r : r = ParseValue(p) OBVIOUS
  <2>3. PICK e : e = Yields(p) \o <<"completed">> OBVIOUS
  <2>4. r.ok = TRUE /\ r.done = TRUE /\ r.sse = << >> /\ r.events = e
    BY <2>2, <2>3, <1>5 DEF ParseValue, Finish, Nothing
  <2>5. Said(<< >>) \o h = <<p>> /\ Said(<<p>>) \o << >> = <<p>> BY <1>2, <1>3, <2>1
  <2>6. Outcome(r, << >>, h) BY <2>1, <2>3, <2>4, <2>5, WhenItFinishes
  <2>7. Outcome(r, <<p>>, << >>) BY <2>1, <2>3, <2>4, <2>5, WhenItFinishes
  <2> QED BY <1>1, <2>2, <2>6, <2>7
<1>6. CASE p \in {"bad", "[DONE]"}
  <2>1. ParseValue(p) = [ok |-> FALSE, sse |-> << >>, events |-> << >>, done |-> FALSE]
    BY <1>6 DEF ParseValue, Nothing, Bad
  <2> QED BY <2>1 DEF Outcome
<1> QED BY <1>4, <1>5, <1>6 DEF Payloads, Words

LEMMA EventRead ==
  ASSUME NEW d \in Seq(Payloads)
  PROVE  Outcome(ParseEvent(d), d, << >>) /\ ParseEvent(d).sse = << >>
<1>1. CASE d = << >>
  <2>1. PICK r : r = ParseEvent(d) OBVIOUS
  <2>2. r.ok = TRUE /\ r.done = FALSE /\ r.sse = << >> /\ r.events = << >> BY <2>1, <1>1 DEF ParseEvent, Nothing
  <2>3. << >> \in Seq(Words) /\ << >> \in Seq(Payloads) OBVIOUS
  <2>4. Said(d) \o << >> = << >> \o Said(<< >>) BY <1>1, SaidNothing
  <2> QED BY <2>1, <2>2, <2>3, <2>4, WhenItGoesOn
<1>2. CASE d = <<"[DONE]">>
  <2>1. d # << >> /\ ~(Len(d) > 1)
    <3>1. Len(<<"[DONE]">>) = 1 /\ Len(<< >>) = 0 OBVIOUS
    <3>2. PICK one : one = <<"[DONE]">> OBVIOUS
    <3>3. Len(one) = 1 /\ one = d BY <1>2, <3>1, <3>2
    <3>4. Len(d) = 1 BY <3>3
    <3>5. ~(Len(d) > 1) BY <3>4
    <3> QED BY <3>5, <3>3, <3>1
  <2>2. PICK r : r = ParseEvent(d) OBVIOUS
  <2>3. PICK e : e = Yields("[DONE]") \o <<"completed">> OBVIOUS
  <2>4. r.ok = TRUE /\ r.done = TRUE /\ r.sse = << >> /\ r.events = e
    BY <1>2, <2>1, <2>2, <2>3 DEF ParseEvent, Finish, Nothing
  <2>5. "[DONE]" \in Finishing /\ Said(d) \o << >> = <<"[DONE]">>
    <3>1. Said(d) = <<"[DONE]">> BY <1>2, SaidOne DEF AllLines, Payloads, Heard, Unheard
    <3>2. <<"[DONE]">> \o << >> = <<"[DONE]">> OBVIOUS
    <3> QED BY <3>1, <3>2 DEF Finishing
  <2>6. Outcome(r, d, << >>) BY <2>3, <2>4, <2>5, WhenItFinishes
  <2> QED BY <2>2, <2>4, <2>6
<1>3. CASE Len(d) > 1
  <2>1. ParseEvent(d) = [ok |-> FALSE, sse |-> << >>, events |-> << >>, done |-> FALSE]
    BY <1>3, LongerThanOne DEF ParseEvent, Bad, Nothing
  <2> QED BY <2>1 DEF Outcome
<1>4. CASE d # << >> /\ d # <<"[DONE]">> /\ ~(Len(d) > 1)
  <2>1. d = <<d[1]>> /\ d[1] \in Payloads BY <1>4, OneLong
  <2>2. PICK p \in Payloads : p = d[1] BY <2>1
  <2>3. Outcome(ParseValue(p), <<p>>, << >>) BY ValueRead
  <2>4. ParseEvent(d) = ParseValue(p) BY <1>4, <2>2 DEF ParseEvent
  <2>5. ParseValue(p).sse = << >> BY DEF ParseValue, Finish, Nothing, Bad
  <2> QED BY <2>1, <2>2, <2>3, <2>4, <2>5
<1> QED BY <1>1, <1>2, <1>3, <1>4

LEMMA LineRead ==
  ASSUME NEW d \in Seq(Payloads), NEW line \in AllLines, kind \in {"ollama", "sse"},
         kind = "ollama" => d = << >> /\ line \in OllamaLines, kind = "sse" => line \in SseLines
  PROVE  Outcome(ParseProviderLine(line, d), d, Heard(line))
<1>1. CASE kind = "ollama" /\ line = "blank"
  <2>1. PICK r : r = ParseProviderLine(line, d) OBVIOUS
  <2>2. << >> \in Seq(Words) /\ << >> \in Seq(Payloads) OBVIOUS
  <2>3. Said(d) \o << >> = << >> \o Said(<< >>) BY <1>1, SaidNothing
  <2>4. Outcome(r, d, << >>) BY <2>2, <2>3, WhenItGoesOn, <2>1, <1>1 DEF ParseProviderLine, Nothing
  <2> QED BY <1>1, <2>1, <2>4 DEF Heard, Unheard
<1>2. CASE kind = "ollama" /\ line # "blank" BY ValueRead, <1>2 DEF ParseProviderLine, OllamaLines, Payloads
<1>3. CASE kind = "sse" /\ line \in Payloads
  <2>1. ParseProviderLine(line, d) = [ok |-> TRUE, sse |-> Append(d, line), events |-> << >>, done |-> FALSE]
    BY <1>3 DEF ParseProviderLine, Nothing, Payloads
  <2>2. PICK rest \in Seq(Payloads) : rest = Append(d, line)
    <3>1. Append(d, line) \in Seq(Payloads) BY <1>3
    <3> QED BY <3>1
  <2>3. d \in Seq(AllLines) /\ rest \in Seq(AllLines) BY DEF AllLines
  <2>4. PICK t \in Seq(AllLines) : t = Said(rest) BY <2>3, SaidLines
  <2>5. << >> \o t = t OBVIOUS
  <2>6. Said(d) \o Heard(line) = << >> \o Said(rest) BY <2>2, <2>3, <2>4, <2>5, SaidMore
  <2>7. PICK r : r = ParseProviderLine(line, d) OBVIOUS
  <2>8. r.ok = TRUE /\ r.done = FALSE /\ r.sse = rest /\ r.events = << >> BY <2>1, <2>2, <2>7
  <2>9. << >> \in Seq(Words) /\ kind # "ollama" BY <1>3
  <2>10. Outcome(r, d, Heard(line)) BY <2>6, <2>8, <2>9, WhenItGoesOn
  <2> QED BY <2>7, <2>10
<1>4. CASE kind = "sse" /\ line = "comment"
  <2>1. PICK r : r = ParseProviderLine(line, d) OBVIOUS
  <2>2. d \in Seq(AllLines) BY DEF AllLines
  <2>3. PICK t \in Seq(AllLines) : t = Said(d) BY <2>2, SaidLines
  <2>4. t \o << >> = << >> \o t OBVIOUS
  <2>5. << >> \in Seq(Words) /\ kind # "ollama" /\ Said(d) \o << >> = << >> \o Said(d) BY <1>4, <2>3, <2>4
  <2>6. r.ok = TRUE /\ r.done = FALSE /\ r.sse = d /\ r.events = << >>
    BY <2>1, <1>4 DEF ParseProviderLine, Nothing, Payloads
  <2>7. Outcome(r, d, << >>) BY <2>5, <2>6, WhenItGoesOn
  <2> QED BY <1>4, <2>1, <2>7 DEF Heard, Unheard
<1>5. CASE kind = "sse" /\ line = "blank"
  BY <1>5, EventRead DEF ParseProviderLine, Payloads, Heard, Unheard
<1> QED BY <1>1, <1>2, <1>3, <1>4, <1>5 DEF SseLines

LEMMA StreamInitially == StreamInit => StreamInv
<1> SUFFICES ASSUME StreamInit PROVE StreamInv OBVIOUS
<1>1. /\ kind \in {"ollama", "sse"} /\ body \in Bodies[kind] /\ route = 1
      /\ arrived = 0 /\ parsed = 0 /\ sseData = << >> /\ queue = << >>
      /\ completed = FALSE /\ network = "closed" /\ seen = << >> /\ round = "opening" BY DEF StreamInit
<1>2. PICK n \in 0 .. MaxLines : body \in [1 .. n -> IF kind = "ollama" THEN OllamaLines ELSE SseLines]
  BY <1>1 DEF Bodies, Body
<1>3. << >> \in Seq(Payloads) /\ << >> \in Seq(Events) /\ << >> \in Seq(Words) OBVIOUS
<1>4. /\ arrived \in Nat /\ 3 * parsed <= arrived /\ arrived <= 3 * Len(body) /\ parsed \in Nat
      /\ route \in 1 .. Routes BY <1>1, <1>2, StreamAssumption
<1>5. OnItsWay BY <1>1, <1>3, ParsedNone, SaidNothing DEF OnItsWay
<1> QED BY <1>1, <1>5, <1>4, <1>3 DEF StreamInv, OverWell, DoneWell, StreamFits

LEMMA LinesGrouped ==
  \A a, b, c \in Seq(AllLines) : (a \o b) \o c = a \o (b \o c)
  BY Grouped

LEMMA EventsGrouped ==
  \A a, b, c \in Seq(Events) : (a \o b) \o c = a \o (b \o c)
  BY Grouped

\* What a reading leaves behind, put in the queue: the part of the invariant
\* that is about what was parsed up to the line `n` that was read last.
LEMMA AppliedFits ==
  ASSUME StreamInv, Polled, NEW r, NEW n \in 0 .. Len(body), NEW added \in Seq(AllLines),
         Outcome(r, sseData, added), Applied(r),
         Parsed(n) = (seen \o Said(sseData)) \o added
  PROVE  /\ sseData' \in Seq(Payloads) /\ queue' \in Seq(Events) /\ completed' \in BOOLEAN
         /\ kind = "ollama" => sseData' = << >>
         /\ ~completed' => queue' \in Seq(Words) /\ Parsed(n) = (seen \o queue') \o Said(sseData')
         /\ completed' => \/ queue' # << >> /\ Head(queue') = "error"
                          \/ \E taken \in Seq(Words) : Ending(taken) /\ seen \o queue' = Append(taken, "completed")
<1>1. /\ sseData' = r.sse /\ completed' = (~r.ok \/ r.done)
      /\ queue' = IF r.ok THEN r.events ELSE <<"error">> \o r.events BY DEF Applied
<1>2. PICK s \in Seq(Words) : s = seen BY DEF StreamInv, StreamFits
<1>3. PICK d \in Seq(AllLines) : d = Said(sseData)
  <2>1. sseData \in Seq(AllLines) BY DEF StreamInv, StreamFits, AllLines
  <2> QED BY <2>1, SaidLines
<1>4. Words \subseteq AllLines /\ Payloads \subseteq AllLines /\ Finishing \subseteq AllLines
  BY DEF Words, AllLines, Payloads, Finishing
<1>5. s \in Seq(AllLines) BY <1>4
<1>6. (s \o d) \o added = s \o (d \o added) BY <1>5, LinesGrouped
<1>7. CASE ~r.ok
  <2>1. <<"error">> \o << >> = <<"error">> /\ Head(<<"error">>) = "error" /\ <<"error">> # << >> OBVIOUS
  <2>2. queue' = <<"error">> BY <1>1, <1>7, <2>1 DEF Outcome, ReadsOn, Finishes
  <2>3. queue' \in Seq(Events) BY <2>2 DEF Events
  <2> QED BY <1>1, <1>7, <2>1, <2>2, <2>3 DEF Outcome
<1>8. CASE r.ok /\ r.done
  <2>1. PICK last \in Finishing : d \o added = <<last>> /\ r.events = Yields(last) \o <<"completed">>
    BY <1>3, <1>8 DEF Outcome, ReadsOn, Finishes
  <2>2. PICK more \in Seq(Words) : more = Yields(last) BY YieldsWords, <1>4 DEF Finishing
  <2>3. PICK all \in Seq(Words) : all = s \o more
    <3>1. s \o more \in Seq(Words) OBVIOUS
    <3> QED BY <3>1
  <2>4. all = ShownAfter(s, last) BY <2>2, <2>3 DEF ShownAfter
  <2>5. Parsed(n) = Append(s, last) BY <1>2, <1>3, <1>6, <2>1, <1>4, <1>5, AtTheEnd
  <2>6. n # 0 BY <2>5, ParsedNone, <1>4, <1>5, NotEmpty
  <2>7. n \in 1 .. Len(body) BY <2>6, BodyLines DEF StreamInv
  <2>8. seen \o queue' = Append(all, "completed")
    <3>1. s \in Seq(Events) /\ more \in Seq(Events) /\ <<"completed">> \in Seq(Events) BY DEF Events
    <3>6. PICK end \in Seq(Events) : end = <<"completed">> BY <3>1
    <3>7. (s \o more) \o end = s \o (more \o end) BY <3>1, EventsGrouped
    <3>2. (s \o more) \o <<"completed">> = s \o (more \o <<"completed">>) BY <3>6, <3>7
    <3>3. all \in Seq(Events) BY DEF Events
    <3>4. all \o <<"completed">> = Append(all, "completed") BY <3>3, AtTheEnd DEF Events
    <3>5. queue' = more \o <<"completed">> BY <1>1, <1>8, <2>1, <2>2
    <3> QED BY <1>2, <2>3, <3>2, <3>4, <3>5
  <2> QED BY <1>1, <1>2, <1>8, <2>8, <2>4, <2>5, <2>7 DEF Outcome, Ending
<1>9. CASE r.ok /\ ~r.done
  <2>1. r.events \in Seq(Words) /\ d \o added = r.events \o Said(r.sse)
    BY <1>3, <1>9 DEF Outcome, ReadsOn, Finishes
  <2>2. PICK e \in Seq(Words) : e = r.events BY <2>1
  <2>3. PICK rest \in Seq(AllLines) : rest = Said(r.sse)
    <3>1. r.sse \in Seq(AllLines) BY DEF Outcome, AllLines
    <3> QED BY <3>1, SaidLines
  <2>4. e \in Seq(AllLines) BY <1>4
  <2>5. s \o (e \o rest) = (s \o e) \o rest BY <1>5, <2>4, LinesGrouped
  <2>6. Parsed(n) = (seen \o e) \o rest BY <1>2, <1>3, <1>6, <2>1, <2>2, <2>3, <2>5
  <2> QED BY <1>1, <1>9, <2>1, <2>2, <2>3, <2>6 DEF Outcome
<1> QED BY <1>7, <1>8, <1>9 DEF Outcome

LEMMA LineAdded ==
  ASSUME StreamFits, OnItsWay, round = "streaming", ~completed, queue = << >>, network # "ended",
         parsed < Len(body), NEW line \in AllLines, line = body[parsed + 1]
  PROVE  /\ Parsed(parsed) = (seen \o Said(sseData)) \o << >>
         /\ Parsed(parsed + 1) = (seen \o Said(sseData)) \o Heard(line)
<1>1. PICK s \in Seq(Words) : s = seen BY DEF StreamFits
<1>2. PICK d \in Seq(AllLines) : d = Said(sseData)
  <2>1. sseData \in Seq(AllLines) BY DEF StreamFits, AllLines
  <2> QED BY <2>1, SaidLines
<1>3. PICK w \in Seq(AllLines) : w = s \o d
  <2>1. s \in Seq(AllLines) BY DEF Words, AllLines, Payloads
  <2>2. s \o d \in Seq(AllLines) BY <2>1
  <2> QED BY <2>2
<1>4. Parsed(parsed) = w BY <1>1, <1>2, <1>3 DEF OnItsWay
<1>5. w \o << >> = w /\ w \o <<line>> = Append(w, line) BY AtTheEnd
<1>6. Parsed(parsed + 1) = w \o Heard(line) BY <1>4, <1>5, ParsedNext DEF StreamFits, Heard
<1> QED BY <1>1, <1>2, <1>3, <1>4, <1>5, <1>6

LEMMA BufferedLineKeeps == StreamInv /\ BufferedLine => StreamInv'
<1> SUFFICES ASSUME StreamInv, BufferedLine PROVE StreamInv' OBVIOUS
<1>1. /\ Polled /\ arrived >= 3 * (parsed + 1)
      /\ Applied(ParseProviderLine(body[parsed + 1], sseData))
      /\ parsed' = parsed + 1
      /\ UNCHANGED <<kind, body, route, arrived, network, seen, round>> BY DEF BufferedLine, LineBuffered
<1>2. /\ StreamFits /\ round = "streaming" /\ ~completed /\ queue = << >>
      /\ 3 * parsed <= arrived /\ arrived <= 3 * Len(body) /\ parsed \in Nat /\ arrived \in Nat
  BY <1>1 DEF StreamInv, StreamFits, Polled
<1>3. Len(body) \in Nat BY <1>2, BodyLines
<1>4. parsed < Len(body) /\ parsed + 1 \in 0 .. Len(body) BY <1>1, <1>2, <1>3
<1>5. network # "ended" BY <1>1, <1>2 DEF StreamInv, OnItsWay
<1>6. PICK line \in AllLines : /\ line = body[parsed + 1] /\ (kind = "ollama" => line \in OllamaLines)
                               /\ (kind = "sse" => line \in SseLines)
  BY <1>2, <1>4, BodyLines
<1>7. PICK added \in Seq(AllLines) : added = Heard(line)
  <2>1. <<line>> \in Seq(AllLines) /\ << >> \in Seq(AllLines) OBVIOUS
  <2> QED BY <2>1 DEF Heard
<1>8. PICK r : r = ParseProviderLine(body[parsed + 1], sseData) OBVIOUS
<1>9. /\ sseData' \in Seq(Payloads) /\ queue' \in Seq(Events) /\ completed' \in BOOLEAN
      /\ kind = "ollama" => sseData' = << >>
      /\ ~completed' => queue' \in Seq(Words) /\ Parsed(parsed + 1) = (seen \o queue') \o Said(sseData')
      /\ completed' => \/ queue' # << >> /\ Head(queue') = "error"
                       \/ \E taken \in Seq(Words) : Ending(taken) /\ seen \o queue' = Append(taken, "completed")
  BY <1>1, <1>4, <1>8, AppliedFits, <1>2, <1>6, <1>7, LineRead, <1>5, LineAdded DEF StreamFits, StreamInv
<1>10. OnItsWay' BY <1>1, <1>5, <1>9 DEF OnItsWay, Parsed
<1>11. OverWell' /\ DoneWell' BY <1>1, <1>2, <1>9 DEF OverWell, DoneWell, Ending, Parsed
<1> QED BY <1>10, <1>11, <1>1, <1>2, <1>3, <1>9 DEF StreamInv, StreamFits

\* The record a reading returns.
Reading == [ok : BOOLEAN, sse : Seq(Payloads), events : Seq(Events), done : BOOLEAN]

LEMMA ReadingShapes ==
  /\ Nothing \in Reading /\ Bad \in Reading
  /\ \A p : ParseValue(p) \in Reading
  /\ \A d \in Seq(Payloads) : ParseEvent(d) \in Reading
<1>1. << >> \in Seq(Payloads) /\ << >> \in Seq(Events) OBVIOUS
<1>2. Nothing \in Reading /\ Bad \in Reading BY <1>1 DEF Nothing, Bad, Reading
<1>3. \A p \in AllLines : p # "bad" => /\ Yields(p) \in Seq(Events)
                                         /\ Yields(p) \o <<"completed">> \in Seq(Events)
  <2>1. ASSUME NEW p \in AllLines, p # "bad"
        PROVE Yields(p) \in Seq(Events) /\ Yields(p) \o <<"completed">> \in Seq(Events)
    <3>1. PICK e \in Seq(Words) : e = Yields(p) BY <2>1, YieldsWords
    <3>2. e \in Seq(Events) /\ <<"completed">> \in Seq(Events) BY DEF Events
    <3>3. e \o <<"completed">> \in Seq(Events) BY <3>2
    <3> QED BY <3>1, <3>2, <3>3
  <2> QED BY <2>1
<1>4. \A e \in Seq(Events) : [Nothing EXCEPT !.events = e] \in Reading
                            /\ [Nothing EXCEPT !.events = e, !.done = TRUE] \in Reading BY <1>1 DEF Nothing, Reading
<1>5. ASSUME NEW p PROVE ParseValue(p) \in Reading
  <2>1. CASE p \in {"text", "call", "nullcall", "usage", "mute"}
    <3>1. Yields(p) \in Seq(Events) BY <1>3, <2>1 DEF AllLines, Payloads
    <3> QED BY <1>4, <2>1, <3>1 DEF ParseValue
  <2>2. CASE p \in {"final", "done"}
    <3>1. PICK e \in Seq(Events) : e = Yields(p) \o <<"completed">> BY <1>3, <2>2 DEF AllLines, Payloads
    <3>2. Finish(p) \in Reading BY <1>4, <3>1 DEF Finish
    <3> QED BY <2>2, <3>2 DEF ParseValue
  <2>3. CASE p \notin {"text", "call", "nullcall", "usage", "mute", "final", "done"} BY <1>2, <2>3 DEF ParseValue
  <2> QED BY <2>1, <2>2, <2>3
<1>6. ASSUME NEW d \in Seq(Payloads) PROVE ParseEvent(d) \in Reading
  <2>1. CASE d = << >> BY <1>2, <2>1 DEF ParseEvent
  <2>2. CASE d # << >> /\ Len(d) > 1 BY <1>2, <2>2, LongerThanOne DEF ParseEvent
  <2>3. CASE d # << >> /\ ~(Len(d) > 1) /\ d = <<"[DONE]">>
    <3>1. PICK e \in Seq(Events) : e = Yields("[DONE]") \o <<"completed">> BY <1>3 DEF AllLines, Payloads
    <3>2. Finish("[DONE]") \in Reading BY <1>4, <3>1 DEF Finish
    <3> QED BY <2>3, <3>2 DEF ParseEvent
  <2>4. CASE d # << >> /\ ~(Len(d) > 1) /\ d # <<"[DONE]">> BY <1>5, <2>4 DEF ParseEvent
  <2> QED BY <2>1, <2>2, <2>3, <2>4
<1> QED BY <1>2, <1>5, <1>6

LEMMA LineShapes ==
  ASSUME NEW d \in Seq(Payloads), NEW line \in AllLines, kind \in {"ollama", "sse"},
         kind = "sse" => line \in SseLines
  PROVE  ParseProviderLine(line, d) \in Reading
<1>1. CASE kind = "ollama" BY <1>1, ReadingShapes DEF ParseProviderLine
<1>2. CASE kind = "sse" /\ line \in Payloads
  <2>1. PICK e \in Seq(Payloads) : e = Append(d, line)
    <3>1. Append(d, line) \in Seq(Payloads) BY <1>2
    <3> QED BY <3>1
  <2> QED BY ReadingShapes, <1>2, <2>1 DEF Reading, ParseProviderLine, Payloads
<1>3. CASE kind = "sse" /\ line = "comment" BY ReadingShapes, <1>3 DEF Reading, ParseProviderLine, Payloads
<1>4. CASE kind = "sse" /\ line = "blank" BY ReadingShapes, <1>4 DEF ParseProviderLine, Payloads
<1> QED BY <1>1, <1>2, <1>3, <1>4 DEF SseLines

LEMMA LastReadFits ==
  ASSUME StreamInv, Polled, ~LineBuffered, network = "open"
  PROVE  /\ LastRead \in Reading
         /\ \/ LastRead.events = << >> /\ LastRead.done = FALSE
               /\ (kind = "ollama" => LastRead.sse = << >>)
            \/ \E n \in 0 .. Len(body), added \in Seq(AllLines) :
                  /\ Outcome(LastRead, sseData, added)
                  /\ Parsed(n) = (seen \o Said(sseData)) \o added
<1>1. /\ StreamFits /\ OnItsWay /\ round = "streaming" /\ ~completed /\ queue = << >>
      /\ 3 * parsed <= arrived /\ arrived <= 3 * Len(body) /\ parsed \in Nat /\ arrived \in Nat
      /\ ~(arrived >= 3 * (parsed + 1))
      /\ kind \in {"ollama", "sse"} /\ (kind = "ollama" => sseData = << >>)
  BY DEF StreamInv, StreamFits, Polled, LineBuffered
<1>2. Len(body) \in Nat /\ parsed \in 0 .. Len(body) BY <1>1, BodyLines
<1>3. PICK d \in Seq(Payloads) : d = sseData BY <1>1 DEF StreamFits
<1>4. PICK units \in Nat : units = arrived - 3 * parsed BY <1>1
<1>5. CASE units = 0
  <2>1. Outcome(LastRead, sseData, << >>) /\ LastRead \in Reading
    BY <1>3, EventRead, ReadingShapes, <1>4, <1>5 DEF LastRead
  <2>2. PICK s \in Seq(Words) : s = seen BY <1>1 DEF StreamFits
  <2>3. PICK t \in Seq(AllLines) : t = Said(sseData)
    <3>1. sseData \in Seq(AllLines) BY <1>3 DEF AllLines
    <3> QED BY <3>1, SaidLines
  <2>6. PICK w \in Seq(AllLines) : w = s \o t
    <3>1. s \in Seq(AllLines) BY DEF Words, AllLines, Payloads
    <3>2. s \o t \in Seq(AllLines) BY <3>1
    <3> QED BY <3>2
  <2>4. Parsed(parsed) = (seen \o Said(sseData)) \o << >> BY <1>1, <2>2, <2>3, <2>6 DEF OnItsWay
  <2>5. << >> \in Seq(AllLines) OBVIOUS
  <2> QED BY <1>2, <2>1, <2>4, <2>5
<1>6. CASE units # 0
  <2>1. parsed < Len(body) /\ parsed + 1 \in 0 .. Len(body) BY <1>1, <1>2, <1>4, <1>6
  <2>2. PICK line \in AllLines : /\ line = body[parsed + 1] /\ (kind = "ollama" => line \in OllamaLines)
                               /\ (kind = "sse" => line \in SseLines)
    BY <1>1, <2>1, BodyLines
  <2>3. LastRead = CutLine(line, units, d) BY <1>3, <1>4, <1>6, <2>2 DEF LastRead
  <2>4. CASE units = 2 \/ line = "blank"
    <3>1. LastRead = ParseProviderLine(line, d) BY <2>3, <2>4 DEF CutLine
    <3>2. PICK added \in Seq(AllLines) : added = Heard(line)
      <4>1. <<line>> \in Seq(AllLines) /\ << >> \in Seq(AllLines) OBVIOUS
      <4> QED BY <4>1 DEF Heard
    <3>3. LastRead \in Reading BY <1>1, <2>2, <3>1, LineShapes
    <3> QED BY <2>1, <3>3, <1>1, <1>3, <2>2, <3>1, <3>2, LineRead, LineAdded
  <2>5. CASE ~(units = 2 \/ line = "blank") /\ kind = "ollama" BY ReadingShapes, <2>3, <2>5 DEF Bad, Nothing, CutLine
  <2>6. CASE ~(units = 2 \/ line = "blank") /\ kind # "ollama"
    BY <2>6, ReadingShapes, <2>3 DEF Nothing, Reading, CutLine
  <2> QED BY <2>4, <2>5, <2>6
<1> QED BY <1>5, <1>6

LEMMA EndsKeeps == StreamInv /\ Ends => StreamInv'
<1> SUFFICES ASSUME StreamInv, Ends PROVE StreamInv' OBVIOUS
<1>1. /\ Polled /\ ~LineBuffered /\ network \in {"open", "ended"}
      /\ network' = "ended" /\ Applied(AtEnd) /\ arrived' = 3 * parsed
      /\ UNCHANGED <<kind, body, route, parsed, seen, round>> BY DEF Ends
<1>2. /\ StreamFits /\ round = "streaming" /\ ~completed /\ queue = << >>
      /\ 3 * parsed <= arrived /\ arrived <= 3 * Len(body) /\ parsed \in Nat /\ arrived \in Nat
  BY <1>1 DEF StreamInv, StreamFits, Polled
<1>3. arrived' \in Nat /\ 3 * parsed <= arrived' /\ arrived' <= 3 * Len(body) BY <1>1, <1>2, BodyLines
<1>4. PICK r0 : r0 = LastRead OBVIOUS
<1>5. PICK r : r = AtEnd OBVIOUS
<1>6. /\ r0 \in Reading
      /\ \/ r0.events = << >> /\ r0.done = FALSE /\ (kind = "ollama" => r0.sse = << >>)
         \/ /\ network = "open"
            /\ \E n \in 0 .. Len(body), added \in Seq(AllLines) :
                  /\ Outcome(r0, sseData, added)
                  /\ Parsed(n) = (seen \o Said(sseData)) \o added
  <2>1. CASE network = "open" BY <1>1, <1>4, <2>1, LastReadFits
  \* After a text was returned at the end nothing is left to read.
  <2>2. CASE network = "ended"
    <3>1. r0 = Nothing BY <1>4, <1>2, <2>2 DEF LastRead, ParseEvent, StreamInv, OnItsWay
    <3> QED BY <3>1, ReadingShapes DEF Nothing
  <2> QED BY <1>1, <2>1, <2>2
<1>7. CASE Unfinished(r0)
  <2>1. r.ok = FALSE /\ r.sse = r0.sse /\ r.events = r0.events /\ r.done = r0.done
    BY <1>6, <1>4, <1>5, <1>7 DEF Reading, AtEnd
  <2>2. PICK e \in Seq(Events) : e = r0.events BY <1>6 DEF Reading
  <2>3. PICK rest \in Seq(Payloads) : rest = r0.sse BY <1>6 DEF Reading
  <2>4. sseData' = rest /\ queue' = <<"error">> \o e BY <1>1, <1>5, <2>1, <2>2, <2>3 DEF Applied
  <2>5. completed' = TRUE BY <1>1, <1>5, <2>1 DEF Applied
  <2>6. PICK q \in Seq(Events) : q = <<"error">> \o e
    <3>1. <<"error">> \o e \in Seq(Events) BY DEF Events
    <3> QED BY <3>1
  <2>7. Len(q) > 0 /\ q[1] = "error" /\ q # << >> /\ Head(q) = "error" BY <2>6
  <2> QED
    BY <1>1, <1>2, <2>4, <2>5, <2>6, <2>7, <1>3, <2>3, <1>6 DEF StreamInv, OnItsWay, OverWell, DoneWell, StreamFits,
      Outcome
<1>8. CASE ~Unfinished(r0)
  <2>1. r0.done \/ (r0.events # << >> /\ Head(r0.events) = "text") BY <1>8 DEF Unfinished
  <2>2. PICK n \in 0 .. Len(body), added \in Seq(AllLines) :
           /\ Outcome(r0, sseData, added) /\ network = "open"
           /\ Parsed(n) = (seen \o Said(sseData)) \o added BY <1>6, <2>1
  <2>3. Applied(r0) BY <1>1, <1>5, <1>4, <1>8 DEF AtEnd
  <2>4. /\ sseData' \in Seq(Payloads) /\ queue' \in Seq(Events) /\ completed' \in BOOLEAN
        /\ kind = "ollama" => sseData' = << >>
        /\ ~completed' => queue' \in Seq(Words) /\ Parsed(n) = (seen \o queue') \o Said(sseData')
        /\ completed' => \/ queue' # << >> /\ Head(queue') = "error"
                         \/ \E taken \in Seq(Words) : Ending(taken) /\ seen \o queue' = Append(taken, "completed")
    BY <1>1, <2>2, <2>3, AppliedFits
  <2>5. ~completed' => sseData' = << >>
    <3>1. ASSUME ~completed' PROVE sseData' = << >> BY <2>3, <2>1, <2>2, <3>1 DEF Applied, ReadsOn, Outcome, Finishes
    <3> QED BY <3>1
  <2>6. OverWell' /\ DoneWell' BY <1>1, <1>2, <2>4 DEF OverWell, DoneWell, Ending, Parsed
  <2> QED BY <2>6, <1>1, <1>2, <1>3, <2>4, <2>5 DEF StreamInv, StreamFits, OnItsWay
<1> QED BY <1>7, <1>8

LEMMA TakeEventKeeps == StreamInv /\ TakeEvent => StreamInv'
<1> SUFFICES ASSUME StreamInv, TakeEvent PROVE StreamInv' OBVIOUS
<1>1. PICK event : event = IF queue = << >> THEN "completed" ELSE Head(queue) OBVIOUS
<1>2. /\ round = "streaming" /\ (queue # << >> \/ completed)
      /\ queue' = IF queue = << >> THEN queue ELSE Tail(queue)
      /\ UNCHANGED <<kind, body, route, arrived, parsed, sseData, completed, network>>
      /\ \/ event = "error" /\ round' = "failed" /\ seen' = seen
         \/ event = "completed" /\ round' = "done" /\ seen' = seen
         \/ round' = "failed" /\ seen' = seen
         \/ event # "error" /\ event # "completed" /\ seen' = Append(seen, event) /\ round' = round
  BY <1>1 DEF TakeEvent
<1>3. PICK q \in Seq(Events) : q = queue BY DEF StreamInv, StreamFits
<1>4. PICK s \in Seq(Words) : s = seen BY DEF StreamInv, StreamFits
<1>5. Words \subseteq Events /\ "completed" \notin Words /\ "error" \notin Words
      /\ \A e \in Events : e \in Words \/ e = "completed" \/ e = "error" BY DEF Words, Events
<1>6. ASSUME completed PROVE \/ q # << >> /\ Head(q) = "error"
                            \/ \E taken \in Seq(Words) : Ending(taken) /\ s \o q = Append(taken, "completed")
  BY <1>2, <1>3, <1>4, <1>6 DEF StreamInv, OverWell
\* The end of an answer is still in the queue: what was seen are words.
<1>7. ASSUME NEW taken \in Seq(Words), s \o q = Append(taken, "completed")
      PROVE  q # << >> /\ (Head(q) = "completed" => s = taken)
  <2>1. Len(s) + Len(q) = Len(taken) + 1 BY <1>7
  <2>2. PICK all \in Seq(Events) : all = s \o q
    <3>1. s \o q \in Seq(Events) BY <1>5
    <3> QED BY <3>1
  <2>3. /\ \A i \in 1 .. Len(s) : all[i] = s[i]
        /\ \A i \in 1 .. Len(q) : all[Len(s) + i] = q[i] BY <2>2
  <2>4. \A i \in 1 .. Len(taken) : all[i] = taken[i] BY <1>7, <2>2
  <2>5. Len(s) \in Nat /\ Len(q) \in Nat /\ Len(taken) \in Nat OBVIOUS
  <2>6. q # << >>
    <3>1. ASSUME Len(q) = 0 PROVE FALSE
      <4>1. Len(s) = Len(taken) + 1 BY <2>1, <2>5, <3>1
      <4>2. Len(s) \in 1 .. Len(s) BY <2>5, <4>1
      <4> QED BY <1>5, <4>2, <2>3, <4>1, <1>7, <2>2
    <3> QED BY <3>1
  <2>7. ASSUME Head(q) = "completed" PROVE s = taken
    <3>1. Len(q) # 0 BY <2>6
    <3>2. ~(Len(s) + 1 <= Len(taken))
      <4>1. ASSUME Len(s) + 1 <= Len(taken) PROVE FALSE
        <5>1. taken[Len(s) + 1] = "completed" /\ taken[Len(s) + 1] \in Words BY <2>4, <2>5, <4>1, <2>3, <2>7, <3>1
        <5> QED BY <1>5, <5>1
      <4> QED BY <4>1
    <3> QED BY <2>3, <2>4, <2>5, <3>2, <2>1, <3>1
  <2> QED BY <2>6, <2>7
<1>8. q # << >> BY <1>2, <1>3, <1>6, <1>7
<1>9. PICK h \in Events, t \in Seq(Events) : h = Head(q) /\ t = Tail(q)
  <2>1. Head(q) \in Events /\ Tail(q) \in Seq(Events) BY <1>8
  <2> QED BY <2>1
<1>10. event = h /\ queue' = t BY <1>1, <1>2, <1>3, <1>8, <1>9
<1>11. Append(s, h) \o t = s \o q
  <2>1. s \in Seq(Events) BY <1>5
  <2>2. PICK a \in Seq(Events) : a = Append(s, h) \o t
    <3>1. Append(s, h) \o t \in Seq(Events) BY <2>1
    <3> QED BY <3>1
  <2>3. PICK b \in Seq(Events) : b = s \o q
    <3>1. s \o q \in Seq(Events) BY <2>1
    <3> QED BY <3>1
  <2>4. Len(q) = Len(t) + 1 /\ q[1] = h /\ \A i \in 1 .. Len(t) : q[i + 1] = t[i] BY <1>8, <1>9
  <2>5. PICK c \in Seq(Events) : c = Append(s, h)
    <3>1. Append(s, h) \in Seq(Events) BY <2>1
    <3> QED BY <3>1
  <2>6. Len(c) = Len(s) + 1 /\ c[Len(s) + 1] = h /\ \A i \in 1 .. Len(s) : c[i] = s[i] BY <2>1, <2>5
  <2>7. a = c \o t BY <2>2, <2>5
  <2>8. Len(a) = Len(b) /\ \A i \in 1 .. Len(a) : a[i] = b[i]
    <3>1. Len(a) = Len(s) + 1 + Len(t) /\ Len(b) = Len(s) + Len(q)
      <4>1. Len(c \o t) = Len(c) + Len(t) OBVIOUS
      <4> QED BY <2>3, <2>6, <2>7, <4>1
    <3>2. Len(s) \in Nat /\ Len(t) \in Nat OBVIOUS
    <3>3. ASSUME NEW i \in 1 .. Len(a) PROVE a[i] = b[i]
      <4>1. CASE i <= Len(s) BY <2>1, <2>3, <2>6, <2>7, <3>1, <3>2, <4>1
      <4>2. CASE i = Len(s) + 1 BY <2>1, <2>3, <2>4, <2>6, <2>7, <3>1, <3>2, <4>2
      <4>3. CASE i > Len(s) + 1
        <5>1. PICK k \in 1 .. Len(t) : i = Len(s) + 1 + k
          <6>1. i - (Len(s) + 1) \in 1 .. Len(t) /\ i = Len(s) + 1 + (i - (Len(s) + 1)) BY <3>1, <3>2, <4>3
          <6> QED BY <6>1
        <5>2. a[i] = t[k] BY <2>6, <2>7, <3>2, <5>1
        <5> QED BY <2>4, <5>2, <2>1, <2>3, <3>2, <5>1
      <4> QED BY <3>2, <4>1, <4>2, <4>3
    <3> QED BY <2>4, <3>1, <3>2, <3>3
  <2>9. a = b BY <2>8
  <2> QED BY <2>2, <2>3, <2>9
<1>12. \A taken : Ending(taken) <=> Ending(taken)' BY <1>2 DEF Ending, Parsed
<1>13. CASE round' = "failed" /\ seen' = seen
  BY <1>2, <1>10, <1>13 DEF StreamInv, StreamFits, OnItsWay, OverWell, DoneWell
<1>14. CASE event = "completed" /\ round' = "done" /\ seen' = seen
  <2>1. completed
    <3>1. ASSUME ~completed PROVE FALSE BY <1>5, <1>9, <1>10, <1>14, <1>8, <1>2, <1>3, <3>1 DEF StreamInv, OnItsWay
    <3> QED BY <3>1
  <2>2. PICK taken \in Seq(Words) : Ending(taken) /\ s \o q = Append(taken, "completed")
    BY <1>6, <1>9, <1>10, <1>14, <2>1
  <2> QED BY <1>2, <1>10, <1>14, <1>4, <1>12, <2>2, <1>7, <1>9 DEF StreamInv, StreamFits, OnItsWay, OverWell, DoneWell
<1>15. CASE event # "error" /\ event # "completed" /\ seen' = Append(seen, event) /\ round' = round
  <2>1. PICK s2 \in Seq(Words) : s2 = Append(s, h)
    <3>1. Append(s, h) \in Seq(Words) BY <1>5, <1>10, <1>15
    <3> QED BY <3>1
  <2>2. seen' = s2 /\ seen' \o queue' = s \o q BY <1>4, <1>10, <1>11, <1>15, <2>1
  <2>3. OnItsWay'
    <3>1. ASSUME ~completed
          PROVE  /\ queue' \in Seq(Words)
                 /\ network # "ended" => Parsed(parsed) = (seen' \o queue') \o Said(sseData)
                 /\ network = "ended" => arrived = 3 * parsed /\ sseData = << >>
      <4>1. t \in Seq(Words) BY <1>8, <1>9, <1>2, <1>3, <3>1 DEF StreamInv, OnItsWay
      <4> QED BY <1>2, <1>3, <1>4, <1>10, <2>2, <3>1, <4>1 DEF StreamInv, OnItsWay
    <3> QED BY <1>2, <3>1 DEF OnItsWay, Parsed
  <2> QED BY <2>3, <1>2, <1>10, <1>15, <2>1, <2>2, <1>6, <1>9, <1>12 DEF StreamInv, StreamFits, OverWell, DoneWell
<1> QED BY <1>2, <1>13, <1>14, <1>15

LEMMA StoppedFits ==
  ASSUME StreamInv, StreamFits', queue' = <<"error">>, completed' = TRUE, round = "streaming",
         UNCHANGED <<kind, body, parsed, seen, round>>
  PROVE  StreamInv'
  BY DEF StreamInv, OnItsWay, OverWell, DoneWell

LEMMA StreamStep == StreamInv /\ [StreamNext]_psvars => StreamInv'
<1> SUFFICES ASSUME StreamInv, [StreamNext]_psvars PROVE StreamInv' OBVIOUS
<1>1. <<"error">> \in Seq(Events) BY DEF Events
<1>2. ASSUME NEW error \in Errors, RouteFails(error) PROVE StreamInv'
  <2>1. /\ round = "opening" /\ UNCHANGED <<kind, body, streamState, seen>>
        /\ \/ route < Routes /\ route' = route + 1 /\ round' = round
           \/ round' = "failed" /\ route' = route BY <1>2 DEF RouteFails
  <2>2. route' \in 1 .. Routes BY <2>1, StreamAssumption DEF StreamInv, StreamFits
  <2> QED BY <2>1, <2>2 DEF StreamInv, StreamFits, OnItsWay, OverWell, DoneWell, streamState, Parsed, Ending
<1>3. CASE RouteOpens BY <1>3 DEF RouteOpens, StreamInv, StreamFits, OnItsWay, OverWell, DoneWell, Parsed
<1>4. CASE RoundStops BY <1>4 DEF RoundStops, StreamInv, StreamFits, OnItsWay, OverWell, DoneWell, streamState
<1>5. CASE BufferedLine BY <1>5, BufferedLineKeeps
<1>6. ASSUME NEW n \in 1 .. 3 * MaxLines, Chunk(n) PROVE StreamInv'
  <2>1. /\ round = "streaming" /\ queue = << >> /\ ~completed /\ network = "open"
        /\ n \in 1 .. (UnitsOf(body) - arrived) /\ arrived' = arrived + n
        /\ \/ queue' = <<"error">> /\ completed' = TRUE
           \/ UNCHANGED <<queue, completed>>
        /\ UNCHANGED <<kind, body, route, parsed, sseData, network, seen, round>> BY <1>6 DEF Chunk, Polled
  <2>2. arrived' \in Nat /\ 3 * parsed <= arrived' /\ arrived' <= 3 * Len(body)
    BY <2>1, BodyLines DEF StreamInv, StreamFits, UnitsOf
  <2>3. StreamFits' BY <1>1, <2>1, <2>2 DEF StreamInv, StreamFits
  <2>4. CASE queue' = <<"error">> /\ completed' = TRUE BY <2>1, <2>3, <2>4, StoppedFits
  <2>5. CASE UNCHANGED <<queue, completed>> BY <2>1, <2>3, <2>5 DEF StreamInv, OnItsWay, OverWell, DoneWell, Parsed
  <2> QED BY <2>1, <2>4, <2>5
<1>7. CASE Breaks BY StoppedFits, <1>1, <1>7 DEF StreamInv, StreamFits, Breaks, Polled
<1>8. CASE Ends BY <1>8, EndsKeeps
<1>9. CASE TakeEvent BY <1>9, TakeEventKeeps
<1>10. CASE UNCHANGED psvars
  BY <1>10 DEF psvars, streamState, StreamInv, StreamFits, OnItsWay, OverWell, DoneWell, Ending, Parsed
<1> QED BY <1>2, <1>3, <1>4, <1>5, <1>6, <1>7, <1>8, <1>9, <1>10 DEF StreamNext

LEMMA RoundsEndWell == StreamInv => RoundReadToItsEnd /\ StreamTypeOK
<1> SUFFICES ASSUME StreamInv PROVE RoundReadToItsEnd /\ StreamTypeOK OBVIOUS
<1>1. StreamTypeOK
  <2>1. Events = {"text", "call", "nullcall", "usage", "completed", "error"} BY DEF Events, Words
  <2> QED BY <2>1, BodyLines DEF StreamInv, StreamFits, StreamTypeOK, Words, UnitsOf
<1>2. ASSUME round = "done" PROVE \E n \in 1 .. Len(body) : FinishedAnswer(SubSeq(body, 1, n))
  <2>1. PICK n \in 1 .. Len(body), words \in Seq(Words), last \in Finishing :
           Parsed(n) = Append(words, last) /\ seen = ShownAfter(words, last) BY <1>2 DEF StreamInv, DoneWell, Ending
  <2>2. PICK spoken \in Seq(AllLines) : spoken = Append(words, last)
    <3>1. Append(words, last) \in Seq(AllLines) BY DEF Words, AllLines, Payloads, Finishing
    <3> QED BY <3>1
  <2>3. /\ Len(spoken) = Len(words) + 1 /\ spoken[Len(spoken)] = last /\ Len(words) \in Nat
        /\ \A i \in 1 .. Len(words) : spoken[i] = words[i] /\ spoken[i] \in Words BY <2>2
  <2>4. \A i \in 1 .. Len(spoken) - 1 : spoken[i] \notin Finishing \cup {"bad"} BY <2>3 DEF Words, Finishing
  <2>5. spoken # << >> /\ Last(spoken) = last BY <2>3 DEF Last
  <2>6. Front(spoken) = words
    <3>1. PICK front \in Seq(AllLines) : front = Front(spoken)
      <4>1. Front(spoken) \in Seq(AllLines) BY <2>3 DEF Front
      <4> QED BY <4>1
    <3>2. words \in Seq(AllLines) BY DEF Words, AllLines, Payloads
    <3>3. Len(front) = Len(words) /\ \A i \in 1 .. Len(words) : front[i] = words[i] BY <2>3, <3>1 DEF Front
    <3>4. front = words BY <3>2, <3>3
    <3> QED BY <3>1, <3>4
  <2>7. FinishedAnswer(SubSeq(body, 1, n))
    BY <2>1, <2>2, <2>4, <2>5, <2>6 DEF FinishedAnswer, Parsed, ShownAfter
  <2> QED BY <2>7
<1> QED BY <1>1, <1>2 DEF RoundReadToItsEnd

\* A round that succeeds read its answer to the line that finishes it and
\* took in order all that the lines yield: no answer that was cut short, is
\* not JSON or is over the limit is recorded as a completed round, however
\* the body came in (next_provider_event of chat.rs).  What a payload says
\* and parse_provider_line takes nothing from is lost in silence.
THEOREM RoundsReadToTheEnd == StreamSpec => [](RoundReadToItsEnd /\ StreamTypeOK)
  BY StreamInitially, StreamStep, RoundsEndWell, PTL DEF StreamSpec
=============================================================================
