---------------------------- MODULE OrderLemmas ----------------------------
(***************************************************************************)
(* Induction over the natural numbers, for sets instead of predicates:     *)
(* from the strict subset order of the finite sets of natural numbers,     *)
(* which is well founded.  Least and greatest numbers from it, what a      *)
(* sorted sequence is, that folding over places has a result, what a sum   *)
(* is, and that a function may be defined from its values at earlier       *)
(* places.                                                                 *)
(***************************************************************************)
EXTENDS Sorting, FiniteSetTheorems, WellFoundedInduction, TLAPS

\* A set with zero, and with the successor of each of its numbers, has every
\* natural number: that it has not those below a least other is what the order
\* of their intervals refutes.
LEMMA NatSetInduction ==
  ASSUME NEW T, 0 \in T, \A n \in Nat : n \in T => n + 1 \in T
  PROVE  \A n \in Nat : n \in T
<1> SUFFICES ASSUME NEW m \in Nat, m \notin T  PROVE FALSE
  OBVIOUS
<1> DEFINE F == {0..k : k \in {n \in Nat : n \notin T}}
           R == StrictSubsetOrdering(Nat)
<1>1. F \subseteq FiniteSubsetsOf(Nat)
  <2> SUFFICES ASSUME NEW k \in Nat  PROVE 0..k \in SUBSET Nat /\ IsFiniteSet(0..k)
    BY DEF FiniteSubsetsOf
  <2>1. QED  BY FS_Interval
<1>2. F # {}
  OBVIOUS
<1>3. IsWellFoundedOn(R, FiniteSubsetsOf(Nat))
  BY FS_StrictSubsetOrderingWellFounded
<1>4. \E x \in F : \A y \in F : ~(<<y, x>> \in R)
  <2> HIDE DEF F, R
  <2>1. QED  BY <1>1, <1>2, <1>3, WFMin
<1>5. PICK k \in Nat : k \notin T /\ \A y \in F : ~(<<y, 0..k>> \in R)
  BY <1>4
<1>6. k # 0
  BY <1>5
<1>7. k - 1 \in Nat /\ k - 1 \notin T
  BY <1>5, <1>6
<1>8. 0..(k - 1) \in F
  BY <1>7
<1>9. <<0..(k - 1), 0..k>> \in R
  BY <1>6, <1>7 DEF StrictSubsetOrdering
<1>10. QED  BY <1>5, <1>8, <1>9

\* Of whole numbers bounded below, one is least.
LEMMA LeastExists ==
  ASSUME NEW S \in SUBSET Int, NEW a \in Int, S # {}, \A k \in S : a <= k
  PROVE  \E m \in S : \A k \in S : m <= k
<1> SUFFICES ASSUME \A m \in S : \E k \in S : k < m  PROVE FALSE
  OBVIOUS
<1> DEFINE T == {n \in Nat : \A k \in S : k >= a + n}
<1>1. 0 \in T
  OBVIOUS
<1>2. ASSUME NEW n \in Nat, n \in T  PROVE n + 1 \in T
  <2> SUFFICES ASSUME NEW k \in S  PROVE k >= a + (n + 1)
    OBVIOUS
  <2>1. PICK j \in S : j < k
    OBVIOUS
  <2>2. j >= a + n /\ j \in Int /\ k \in Int
    BY <1>2
  <2>3. QED  BY <2>1, <2>2
<1>3. \A n \in Nat : n \in T
  <2> HIDE DEF T
  <2>1. QED  BY <1>1, <1>2, NatSetInduction
<1>4. PICK m \in S : TRUE
  OBVIOUS
<1>5. m \in Int /\ m >= a
  OBVIOUS
<1>6. (m - a) + 1 \in T
  <2>1. (m - a) + 1 \in Nat
    BY <1>5
  <2> HIDE DEF T
  <2>2. QED  BY <1>3, <2>1
<1>7. QED  BY <1>5, <1>6

\* Of whole numbers bounded above, one is greatest.
LEMMA GreatestExists ==
  ASSUME NEW S \in SUBSET Int, NEW a \in Int, S # {}, \A k \in S : k <= a
  PROVE  \E m \in S : \A k \in S : k <= m
<1> DEFINE N == {n \in Int : -n \in S}
<1>1. \E m \in N : \A k \in N : m <= k
  <2>1. \A k \in S : k \in Int /\ k <= a
    OBVIOUS
  <2>2. N \in SUBSET Int /\ N # {} /\ -a \in Int
    <3>1. PICK k \in S : TRUE
      OBVIOUS
    <3>2. -k \in Int /\ -(-k) = k
      BY <2>1
    <3>3. -k \in N
      BY <3>2
    <3>4. QED  BY <3>3
  <2>3. \A k \in N : -a <= k
    BY <2>1
  <2> HIDE DEF N
  <2>4. QED  BY <2>2, <2>3, LeastExists
<1>2. PICK m \in N : \A k \in N : m <= k
  BY <1>1
<1>3. \A k \in S : -k \in N /\ k \in Int
  <2> SUFFICES ASSUME NEW k \in S  PROVE -k \in N /\ k \in Int
    OBVIOUS
  <2>1. k \in Int /\ -k \in Int /\ -(-k) = k
    OBVIOUS
  <2>2. QED  BY <2>1
<1>4. -m \in S /\ m \in Int
  OBVIOUS
<1>5. \A k \in S : k <= -m
  <2> HIDE DEF N
  <2>1. QED  BY <1>2, <1>3, <1>4
<1>6. QED  BY <1>4, <1>5

-----------------------------------------------------------------------------
StrictOrder(S, before) ==
  /\ \A x \in S : <<x, x>> \notin before
  /\ \A x, y, z \in S : <<x, y>> \in before /\ <<y, z>> \in before => <<x, z>> \in before
  /\ \A x, y \in S : x = y \/ <<x, y>> \in before \/ <<y, x>> \in before

\* A sequence has each element of a set once, in an order.
SortedSequence(s, S, before) ==
  /\ s \in [1..Cardinality(S) -> S]
  /\ \A x \in S : \E i \in 1..Cardinality(S) : s[i] = x
  /\ \A i, j \in 1..Cardinality(S) : <<s[i], s[j]>> \in before <=> i < j

LEMMA RankType ==
  ASSUME NEW S, IsFiniteSet(S), NEW before, StrictOrder(S, before), NEW x \in S
  PROVE  Rank(S, before, x) \in 0..(Cardinality(S) - 1)
<1> DEFINE T == {y \in S : <<y, x>> \in before}
<1>1. IsFiniteSet(T) /\ Cardinality(T) <= Cardinality(S)
      /\ (Cardinality(S) = Cardinality(T) => S = T)
  BY FS_Subset
<1>2. x \notin T
  BY DEF StrictOrder
<1>3. Cardinality(T) \in Nat /\ Cardinality(S) \in Nat
  BY <1>1, FS_CardinalityType
<1> HIDE DEF T
<1>4. Cardinality(T) \in 0..(Cardinality(S) - 1)
  BY <1>1, <1>2, <1>3
<1>5. QED  BY <1>4 DEF Rank, T

\* More elements come before a later one.
LEMMA RankGrows ==
  ASSUME NEW S, IsFiniteSet(S), NEW before, StrictOrder(S, before),
         NEW x \in S, NEW y \in S, <<x, y>> \in before
  PROVE  Rank(S, before, x) < Rank(S, before, y)
<1> DEFINE T == {z \in S : <<z, x>> \in before}
           U == {z \in S : <<z, y>> \in before}
<1>1. T \subseteq U /\ x \in U /\ x \notin T
  BY DEF StrictOrder
<1>2. IsFiniteSet(U)
  BY FS_Subset
<1>3. IsFiniteSet(T) /\ Cardinality(T) <= Cardinality(U)
      /\ (Cardinality(U) = Cardinality(T) => U = T)
  <2> HIDE DEF T, U
  <2>1. QED  BY <1>1, <1>2, FS_Subset
<1>4. Cardinality(T) \in Nat /\ Cardinality(U) \in Nat
  BY <1>2, <1>3, FS_CardinalityType
<1> HIDE DEF T, U
<1>5. Cardinality(T) < Cardinality(U)
  BY <1>1, <1>3, <1>4
<1>6. QED  BY <1>5 DEF Rank, T, U

\* The sequence of a set in a total order is sorted, whatever the set and the
\* order: the ranks of its elements are the numbers below their count.
LEMMA InOrderSorts ==
  ASSUME NEW S, IsFiniteSet(S), NEW before, StrictOrder(S, before)
  PROVE  SortedSequence(InOrder(S, before), S, before)
<1> DEFINE n == Cardinality(S)
           rank == [x \in S |-> Rank(S, before, x)]
           s == InOrder(S, before)
<1>1. n \in Nat
  BY FS_CardinalityType
<1>2. \A x \in S : Rank(S, before, x) \in 0..(n - 1)
  BY RankType
<1>3. \A x, y \in S : <<x, y>> \in before => Rank(S, before, x) < Rank(S, before, y)
  BY RankGrows
<1>4. \A x, y \in S : Rank(S, before, x) = Rank(S, before, y) => x = y
  <2> SUFFICES ASSUME NEW x \in S, NEW y \in S,
                      Rank(S, before, x) = Rank(S, before, y)
               PROVE  x = y
    OBVIOUS
  <2>1. Rank(S, before, x) \in Int /\ Rank(S, before, y) \in Int
    BY <1>2
  <2>2. ~(<<x, y>> \in before) /\ ~(<<y, x>> \in before)
    BY <1>3, <2>1
  <2>3. QED  BY <2>2 DEF StrictOrder
<1>5. rank \in Surjection(S, 0..(n - 1))
  <2>1. rank \in Injection(S, 0..(n - 1))
    BY <1>2, <1>4 DEF Injection, IsInjective
  <2>2. IsFiniteSet(0..(n - 1)) /\ Cardinality(0..(n - 1)) = n
    BY <1>1, FS_Interval
  <2> HIDE DEF rank
  <2>3. QED  BY <2>1, <2>2, FS_Injection
<1>6. \A k \in 1..n : \E x \in S : Rank(S, before, x) = k - 1
  <2>1. \A m \in 0..(n - 1) : \E x \in S : rank[x] = m
    BY <1>5 DEF Surjection
  <2>2. \A k \in 1..n : k - 1 \in 0..(n - 1)
    BY <1>1
  <2>3. QED  BY <2>1, <2>2
<1>7. \A k \in 1..n : s[k] \in S /\ Rank(S, before, s[k]) = k - 1
  BY <1>6 DEF InOrder
<1>8. s \in [1..n -> S]
  BY <1>7 DEF InOrder
<1> HIDE DEF s
<1>9. \A x \in S : \E i \in 1..n : s[i] = x
  <2> SUFFICES ASSUME NEW x \in S  PROVE \E i \in 1..n : s[i] = x
    OBVIOUS
  <2>1. Rank(S, before, x) + 1 \in 1..n
    BY <1>1, <1>2
  <2>2. (Rank(S, before, x) + 1) - 1 = Rank(S, before, x)
    BY <1>2
  <2>3. s[Rank(S, before, x) + 1] = x
    BY <1>4, <1>7, <2>1, <2>2
  <2>4. QED  BY <2>1, <2>3
<1>10. \A i, j \in 1..n : <<s[i], s[j]>> \in before <=> i < j
  <2> SUFFICES ASSUME NEW i \in 1..n, NEW j \in 1..n
               PROVE  <<s[i], s[j]>> \in before <=> i < j
    OBVIOUS
  <2>1. s[i] \in S /\ s[j] \in S /\ Rank(S, before, s[i]) = i - 1
        /\ Rank(S, before, s[j]) = j - 1
    BY <1>7
  <2>2. <<s[i], s[j]>> \in before => i - 1 < j - 1
    BY <1>3, <2>1
  <2>3. <<s[j], s[i]>> \in before => j - 1 < i - 1
    BY <1>3, <2>1
  <2>4. s[i] = s[j] => i - 1 = j - 1
    BY <2>1
  <2>5. s[i] = s[j] \/ <<s[i], s[j]>> \in before \/ <<s[j], s[i]>> \in before
    BY <2>1 DEF StrictOrder
  <2>6. QED  BY <2>2, <2>3, <2>4, <2>5
<1>11. QED  BY <1>8, <1>9, <1>10 DEF SortedSequence, s

LEMMA SortedIsSequence ==
  ASSUME NEW S, IsFiniteSet(S), NEW before, NEW s, SortedSequence(s, S, before)
  PROVE  /\ Cardinality(S) \in Nat
         /\ s \in Seq(S) /\ Len(s) = Cardinality(S) /\ DOMAIN s = 1..Cardinality(S)
<1>1. Cardinality(S) \in Nat
  BY FS_CardinalityType
<1>2. QED  BY <1>1 DEF SortedSequence

LEMMA LessIsStrict ==
  ASSUME NEW S \in SUBSET Int
  PROVE  StrictOrder(S, Less(S))
BY DEF StrictOrder, Less

\* What is kept of a sequence: the elements to keep, each where it was before or
\* after another.
LEMMA RetainKeeps ==
  ASSUME NEW T, NEW s \in Seq(T), NEW keep
  PROVE  \E u \in Seq(T) :
           /\ u = Retain(s, keep)
           /\ \A x : (\E i \in DOMAIN u : u[i] = x)
                      <=> x \in keep /\ (\E i \in DOMAIN s : s[i] = x)
           /\ \E f \in [DOMAIN u -> DOMAIN s] :
                /\ \A i \in DOMAIN u : u[i] = s[f[i]]
                /\ \A i, j \in DOMAIN u : i < j => f[i] < f[j]
<1> DEFINE S == {i \in DOMAIN s : s[i] \in keep}
           before == Less(DOMAIN s)
           kept == InOrder(S, before)
           u == [n \in DOMAIN kept |-> s[kept[n]]]
           n == Cardinality(S)
<1>1. DOMAIN s = 1..Len(s) /\ Len(s) \in Nat /\ \A i \in DOMAIN s : s[i] \in T
  OBVIOUS
<1>2. IsFiniteSet(S) /\ S \subseteq Int
  <2>1. IsFiniteSet(DOMAIN s)
    BY <1>1, FS_Interval
  <2>2. QED  BY <1>1, <2>1, FS_Subset
<1>3. StrictOrder(S, before)
  BY <1>1 DEF StrictOrder, Less
<1>4. SortedSequence(kept, S, before)
  BY <1>2, <1>3, InOrderSorts
<1>5. n \in Nat /\ DOMAIN kept = 1..n
  BY <1>2, <1>4, SortedIsSequence
<1>6. /\ kept \in [1..n -> S]
      /\ \A x \in S : \E i \in 1..n : kept[i] = x
      /\ \A i, j \in 1..n : <<kept[i], kept[j]>> \in before <=> i < j
  BY <1>4 DEF SortedSequence
<1> HIDE DEF kept, n
<1>7. \A i \in 1..n : kept[i] \in DOMAIN s /\ s[kept[i]] \in keep /\ s[kept[i]] \in T
  BY <1>1, <1>6
<1>8. u \in Seq(T) /\ DOMAIN u = 1..n /\ \A i \in 1..n : u[i] = s[kept[i]]
  BY <1>5, <1>7
<1> HIDE DEF u
<1>9. \A x : (\E i \in DOMAIN u : u[i] = x)
                <=> x \in keep /\ (\E i \in DOMAIN s : s[i] = x)
  BY <1>6, <1>7, <1>8
<1>10. kept \in [DOMAIN u -> DOMAIN s]
  BY <1>6, <1>8
<1>11. \A i, j \in DOMAIN u : i < j => kept[i] < kept[j]
  BY <1>6, <1>8 DEF Less
<1>12. u = Retain(s, keep)
  BY DEF u, kept, Retain
<1>13. \E f \in [DOMAIN u -> DOMAIN s] :
         /\ \A i \in DOMAIN u : u[i] = s[f[i]]
         /\ \A i, j \in DOMAIN u : i < j => f[i] < f[j]
  BY <1>8, <1>10, <1>11
<1>14. u \in Seq(T)
  BY <1>8
<1>15. QED  BY <1>9, <1>12, <1>13, <1>14, Zenon

\* A sequence sorted by a total order of its elements has the same elements, as
\* many, each before those it precedes.
LEMMA SortBySorts ==
  ASSUME NEW T, NEW s \in Seq(T), NEW before, StrictOrder(T, before)
  PROVE  \E u \in Seq(T) :
           /\ u = SortBy(s, before) /\ Len(u) = Len(s)
           /\ \A x : (\E i \in DOMAIN u : u[i] = x) <=> (\E i \in DOMAIN s : s[i] = x)
           /\ \A i, j \in DOMAIN u : i < j => u[i] = u[j] \/ <<u[i], u[j]>> \in before
<1> DEFINE S == DOMAIN s
           earlier == {p \in S \X S : \/ <<s[p[1]], s[p[2]]>> \in before
                                      \/ <<s[p[2]], s[p[1]]>> \notin before /\ p[1] < p[2]}
           sorted == InOrder(S, earlier)
           u == [m \in DOMAIN sorted |-> s[sorted[m]]]
<1>1. S = 1..Len(s) /\ Len(s) \in Nat /\ \A i \in S : s[i] \in T
  OBVIOUS
<1>2. IsFiniteSet(S) /\ Cardinality(S) = Len(s)
  BY <1>1, FS_Interval
<1>3. \A i, j \in S : <<i, j>> \in earlier
                        <=> \/ <<s[i], s[j]>> \in before
                            \/ <<s[j], s[i]>> \notin before /\ i < j
  OBVIOUS
<1> HIDE DEF earlier
<1>4. \A i, j \in S : <<i, j>> \in earlier
                        <=> <<s[i], s[j]>> \in before \/ (s[i] = s[j] /\ i < j)
  <2> SUFFICES ASSUME NEW i \in S, NEW j \in S
               PROVE  <<i, j>> \in earlier
                        <=> <<s[i], s[j]>> \in before \/ (s[i] = s[j] /\ i < j)
    OBVIOUS
  <2>1. s[i] = s[j] \/ <<s[i], s[j]>> \in before \/ <<s[j], s[i]>> \in before
    BY <1>1 DEF StrictOrder
  <2>2. <<s[i], s[i]>> \notin before
    BY <1>1 DEF StrictOrder
  <2>3. QED  BY <1>3, <2>1, <2>2
<1>5. StrictOrder(S, earlier)
  <2>1. ASSUME NEW i \in S  PROVE <<i, i>> \notin earlier
    <3>1. <<s[i], s[i]>> \notin before
      BY <1>1 DEF StrictOrder
    <3>2. ~(i < i)
      BY <1>1
    <3>3. QED  BY <1>4, <3>1, <3>2
  <2>2. ASSUME NEW i \in S, NEW j \in S, NEW k \in S, <<i, j>> \in earlier, <<j, k>> \in earlier
        PROVE  <<i, k>> \in earlier
    <3>1. /\ <<s[i], s[j]>> \in before \/ (s[i] = s[j] /\ i < j)
          /\ <<s[j], s[k]>> \in before \/ (s[j] = s[k] /\ j < k)
      BY <1>4, <2>2
    <3>2. <<s[i], s[j]>> \in before /\ <<s[j], s[k]>> \in before => <<s[i], s[k]>> \in before
      BY <1>1 DEF StrictOrder
    <3>3. i < j /\ j < k => i < k
      BY <1>1
    <3>4. QED  BY <1>4, <3>1, <3>2, <3>3
  <2>3. ASSUME NEW i \in S, NEW j \in S
        PROVE  i = j \/ <<i, j>> \in earlier \/ <<j, i>> \in earlier
    <3>1. s[i] = s[j] \/ <<s[i], s[j]>> \in before \/ <<s[j], s[i]>> \in before
      BY <1>1 DEF StrictOrder
    <3>2. i = j \/ i < j \/ j < i
      BY <1>1
    <3>3. QED  BY <1>4, <3>1, <3>2
  <2>4. QED  BY <2>1, <2>2, <2>3 DEF StrictOrder
<1>6. SortedSequence(sorted, S, earlier)
  BY <1>2, <1>5, InOrderSorts
<1>7. DOMAIN sorted = 1..Len(s)
  BY <1>2, <1>6, SortedIsSequence
<1>8. /\ \A i \in 1..Len(s) : sorted[i] \in S
      /\ \A x \in S : \E i \in 1..Len(s) : sorted[i] = x
      /\ \A i, j \in 1..Len(s) : <<sorted[i], sorted[j]>> \in earlier <=> i < j
  BY <1>2, <1>6 DEF SortedSequence
<1> HIDE DEF sorted
<1>9. u \in [1..Len(s) -> T] /\ \A i \in 1..Len(s) : u[i] = s[sorted[i]]
  BY <1>1, <1>7, <1>8
<1> HIDE DEF u
<1>10. u \in Seq(T) /\ Len(u) = Len(s) /\ DOMAIN u = 1..Len(s)
  BY <1>1, <1>9
<1>11. \A x : (\E i \in DOMAIN u : u[i] = x) <=> (\E i \in DOMAIN s : s[i] = x)
  BY <1>1, <1>8, <1>9, <1>10
<1>12. \A i, j \in DOMAIN u : i < j => u[i] = u[j] \/ <<u[i], u[j]>> \in before
  <2> SUFFICES ASSUME NEW i \in 1..Len(s), NEW j \in 1..Len(s), i < j
               PROVE  u[i] = u[j] \/ <<u[i], u[j]>> \in before
    BY <1>10
  <2>1. sorted[i] \in S /\ sorted[j] \in S /\ <<sorted[i], sorted[j]>> \in earlier
    BY <1>8
  <2>2. <<s[sorted[i]], s[sorted[j]]>> \in before \/ s[sorted[i]] = s[sorted[j]]
    BY <1>4, <2>1
  <2>3. QED  BY <1>9, <2>2
<1>13. u = SortBy(s, before)
  BY Zenon DEF u, sorted, earlier, SortBy
<1>14. QED  BY <1>10, <1>11, <1>12, <1>13

-----------------------------------------------------------------------------
\* A fold goes through the places of a sequence by removing the greatest of a
\* set of them: there is a function that does it for every set, whatever a step
\* computes.
Folds(g, V, base, st, n) ==
  /\ g \in [SUBSET (1..n) -> V] /\ g[{}] = base
  /\ \A x \in SUBSET (1..n) : \A m \in x :
       (\A j \in x : j <= m) => g[x] = st[<<g[x \ {m}], m>>]

LEMMA FoldExists ==
  ASSUME NEW V, NEW base \in V, NEW n \in Nat, NEW st \in [V \X (1..n) -> V]
  PROVE  \E g : Folds(g, V, base, st, n)
<1> DEFINE T == {k \in Nat : k <= n => \E g : Folds(g, V, base, st, k)}
<1>1. 0 \in T
  <2> DEFINE g == [x \in SUBSET (1..0) |-> base]
  <2>1. 1..0 = {}
    OBVIOUS
  <2>2. Folds(g, V, base, st, 0)
    BY <2>1 DEF Folds
  <2>3. QED  BY <2>2
<1>2. ASSUME NEW k \in Nat, k \in T  PROVE k + 1 \in T
  <2> SUFFICES ASSUME k + 1 <= n  PROVE \E g : Folds(g, V, base, st, k + 1)
    OBVIOUS
  <2>1. PICK g : Folds(g, V, base, st, k)
    BY <1>2
  <2> DEFINE h == [x \in SUBSET (1..(k + 1)) |->
                     IF k + 1 \in x THEN st[<<g[x \ {k + 1}], k + 1>>] ELSE g[x]]
  <2>2. \A x \in SUBSET (1..(k + 1)) : x \ {k + 1} \in SUBSET (1..k)
    OBVIOUS
  <2>3. \A x \in SUBSET (1..(k + 1)) : k + 1 \notin x => x \in SUBSET (1..k)
    OBVIOUS
  <2>4. \A x \in SUBSET (1..k) : g[x] \in V /\ x \in SUBSET (1..(k + 1)) /\ k + 1 \notin x
    BY <2>1 DEF Folds
  <2>5. k + 1 \in 1..n
    OBVIOUS
  <2>6. h \in [SUBSET (1..(k + 1)) -> V]
    BY <2>2, <2>3, <2>4, <2>5
  <2>7. \A x \in SUBSET (1..k) : h[x] = g[x]
    BY <2>4
  <2>8. h[{}] = base
    BY <2>1, <2>7 DEF Folds
  <2>9. ASSUME NEW x \in SUBSET (1..(k + 1)), NEW m \in x, \A j \in x : j <= m
        PROVE  h[x] = st[<<h[x \ {m}], m>>]
    <3>1. CASE k + 1 \in x
      <4>1. m = k + 1
        BY <2>9, <3>1
      <4>2. h[x] = st[<<g[x \ {k + 1}], k + 1>>]
        BY <3>1
      <4>3. h[x \ {k + 1}] = g[x \ {k + 1}]
        BY <2>2, <2>7
      <4> HIDE DEF h
      <4>4. QED  BY <4>1, <4>2, <4>3
    <3>2. CASE k + 1 \notin x
      <4>1. x \in SUBSET (1..k) /\ x \ {m} \in SUBSET (1..k)
        BY <2>3, <3>2
      <4>2. g[x] = st[<<g[x \ {m}], m>>]
        BY <2>1, <2>9, <4>1 DEF Folds
      <4>3. h[x] = g[x] /\ h[x \ {m}] = g[x \ {m}]
        BY <2>7, <4>1
      <4> HIDE DEF h
      <4>4. QED  BY <4>2, <4>3
    <3>3. QED  BY <3>1, <3>2
  <2> HIDE DEF h
  <2>10. Folds(h, V, base, st, k + 1)
    BY <2>6, <2>8, <2>9 DEF Folds
  <2>11. QED  BY <2>10
<1>3. \A k \in Nat : k \in T
  <2> HIDE DEF T
  <2>1. QED  BY <1>1, <1>2, NatSetInduction
<1>4. QED  BY <1>3

-----------------------------------------------------------------------------
\* The sum of whole numbers, counted: each positive number is as many credits, and
\* each negative one as many debts.
Credits(w, S) == UNION {{r} \X (1..w[r]) : r \in S}
Debts(w, S) == UNION {{r} \X (1..(-w[r])) : r \in S}
Weight(w, S) == Cardinality(Credits(w, S)) - Cardinality(Debts(w, S))

\* The credits of one element.
LEMMA CreditsOfOne ==
  ASSUME NEW r, NEW k \in Int
  PROVE  /\ IsFiniteSet({r} \X (1..k))
         /\ Cardinality({r} \X (1..k)) = IF k > 0 THEN k ELSE 0
<1> DEFINE f == [i \in 1..k |-> <<r, i>>]
<1>1. IsFiniteSet(1..k) /\ Cardinality(1..k) = IF k > 0 THEN k ELSE 0
  <2>1. IsFiniteSet(1..k) /\ Cardinality(1..k) = IF 1 > k THEN 0 ELSE k - 1 + 1
    BY FS_Interval
  <2>2. QED  BY <2>1
<1>2. f \in [1..k -> {r} \X (1..k)]
  OBVIOUS
<1>3. \A i, j \in 1..k : f[i] = f[j] => i = j
  OBVIOUS
<1>4. \A t \in {r} \X (1..k) : \E i \in 1..k : f[i] = t
  OBVIOUS
<1>5. f \in Bijection(1..k, {r} \X (1..k))
  <2> HIDE DEF f
  <2>1. QED  BY <1>2, <1>3, <1>4 DEF Bijection, Injection, IsInjective, Surjection
<1>6. ExistsBijection(1..k, {r} \X (1..k))
  BY <1>5 DEF ExistsBijection
<1>7. QED  BY <1>1, <1>6, FS_Bijection

LEMMA CreditsGrow ==
  ASSUME NEW w, NEW S, NEW m \in S, \A r \in S : w[r] \in Int
  PROVE  /\ Credits(w, S) = Credits(w, S \ {m}) \cup ({m} \X (1..w[m]))
         /\ Credits(w, S \ {m}) \cap ({m} \X (1..w[m])) = {}
         /\ Debts(w, S) = Debts(w, S \ {m}) \cup ({m} \X (1..(-w[m])))
         /\ Debts(w, S \ {m}) \cap ({m} \X (1..(-w[m]))) = {}
<1>1. \A p \in Credits(w, S \ {m}) : p[1] \in S \ {m}
  BY DEF Credits
<1>2. \A p \in Debts(w, S \ {m}) : p[1] \in S \ {m}
  BY DEF Debts
<1>3. Credits(w, S) = Credits(w, S \ {m}) \cup ({m} \X (1..w[m]))
  BY DEF Credits
<1>4. Debts(w, S) = Debts(w, S \ {m}) \cup ({m} \X (1..(-w[m])))
  BY DEF Debts
<1>5. QED  BY <1>1, <1>2, <1>3, <1>4

LEMMA CreditsAreFinite ==
  ASSUME NEW w, NEW S, IsFiniteSet(S), \A r \in S : w[r] \in Int
  PROVE  IsFiniteSet(Credits(w, S)) /\ IsFiniteSet(Debts(w, S))
<1> DEFINE A == {{r} \X (1..w[r]) : r \in S}
           B == {{r} \X (1..(-w[r])) : r \in S}
           f == [r \in S |-> {r} \X (1..w[r])]
           g == [r \in S |-> {r} \X (1..(-w[r]))]
<1>1. f \in Surjection(S, A)
  <2>1. f \in [S -> A] /\ \A a \in A : \E r \in S : f[r] = a
    OBVIOUS
  <2> HIDE DEF f, A
  <2>2. QED  BY <2>1 DEF Surjection
<1>2. g \in Surjection(S, B)
  <2>1. g \in [S -> B] /\ \A b \in B : \E r \in S : g[r] = b
    OBVIOUS
  <2> HIDE DEF g, B
  <2>2. QED  BY <2>1 DEF Surjection
<1>3. \A r \in S : w[r] \in Int /\ -w[r] \in Int
  OBVIOUS
<1>4. \A a \in A : IsFiniteSet(a)
  BY <1>3, CreditsOfOne
<1>5. \A b \in B : IsFiniteSet(b)
  BY <1>3, CreditsOfOne
<1> HIDE DEF A, B, f, g
<1>6. IsFiniteSet(A) /\ IsFiniteSet(B)
  BY <1>1, <1>2, FS_Surjection
<1>7. IsFiniteSet(UNION A) /\ IsFiniteSet(UNION B)
  BY <1>4, <1>5, <1>6, FS_UNION
<1>8. QED  BY <1>7 DEF Credits, Debts, A, B

\* Adding an element to a finite set adds its number to the sum.
LEMMA WeightAdds ==
  ASSUME NEW w, NEW S, IsFiniteSet(S), \A r \in S : w[r] \in Int, NEW m \in S
  PROVE  /\ Weight(w, S) \in Int /\ Weight(w, S \ {m}) \in Int
         /\ Weight(w, S) = Weight(w, S \ {m}) + w[m]
<1> DEFINE U == Credits(w, S \ {m})
           D == Debts(w, S \ {m})
           u == {m} \X (1..w[m])
           d == {m} \X (1..(-w[m]))
<1>1. IsFiniteSet(S \ {m})
  BY FS_Subset
<1>2. IsFiniteSet(U) /\ IsFiniteSet(D)
  BY <1>1, CreditsAreFinite
<1>3. w[m] \in Int /\ -w[m] \in Int
  OBVIOUS
<1>4. /\ IsFiniteSet(u) /\ Cardinality(u) = IF w[m] > 0 THEN w[m] ELSE 0
      /\ IsFiniteSet(d) /\ Cardinality(d) = IF -w[m] > 0 THEN -w[m] ELSE 0
  BY <1>3, CreditsOfOne
<1> HIDE DEF U, D, u, d
<1>5. /\ Credits(w, S) = U \cup u /\ U \cap u = {}
      /\ Debts(w, S) = D \cup d /\ D \cap d = {}
  <2>1. \A r \in S : w[r] \in Int
    OBVIOUS
  <2>2. /\ Credits(w, S) = Credits(w, S \ {m}) \cup ({m} \X (1..w[m]))
        /\ Credits(w, S \ {m}) \cap ({m} \X (1..w[m])) = {}
        /\ Debts(w, S) = Debts(w, S \ {m}) \cup ({m} \X (1..(-w[m])))
        /\ Debts(w, S \ {m}) \cap ({m} \X (1..(-w[m]))) = {}
    BY <2>1, CreditsGrow
  <2>3. QED  BY <2>2 DEF U, D, u, d
<1>6. /\ Cardinality(U \cup u) = Cardinality(U) + Cardinality(u) - Cardinality(U \cap u)
      /\ Cardinality(D \cup d) = Cardinality(D) + Cardinality(d) - Cardinality(D \cap d)
  BY <1>2, <1>4, FS_Union
<1>7. Cardinality(U) \in Nat /\ Cardinality(D) \in Nat
  BY <1>2, FS_CardinalityType
<1>8. Cardinality({}) = 0
  BY FS_EmptySet
<1>9. /\ Cardinality(Credits(w, S)) = Cardinality(U) + Cardinality(u)
      /\ Cardinality(Debts(w, S)) = Cardinality(D) + Cardinality(d)
  <2>1. Cardinality(u) \in Nat /\ Cardinality(d) \in Nat
    BY <1>4, FS_CardinalityType
  <2>2. Cardinality(U \cap u) = 0 /\ Cardinality(D \cap d) = 0
    BY <1>5, <1>8
  <2>3. /\ Cardinality(U \cup u) = Cardinality(U) + Cardinality(u)
        /\ Cardinality(D \cup d) = Cardinality(D) + Cardinality(d)
    BY <1>6, <1>7, <2>1, <2>2
  <2>4. QED  BY <1>5, <2>3
<1>10. Weight(w, S \ {m}) = Cardinality(U) - Cardinality(D)
  BY DEF Weight, U, D
<1>11. Cardinality(u) - Cardinality(d) = w[m] /\ Cardinality(u) \in Nat /\ Cardinality(d) \in Nat
  BY <1>3, <1>4
<1>12. QED  BY <1>3, <1>7, <1>9, <1>10, <1>11 DEF Weight

LEMMA WeightOfNone == \A w : Weight(w, {}) = 0
BY FS_EmptySet DEF Weight, Credits, Debts

\* A sequence that has each element of a set once, in whatever order.
Enumerates(s, n, S) ==
  /\ s \in [1..n -> S]
  /\ \A i, j \in 1..n : s[i] = s[j] => i = j
  /\ \A x \in S : \E i \in 1..n : s[i] = x

LEMMA EnumerationCounts ==
  ASSUME NEW S, NEW n \in Nat, NEW s, Enumerates(s, n, S)
  PROVE  IsFiniteSet(S) /\ Cardinality(S) = n
<1>1. s \in Bijection(1..n, S)
  BY DEF Enumerates, Bijection, Injection, IsInjective, Surjection
<1>2. ExistsBijection(1..n, S)
  BY <1>1 DEF ExistsBijection
<1>3. IsFiniteSet(1..n) /\ Cardinality(1..n) = n
  BY FS_Interval
<1>4. QED  BY <1>2, <1>3, FS_Bijection

\* The sum over the places of an enumeration is that over its elements.
LEMMA WeightOfPlaces ==
  ASSUME NEW S, NEW n \in Nat, NEW s, Enumerates(s, n, S),
         NEW w \in [S -> Int], NEW v \in [1..n -> Int], \A i \in 1..n : v[i] = w[s[i]]
  PROVE  Weight(v, 1..n) = Weight(w, S)
<1> DEFINE elements(k) == {s[i] : i \in 1..k}
           T == {k \in Nat : k <= n => Weight(v, 1..k) = Weight(w, elements(k))}
<1>1. 0 \in T
  <2>1. 1..0 = {} /\ elements(0) = {}
    OBVIOUS
  <2> HIDE DEF elements
  <2>2. QED  BY <2>1, WeightOfNone
<1>2. ASSUME NEW k \in Nat, k \in T  PROVE k + 1 \in T
  <2> SUFFICES ASSUME k + 1 <= n
               PROVE  Weight(v, 1..(k + 1)) = Weight(w, elements(k + 1))
    <3> HIDE DEF elements
    <3>1. QED  OBVIOUS
  <2>1. /\ k + 1 \in 1..(k + 1) /\ (1..(k + 1)) \ {k + 1} = 1..k
        /\ \A r \in 1..(k + 1) : v[r] \in Int
    OBVIOUS
  <2>2. IsFiniteSet(1..(k + 1))
    BY FS_Interval
  <2>3. Weight(v, 1..(k + 1)) = Weight(v, 1..k) + v[k + 1]
    <3>1. Weight(v, 1..(k + 1)) = Weight(v, (1..(k + 1)) \ {k + 1}) + v[k + 1]
      BY <2>1, <2>2, WeightAdds
    <3>2. QED  BY <2>1, <3>1
  <2>4. IsFiniteSet(elements(k + 1))
    <3> DEFINE f == [i \in 1..(k + 1) |-> s[i]]
    <3>1. f \in Surjection(1..(k + 1), elements(k + 1))
      <4>1. f \in [1..(k + 1) -> elements(k + 1)]
            /\ \A e \in elements(k + 1) : \E i \in 1..(k + 1) : f[i] = e
        OBVIOUS
      <4> HIDE DEF f, elements
      <4>2. QED  BY <4>1 DEF Surjection
    <3> HIDE DEF f, elements
    <3>2. QED  BY <2>2, <3>1, FS_Surjection
  <2>5. /\ s[k + 1] \in elements(k + 1) /\ elements(k + 1) \ {s[k + 1]} = elements(k)
        /\ \A e \in elements(k + 1) : w[e] \in Int
    <3>1. k + 1 \in 1..n /\ \A i \in 1..k : i \in 1..n /\ i # k + 1
      OBVIOUS
    <3>2. \A i \in 1..k : s[i] # s[k + 1]
      BY <3>1 DEF Enumerates
    <3>3. elements(k + 1) = elements(k) \cup {s[k + 1]}
      BY <2>1
    <3>4. s[k + 1] \notin elements(k)
      BY <3>2
    <3>5. \A e \in elements(k + 1) : e \in S
      BY DEF Enumerates
    <3>6. QED  BY <3>3, <3>4, <3>5
  <2> HIDE DEF elements
  <2>6. Weight(w, elements(k + 1)) = Weight(w, elements(k)) + w[s[k + 1]]
    <3> DEFINE some == elements(k + 1)
               last == s[k + 1]
    <3>1. IsFiniteSet(some) /\ last \in some /\ \A e \in some : w[e] \in Int
      BY <2>4, <2>5
    <3>2. some \ {last} = elements(k)
      BY <2>5
    <3> HIDE DEF some, last
    <3>3. Weight(w, some) = Weight(w, some \ {last}) + w[last]
      BY <3>1, WeightAdds
    <3>4. QED  BY <3>2, <3>3 DEF some, last
  <2>7. Weight(v, 1..k) = Weight(w, elements(k)) /\ v[k + 1] = w[s[k + 1]]
    BY <1>2
  <2>8. QED  BY <2>3, <2>6, <2>7
<1>3. \A k \in Nat : k \in T
  <2> HIDE DEF T
  <2>1. QED  BY <1>1, <1>2, NatSetInduction
<1>4. elements(n) = S
  BY DEF Enumerates
<1> HIDE DEF elements
<1>5. QED  BY <1>3, <1>4

-----------------------------------------------------------------------------
\* A function of the places up to n is defined by what it is at each, when that
\* does not depend on what it is at that place or later.
ByPlace(n, V, step) ==
  /\ step \in [1..n -> [[1..n -> V] -> V]]
  /\ \A i \in 1..n : \A g, h \in [1..n -> V] :
       (\A j \in 1..(i - 1) : g[j] = h[j]) => step[i][g] = step[i][h]

Unfolds(g, n, step) == \A i \in 1..n : g[i] = step[i][g]

LEMMA RecursionByPlace ==
  ASSUME NEW n \in Nat, NEW V, NEW d \in V, NEW step, ByPlace(n, V, step)
  PROVE  \E g \in [1..n -> V] : Unfolds(g, n, step)
<1> DEFINE T == {k \in Nat : k <= n => \E g \in [1..n -> V] : \A i \in 1..k : g[i] = step[i][g]}
<1>1. 0 \in T
  <2>1. [i \in 1..n |-> d] \in [1..n -> V] /\ 1..0 = {}
    OBVIOUS
  <2>2. QED  BY <2>1
<1>2. ASSUME NEW k \in Nat, k \in T  PROVE k + 1 \in T
  <2> SUFFICES ASSUME k + 1 <= n
               PROVE  \E g \in [1..n -> V] : \A i \in 1..(k + 1) : g[i] = step[i][g]
    OBVIOUS
  <2>1. PICK g \in [1..n -> V] : \A i \in 1..k : g[i] = step[i][g]
    BY <1>2
  <2> DEFINE h == [i \in 1..n |-> IF i = k + 1 THEN step[k + 1][g] ELSE g[i]]
  <2>2. h \in [1..n -> V]
    <3>1. k + 1 \in 1..n
      OBVIOUS
    <3>2. step[k + 1][g] \in V
      BY <3>1 DEF ByPlace
    <3>3. QED  BY <3>2
  <2>3. \A j \in 1..k : j \in 1..n /\ h[j] = g[j]
    OBVIOUS
  <2>4. h[k + 1] = step[k + 1][g]
    OBVIOUS
  <2> HIDE DEF h
  <2>5. \A i \in 1..(k + 1) : step[i][h] = step[i][g]
    <3> SUFFICES ASSUME NEW i \in 1..(k + 1)  PROVE step[i][h] = step[i][g]
      OBVIOUS
    <3>1. i \in 1..n /\ \A j \in 1..(i - 1) : j \in 1..k
      OBVIOUS
    <3>2. \A j \in 1..(i - 1) : h[j] = g[j]
      BY <2>3, <3>1
    <3>3. QED  BY <2>2, <3>1, <3>2 DEF ByPlace
  <2>6. \A i \in 1..(k + 1) : i = k + 1 \/ i \in 1..k
    OBVIOUS
  <2>7. \A i \in 1..(k + 1) : h[i] = step[i][h]
    BY <2>1, <2>3, <2>4, <2>5, <2>6
  <2>8. QED  BY <2>2, <2>7
<1>3. \A k \in Nat : k \in T
  <2> HIDE DEF T
  <2>1. QED  BY <1>1, <1>2, NatSetInduction
<1>4. n \in T
  BY <1>3
<1>5. QED  BY <1>4 DEF Unfolds
=============================================================================
