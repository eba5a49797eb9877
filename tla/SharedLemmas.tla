----------------------------- MODULE SharedLemmas -----------------------------
(***************************************************************************)
(* What the proofs of several components rest on: the least-number         *)
(* principle, the only form of induction they use, numberings of finite    *)
(* sets, folds over sequences, and the reference distances.                *)
(***************************************************************************)
EXTENDS Integers, Sequences, SequencesExt, FiniteSets, Distances, FiniteSetTheorems, TLAPS

\* A non-empty set of naturals has a least member.  This follows from the
\* well-foundedness of strict inclusion on finite sets: the intervals 0..n for
\* n in the set have a minimal one, and its bound is the least n.
LEMMA LeastMember ==
  ASSUME NEW A \in SUBSET Nat, A # {}
  PROVE  \E m \in A : \A k \in A : m <= k
<1> DEFINE Upto == {0..n : n \in A}
           Fin  == FiniteSubsetsOf(Nat)
           R    == StrictSubsetOrdering(Nat)
<1>1. IsWellFoundedOn(R, Fin)
  BY FS_StrictSubsetOrderingWellFounded
<1>2. Upto \subseteq Fin
  <2>1. SUFFICES ASSUME NEW n \in A PROVE 0..n \in Fin
    OBVIOUS
  <2>2. n \in Nat /\ n \in Int
    OBVIOUS
  <2>3. IsFiniteSet(0..n)
    BY <2>2, FS_Interval
  <2>4. 0..n \in SUBSET Nat
    BY <2>2
  <2> QED BY <2>3, <2>4 DEF FiniteSubsetsOf
<1>3. Upto # {}
  OBVIOUS
<1> HIDE DEF Upto, Fin, R
<1>4. \E x \in Upto : \A y \in Upto : ~ (<<y, x>> \in R)
  BY <1>1, <1>2, <1>3, WFMin
<1>5. PICK m \in A : \A n \in A : <<0..n, 0..m>> \notin R
  BY <1>4 DEF Upto
<1>6. ASSUME NEW k \in A, k < m PROVE FALSE
  <2>1. k \in Nat /\ m \in Nat
    OBVIOUS
  <2>2. 0..k \in SUBSET Nat /\ 0..m \in SUBSET Nat
    BY <2>1
  <2>3. 0..k \subseteq 0..m
    BY <2>1, <1>6
  <2>4. 0..k # 0..m
    <3>1. m \in 0..m /\ m \notin 0..k
      BY <2>1, <1>6
    <3> QED BY <3>1
  <2>5. <<0..k, 0..m>> \in R
    BY <2>2, <2>3, <2>4 DEF R, StrictSubsetOrdering
  <2> QED BY <2>5, <1>5
<1> QED BY <1>6

\* A set that has 0 and the successor of each of its members below n has all
\* numbers up to n.
LEMMA IntervalInduction ==
  ASSUME NEW n \in Nat, NEW A, 0 \in A, \A k \in 1..n : k - 1 \in A => k \in A
  PROVE  0..n \subseteq A
<1> DEFINE Gap == {k \in 0..n : k \notin A}
<1>1. SUFFICES ASSUME Gap # {} PROVE FALSE
  OBVIOUS
<1>2. Gap \in SUBSET Nat
  OBVIOUS
<1>3. PICK m \in Gap : \A k \in Gap : m <= k
  BY <1>1, <1>2, LeastMember
<1>4. m \in 1..n /\ m - 1 \in 0..n /\ m - 1 \notin Gap
  BY <1>3
<1> QED BY <1>4

\* A numbering without repetitions of a finite set, by as many numbers as it
\* has members, leaves no number out, and the layout by it is its inverse.
LEMMA ArrangedInverts ==
  ASSUME NEW S, IsFiniteSet(S), NEW place \in [S -> 1..Cardinality(S)],
         \A x, y \in S : place[x] = place[y] => x = y
  PROVE  /\ Arranged(S, place) \in [1..Cardinality(S) -> S]
         /\ \A x \in S : Arranged(S, place)[place[x]] = x
         /\ \A k \in 1..Cardinality(S) : place[Arranged(S, place)[k]] = k
<1> DEFINE N == Cardinality(S)
<1>1. N \in Nat
  BY FS_CardinalityType
<1>2. IsFiniteSet(1..N) /\ Cardinality(1..N) = N
  BY <1>1, FS_Interval
<1>3. place \in Injection(S, 1..N)
  BY DEF Injection, IsInjective
<1>4. place \in Surjection(S, 1..N)
  BY <1>2, <1>3, FS_Injection
<1>5. \A k \in 1..N : \E x \in S : place[x] = k
  BY <1>4 DEF Surjection
<1>6. \A k \in 1..N : Arranged(S, place)[k] \in S /\ place[Arranged(S, place)[k]] = k
  BY <1>5 DEF Arranged
<1>7. Arranged(S, place) \in [1..N -> S]
  BY <1>6 DEF Arranged
<1> QED BY <1>6, <1>7

\* Counting the members that are not after it numbers the members of a finite
\* set along a total order R.
LEMMA TotalOrderPlaces ==
  ASSUME NEW S, IsFiniteSet(S), NEW R,
         \A x \in S : <<x, x>> \in R,
         \A x, y \in S : <<x, y>> \in R \/ <<y, x>> \in R,
         \A x, y \in S : <<x, y>> \in R /\ <<y, x>> \in R => x = y,
         \A x, y, z \in S : <<x, y>> \in R /\ <<y, z>> \in R => <<x, z>> \in R,
         NEW place, place = [x \in S |-> Cardinality({y \in S : <<y, x>> \in R})]
  PROVE  /\ place \in [S -> 1..Cardinality(S)]
         /\ \A x, y \in S : place[x] = place[y] => x = y
         /\ \A x, y \in S : place[x] <= place[y] <=> <<x, y>> \in R
<1> DEFINE Upto(x) == {y \in S : <<y, x>> \in R}
<1>1. ASSUME NEW x \in S
      PROVE  IsFiniteSet(Upto(x)) /\ Cardinality(Upto(x)) \in 1..Cardinality(S)
  <2>1. Upto(x) \in SUBSET S /\ Upto(x) # {}
    OBVIOUS
  <2>2. IsFiniteSet(Upto(x)) /\ Cardinality(Upto(x)) <= Cardinality(S)
    BY <2>1, FS_Subset
  <2>3. Cardinality(Upto(x)) # 0
    BY <2>1, <2>2, FS_EmptySet
  <2> QED BY <2>2, <2>3, FS_CardinalityType
<1>2. ASSUME NEW x \in S, NEW y \in S, <<x, y>> \in R, x # y
      PROVE  Cardinality(Upto(x)) < Cardinality(Upto(y))
  <2>1. Upto(x) \in SUBSET Upto(y) /\ Upto(x) # Upto(y)
    <3>1. Upto(x) \in SUBSET Upto(y)
      BY <1>2
    <3>2. y \in Upto(y) /\ y \notin Upto(x)
      BY <1>2
    <3> QED BY <3>1, <3>2
  <2>2. /\ Cardinality(Upto(x)) <= Cardinality(Upto(y))
        /\ Cardinality(Upto(x)) # Cardinality(Upto(y))
    BY <2>1, <1>1, FS_Subset
  <2>3. Cardinality(Upto(x)) \in Nat /\ Cardinality(Upto(y)) \in Nat
    BY <1>1, FS_CardinalityType
  <2> QED BY <2>2, <2>3
<1>3. \A x \in S : /\ place[x] = Cardinality(Upto(x)) /\ place[x] \in 1..Cardinality(S)
                   /\ place[x] \in Nat
  BY <1>1, FS_CardinalityType
<1>4. \A x, y \in S : <<x, y>> \in R /\ x # y => place[x] < place[y]
  BY <1>2, <1>3
<1>5. Cardinality(S) \in Nat
  BY FS_CardinalityType
<1> HIDE DEF Upto
<1>6. place \in [S -> 1..Cardinality(S)]
  BY <1>3
<1>7. ASSUME NEW x \in S, NEW y \in S
      PROVE  /\ place[x] = place[y] => x = y
             /\ place[x] <= place[y] <=> <<x, y>> \in R
  <2>1. place[x] \in Nat /\ place[y] \in Nat
    BY <1>3
  <2>2. CASE x = y
    BY <2>1, <2>2
  <2>3. CASE x # y /\ <<x, y>> \in R
    BY <2>1, <2>3, <1>4
  <2>4. CASE x # y /\ <<y, x>> \in R
    <3>1. place[y] < place[x]
      BY <2>4, <1>4
    <3>2. <<x, y>> \notin R
      BY <2>4
    <3> QED BY <2>1, <3>1, <3>2
  <2> QED BY <2>2, <2>3, <2>4
<1> QED BY <1>6, <1>7

\* The members of a finite set of numbers in order: every one of them is met
\* once, and they increase.
LEMMA InOrderFacts ==
  ASSUME NEW S \in SUBSET Nat, IsFiniteSet(S)
  PROVE  /\ Cardinality(S) \in Nat
         /\ InOrder(S) \in [1..Cardinality(S) -> S]
         /\ \A x \in S : \E k \in 1..Cardinality(S) : InOrder(S)[k] = x
         /\ \A k, l \in 1..Cardinality(S) : k < l => InOrder(S)[k] < InOrder(S)[l]
<1> DEFINE R == {p \in S \X S : p[1] <= p[2]}
           place == [x \in S |-> Cardinality({y \in S : y <= x})]
           N == Cardinality(S)
<1>1. place = [x \in S |-> Cardinality({y \in S : <<y, x>> \in R})]
  <2>1. \A x \in S : {y \in S : y <= x} = {y \in S : <<y, x>> \in R}
    OBVIOUS
  <2> QED BY <2>1
<1>2. /\ \A x \in S : <<x, x>> \in R
      /\ \A x, y \in S : <<x, y>> \in R \/ <<y, x>> \in R
      /\ \A x, y \in S : <<x, y>> \in R /\ <<y, x>> \in R => x = y
      /\ \A x, y, z \in S : <<x, y>> \in R /\ <<y, z>> \in R => <<x, z>> \in R
  OBVIOUS
<1>3. \A x, y \in S : <<x, y>> \in R <=> x <= y
  OBVIOUS
<1> HIDE DEF R, place
<1>4. /\ place \in [S -> 1..N]
      /\ \A x, y \in S : place[x] = place[y] => x = y
      /\ \A x, y \in S : place[x] <= place[y] <=> <<x, y>> \in R
  BY <1>1, <1>2, TotalOrderPlaces
<1>5. N \in Nat
  BY FS_CardinalityType
<1>6. /\ Arranged(S, place) \in [1..N -> S]
      /\ \A x \in S : Arranged(S, place)[place[x]] = x
      /\ \A k \in 1..N : place[Arranged(S, place)[k]] = k
  BY <1>4, ArrangedInverts
<1>7. InOrder(S) = Arranged(S, place)
  BY DEF InOrder, place
<1>8. \A x \in S : InOrder(S)[place[x]] = x /\ place[x] \in 1..N
  BY <1>4, <1>6, <1>7
<1>9. ASSUME NEW k \in 1..N, NEW l \in 1..N, k < l
      PROVE  InOrder(S)[k] < InOrder(S)[l]
  <2> DEFINE x == InOrder(S)[k]  y == InOrder(S)[l]
  <2>1. x \in S /\ y \in S /\ place[x] = k /\ place[y] = l
    BY <1>6, <1>7
  <2>2. ~(place[y] <= place[x])
    BY <2>1, <1>9, <1>5
  <2>3. ~(y <= x)
    BY <2>1, <2>2, <1>3, <1>4
  <2>4. x \in Nat /\ y \in Nat
    BY <2>1
  <2> HIDE DEF x, y
  <2>5. x < y
    BY <2>3, <2>4
  <2> QED BY <2>5 DEF x, y
<1> QED BY <1>5, <1>6, <1>7, <1>8, <1>9

\* An increasing map of an interval to itself is the identity.
LEMMA IncreasingIsIdentity ==
  ASSUME NEW n \in Nat, NEW f \in [1..n -> 1..n],
         \A k, l \in 1..n : k < l => f[k] < f[l]
  PROVE  \A k \in 1..n : f[k] = k
<1> DEFINE Low  == {k \in 0..n : k = 0 \/ f[k] >= k}
           High == {k \in 0..n : k = n \/ f[n - k] <= n - k}
<1>1. 0..n \subseteq Low
  <2>1. ASSUME NEW k \in 1..n, k - 1 \in Low PROVE k \in Low
    <3>1. CASE k = 1
      BY <3>1
    <3>2. CASE k > 1
      <4>1. k - 1 \in 1..n /\ f[k - 1] >= k - 1 /\ f[k - 1] < f[k]
        BY <3>2, <2>1
      <4>2. f[k] \in Int /\ f[k - 1] \in Int
        BY <4>1
      <4> QED BY <4>1, <4>2
    <3> QED BY <3>1, <3>2
  <2>2. 0 \in Low
    OBVIOUS
  <2> HIDE DEF Low
  <2> QED BY <2>1, <2>2, IntervalInduction
<1>2. 0..n \subseteq High
  <2>1. ASSUME NEW k \in 1..n, k - 1 \in High PROVE k \in High
    <3>1. CASE k = n
      BY <3>1
    <3>2. CASE k < n
      <4>1. n - k \in 1..n /\ n - (k - 1) \in 1..n /\ n - k < n - (k - 1)
        BY <3>2
      <4>2. f[n - (k - 1)] <= n - (k - 1)
        BY <2>1, <3>2
      <4>3. f[n - k] < f[n - (k - 1)]
        BY <4>1
      <4>4. f[n - k] \in Int /\ f[n - (k - 1)] \in Int
        BY <4>1
      <4>5. f[n - k] <= n - k
        BY <4>2, <4>3, <4>4
      <4> QED BY <4>5
    <3> QED BY <3>1, <3>2
  <2>2. 0 \in High
    OBVIOUS
  <2> HIDE DEF High
  <2> QED BY <2>1, <2>2, IntervalInduction
<1>3. ASSUME NEW k \in 1..n PROVE f[k] = k
  <2>1. k \in Low /\ n - k \in High /\ n - (n - k) = k /\ f[k] \in Int
    BY <1>1, <1>2
  <2>2. f[k] >= k
    BY <2>1
  <2>3. f[k] <= k
    BY <2>1
  <2> QED BY <2>1, <2>2, <2>3
<1> QED BY <1>3

\* A set of positive numbers that has every smaller one too is an interval.
LEMMA InitialSegment ==
  ASSUME NEW n \in Nat, NEW S \in SUBSET (1..n), \A k \in S : \A l \in 1..k : l \in S
  PROVE  S = 1..Cardinality(S) /\ Cardinality(S) \in 0..n
<1> DEFINE Free == {k \in Nat : k + 1 \notin S}
<1>1. n \in Free
  OBVIOUS
<1>2. PICK m \in Free : \A k \in Free : m <= k
  BY <1>1, LeastMember
<1>3. S \subseteq 1..m
  <2>1. SUFFICES ASSUME NEW k \in S, k > m PROVE FALSE
    OBVIOUS
  <2>2. m + 1 \in 1..k
    BY <2>1
  <2> QED BY <2>2, <1>2
<1>4. 1..m \subseteq S
  <2>1. SUFFICES ASSUME NEW k \in 1..m, k \notin S PROVE FALSE
    OBVIOUS
  <2>2. k - 1 \in Free
    BY <2>1
  <2> QED BY <2>2, <1>2
<1>5. S = 1..m
  BY <1>3, <1>4
<1>6. m \in 0..n
  BY <1>1, <1>2
<1>7. m \in Nat /\ Cardinality(1..m) = m
  BY <1>6, FS_Interval
<1> QED BY <1>5, <1>6, <1>7
------------------------------------------------------------------------------
\* The value F[<<x, h>>] at x, if h has those at the other members of S, only
\* needs the values at members of a lower rank.
NeedsLower(S, V, rank, F) ==
  \A x \in S : \A g, h \in [S -> V] :
    (\A y \in S : rank[y] < rank[x] => g[y] = h[y]) => F[<<x, g>>] = F[<<x, h>>]

Solvable(S, V, F) == \E h \in [S -> V] : \A x \in S : h[x] = F[<<x, h>>]

\* Then a function may be defined by recursion.
LEMMA RankedRecursion ==
  ASSUME NEW S, NEW V, NEW v \in V, NEW most \in Nat, NEW rank \in [S -> 0..most],
         NEW F \in [S \X [S -> V] -> V], NeedsLower(S, V, rank, F)
  PROVE  Solvable(S, V, F)
<1> DEFINE Upto(h, k) == \A x \in S : rank[x] < k => h[x] = F[<<x, h>>]
           A == {k \in 0..(most + 1) : \E h \in [S -> V] : Upto(h, k)}
<1>1. \A x \in S : rank[x] \in Nat /\ rank[x] < most + 1
  BY SMT
<1>2. 0 \in A
  <2>1. [x \in S |-> v] \in [S -> V]
    OBVIOUS
  <2>2. \A x \in S : ~(rank[x] < 0)
    BY <1>1
  <2>3. Upto([x \in S |-> v], 0)
    BY <2>2
  <2>4. 0 \in 0..(most + 1)
    OBVIOUS
  <2> HIDE DEF Upto
  <2> QED BY <2>1, <2>3, <2>4
<1>3. ASSUME NEW k \in 1..(most + 1), k - 1 \in A PROVE k \in A
  <2>1. PICK h \in [S -> V] : Upto(h, k - 1)
    BY <1>3
  <2> DEFINE g == [x \in S |-> F[<<x, h>>]]
  <2>2. g \in [S -> V]
    OBVIOUS
  <2>3. ASSUME NEW x \in S, rank[x] < k PROVE g[x] = F[<<x, g>>]
    <3>1. ASSUME NEW y \in S, rank[y] < rank[x] PROVE g[y] = h[y]
      <4>1. rank[y] < k - 1
        BY <1>1, <2>3, <3>1
      <4> QED BY <4>1, <2>1
    <3>2. g[x] = F[<<x, h>>]
      OBVIOUS
    <3> HIDE DEF g
    <3>3. F[<<x, g>>] = F[<<x, h>>]
      BY <2>2, <3>1 DEF NeedsLower
    <3> QED BY <3>2, <3>3
  <2>4. Upto(g, k)
    BY <2>3
  <2> HIDE DEF g, Upto
  <2>5. k \in 0..(most + 1)
    OBVIOUS
  <2> QED BY <2>2, <2>4, <2>5
<1> HIDE DEF A
<1>4. 0..(most + 1) \subseteq A
  BY <1>2, <1>3, IntervalInduction
<1>5. most + 1 \in A
  BY <1>4
<1>6. PICK h \in [S -> V] : Upto(h, most + 1)
  BY <1>5 DEF A
<1> QED BY <1>1, <1>6 DEF Solvable

\* Induction over ranks: P has all of S if it has each member of S with
\* which it has those of a lower rank.
Inherits(S, P, rank) == \A x \in S : (\A y \in S : rank[y] < rank[x] => y \in P) => x \in P

LEMMA RankedInduction ==
  ASSUME NEW S, NEW P, NEW most \in Nat, NEW rank \in [S -> 0..most], Inherits(S, P, rank)
  PROVE  S \subseteq P
<1> DEFINE A == {k \in 0..(most + 1) : \A x \in S : rank[x] < k => x \in P}
<1>1. \A x \in S : rank[x] \in Nat /\ rank[x] < most + 1
  BY SMT
<1>2. 0 \in A
  BY <1>1
<1>3. ASSUME NEW k \in 1..(most + 1), k - 1 \in A PROVE k \in A
  <2>1. ASSUME NEW x \in S, rank[x] < k PROVE x \in P
    <3>1. ASSUME NEW y \in S, rank[y] < rank[x] PROVE y \in P
      <4>1. rank[y] < k - 1
        BY <1>1, <2>1, <3>1
      <4> QED BY <4>1, <1>3
    <3> QED BY <3>1 DEF Inherits
  <2>2. k \in 0..(most + 1)
    OBVIOUS
  <2> QED BY <2>1, <2>2
<1> HIDE DEF A
<1>4. 0..(most + 1) \subseteq A
  BY <1>2, <1>3, IntervalInduction
<1>5. most + 1 \in A
  BY <1>4
<1> QED BY <1>1, <1>5 DEF A

\* g starts with base and goes from each number to the next by step.
Steps(g, n, base, step) == g[0] = base /\ \A k \in 1..n : g[k] = step[<<k, g[k - 1]>>]

\* Every step can be taken: there is a function of the numbers up to n that
\* starts with base and goes from one number to the next by step.
LEMMA StepsExist ==
  ASSUME NEW n \in Nat, NEW U, NEW base \in U, NEW step \in [(1..n) \X U -> U]
  PROVE  \E g \in [0..n -> U] : Steps(g, n, base, step)
<1> DEFINE A == {m \in 0..n : \E g \in [0..m -> U] : Steps(g, m, base, step)}
<1>1. 0 \in A
  <2> DEFINE g == [k \in 0..0 |-> base]
  <2>1. g \in [0..0 -> U] /\ Steps(g, 0, base, step)
    BY DEF Steps
  <2> HIDE DEF g
  <2> QED BY <2>1
<1>2. ASSUME NEW m \in 1..n, m - 1 \in A PROVE m \in A
  <2>1. PICK g \in [0..(m - 1) -> U] : Steps(g, m - 1, base, step)
    BY <1>2
  <2> DEFINE h == [k \in 0..m |-> IF k = m THEN step[<<m, g[m - 1]>>] ELSE g[k]]
  <2>2. m - 1 \in 0..(m - 1) /\ g[m - 1] \in U /\ step[<<m, g[m - 1]>>] \in U
    BY <2>1
  <2>3. h \in [0..m -> U]
    BY <2>2
  <2>4. \A k \in 0..(m - 1) : h[k] = g[k]
    OBVIOUS
  <2>5. h[m] = step[<<m, g[m - 1]>>] /\ h[0] = base
    BY <2>1 DEF Steps
  <2>6. ASSUME NEW k \in 1..m PROVE h[k] = step[<<k, h[k - 1]>>]
    <3>1. k - 1 \in 0..(m - 1)
      OBVIOUS
    <3>2. CASE k = m
      BY <3>1, <3>2, <2>4, <2>5
    <3>3. CASE k # m
      <4>1. k \in 1..(m - 1) /\ k \in 0..(m - 1)
        BY <3>3
      <4>2. g[k] = step[<<k, g[k - 1]>>]
        BY <4>1, <2>1 DEF Steps
      <4> QED BY <4>1, <4>2, <3>1, <2>4
    <3> QED BY <3>2, <3>3
  <2> HIDE DEF h
  <2>7. Steps(h, m, base, step)
    BY <2>5, <2>6 DEF Steps
  <2> QED BY <2>3, <2>7
<1> HIDE DEF A
<1>3. 0..n \subseteq A
  BY <1>1, <1>2, IntervalInduction
<1>4. n \in A
  BY <1>3
<1> QED BY <1>4 DEF A

\* iter folds the subsets of 1..n from base by step, the greatest member last.
FoldsBy(iter, n, base, step) ==
  /\ iter[{}] = base
  /\ \A s \in SUBSET (1..n) : s # {} =>
       Max(s) \in s /\ iter[s] = step[<<Max(s), iter[s \ {Max(s)}]>>]

\* The function a fold is defined by exists: it goes through the subsets of
\* an interval, taking the greatest member first.
LEMMA FoldExists ==
  ASSUME NEW n \in Nat, NEW U, NEW base \in U, NEW step \in [(1..n) \X U -> U]
  PROVE  \E iter \in [SUBSET (1..n) -> U] : FoldsBy(iter, n, base, step)
<1> DEFINE Sets == SUBSET (1..n)
           V == [Sets -> U]
           start == [s \in Sets |-> base]
           turn == [x \in (1..n) \X V |->
                      [s \in Sets |-> IF x[1] \in s THEN step[<<x[1], x[2][s]>>] ELSE x[2][s]]]
<1>1. start \in V
  OBVIOUS
<1>2. turn \in [(1..n) \X V -> V]
  OBVIOUS
<1> HIDE DEF V, turn, start
<1>3. PICK g \in [0..n -> V] : Steps(g, n, start, turn)
  BY <1>1, <1>2, StepsExist
<1>4. \A k \in 0..n : g[k] \in V /\ g[k] \in [Sets -> U]
  <2>1. \A k \in 0..n : g[k] \in V
    BY <1>3
  <2> QED BY <2>1 DEF V
<1>5. ASSUME NEW k \in 1..n, NEW s \in Sets
      PROVE  g[k][s] = IF k \in s THEN step[<<k, g[k - 1][s]>>] ELSE g[k - 1][s]
  <2>1. k - 1 \in 0..n /\ g[k - 1] \in V
    BY <1>4
  <2>2. g[k] = turn[<<k, g[k - 1]>>]
    BY <1>3 DEF Steps
  <2> QED BY <2>1, <2>2 DEF turn
<1>6. \A s \in Sets : g[0][s] = base
  BY <1>3 DEF start, Steps
\* Below its greatest member, and above it, a set is folded like others.
<1>7. ASSUME NEW m \in 1..n, NEW s \in Sets, NEW r \in Sets, r = s \ {m}, \A x \in s : x <= m
      PROVE  /\ g[m - 1][r] = g[m - 1][s]
             /\ g[n][s] = g[m][s]
             /\ g[n][r] = g[m - 1][r]
  <2> DEFINE Same == {k \in 0..n : k <= m - 1 => g[k][r] = g[k][s]}
             Kept == {k \in 0..n : k >= m => g[k][s] = g[m][s]}
             KeptR == {k \in 0..n : k >= m - 1 => g[k][r] = g[m - 1][r]}
  <2>1. 0..n \subseteq Same
    <3>1. 0 \in Same
      BY <1>6
    <3>2. ASSUME NEW k \in 1..n, k - 1 \in Same PROVE k \in Same
      <4>1. SUFFICES ASSUME k <= m - 1 PROVE g[k][r] = g[k][s]
        OBVIOUS
      <4>2. k \in r <=> k \in s
        BY <4>1, <1>7
      <4>3. g[k - 1][r] = g[k - 1][s]
        BY <3>2, <4>1
      <4>4. g[k][r] = IF k \in r THEN step[<<k, g[k - 1][r]>>] ELSE g[k - 1][r]
        BY <1>5
      <4>5. g[k][s] = IF k \in s THEN step[<<k, g[k - 1][s]>>] ELSE g[k - 1][s]
        BY <1>5
      <4> QED BY <4>2, <4>3, <4>4, <4>5
    <3> HIDE DEF Same
    <3> QED BY <3>1, <3>2, IntervalInduction
  <2>2. 0..n \subseteq Kept
    <3>1. 0 \in Kept
      OBVIOUS
    <3>2. ASSUME NEW k \in 1..n, k - 1 \in Kept PROVE k \in Kept
      <4>1. SUFFICES ASSUME k > m PROVE g[k][s] = g[m][s]
        OBVIOUS
      <4>2. k \notin s
        BY <4>1, <1>7
      <4>3. g[k - 1][s] = g[m][s]
        BY <3>2, <4>1
      <4> QED BY <4>2, <4>3, <1>5
    <3> HIDE DEF Kept
    <3> QED BY <3>1, <3>2, IntervalInduction
  <2>3. 0..n \subseteq KeptR
    <3>1. 0 \in KeptR
      OBVIOUS
    <3>2. ASSUME NEW k \in 1..n, k - 1 \in KeptR PROVE k \in KeptR
      <4>1. SUFFICES ASSUME k > m - 1 PROVE g[k][r] = g[m - 1][r]
        OBVIOUS
      <4>2. k \notin r
        BY <4>1, <1>7
      <4>3. g[k - 1][r] = g[m - 1][r]
        BY <3>2, <4>1
      <4> QED BY <4>2, <4>3, <1>5
    <3> HIDE DEF KeptR
    <3> QED BY <3>1, <3>2, IntervalInduction
  <2> QED BY <2>1, <2>2, <2>3
<1>8. ASSUME NEW s \in Sets, s # {}
      PROVE  Max(s) \in s /\ g[n][s] = step[<<Max(s), g[n][s \ {Max(s)}]>>]
  <2>1. Max(s) \in s /\ \A x \in s : x <= Max(s)
    <3> DEFINE Left == {n - x : x \in s}
    <3>1. Left \in SUBSET Nat /\ Left # {}
      BY <1>8
    <3>2. PICK d \in Left : \A y \in Left : d <= y
      BY <3>1, LeastMember
    <3>3. PICK m \in s : d = n - m
      BY <3>2
    <3>4. ASSUME NEW x \in s PROVE m >= x
      <4>1. n - x \in Left
        OBVIOUS
      <4>2. n - m <= n - x
        BY <4>1, <3>2, <3>3
      <4>3. m \in Int /\ x \in Int
        OBVIOUS
      <4> QED BY <4>2, <4>3
    <3>5. Max(s) \in s /\ \A x \in s : Max(s) >= x
      BY <3>4 DEF Max
    <3> QED BY <3>5
  <2> DEFINE m == Max(s)  r == s \ {Max(s)}
  <2>2. m \in 1..n /\ r \in Sets /\ m \in s
    BY <2>1
  <2>3. g[m - 1][r] = g[m - 1][s] /\ g[n][s] = g[m][s] /\ g[n][r] = g[m - 1][r]
    BY <2>1, <2>2, <1>7
  <2>4. g[m][s] = step[<<m, g[m - 1][s]>>]
    BY <2>2, <1>5
  <2> QED BY <2>1, <2>3, <2>4
<1>9. g[n] \in [Sets -> U] /\ g[n][{}] = base
  <2>1. n \in 0..n
    OBVIOUS
  <2> DEFINE Base == {k \in 0..n : g[k][{}] = base}
  <2>2. 0 \in Base
    BY <1>6
  <2>3. ASSUME NEW k \in 1..n, k - 1 \in Base PROVE k \in Base
    <3>1. {} \in Sets
      OBVIOUS
    <3>2. g[k][{}] = IF k \in {} THEN step[<<k, g[k - 1][{}]>>] ELSE g[k - 1][{}]
      BY <3>1, <1>5
    <3> QED BY <3>2, <2>3
  <2> HIDE DEF Base
  <2>4. 0..n \subseteq Base
    BY <2>2, <2>3, IntervalInduction
  <2> QED BY <2>1, <2>4, <1>4 DEF Base
<1> QED BY <1>8, <1>9 DEF FoldsBy

\* The greatest member of an interval from 1 is its end.
LEMMA MaxInterval ==
  ASSUME NEW n \in Nat, NEW k \in 1..n
  PROVE  /\ 1..k \in SUBSET (1..n) /\ 1..k # {}
         /\ Max(1..k) = k /\ (1..k) \ {k} = 1..(k - 1)
<1>1. k \in 1..k /\ \A x \in 1..k : k >= x
  OBVIOUS
<1>2. \A m \in 1..k : (\A x \in 1..k : m >= x) => m = k
  OBVIOUS
<1>3. Max(1..k) = k
  BY <1>1, <1>2 DEF Max
<1> QED BY <1>3

\* A sequence whose elements are all in S is a sequence over S.
LEMMA SeqInto ==
  ASSUME NEW T, NEW S, NEW s \in Seq(T), \A i \in DOMAIN s : s[i] \in S
  PROVE  s \in Seq(S)
<1>1. Len(s) \in Nat /\ s \in [1..Len(s) -> T] /\ DOMAIN s = 1..Len(s)
  OBVIOUS
<1>2. s \in [1..Len(s) -> S]
  BY <1>1
<1> QED BY <1>1, <1>2

\* The elements of a concatenation: first those of s, then those of t.
LEMMA ConcatFacts ==
  ASSUME NEW T, NEW s \in Seq(T), NEW t \in Seq(T)
  PROVE  /\ s \o t \in Seq(T) /\ Len(s \o t) = Len(s) + Len(t)
         /\ Len(s) \in Nat /\ Len(t) \in Nat /\ Len(s \o t) \in Nat
         /\ \A k \in 1..Len(s) : k \in 1..Len(s \o t) /\ (s \o t)[k] = s[k]
         /\ \A k \in 1..Len(t) : Len(s) + k \in 1..Len(s \o t) /\ (s \o t)[Len(s) + k] = t[k]
         /\ \A j \in 1..Len(s \o t) : j \in 1..Len(s) \/ \E k \in 1..Len(t) : j = Len(s) + k
<1> DEFINE x == Len(s)  y == Len(t)  z == Len(s \o t)
<1>1. s \o t \in Seq(T) /\ z = x + y /\ x \in Nat /\ y \in Nat /\ z \in Nat
  OBVIOUS
<1>2. /\ \A k \in 1..x : (s \o t)[k] = s[k]
      /\ \A k \in 1..y : (s \o t)[x + k] = t[k]
  OBVIOUS
<1> HIDE DEF x, y, z
<1>3. (\A k \in 1..x : k \in 1..z) /\ (\A k \in 1..y : x + k \in 1..z)
  BY <1>1
<1>4. ASSUME NEW j \in 1..z, j \notin 1..x PROVE \E k \in 1..y : j = x + k
  <2>1. j - x \in 1..y /\ j = x + (j - x)
    BY <1>1, <1>4
  <2> QED BY <2>1
<1> QED BY <1>1, <1>2, <1>3, <1>4 DEF x, y, z

\* The first off[i] elements of flat are those of the first i sequences.
Flattened(flat, seqs, off) ==
  /\ off[0] = 0 /\ \A i \in 1..Len(seqs) : off[i] = off[i - 1] + Len(seqs[i])
  /\ Len(flat) = off[Len(seqs)]
  /\ \A i \in 1..Len(seqs) : \A k \in 1..Len(seqs[i]) :
       off[i - 1] + k \in 1..off[Len(seqs)] /\ flat[off[i - 1] + k] = seqs[i][k]
  /\ \A j \in 1..off[Len(seqs)] :
       \E i \in 1..Len(seqs) : \E k \in 1..Len(seqs[i]) : j = off[i - 1] + k

\* Sequences are concatenated one after the other.
FlattenedBy(g, seqs) ==
  /\ g[0] = <<>> /\ \A k \in 1..Len(seqs) : g[k] = g[k - 1] \o seqs[k]
  /\ FlattenSeq(seqs) = g[Len(seqs)]

LEMMA FlattenTurns ==
  ASSUME NEW T, NEW seqs \in Seq(Seq(T))
  PROVE  \E g \in [0..Len(seqs) -> Seq(T)] : FlattenedBy(g, seqs)
<1> DEFINE n == Len(seqs)
           U == Seq(T)
           nothing == <<>>
           step == [x \in (1..n) \X U |-> x[2] \o seqs[x[1]]]
<1>1. n \in Nat /\ \A i \in 1..n : seqs[i] \in Seq(T) /\ Len(seqs[i]) \in Nat
  OBVIOUS
<1>2. nothing \in U /\ step \in [(1..n) \X U -> U]
  BY <1>1
<1>3. \A k \in 1..n, u \in U : step[<<k, u>>] = u \o seqs[k]
  OBVIOUS
<1>0. n = 0 => seqs = <<>>
  OBVIOUS
<1> HIDE DEF n, step, nothing
<1>4. PICK g \in [0..n -> U] : Steps(g, n, nothing, step)
  BY <1>1, <1>2, StepsExist
<1>5. /\ g[0] = <<>>
      /\ \A k \in 1..n : /\ g[k] = g[k - 1] \o seqs[k] /\ g[k - 1] \in Seq(T) /\ g[k] \in Seq(T)
                         /\ k - 1 \in 0..n
  <2>1. g[0] = <<>>
    BY <1>4 DEF Steps, nothing
  <2>2. ASSUME NEW k \in 1..n
        PROVE  g[k] = g[k - 1] \o seqs[k] /\ g[k - 1] \in Seq(T) /\ g[k] \in Seq(T) /\ k - 1 \in 0..n
    <3>1. k - 1 \in 0..n /\ k \in 0..n
      BY <1>1
    <3>2. g[k - 1] \in U /\ g[k] \in U
      BY <3>1
    <3>3. g[k] = step[<<k, g[k - 1]>>]
      BY <1>4 DEF Steps
    <3> QED BY <3>1, <3>2, <3>3, <1>3
  <2> QED BY <2>1, <2>2
<1>5a. ASSUME n # 0 PROVE 1 \in 1..n /\ g[1] = <<>> \o seqs[1] /\ seqs[1] \in Seq(T)
  <2>1. 1 \in 1..n /\ 1 - 1 = 0
    BY <1>1, <1>5a
  <2>2. g[1] = g[1 - 1] \o seqs[1]
    BY <2>1, <1>5
  <2> QED BY <2>1, <2>2, <1>1, <1>5
<1> DEFINE Body(f) == [i \in 1..n |-> IF i = 1 THEN seqs[i] ELSE f[i - 1] \o seqs[i]]
           c == CHOOSE f : f = Body(f)
           h == [i \in 1..n |-> g[i]]
<1>6. h = Body(h)
  <2>1. ASSUME NEW i \in 1..n
        PROVE  g[i] = IF i = 1 THEN seqs[i] ELSE h[i - 1] \o seqs[i]
    <3>1. CASE i = 1
      <4>1. g[1] = <<>> \o seqs[1] /\ seqs[1] \in Seq(T)
        BY <3>1, <1>1, <1>5a
      <4> QED BY <4>1, <3>1
    <3>2. CASE i # 1
      <4>1. i - 1 \in 1..n
        BY <3>2, <1>1
      <4> QED BY <4>1, <3>2, <1>5
    <3> QED BY <3>1, <3>2
  <2> QED BY <2>1
<1>7. c = Body(c)
  BY <1>6
<1>8. n # 0 => FlattenSeq(seqs) = c[n]
  BY <1>1 DEF FlattenSeq, n
<1> HIDE DEF c
<1>9. n # 0 => c[n] = g[n]
  <2> DEFINE Same == {k \in 0..n : k = 0 \/ c[k] = g[k]}
  <2>1. 0 \in Same
    BY <1>1
  <2>2. ASSUME NEW k \in 1..n, k - 1 \in Same PROVE k \in Same
    <3>1. CASE k = 1
      <4>1. c[1] = seqs[1] /\ g[1] = <<>> \o seqs[1] /\ seqs[1] \in Seq(T)
        BY <3>1, <1>1, <1>7, <1>5a
      <4> QED BY <4>1, <3>1
    <3>2. CASE k # 1
      <4>1. c[k] = c[k - 1] \o seqs[k]
        BY <3>2, <1>7
      <4>2. c[k - 1] = g[k - 1]
        BY <2>2, <3>2
      <4>3. c[k] = g[k]
        BY <4>1, <4>2, <1>5
      <4> QED BY <4>3, <1>1
    <3> QED BY <3>1, <3>2
  <2> HIDE DEF Same
  <2>3. 0..n \subseteq Same
    BY <2>1, <2>2, <1>1, IntervalInduction
  <2>4. n \in Same
    BY <2>3, <1>1
  <2> QED BY <2>4, <1>1 DEF Same
<1>10. n = 0 => FlattenSeq(seqs) = g[n]
  <2> SUFFICES ASSUME n = 0 PROVE FlattenSeq(seqs) = g[n]
    OBVIOUS
  <2>1. FlattenSeq(seqs) = seqs
    BY DEF FlattenSeq, n
  <2> QED BY <2>1, <1>0, <1>5
<1>11. FlattenSeq(seqs) = g[n]
  BY <1>8, <1>9, <1>10
<1>12. FlattenedBy(g, seqs)
  BY <1>5, <1>11 DEF n, FlattenedBy
<1> QED BY <1>12 DEF n, U

\* Concatenated sequences: off[i] elements come from the first i of them, and
\* the elements of each follow one another in their order.
LEMMA FlattenFacts ==
  ASSUME NEW T, NEW seqs \in Seq(Seq(T)), Len(seqs) # 0
  PROVE  /\ FlattenSeq(seqs) \in Seq(T)
         /\ \E off \in [0..Len(seqs) -> Nat] : Flattened(FlattenSeq(seqs), seqs, off)
<1> DEFINE n == Len(seqs)
<1>1. n \in Nat /\ \A i \in 1..n : seqs[i] \in Seq(T) /\ Len(seqs[i]) \in Nat
  OBVIOUS
<1>4. PICK g \in [0..n -> Seq(T)] : FlattenedBy(g, seqs)
  BY FlattenTurns
<1> HIDE DEF n
<1>5. /\ g[0] = <<>>
      /\ \A k \in 1..n : /\ g[k] = g[k - 1] \o seqs[k] /\ g[k - 1] \in Seq(T) /\ g[k] \in Seq(T)
                         /\ k - 1 \in 0..n
  <2>1. ASSUME NEW k \in 1..n PROVE k - 1 \in 0..n /\ k \in 0..n
    BY <1>1
  <2> QED BY <1>4, <2>1 DEF FlattenedBy, n
<1>8. FlattenSeq(seqs) = g[n]
  BY <1>4 DEF FlattenedBy, n
<1> DEFINE off == [k \in 0..n |-> Len(g[k])]
<1>10. off \in [0..n -> Nat] /\ off[0] = 0
  BY <1>5, <1>1
<1>11. \A k \in 1..n : off[k] = off[k - 1] + Len(seqs[k]) /\ off[k] = Len(g[k]) /\ off[k - 1] = Len(g[k - 1])
  <2>1. ASSUME NEW k \in 1..n
        PROVE  off[k] = off[k - 1] + Len(seqs[k]) /\ off[k] = Len(g[k]) /\ off[k - 1] = Len(g[k - 1])
    <3> DEFINE a == g[k - 1]  b == seqs[k]
    <3>1. k \in 0..n /\ k - 1 \in 0..n /\ off[k] = Len(g[k]) /\ off[k - 1] = Len(g[k - 1])
      BY <1>1
    <3>2. a \in Seq(T) /\ b \in Seq(T) /\ g[k] = a \o b
      BY <1>1, <1>5
    <3>3. Len(a \o b) = Len(a) + Len(b)
      BY <3>2, ConcatFacts
    <3> QED BY <3>1, <3>2, <3>3
  <2> QED BY <2>1
<1>12. off[n] = Len(g[n]) /\ n \in 0..n
  BY <1>1
<1> HIDE DEF off
<1> DEFINE Placed(m) == \A i \in 1..m : \A k \in 1..Len(seqs[i]) :
                          off[i - 1] + k \in 1..off[m] /\ g[m][off[i - 1] + k] = seqs[i][k]
           Covered(m) == \A j \in 1..off[m] :
                           \E i \in 1..m : \E k \in 1..Len(seqs[i]) : j = off[i - 1] + k
           A == {m \in 0..n : Placed(m) /\ Covered(m)}
<1>13. 0 \in A
  BY <1>10, <1>1
<1>14. ASSUME NEW m \in 1..n, m - 1 \in A PROVE m \in A
  <2> DEFINE a == g[m - 1]  b == seqs[m]  x == off[m - 1]  z == off[m]
  <2>1. g[m] = a \o b /\ a \in Seq(T) /\ b \in Seq(T)
    BY <1>1, <1>5
  <2>2. x = Len(a) /\ z = Len(g[m])
    BY <1>11
  <2>3. Placed(m - 1) /\ Covered(m - 1)
    BY <1>14
  <2>4. /\ \A k \in 1..x : k \in 1..z /\ g[m][k] = a[k]
        /\ \A k \in 1..Len(b) : x + k \in 1..z /\ g[m][x + k] = b[k]
        /\ \A j \in 1..z : j \in 1..x \/ \E k \in 1..Len(b) : j = x + k
    <3> HIDE DEF a, b, x, z
    <3> QED BY <2>1, <2>2, ConcatFacts
  <2>5. ASSUME NEW i \in 1..m, NEW k \in 1..Len(seqs[i])
        PROVE  off[i - 1] + k \in 1..z /\ g[m][off[i - 1] + k] = seqs[i][k]
    <3>1. CASE i = m
      BY <3>1, <2>4
    <3>2. CASE i # m
      <4>1. i \in 1..(m - 1)
        BY <3>2
      <4>2. off[i - 1] + k \in 1..x /\ a[off[i - 1] + k] = seqs[i][k]
        BY <4>1, <2>3
      <4> HIDE DEF a, x, z
      <4> QED BY <4>2, <2>4
    <3> QED BY <3>1, <3>2
  <2>6. ASSUME NEW j \in 1..z
        PROVE  \E i \in 1..m : \E k \in 1..Len(seqs[i]) : j = off[i - 1] + k
    <3>1. CASE j \in 1..x
      <4>1. PICK i \in 1..(m - 1) : \E k \in 1..Len(seqs[i]) : j = off[i - 1] + k
        BY <3>1, <2>3
      <4>2. i \in 1..m
        OBVIOUS
      <4> QED BY <4>1, <4>2
    <3>2. CASE \E k \in 1..Len(b) : j = x + k
      <4>1. m \in 1..m
        OBVIOUS
      <4> QED BY <3>2, <4>1
    <3> QED BY <3>1, <3>2, <2>4
  <2>7. m \in 0..n
    BY <1>1
  <2> QED BY <2>5, <2>6, <2>7
<1> HIDE DEF A
<1>15. 0..n \subseteq A
  BY <1>13, <1>14, <1>1, IntervalInduction
<1>16. Placed(n) /\ Covered(n)
  BY <1>12, <1>15 DEF A
<1>17. g[n] \in Seq(T)
  BY <1>1, <1>5
<1>18. /\ FlattenSeq(seqs) = g[n] /\ Len(g[n]) = off[n]
       /\ \A i \in 1..n : off[i] = off[i - 1] + Len(seqs[i])
  BY <1>8, <1>11, <1>12
<1>19. Flattened(FlattenSeq(seqs), seqs, off)
  BY <1>10, <1>16, <1>18 DEF n, Flattened
<1> QED BY <1>10, <1>17, <1>18, <1>19 DEF n

\* A map between two sets that meets every member once.
Matches(f, S, T) ==
  /\ f \in [S -> T]
  /\ \A a, b \in S : f[a] = f[b] => a = b
  /\ \A c \in T : \E a \in S : f[a] = c

\* Such a map makes the sets equally large.
LEMMA SameSize ==
  ASSUME NEW S, NEW T, IsFiniteSet(S), NEW f, Matches(f, S, T)
  PROVE  IsFiniteSet(T) /\ Cardinality(S) = Cardinality(T)
<1>1. f \in Bijection(S, T)
  BY DEF Matches, Bijection, Injection, Surjection, IsInjective
<1>2. ExistsBijection(S, T)
  BY <1>1 DEF ExistsBijection
<1> QED BY <1>2, FS_Bijection

\* Between two finite sets of the same size there is such a map.
LEMMA Matching ==
  ASSUME NEW S, NEW T, IsFiniteSet(S), IsFiniteSet(T), Cardinality(S) = Cardinality(T)
  PROVE  \E f : Matches(f, S, T)
<1>1. ExistsBijection(S, T)
  BY FS_SameCardinalityBij
<1>2. PICK f : f \in Bijection(S, T)
  BY <1>1 DEF ExistsBijection
<1>3. Matches(f, S, T)
  BY <1>2 DEF Matches, Bijection, Injection, Surjection, IsInjective
<1> QED BY <1>3

\* A finite set without one of its members.
LEMMA OneLess ==
  ASSUME NEW S, IsFiniteSet(S), NEW x \in S, NEW T, T = S \ {x}
  PROVE  Cardinality(T) = Cardinality(S) - 1
BY FS_RemoveElement
------------------------------------------------------------------------------
\* A set of naturals that has members has a least one, which Min returns.
LEMMA MinFacts ==
  ASSUME NEW A \in SUBSET Nat, A # {}
  PROVE  Min(A) \in A /\ \A k \in A : Min(A) <= k
BY LeastMember DEF Min

\* A graph over V in the form the reference takes.
IsGraph(g, V) ==
  /\ DOMAIN g = V
  /\ \A u \in V : \A i \in DOMAIN g[u] : g[u][i].dest \in V /\ g[u][i].dist \in Nat

\* Lengths for each pair of nodes.
Table(V, most) == [V -> [V -> 0..most]]

\* A potential rises along an edge by no more than its length, and by no more
\* than most anywhere: the difference between two nodes bounds every walk from
\* one to the other from below.
GraphPotential(g, V, most, p) ==
  /\ p \in [V -> Int]
  /\ \A u, v \in V : p[v] - p[u] <= most
  /\ \A u \in V : \A i \in DOMAIN g[u] : p[g[u][i].dest] <= p[u] + g[u][i].dist

\* The distances of a graph, cut off at most: they obey the triangle
\* inequality, are no greater than edges, and no potential exceeds them.
AreDistances(g, V, most, d) ==
  /\ d \in Table(V, most)
  /\ \A u \in V : d[u][u] = 0
  /\ \A u \in V : \A i \in DOMAIN g[u] : d[u][g[u][i].dest] <= g[u][i].dist
  /\ \A u, v, w \in V : d[u][w] <= d[u][v] + d[v][w]
  /\ \A p : GraphPotential(g, V, most, p) => \A u, v \in V : p[v] - p[u] <= d[u][v]

\* The same of the walks that pass only through nodes of M.
ThroughOK(g, V, most, d, M) ==
  /\ d \in Table(V, most)
  /\ \A u \in V : d[u][u] = 0
  /\ \A u \in V : \A i \in DOMAIN g[u] : d[u][g[u][i].dest] <= g[u][i].dist
  /\ \A u, w \in V, v \in M : d[u][w] <= d[u][v] + d[v][w]
  /\ \A p : GraphPotential(g, V, most, p) => \A u, v \in V : p[v] - p[u] <= d[u][v]

\* What one turn of the reference computes.
LEMMA ThroughFields ==
  ASSUME NEW V, NEW most \in Nat, NEW d \in Table(V, most), NEW k \in V
  PROVE  /\ Through(d, k) \in Table(V, most)
         /\ \A u, v \in V : /\ Through(d, k)[u][v] <= d[u][v]
                            /\ Through(d, k)[u][v] <= d[u][k] + d[k][v]
                            /\ \/ Through(d, k)[u][v] = d[u][v]
                               \/ Through(d, k)[u][v] = d[u][k] + d[k][v]
<1> DEFINE t == Through(d, k)
<1>1. DOMAIN d = V /\ d \in [V -> [V -> 0..most]]
  BY DEF Table
<1>2. ASSUME NEW u \in V, NEW v \in V
      PROVE  /\ t[u][v] \in 0..most
             /\ t[u][v] <= d[u][v] /\ t[u][v] <= d[u][k] + d[k][v]
             /\ t[u][v] = d[u][v] \/ t[u][v] = d[u][k] + d[k][v]
  <2> DEFINE a == d[u][v]  b == d[u][k] + d[k][v]
  <2>1. a \in 0..most /\ b \in Nat
    <3>1. d[u][v] \in 0..most /\ d[u][k] \in 0..most /\ d[k][v] \in 0..most
      BY <1>1
    <3> QED BY <3>1
  <2>2. t[u][v] = Min({a, b})
    BY <1>1 DEF Through
  <2> HIDE DEF a, b
  <2>3. {a, b} \in SUBSET Nat /\ {a, b} # {}
    BY <2>1
  <2>4. Min({a, b}) \in {a, b} /\ \A m \in {a, b} : Min({a, b}) <= m
    BY <2>3, MinFacts
  <2>5. t[u][v] \in {a, b} /\ t[u][v] <= a /\ t[u][v] <= b
    BY <2>2, <2>4
  <2>6. t[u][v] \in 0..most
    BY <2>1, <2>5
  <2> QED BY <2>5, <2>6 DEF a, b
<1>3. t \in Table(V, most)
  <2>1. t = [u \in V |-> [v \in V |-> t[u][v]]]
    BY <1>1 DEF Through
  <2> HIDE DEF t
  <2> QED BY <2>1, <1>2 DEF Table
<1> QED BY <1>2, <1>3

\* One turn allows one more node on the way.
LEMMA ThroughKeeps ==
  ASSUME NEW g, NEW V, NEW most \in Nat, IsGraph(g, V), NEW d, NEW M \in SUBSET V, NEW k \in V,
         ThroughOK(g, V, most, d, M)
  PROVE  ThroughOK(g, V, most, Through(d, k), M \cup {k})
<1> DEFINE t == Through(d, k)
<1>0. d \in Table(V, most)
  BY DEF ThroughOK
<1>1. \A u, v \in V : d[u][v] \in Nat
  BY <1>0 DEF Table
<1>2. /\ t \in Table(V, most)
      /\ \A u, v \in V : /\ t[u][v] <= d[u][v]
                         /\ t[u][v] <= d[u][k] + d[k][v]
                         /\ t[u][v] = d[u][v] \/ t[u][v] = d[u][k] + d[k][v]
  BY <1>0, ThroughFields
<1>3. \A u, v \in V : t[u][v] \in Nat
  BY <1>2 DEF Table
<1> HIDE DEF t
<1>4. \A u \in V : d[u][u] = 0
  BY DEF ThroughOK
<1>5. ASSUME NEW u \in V PROVE t[u][u] = 0
  BY <1>2, <1>3, <1>4
<1>6. ASSUME NEW u \in V, NEW i \in DOMAIN g[u] PROVE t[u][g[u][i].dest] <= g[u][i].dist
  <2> DEFINE v == g[u][i].dest  w == g[u][i].dist
  <2>1. v \in V /\ w \in Nat
    BY DEF IsGraph
  <2>2. d[u][v] <= w
    BY DEF ThroughOK
  <2> HIDE DEF v, w
  <2>3. t[u][v] <= w
    BY <2>1, <2>2, <1>1, <1>2, <1>3
  <2> QED BY <2>3 DEF v, w
<1>7. ASSUME NEW u \in V, NEW w \in V, NEW v \in M \cup {k} PROVE t[u][w] <= t[u][v] + t[v][w]
  <2>1. v \in V
    OBVIOUS
  <2> DEFINE uw == d[u][w]  uv == d[u][v]  vw == d[v][w]
             uk == d[u][k]  kw == d[k][w]  vk == d[v][k]  kv == d[k][v]
  <2>2. /\ uw \in Nat /\ uv \in Nat /\ vw \in Nat /\ uk \in Nat /\ kw \in Nat
        /\ vk \in Nat /\ kv \in Nat
    BY <1>1, <2>1
  <2>3. /\ t[u][w] \in Nat /\ t[u][v] \in Nat /\ t[v][w] \in Nat
        /\ t[u][w] <= uw /\ t[u][w] <= uk + kw
        /\ t[u][v] = uv \/ t[u][v] = uk + kv
        /\ t[v][w] = vw \/ t[v][w] = vk + kw
    BY <1>2, <1>3, <2>1
  <2>4. CASE v = k
    <3>1. vk = 0 /\ kv = 0 /\ uv = uk /\ vw = kw
      BY <2>4, <1>4
    <3> HIDE DEF uw, uv, vw, uk, kw, vk, kv
    <3> QED BY <3>1, <2>2, <2>3
  <2>5. CASE v \in M
    <3>1. uw <= uv + vw /\ uk <= uv + vk /\ kw <= kv + vw
      BY <2>5, <2>1 DEF ThroughOK
    <3> HIDE DEF uw, uv, vw, uk, kw, vk, kv
    <3> QED BY <3>1, <2>2, <2>3
  <2> QED BY <2>4, <2>5
<1>8. ASSUME NEW p, GraphPotential(g, V, most, p), NEW u \in V, NEW v \in V
      PROVE  p[v] - p[u] <= t[u][v]
  <2>1. p[v] - p[u] <= d[u][v] /\ p[k] - p[u] <= d[u][k] /\ p[v] - p[k] <= d[k][v]
    BY <1>8 DEF ThroughOK
  <2>2. p[v] \in Int /\ p[u] \in Int /\ p[k] \in Int
    BY <1>8 DEF GraphPotential
  <2>3. d[u][v] \in Nat /\ d[u][k] \in Nat /\ d[k][v] \in Nat
    BY <1>1
  <2>4. t[u][v] = d[u][v] \/ t[u][v] = d[u][k] + d[k][v]
    BY <1>2
  <2> QED BY <2>1, <2>2, <2>3, <2>4
<1> QED BY <1>2, <1>5, <1>6, <1>7, <1>8 DEF ThroughOK, t

\* The lengths of single edges.
LEMMA DirectOK ==
  ASSUME NEW g, NEW V, NEW most \in Nat, IsGraph(g, V)
  PROVE  ThroughOK(g, V, most, DirectLengths(g, most), {})
<1> DEFINE d == DirectLengths(g, most)
           Lengths(u, v) == {g[u][i].dist : i \in {j \in DOMAIN g[u] : g[u][j].dest = v}}
<1>1. DOMAIN g = V
  BY DEF IsGraph
<1>2. d = [u \in V |-> [v \in V |-> IF u = v THEN 0 ELSE Min(Lengths(u, v) \cup {most})]]
  BY <1>1 DEF DirectLengths, EdgeLength
<1>3. ASSUME NEW u \in V, NEW v \in V
      PROVE  /\ Min(Lengths(u, v) \cup {most}) \in Lengths(u, v) \cup {most}
             /\ Min(Lengths(u, v) \cup {most}) \in Nat
             /\ \A m \in Lengths(u, v) \cup {most} : Min(Lengths(u, v) \cup {most}) <= m
  <2> DEFINE A == Lengths(u, v) \cup {most}
  <2>1. A \in SUBSET Nat /\ A # {}
    BY DEF IsGraph
  <2> HIDE DEF A
  <2>2. Min(A) \in A /\ \A m \in A : Min(A) <= m
    BY <2>1, MinFacts
  <2>3. Min(A) \in Nat
    BY <2>1, <2>2
  <2> QED BY <2>2, <2>3 DEF A
<1> DEFINE Least(u, v) == Min(Lengths(u, v) \cup {most})
<1>4. \A u, v \in V : /\ u = v => d[u][v] = 0
                      /\ u # v => d[u][v] = Least(u, v)
  BY <1>2
<1>9. \A u, v \in V : /\ Least(u, v) \in Nat /\ Least(u, v) <= most
                      /\ Least(u, v) = most \/ Least(u, v) \in Lengths(u, v)
                      /\ \A m \in Lengths(u, v) : Least(u, v) <= m
  BY <1>3
<1>10. d = [u \in V |-> [v \in V |-> d[u][v]]]
  BY <1>2
<1> HIDE DEF d, Least
<1>5. \A u, v \in V : d[u][v] \in 0..most
  <2>1. TAKE u, v \in V
  <2>2. CASE u = v
    BY <2>2, <1>4
  <2>3. CASE u # v
    <3>1. d[u][v] \in Nat /\ d[u][v] <= most
      BY <2>3, <1>4, <1>9
    <3> QED BY <3>1
  <2> QED BY <2>2, <2>3
<1>6. d \in Table(V, most)
  BY <1>5, <1>10 DEF Table
<1>7. ASSUME NEW u \in V, NEW i \in DOMAIN g[u] PROVE d[u][g[u][i].dest] <= g[u][i].dist
  <2>1. g[u][i].dest \in V /\ g[u][i].dist \in Nat
    BY DEF IsGraph
  <2>2. g[u][i].dist \in Lengths(u, g[u][i].dest)
    OBVIOUS
  <2> HIDE DEF Lengths
  <2>3. CASE u = g[u][i].dest
    BY <2>1, <2>3, <1>4
  <2>4. CASE u # g[u][i].dest
    BY <2>1, <2>2, <2>4, <1>4, <1>9
  <2> QED BY <2>3, <2>4
<1>8. ASSUME NEW p, GraphPotential(g, V, most, p), NEW u \in V, NEW v \in V
      PROVE  p[v] - p[u] <= d[u][v]
  <2>1. p[v] \in Int /\ p[u] \in Int /\ p[v] - p[u] <= most
    BY <1>8 DEF GraphPotential
  <2>2. CASE u = v
    BY <2>1, <2>2, <1>4
  <2>3. CASE u # v /\ d[u][v] = most
    BY <2>1, <2>3
  <2>4. CASE u # v /\ d[u][v] \in Lengths(u, v)
    <3>1. PICK i \in DOMAIN g[u] : g[u][i].dest = v /\ d[u][v] = g[u][i].dist
      BY <2>4
    <3>2. p[v] <= p[u] + g[u][i].dist
      BY <3>1, <1>8 DEF GraphPotential
    <3>3. g[u][i].dist \in Nat
      BY DEF IsGraph
    <3> QED BY <3>1, <3>2, <3>3, <2>1
  <2> QED BY <2>2, <2>3, <2>4, <1>4, <1>9
<1> QED BY <1>4, <1>6, <1>7, <1>8 DEF ThroughOK, d

\* The turns of a sum.
LEMMA SumTurns ==
  ASSUME NEW seq \in Seq(Nat)
  PROVE  \E g : /\ g[0] = 0
                /\ \A k \in 1..Len(seq) : g[k] = g[k - 1] + seq[k]
                /\ FoldLeft(+, 0, seq) = g[Len(seq)]
<1> DEFINE n == Len(seq)
           step == [x \in (1..n) \X Nat |-> x[2] + seq[x[1]]]
           Body(f) == [s \in SUBSET DOMAIN seq |->
                         IF s = {} THEN 0 ELSE f[s \ {Max(s)}] + seq[Max(s)]]
           c == CHOOSE f : f = Body(f)
           g == [k \in 0..n |-> c[1..k]]
<1>1. n \in Nat /\ DOMAIN seq = 1..n /\ \A k \in 1..n : seq[k] \in Nat
  OBVIOUS
<1>2. step \in [(1..n) \X Nat -> Nat]
  BY <1>1
<1>3. \A k \in 1..n, u \in Nat : step[<<k, u>>] = u + seq[k]
  OBVIOUS
<1> HIDE DEF n, step
<1>4. PICK iter \in [SUBSET (1..n) -> Nat] : FoldsBy(iter, n, 0, step)
  BY <1>1, <1>2, FoldExists
<1>5. iter = Body(iter)
  <2>1. ASSUME NEW s \in SUBSET (1..n), s # {}
        PROVE  iter[s] = iter[s \ {Max(s)}] + seq[Max(s)]
    <3>1. /\ Max(s) \in 1..n /\ s \ {Max(s)} \in SUBSET (1..n)
          /\ iter[s] = step[<<Max(s), iter[s \ {Max(s)}]>>]
      BY <1>4, <2>1 DEF FoldsBy
    <3>2. iter[s \ {Max(s)}] \in Nat
      BY <3>1
    <3> QED BY <3>1, <3>2, <1>3
  <2>2. iter = [s \in SUBSET (1..n) |-> iter[s]]
    OBVIOUS
  <2> QED BY <2>1, <2>2, <1>1, <1>4 DEF FoldsBy
<1>6. c = Body(c)
  BY <1>5
<1>7. FoldLeft(+, 0, seq) = c[1..n]
  BY <1>1 DEF FoldLeft, MapThenFoldSet
<1> HIDE DEF c
<1>8. c[{}] = 0
  BY <1>6
<1>9. ASSUME NEW k \in 1..n PROVE c[1..k] = c[1..(k - 1)] + seq[k]
  <2>1. /\ 1..k \in SUBSET (1..n) /\ 1..k # {}
        /\ Max(1..k) = k /\ (1..k) \ {k} = 1..(k - 1)
    BY <1>1, MaxInterval
  <2> QED BY <2>1, <1>1, <1>6
<1>10. g[0] = 0 /\ g[n] = c[1..n] /\ \A k \in 1..n : g[k] = g[k - 1] + seq[k]
  BY <1>1, <1>8, <1>9
<1> HIDE DEF g
<1> QED BY <1>7, <1>10 DEF n

\* The turns of the reference.
LEMMA ThroughTurns ==
  ASSUME NEW U, NEW T, NEW seq \in Seq(T), NEW base \in U,
         \A d \in U, k \in T : Through(d, k) \in U
  PROVE  \E g : /\ g[0] = base
                /\ \A k \in 1..Len(seq) : g[k] = Through(g[k - 1], seq[k])
                /\ FoldLeft(Through, base, seq) = g[Len(seq)]
<1> DEFINE n == Len(seq)
           step == [x \in (1..n) \X U |-> Through(x[2], seq[x[1]])]
           Body(f) == [s \in SUBSET DOMAIN seq |->
                         IF s = {} THEN base ELSE Through(f[s \ {Max(s)}], seq[Max(s)])]
           c == CHOOSE f : f = Body(f)
           g == [k \in 0..n |-> c[1..k]]
<1>1. n \in Nat /\ DOMAIN seq = 1..n /\ \A k \in 1..n : seq[k] \in T
  OBVIOUS
<1>2. step \in [(1..n) \X U -> U]
  BY <1>1
<1>3. \A k \in 1..n, u \in U : step[<<k, u>>] = Through(u, seq[k])
  OBVIOUS
<1> HIDE DEF n, step
<1>4. PICK iter \in [SUBSET (1..n) -> U] : FoldsBy(iter, n, base, step)
  BY <1>1, <1>2, FoldExists
<1>5. iter = Body(iter)
  <2>1. ASSUME NEW s \in SUBSET (1..n), s # {}
        PROVE  iter[s] = Through(iter[s \ {Max(s)}], seq[Max(s)])
    <3>1. /\ Max(s) \in 1..n /\ s \ {Max(s)} \in SUBSET (1..n)
          /\ iter[s] = step[<<Max(s), iter[s \ {Max(s)}]>>]
      BY <1>4, <2>1 DEF FoldsBy
    <3>2. iter[s \ {Max(s)}] \in U
      BY <3>1
    <3> QED BY <3>1, <3>2, <1>3
  <2>2. iter = [s \in SUBSET (1..n) |-> iter[s]]
    OBVIOUS
  <2> QED BY <2>1, <2>2, <1>1, <1>4 DEF FoldsBy
<1>6. c = Body(c)
  BY <1>5
<1>7. FoldLeft(Through, base, seq) = c[1..n]
  BY <1>1 DEF FoldLeft, MapThenFoldSet
<1> HIDE DEF c
<1>8. c[{}] = base
  BY <1>6
<1>9. ASSUME NEW k \in 1..n PROVE c[1..k] = Through(c[1..(k - 1)], seq[k])
  <2>1. /\ 1..k \in SUBSET (1..n) /\ 1..k # {}
        /\ Max(1..k) = k /\ (1..k) \ {k} = 1..(k - 1)
    BY <1>1, MaxInterval
  <2> QED BY <2>1, <1>1, <1>6
<1>10. g[0] = base /\ g[n] = c[1..n] /\ \A k \in 1..n : g[k] = Through(g[k - 1], seq[k])
  BY <1>1, <1>8, <1>9
<1> HIDE DEF g
<1> QED BY <1>7, <1>10 DEF n

\* ShortestDistances computes the distances.
LEMMA ReferenceCorrect ==
  ASSUME NEW V \in SUBSET Nat, IsFiniteSet(V), NEW g, IsGraph(g, V), NEW most \in Nat
  PROVE  AreDistances(g, V, most, ShortestDistances(g, most))
<1> DEFINE N == Cardinality(V)
           nodes == InOrder(V)
           base == DirectLengths(g, most)
           U == Table(V, most)
<1>1. N \in Nat /\ nodes \in [1..N -> V] /\ \A x \in V : \E k \in 1..N : nodes[k] = x
  BY InOrderFacts
<1>2. nodes \in Seq(V) /\ Len(nodes) = N
  <2> HIDE DEF nodes, N
  <2> QED BY <1>1
<1>3. ThroughOK(g, V, most, base, {})
  BY DirectOK
<1>4. base \in U
  BY <1>3 DEF ThroughOK
<1>5. \A d \in U, k \in V : Through(d, k) \in U
  BY ThroughFields
<1> HIDE DEF U, base, nodes
<1>6. PICK s : /\ s[0] = base
               /\ \A k \in 1..Len(nodes) : s[k] = Through(s[k - 1], nodes[k])
               /\ FoldLeft(Through, base, nodes) = s[Len(nodes)]
  BY <1>2, <1>4, <1>5, ThroughTurns
<1> DEFINE Seen(k) == {nodes[i] : i \in 1..k}
           A == {k \in 0..N : ThroughOK(g, V, most, s[k], Seen(k))}
<1> HIDE DEF N
<1>7. 0 \in A
  <2>1. Seen(0) = {} /\ 0 \in 0..N
    BY <1>1
  <2> QED BY <2>1, <1>3, <1>6
<1>8. ASSUME NEW k \in 1..N, k - 1 \in A PROVE k \in A
  <2>1. ThroughOK(g, V, most, s[k - 1], Seen(k - 1))
    BY <1>8
  <2>2. nodes[k] \in V /\ Seen(k - 1) \in SUBSET V
    BY <1>1
  <2>3. Seen(k - 1) \cup {nodes[k]} = Seen(k)
    BY <1>1
  <2>4. s[k] = Through(s[k - 1], nodes[k])
    BY <1>2, <1>6
  <2> HIDE DEF Seen
  <2>5. ThroughOK(g, V, most, Through(s[k - 1], nodes[k]), Seen(k - 1) \cup {nodes[k]})
    BY <2>1, <2>2, ThroughKeeps
  <2>6. k \in 0..N
    BY <1>1
  <2>7. ThroughOK(g, V, most, s[k], Seen(k))
    BY <2>3, <2>4, <2>5
  <2> QED BY <2>6, <2>7
<1> HIDE DEF A, Seen
<1>9. 0..N \subseteq A
  BY <1>1, <1>7, <1>8, IntervalInduction
<1>10. ThroughOK(g, V, most, s[N], Seen(N))
  BY <1>1, <1>9 DEF A
<1>11. Seen(N) = V
  BY <1>1 DEF Seen
<1>12. ShortestDistances(g, most) = s[N]
  BY <1>2, <1>6 DEF ShortestDistances, IsGraph, base, nodes
<1> QED BY <1>10, <1>11, <1>12 DEF ThroughOK, AreDistances

\* What a table of distances gives.
LEMMA DistanceFields ==
  ASSUME NEW g, NEW V, NEW most \in Nat, NEW d, AreDistances(g, V, most, d)
  PROVE  /\ \A u, v \in V : d[u][v] \in Nat /\ d[u][v] <= most
         /\ \A u \in V : d[u][u] = 0
         /\ \A u \in V : \A i \in DOMAIN g[u] : d[u][g[u][i].dest] <= g[u][i].dist
         /\ \A u, v, w \in V : d[u][w] <= d[u][v] + d[v][w]
<1>1. d \in [V -> [V -> 0..most]]
  BY DEF AreDistances, Table
<1>2. \A u, v \in V : d[u][v] \in 0..most
  BY <1>1
<1>3. \A u, v \in V : d[u][v] \in Nat /\ d[u][v] <= most
  BY <1>2
<1> QED BY <1>3 DEF AreDistances

\* A shortest walk begins with an edge: if each edge of u were a detour, the
\* distance from u could be greater by one without exceeding any walk.
LEMMA FirstEdge ==
  ASSUME NEW g, NEW V, NEW most \in Nat, NEW d, IsGraph(g, V), AreDistances(g, V, most, d),
         NEW u \in V, NEW c \in V, u # c, d[u][c] < most
  PROVE  \E i \in DOMAIN g[u] : g[u][i].dist + d[g[u][i].dest][c] = d[u][c]
<1> SUFFICES ASSUME \A i \in DOMAIN g[u] : g[u][i].dist + d[g[u][i].dest][c] # d[u][c]
             PROVE  FALSE
  OBVIOUS
<1> DEFINE D(x) == IF x = u THEN d[u][c] + 1 ELSE d[x][c]
           p == [x \in V |-> -D(x)]
<1>1. /\ \A x, y \in V : d[x][y] \in Nat /\ d[x][y] <= most
      /\ \A x \in V : d[x][x] = 0
      /\ \A x \in V : \A i \in DOMAIN g[x] : d[x][g[x][i].dest] <= g[x][i].dist
      /\ \A x, y, z \in V : d[x][z] <= d[x][y] + d[y][z]
  BY DistanceFields
<1>2. \A x \in V : D(x) \in Nat /\ D(x) <= most /\ d[x][c] <= D(x) /\ D(x) <= d[x][c] + 1
  BY <1>1
<1>3. ASSUME NEW x \in V, NEW i \in DOMAIN g[x] PROVE D(x) <= D(g[x][i].dest) + g[x][i].dist
  <2> DEFINE y == g[x][i].dest  w == g[x][i].dist
  <2>1. y \in V /\ w \in Nat
    BY DEF IsGraph
  <2>2. d[x][y] <= w
    BY <1>1
  <2>3. x = u => w + d[y][c] # d[u][c]
    OBVIOUS
  <2> HIDE DEF y, w
  <2>4. d[x][c] <= w + d[y][c] /\ d[x][c] \in Nat /\ d[y][c] \in Nat
    <3>1. d[x][c] <= d[x][y] + d[y][c] /\ d[x][y] \in Nat /\ d[x][c] \in Nat /\ d[y][c] \in Nat
      BY <1>1, <2>1
    <3> QED BY <3>1, <2>1, <2>2
  <2>5. D(x) <= D(y) + w
    <3>1. CASE x = u
      <4>1. d[x][c] + 1 <= w + d[y][c]
        BY <3>1, <2>1, <2>3, <2>4
      <4>2. D(x) = d[x][c] + 1 /\ D(y) \in Nat /\ d[y][c] <= D(y)
        BY <3>1, <1>2, <2>1
      <4> QED BY <4>1, <4>2, <2>1, <2>4
    <3>2. CASE x # u
      <4>1. D(x) = d[x][c] /\ D(y) \in Nat /\ d[y][c] <= D(y)
        BY <3>2, <1>2, <2>1
      <4> HIDE DEF D
      <4> QED BY <4>1, <2>1, <2>4
    <3> QED BY <3>1, <3>2
  <2> QED BY <2>5 DEF y, w
<1>4. D(u) = d[u][c] + 1 /\ D(c) = 0
  BY <1>1
<1> HIDE DEF D
<1>5. GraphPotential(g, V, most, p)
  <2>1. \A x \in V : p[x] = -D(x) /\ D(x) \in Nat /\ D(x) <= most
    BY <1>2
  <2>2. p \in [V -> Int]
    BY <1>2
  <2>3. ASSUME NEW x \in V, NEW y \in V PROVE p[y] - p[x] <= most
    BY <2>1
  <2>4. ASSUME NEW x \in V, NEW i \in DOMAIN g[x] PROVE p[g[x][i].dest] <= p[x] + g[x][i].dist
    <3>1. g[x][i].dest \in V /\ g[x][i].dist \in Nat
      BY DEF IsGraph
    <3>2. D(x) <= D(g[x][i].dest) + g[x][i].dist
      BY <1>3
    <3> HIDE DEF p
    <3> QED BY <3>1, <3>2, <2>1
  <2> QED BY <2>2, <2>3, <2>4 DEF GraphPotential
<1>6. p[u] = -D(u) /\ p[c] = -D(c)
  OBVIOUS
<1>7. p[c] - p[u] <= d[u][c]
  BY <1>5 DEF AreDistances
<1>8. d[u][c] \in Nat
  BY <1>1
<1> HIDE DEF p
<1> QED BY <1>4, <1>6, <1>7, <1>8

\* Every edge has an edge back of the same length.
HasBackEdges(g, V) ==
  \A u \in V : \A i \in DOMAIN g[u] : \E j \in DOMAIN g[g[u][i].dest] :
    g[g[u][i].dest][j].dest = u /\ g[g[u][i].dest][j].dist = g[u][i].dist

\* The distances of an undirected graph are symmetric: no way back is longer.
LEMMA SymmetricDistances ==
  ASSUME NEW g, NEW V, NEW most \in Nat, NEW d, IsGraph(g, V), AreDistances(g, V, most, d),
         HasBackEdges(g, V)
  PROVE  \A u, v \in V : d[v][u] <= d[u][v]
<1>1. /\ \A x, y \in V : d[x][y] \in Nat /\ d[x][y] <= most
      /\ \A x \in V : d[x][x] = 0
      /\ \A x \in V : \A i \in DOMAIN g[x] : d[x][g[x][i].dest] <= g[x][i].dist
      /\ \A x, y, z \in V : d[x][z] <= d[x][y] + d[y][z]
  BY DistanceFields
<1>2. ASSUME NEW u \in V, NEW v \in V PROVE d[v][u] <= d[u][v]
  <2> DEFINE p == [x \in V |-> d[x][u]]
  <2>1. p \in [V -> Int] /\ \A x \in V : p[x] = d[x][u]
    BY <1>1
  <2> HIDE DEF p
  <2>2. ASSUME NEW x \in V, NEW y \in V PROVE p[y] - p[x] <= most
    <3>1. d[y][u] \in Nat /\ d[y][u] <= most /\ d[x][u] \in Nat
      BY <1>1
    <3> QED BY <3>1, <2>1
  <2>3. ASSUME NEW x \in V, NEW i \in DOMAIN g[x] PROVE p[g[x][i].dest] <= p[x] + g[x][i].dist
    <3> DEFINE y == g[x][i].dest  w == g[x][i].dist
    <3>1. y \in V /\ w \in Nat
      BY DEF IsGraph
    <3>2. PICK j \in DOMAIN g[y] : g[y][j].dest = x /\ g[y][j].dist = w
      BY DEF HasBackEdges
    <3> HIDE DEF y, w
    <3>3. d[y][x] <= w
      BY <3>1, <3>2, <1>1
    <3>4. /\ d[y][u] <= d[y][x] + d[x][u]
          /\ d[y][u] \in Nat /\ d[y][x] \in Nat /\ d[x][u] \in Nat
      BY <3>1, <1>1
    <3>5. p[y] <= p[x] + w
      BY <3>1, <3>3, <3>4, <2>1
    <3> QED BY <3>5 DEF y, w
  <2>4. GraphPotential(g, V, most, p)
    BY <2>1, <2>2, <2>3 DEF GraphPotential
  <2>5. p[v] - p[u] <= d[u][v]
    BY <2>4 DEF AreDistances
  <2>6. p[v] = d[v][u] /\ p[u] = 0 /\ d[v][u] \in Nat
    BY <2>1, <1>1
  <2> QED BY <2>5, <2>6
<1> QED BY <1>2
==============================================================================
