-------------------------- MODULE GraphImportProofs --------------------------
(***************************************************************************)
(* What the import of a file leaves in the arrays, for every well-formed   *)
(* file: EdgesAreFound, OnlyMissingAreAdded and RoundTrip follow from the  *)
(* inductive invariant ImportInv and from what a stable sort does.         *)
(***************************************************************************)
EXTENDS GraphImport, SharedLemmas

\* The edges between internal ids.
Edge == [start : 0..(NodeCount - 1), dest : 0..(NodeCount - 1), dist : Int]

SortedByStart(es) == \A i, j \in DOMAIN es : i <= j => es[i].start <= es[j].start

\* edgeList.sort: the edges are permuted, their start nodes increase, and
\* edges of the same start node keep their order.
LEMMA SortFacts ==
  ASSUME NEW E, NEW es \in Seq(E), \A e \in E : e.start \in Int
  PROVE  \E p \in [1..Len(es) -> 1..Len(es)] :
           /\ SortByStart(es) = [k \in 1..Len(es) |-> es[p[k]]]
           /\ \A i \in 1..Len(es) : \E k \in 1..Len(es) : p[k] = i
           /\ \A k, l \in 1..Len(es) : k < l =>
                \/ es[p[k]].start < es[p[l]].start
                \/ es[p[k]].start = es[p[l]].start /\ p[k] < p[l]
<1> DEFINE S == 1..Len(es)
           R == {x \in S \X S : NotAfter(es, x[1], x[2])}
           place == [i \in S |-> Cardinality({j \in S : NotAfter(es, j, i)})]
<1>1. DOMAIN es = S /\ Len(es) \in Nat /\ \A i \in S : es[i] \in E /\ es[i].start \in Int
  OBVIOUS
<1>2. IsFiniteSet(S) /\ Cardinality(S) = Len(es)
  <2> DEFINE N == Len(es)
  <2>1. N \in Nat
    BY <1>1
  <2> HIDE DEF N
  <2>2. IsFiniteSet(1..N) /\ Cardinality(1..N) = N
    BY <2>1, FS_Interval
  <2> QED BY <2>2 DEF N
<1>3. \A i, j \in S : <<i, j>> \in R <=> NotAfter(es, i, j)
  OBVIOUS
<1>4. place = [i \in S |-> Cardinality({j \in S : <<j, i>> \in R})]
  <2>1. \A i \in S : {j \in S : NotAfter(es, j, i)} = {j \in S : <<j, i>> \in R}
    OBVIOUS
  <2> QED BY <2>1
<1>5. \A i \in S : i \in Int
  OBVIOUS
<1> HIDE DEF S, R
<1>6. /\ \A x \in S : <<x, x>> \in R
      /\ \A x, y \in S : <<x, y>> \in R \/ <<y, x>> \in R
      /\ \A x, y \in S : <<x, y>> \in R /\ <<y, x>> \in R => x = y
      /\ \A x, y, z \in S : <<x, y>> \in R /\ <<y, z>> \in R => <<x, z>> \in R
  <2> DEFINE key == [i \in S |-> es[i].start]
  <2>1. key \in [S -> Int]
    BY <1>1
  <2>2. \A i, j \in S : <<i, j>> \in R <=> key[i] < key[j] \/ (key[i] = key[j] /\ i <= j)
    BY <1>3 DEF NotAfter
  <2> HIDE DEF key
  <2>3. \A x \in S : <<x, x>> \in R
    BY <2>1, <2>2, <1>5
  <2>4. \A x, y \in S : <<x, y>> \in R \/ <<y, x>> \in R
    <3>1. SUFFICES ASSUME NEW x \in S, NEW y \in S
                   PROVE  <<x, y>> \in R \/ <<y, x>> \in R
      OBVIOUS
    <3>2. key[x] \in Int /\ key[y] \in Int /\ x \in Int /\ y \in Int
      BY <2>1, <1>5
    <3>3. \/ key[x] < key[y] \/ (key[x] = key[y] /\ x <= y)
          \/ key[y] < key[x] \/ (key[y] = key[x] /\ y <= x)
      BY <3>2
    <3> QED BY <2>2, <3>3
  <2>5. \A x, y \in S : <<x, y>> \in R /\ <<y, x>> \in R => x = y
    BY <2>1, <2>2, <1>5
  <2>6. \A x, y, z \in S : <<x, y>> \in R /\ <<y, z>> \in R => <<x, z>> \in R
    <3>1. SUFFICES ASSUME NEW x \in S, NEW y \in S, NEW z \in S,
                          <<x, y>> \in R, <<y, z>> \in R
                   PROVE  <<x, z>> \in R
      OBVIOUS
    <3>2. key[x] \in Int /\ key[y] \in Int /\ key[z] \in Int /\ x \in Int /\ y \in Int /\ z \in Int
      BY <2>1, <1>5
    <3>3. /\ key[x] < key[y] \/ (key[x] = key[y] /\ x <= y)
          /\ key[y] < key[z] \/ (key[y] = key[z] /\ y <= z)
      BY <2>2, <3>1
    <3>4. key[x] < key[z] \/ (key[x] = key[z] /\ x <= z)
      BY <3>2, <3>3
    <3> QED BY <2>2, <3>4
  <2> QED BY <2>3, <2>4, <2>5, <2>6
<1> HIDE DEF place
<1>7. /\ place \in [S -> 1..Cardinality(S)]
      /\ \A x, y \in S : place[x] = place[y] => x = y
      /\ \A x, y \in S : place[x] <= place[y] <=> <<x, y>> \in R
  BY <1>2, <1>4, <1>6, TotalOrderPlaces
<1> DEFINE p == Arranged(S, place)
<1>8. /\ p \in [1..Cardinality(S) -> S]
      /\ \A x \in S : p[place[x]] = x
      /\ \A k \in 1..Cardinality(S) : place[p[k]] = k
  BY <1>2, <1>7, ArrangedInverts
<1>9. SortByStart(es) = [k \in S |-> es[p[k]]]
  BY <1>1 DEF SortByStart, place
<1> HIDE DEF p
<1>10. p \in [S -> S] /\ \A k \in S : place[p[k]] = k
  BY <1>2, <1>8 DEF S
<1>11. \A i \in S : \E k \in S : p[k] = i
  BY <1>2, <1>7, <1>8 DEF S
<1>12. ASSUME NEW k \in S, NEW l \in S, k < l
       PROVE  \/ es[p[k]].start < es[p[l]].start
              \/ es[p[k]].start = es[p[l]].start /\ p[k] < p[l]
  <2>1. p[k] \in S /\ p[l] \in S /\ place[p[k]] = k /\ place[p[l]] = l
    BY <1>10
  <2>2. <<p[k], p[l]>> \in R /\ p[k] # p[l]
    BY <2>1, <1>12, <1>7, <1>5
  <2>3. NotAfter(es, p[k], p[l])
    BY <2>1, <2>2, <1>3
  <2> QED BY <2>1, <2>2, <2>3, <1>5 DEF NotAfter
<1> QED BY <1>9, <1>10, <1>11, <1>12 DEF S

\* What a caller of the sort needs: the same edges, as many, sorted.
LEMMA SortKeeps ==
  ASSUME NEW E, NEW es \in Seq(E), \A e \in E : e.start \in Int
  PROVE  /\ SortByStart(es) \in Seq(E)
         /\ Len(SortByStart(es)) = Len(es)
         /\ ToSet(SortByStart(es)) = ToSet(es)
         /\ SortedByStart(SortByStart(es))
<1> DEFINE N == Len(es)
<1>1. PICK p \in [1..N -> 1..N] :
           /\ SortByStart(es) = [k \in 1..N |-> es[p[k]]]
           /\ \A i \in 1..N : \E k \in 1..N : p[k] = i
           /\ \A k, l \in 1..N : k < l =>
                \/ es[p[k]].start < es[p[l]].start
                \/ es[p[k]].start = es[p[l]].start /\ p[k] < p[l]
  BY SortFacts
<1>2. N \in Nat /\ \A i \in 1..N : es[i] \in E /\ es[i].start \in Int
  OBVIOUS
<1>3. SortByStart(es) \in Seq(E) /\ Len(SortByStart(es)) = N
  <2> DEFINE sorted == [k \in 1..N |-> es[p[k]]]
  <2>1. sorted \in [1..N -> E] /\ N \in Nat
    BY <1>2
  <2>2. SortByStart(es) = sorted
    BY <1>1
  <2> HIDE DEF sorted, N
  <2>3. sorted \in Seq(E) /\ Len(sorted) = N
    BY <2>1
  <2> QED BY <2>2, <2>3
<1>4. ToSet(SortByStart(es)) = ToSet(es)
  <2> DEFINE sorted == [k \in 1..N |-> es[p[k]]]
  <2>1. ToSet(SortByStart(es)) = {es[p[k]] : k \in 1..N}
    <3>1. DOMAIN sorted = 1..N /\ \A k \in 1..N : sorted[k] = es[p[k]]
      OBVIOUS
    <3>2. ToSet(sorted) = {es[p[k]] : k \in 1..N}
      BY <3>1 DEF ToSet
    <3> QED BY <3>2, <1>1
  <2>2. ToSet(es) = {es[i] : i \in 1..N}
    BY DEF ToSet
  <2>3. {es[p[k]] : k \in 1..N} \subseteq {es[i] : i \in 1..N}
    OBVIOUS
  <2>4. {es[i] : i \in 1..N} \subseteq {es[p[k]] : k \in 1..N}
    BY <1>1
  <2> QED BY <2>1, <2>2, <2>3, <2>4
<1>5. ASSUME NEW k \in 1..N, NEW l \in 1..N, k <= l
      PROVE  SortByStart(es)[k].start <= SortByStart(es)[l].start
  <2>1. SortByStart(es)[k] = es[p[k]] /\ SortByStart(es)[l] = es[p[l]]
    BY <1>1
  <2>2. p[k] \in 1..N /\ p[l] \in 1..N
    OBVIOUS
  <2>3. es[p[k]].start \in Int /\ es[p[l]].start \in Int
    BY <2>2, <1>2
  <2>4. k = l \/ k < l
    BY <1>2, <1>5
  <2>5. ASSUME k < l PROVE es[p[k]].start <= es[p[l]].start
    <3>1. \/ es[p[k]].start < es[p[l]].start
          \/ es[p[k]].start = es[p[l]].start
      BY <2>5, <1>1
    <3> QED BY <2>3, <3>1
  <2> QED BY <2>1, <2>3, <2>4, <2>5
<1>6. DOMAIN SortByStart(es) = 1..N
  BY <1>1
<1> QED BY <1>3, <1>4, <1>5, <1>6 DEF SortedByStart

\* Edges that are sorted already stay where they are.
LEMMA SortedUnchanged ==
  ASSUME NEW E, NEW es \in Seq(E), \A e \in E : e.start \in Int, SortedByStart(es)
  PROVE  SortByStart(es) = es
<1> DEFINE N == Len(es)
<1>1. PICK p \in [1..N -> 1..N] :
           /\ SortByStart(es) = [k \in 1..N |-> es[p[k]]]
           /\ \A i \in 1..N : \E k \in 1..N : p[k] = i
           /\ \A k, l \in 1..N : k < l =>
                \/ es[p[k]].start < es[p[l]].start
                \/ es[p[k]].start = es[p[l]].start /\ p[k] < p[l]
  BY SortFacts
<1>2. N \in Nat /\ DOMAIN es = 1..N /\ \A i \in 1..N : es[i] \in E /\ es[i].start \in Int
  OBVIOUS
<1>3. ASSUME NEW k \in 1..N, NEW l \in 1..N, k < l PROVE p[k] < p[l]
  <2>1. p[k] \in 1..N /\ p[l] \in 1..N
    OBVIOUS
  <2>2. p[l] <= p[k] => es[p[l]].start <= es[p[k]].start
    BY <2>1, <1>2 DEF SortedByStart
  <2>3. \/ es[p[k]].start < es[p[l]].start
        \/ es[p[k]].start = es[p[l]].start /\ p[k] < p[l]
    BY <1>1, <1>3
  <2>4. es[p[k]].start \in Int /\ es[p[l]].start \in Int
    BY <2>1, <1>2
  <2>5. p[k] \in Int /\ p[l] \in Int
    BY <2>1, <1>2
  <2> QED BY <2>2, <2>3, <2>4, <2>5
<1>4. \A k \in 1..N : p[k] = k
  BY <1>2, <1>3, IncreasingIsIdentity
<1> QED BY <1>1, <1>2, <1>4

\* The offsets of sorted edges delimit the edges of each node.
LEMMA OffsetsDelimit ==
  ASSUME NEW E, NEW es \in Seq(E), \A e \in E : e.start \in Int, SortedByStart(es),
         NEW n \in 0..(NodeCount - 1), NodeCount \in Nat
  PROVE  (Offsets(es)[n] + 1)..Offsets(es)[n + 1] = {i \in DOMAIN es : es[i].start = n}
<1> DEFINE N == Len(es)
           Before(m) == {i \in 1..N : es[i].start < m}
<1>1. N \in Nat /\ DOMAIN es = 1..N /\ \A i \in 1..N : es[i] \in E /\ es[i].start \in Int
  OBVIOUS
<1>2. ASSUME NEW m \in Int
      PROVE  Before(m) = 1..Cardinality(Before(m)) /\ Cardinality(Before(m)) \in 0..N
  <2>1. Before(m) \in SUBSET (1..N)
    OBVIOUS
  <2>2. \A k \in Before(m) : \A l \in 1..k : l \in Before(m)
    BY <1>1 DEF SortedByStart
  <2> HIDE DEF Before
  <2> QED BY <2>1, <2>2, <1>1, InitialSegment
<1>3. n \in Int /\ n + 1 \in Int /\ n \in 0..NodeCount /\ n + 1 \in 0..NodeCount
  OBVIOUS
<1>4. /\ Offsets(es)[n] = Cardinality(Before(n))
      /\ Offsets(es)[n + 1] = Cardinality(Before(n + 1))
  BY <1>1, <1>3 DEF Offsets
<1>5. {i \in DOMAIN es : es[i].start = n} = Before(n + 1) \ Before(n)
  BY <1>1, <1>3
<1> HIDE DEF Before
<1>6. Before(n + 1) \ Before(n) = (Cardinality(Before(n)) + 1)..Cardinality(Before(n + 1))
  <2> DEFINE a == Cardinality(Before(n))  b == Cardinality(Before(n + 1))
  <2>1. Before(n) = 1..a /\ Before(n + 1) = 1..b /\ a \in Nat /\ b \in Nat
    BY <1>1, <1>2, <1>3
  <2> HIDE DEF a, b
  <2>2. Before(n + 1) \ Before(n) = (a + 1)..b
    BY <2>1
  <2> QED BY <2>2 DEF a, b
<1> QED BY <1>4, <1>5, <1>6

\* The row of a node has the edges that start there.
LEMMA RowHasEdges ==
  ASSUME NEW E, NEW es \in Seq(E), NEW n
  PROVE  ToSet(RowOf(es, n)) = {i \in DOMAIN es : es[i].start = n}
<1> DEFINE S == {i \in DOMAIN es : es[i].start = n}
<1>1. Len(es) \in Nat /\ DOMAIN es = 1..Len(es)
  OBVIOUS
<1>2. S \in SUBSET Nat /\ S \in SUBSET (1..Len(es))
  BY <1>1
<1>3. IsFiniteSet(1..Len(es))
  BY <1>1, FS_Interval
<1>4. IsFiniteSet(S)
  BY <1>2, <1>3, FS_Subset
<1> HIDE DEF S
<1>5. /\ Cardinality(S) \in Nat
      /\ InOrder(S) \in [1..Cardinality(S) -> S]
      /\ \A x \in S : \E k \in 1..Cardinality(S) : InOrder(S)[k] = x
  BY <1>2, <1>4, InOrderFacts
<1>6. ToSet(InOrder(S)) = S
  BY <1>5 DEF ToSet
<1> QED BY <1>6 DEF S, RowOf
------------------------------------------------------------------------------
\* A well-formed file: its edges are edges between internal ids once read.
LEMMA FileFacts ==
  ASSUME WellFormed(file)
  PROVE  /\ NodeCount \in Nat
         /\ DOMAIN file.ids = 1..NodeCount
         /\ EdgesOfFile \in Seq(Edge)
         /\ \A e \in Edge : e.start \in Int
<1>1. NodeCount \in Nat /\ DOMAIN file.ids = 1..NodeCount
  BY DEF WellFormed, NodeCount
<1>2. ASSUME NEW i \in DOMAIN file.ids PROVE InternalId(file.ids[i]) \in 0..(NodeCount - 1)
  <2> DEFINE k == CHOOSE j \in DOMAIN file.ids : file.ids[j] = file.ids[i]
  <2>1. k \in DOMAIN file.ids
    OBVIOUS
  <2> HIDE DEF k
  <2>2. k - 1 \in 0..(NodeCount - 1)
    BY <2>1, <1>1
  <2> QED BY <2>2 DEF InternalId, k
<1>3. ASSUME NEW m \in DOMAIN file.edges
      PROVE  [start |-> InternalId(file.edges[m].start), dest |-> InternalId(file.edges[m].dest),
              dist  |-> file.edges[m].dist] \in Edge
  <2>1. PICK i \in DOMAIN file.ids, j \in DOMAIN file.ids :
           file.edges[m].start = file.ids[i] /\ file.edges[m].dest = file.ids[j]
    BY DEF WellFormed
  <2>2. file.edges[m].dist \in Int
    <3> DEFINE Line == [start : Int, dest : Int, dist : Int]
    <3>1. file.edges \in Seq(Line)
      BY DEF WellFormed
    <3> HIDE DEF Line
    <3>2. file.edges[m] \in Line
      BY <3>1
    <3> QED BY <3>2 DEF Line
  <2>3. InternalId(file.ids[i]) \in 0..(NodeCount - 1) /\ InternalId(file.ids[j]) \in 0..(NodeCount - 1)
    BY <1>2
  <2> QED BY <2>1, <2>2, <2>3 DEF Edge
<1>4. Len(file.edges) \in Nat /\ DOMAIN file.edges = 1..Len(file.edges)
  BY DEF WellFormed
<1>5. EdgesOfFile \in Seq(Edge)
  BY <1>3, <1>4 DEF EdgesOfFile
<1>6. \A e \in Edge : e.start \in Int
  BY <1>1 DEF Edge
<1> QED BY <1>1, <1>5, <1>6

\* What has been read, once it has.
LEMMA ReadFacts ==
  ASSUME WellFormed(file), ReadInv, pc # "read"
  PROVE  /\ edgeList \in Seq(Edge)
         /\ SortedByStart(edgeList)
         /\ additional \in Seq(Edge)
         /\ AllEdgesRead \in Seq(Edge)
         /\ SortedByStart(AllEdgesRead)
         /\ ToSet(AllEdgesRead) = ToSet(edgeList) \cup ToSet(additional)
         /\ Len(AllEdgesRead) = Len(edgeList) + Len(additional)
<1>1. NodeCount \in Nat /\ EdgesOfFile \in Seq(Edge) /\ \A e \in Edge : e.start \in Int
  BY FileFacts
<1>2. edgeList = SortByStart(EdgesOfFile)
  BY DEF ReadInv
<1>3. edgeList \in Seq(Edge) /\ SortedByStart(edgeList)
  BY <1>1, <1>2, SortKeeps
<1>4. additional \in Seq(Edge)
  BY DEF ReadInv, Edge
<1> DEFINE both == edgeList \o additional
<1>5. both \in Seq(Edge) /\ Len(both) = Len(edgeList) + Len(additional)
  BY <1>3, <1>4
<1>6. ToSet(both) = ToSet(edgeList) \cup ToSet(additional)
  <2>1. /\ Len(edgeList) \in Nat /\ DOMAIN edgeList = 1..Len(edgeList)
        /\ Len(additional) \in Nat /\ DOMAIN additional = 1..Len(additional)
        /\ DOMAIN both = 1..(Len(edgeList) + Len(additional))
    BY <1>3, <1>4
  <2>2. ASSUME NEW i \in DOMAIN both PROVE both[i] \in ToSet(edgeList) \cup ToSet(additional)
    <3>1. CASE i <= Len(edgeList)
      <4>1. i \in DOMAIN edgeList /\ both[i] = edgeList[i]
        BY <2>1, <3>1, <1>3, <1>4
      <4> QED BY <4>1 DEF ToSet
    <3>2. CASE i > Len(edgeList)
      <4>1. i - Len(edgeList) \in DOMAIN additional /\ both[i] = additional[i - Len(edgeList)]
        BY <2>1, <3>2, <1>3, <1>4
      <4> QED BY <4>1 DEF ToSet
    <3> QED BY <3>1, <3>2, <2>1
  <2>3. ASSUME NEW i \in DOMAIN edgeList PROVE edgeList[i] \in ToSet(both)
    <3>1. i \in DOMAIN both /\ both[i] = edgeList[i]
      BY <2>1, <1>3, <1>4
    <3> QED BY <3>1 DEF ToSet
  <2>4. ASSUME NEW i \in DOMAIN additional PROVE additional[i] \in ToSet(both)
    <3>1. i + Len(edgeList) \in DOMAIN both /\ both[i + Len(edgeList)] = additional[i]
      BY <2>1, <1>3, <1>4
    <3> QED BY <3>1 DEF ToSet
  <2> HIDE DEF both
  <2> QED BY <2>2, <2>3, <2>4 DEF ToSet
<1> HIDE DEF both
<1>7. /\ SortByStart(both) \in Seq(Edge) /\ Len(SortByStart(both)) = Len(both)
      /\ ToSet(SortByStart(both)) = ToSet(both) /\ SortedByStart(SortByStart(both))
  BY <1>1, <1>5, SortKeeps
<1>8. AllEdgesRead = SortByStart(both)
  BY DEF AllEdgesRead, both
<1> QED BY <1>3, <1>4, <1>5, <1>6, <1>7, <1>8

\* Init establishes the invariant.
LEMMA InitImport == ASSUME Init PROVE ImportInv
<1>1. WellFormed(file)
  BY FileAssumption DEF Init
<1> QED BY <1>1 DEF Init, ImportInv, ExportInv, ReadInv, FillInv, Filled, NoGraph

\* Reading a file starts the completion with nothing added.
LEMMA ReadFileImport == ASSUME ImportInv, ReadFile PROVE ImportInv'
<1> USE DEF ReadFile
<1>1. ExportInv'
  BY DEF ImportInv, ExportInv, NodeCount, Offsets
<1>2. ReadInv'
  <2>0. EdgesOfFile' = EdgesOfFile
    BY DEF EdgesOfFile, InternalId
  <2>1. edgeList' = SortByStart(EdgesOfFile)'
    BY <2>0
  <2>2. additional' = <<>>
    OBVIOUS
  <2> QED BY <2>1, <2>2 DEF ReadInv
<1>3. FillInv'
  BY DEF FillInv, Filled
<1> QED BY <1>1, <1>2, <1>3 DEF ImportInv, WellFormed

\* The completion adds the edge back to an edge that has none.
LEMMA CheckEdgeImport == ASSUME ImportInv, CheckEdge PROVE ImportInv'
<1> USE DEF CheckEdge
<1>0. pc = "complete" /\ WellFormed(file) /\ ReadInv /\ position \in Nat \ {0}
  BY DEF ImportInv
<1>1. ExportInv'
  BY DEF ImportInv, ExportInv, NodeCount, Offsets
<1>2. FillInv'
  BY DEF ImportInv, FillInv, Filled
<1>3. edgeList \in Seq(Edge) /\ additional \in Seq(Edge)
  BY <1>0, ReadFacts
<1> DEFINE e == edgeList[position]
<1>4. position \in 1..Len(edgeList) /\ e \in Edge /\ e \in ToSet(edgeList)
  BY <1>0, <1>3 DEF ToSet
<1>5. Back(e) \in Edge /\ Back(Back(e)) = e
  BY <1>4 DEF Back, Edge
<1>6. \/ additional' = additional
      \/ additional' = Append(additional, Back(e)) /\ ~HasOpposite(e)
  BY DEF IsMissing
<1>7. edgeList' = SortByStart(EdgesOfFile)'
  <2>1. EdgesOfFile' = EdgesOfFile
    BY DEF EdgesOfFile, InternalId
  <2> QED BY <2>1, <1>0 DEF ReadInv
<1>8. additional' \in Seq(Edge)
  BY <1>3, <1>5, <1>6
<1>9. Edge' = Edge /\ \A x : HasOpposite(x)' <=> HasOpposite(x)
  BY DEF Edge, NodeCount, HasOpposite, From
<1>10. ASSUME NEW i \in DOMAIN additional'
       PROVE  Back(additional'[i]) \in ToSet(edgeList) /\ ~HasOpposite(Back(additional'[i]))
  <2>1. CASE additional' = additional
    BY <2>1, <1>0 DEF ReadInv
  <2>2. CASE additional' = Append(additional, Back(e)) /\ ~HasOpposite(e)
    <3>1. CASE i \in DOMAIN additional
      <4>1. additional'[i] = additional[i]
        BY <2>2, <3>1, <1>3, <1>5
      <4> QED BY <4>1, <3>1, <1>0 DEF ReadInv
    <3>2. CASE i \notin DOMAIN additional
      <4>1. additional'[i] = Back(e)
        BY <2>2, <3>2, <1>3, <1>5
      <4> QED BY <4>1, <2>2, <1>4, <1>5
    <3> QED BY <3>1, <3>2
  <2> QED BY <2>1, <2>2, <1>6
<1>11. ReadInv'
  <2>1. ASSUME NEW x PROVE Back(x)' = Back(x)
    BY DEF Back
  <2>2. additional' \in Seq(Edge)' 
    BY <1>8, <1>9
  <2> QED BY <1>7, <2>2, <1>9, <1>10 DEF ReadInv, Edge, Back
<1>12. /\ pc' \in {"complete", "crashed"} /\ position' \in Nat \ {0} /\ file' = file
  BY <1>0
<1> QED BY <1>0, <1>1, <1>2, <1>11, <1>12 DEF ImportInv, WellFormed

\* What was read is kept by a step that leaves it alone.
LEMMA ReadKept ==
  ASSUME ReadInv, pc # "read" \/ pc' = "read",
         UNCHANGED <<file, edgeList, position, oppositeEdgeFound, additional>>
  PROVE  ReadInv'
<1>1. EdgesOfFile' = EdgesOfFile
  BY DEF EdgesOfFile, InternalId
<1>2. NodeCount' = NodeCount
  BY DEF NodeCount
<1>3. \A x : HasOpposite(x)' <=> HasOpposite(x)
  BY DEF HasOpposite, From
<1> QED BY <1>1, <1>2, <1>3 DEF ReadInv, Back

\* Both ways to store what was read.
LEMMA FillImport == ASSUME ImportInv, FillGrid \/ FillDynamicGrid PROVE ImportInv'
<1> USE DEF FillGrid, FillDynamicGrid
<1>1. ExportInv'
  BY DEF ImportInv, ExportInv, NodeCount, Offsets
<1>2. ReadInv'
  BY ReadKept DEF ImportInv
<1>3. AllEdgesRead' = AllEdgesRead /\ NodeCount' = NodeCount
  BY DEF AllEdgesRead, NodeCount
<1>4. Offsets(AllEdgesRead)' = Offsets(AllEdgesRead)
  BY <1>3 DEF Offsets
<1>5. FillInv'
  BY <1>3, <1>4 DEF FillInv, Filled
<1>6. pc' \in {"grid", "dynamic", "crashed"} /\ position' = position /\ file' = file
  OBVIOUS
<1> QED BY <1>1, <1>2, <1>5, <1>6 DEF ImportInv, WellFormed

\* The exported file is well-formed, sorted, and has the nodes of the graph.
LEMMA ExportImport == ASSUME ImportInv, ExportAndImport PROVE ImportInv'
<1> USE DEF ExportAndImport
<1>0. pc = "grid" /\ WellFormed(file) /\ ReadInv /\ edges = AllEdgesRead /\ offset = Offsets(edges)
  BY DEF ImportInv, FillInv, Filled
<1>1. edges \in Seq(Edge) /\ SortedByStart(edges)
  BY <1>0, ReadFacts
<1>2. NodeCount \in Nat
  BY <1>0, FileFacts
<1> DEFINE ids == [i \in 1..NodeCount |-> i - 1]
<1>3. file' = [ids |-> ids, edges |-> edges]
  BY DEF Exported
<1>4. ids \in Seq(Int) /\ DOMAIN ids = 1..NodeCount /\ Len(ids) = NodeCount
      /\ \A i \in 1..NodeCount : ids[i] = i - 1
  BY <1>2
<1>5. NodeCount' = NodeCount
  BY <1>3, <1>4 DEF NodeCount
<1> HIDE DEF ids
<1>6. WellFormed(file')
  <2>1. edges \in Seq([start : Int, dest : Int, dist : Int])
    <3> DEFINE Line == [start : Int, dest : Int, dist : Int]
    <3>1. Edge \subseteq Line
      BY <1>2 DEF Edge
    <3> HIDE DEF Line
    <3>2. edges \in Seq(Line)
      BY <3>1, <1>1
    <3> QED BY <3>2 DEF Line
  <2>2. ASSUME NEW k \in DOMAIN edges
        PROVE  \E i, j \in DOMAIN ids : edges[k].start = ids[i] /\ edges[k].dest = ids[j]
    <3>1. edges[k] \in Edge
      BY <1>1
    <3>2. edges[k].start \in 0..(NodeCount - 1) /\ edges[k].dest \in 0..(NodeCount - 1)
      BY <3>1 DEF Edge
    <3> DEFINE i == edges[k].start + 1  j == edges[k].dest + 1
    <3>3. i \in 1..NodeCount /\ j \in 1..NodeCount /\ i - 1 = edges[k].start /\ j - 1 = edges[k].dest
      BY <3>2, <1>2
    <3> HIDE DEF i, j
    <3> QED BY <3>3, <1>4
  <2>3. \A i, j \in DOMAIN ids : ids[i] = ids[j] => i = j
    BY <1>4, <1>2
  <2>4. file'.ids = ids /\ file'.edges = edges
    BY <1>3
  <2>5. file' \in [ids : Seq(Int), edges : Seq([start : Int, dest : Int, dist : Int])]
    BY <1>3, <1>4, <2>1
  <2> QED BY <2>2, <2>3, <2>4, <2>5 DEF WellFormed
<1>7. ExportInv'
  <2>1. original' = [edges |-> edges, offset |-> offset]
    OBVIOUS
  <2>2. original'.edges = edges /\ original'.offset = offset
    BY <2>1
  <2>3. file' = [ids |-> [i \in 1..NodeCount' |-> i - 1], edges |-> edges]
    BY <1>3, <1>5 DEF ids
  <2>4. offset = [n \in 0..NodeCount' |->
                    Cardinality({i \in DOMAIN edges : edges[i].start < n})]
    BY <1>0, <1>5 DEF Offsets
  <2> QED BY <2>2, <2>3, <2>4, <1>1 DEF ExportInv, SortedByStart, Offsets
<1>8. ReadInv' /\ FillInv'
  BY DEF ReadInv, FillInv, Filled
<1> QED BY <1>6, <1>7, <1>8 DEF ImportInv, WellFormed

\* Every step keeps the invariant.
LEMMA NextImport == ASSUME ImportInv, [Next]_vars PROVE ImportInv'
<1>1. CASE UNCHANGED vars
  <2> USE <1>1 DEF vars
  <2>1. ReadInv'
    BY ReadKept DEF ImportInv
  <2>2. AllEdgesRead' = AllEdgesRead /\ NodeCount' = NodeCount
    BY DEF AllEdgesRead, NodeCount
  <2>3. \A es : Offsets(es)' = Offsets(es)
    BY <2>2 DEF Offsets
  <2>4. FillInv' /\ ExportInv'
    BY <2>2, <2>3 DEF ImportInv, FillInv, Filled, ExportInv, Offsets
  <2> QED BY <2>1, <2>4 DEF ImportInv, WellFormed
<1>2. CASE Next
  BY <1>2, ReadFileImport, CheckEdgeImport, FillImport, ExportImport DEF Next
<1> QED BY <1>1, <1>2

\* ImportInv is an invariant of the imports and of the export, whatever
\* well-formed file is read.
THEOREM ImportInvariant == Spec => []ImportInv
<1>1. Init => ImportInv
  BY InitImport
<1>2. ImportInv /\ [Next]_vars => ImportInv'
  BY NextImport
<1> QED BY <1>1, <1>2, PTL DEF Spec
------------------------------------------------------------------------------
\* The offsets, and the rows, find the edges of every node.
LEMMA FoundFromInv == ASSUME ImportInv PROVE EdgesAreFound
<1>1. SUFFICES ASSUME Filled, NEW n \in 0..(NodeCount - 1)
               PROVE  EdgesOf(n) = {i \in DOMAIN edges : edges[i].start = n}
  BY DEF EdgesAreFound
<1>2. WellFormed(file) /\ ReadInv /\ FillInv /\ pc # "read"
  BY <1>1 DEF ImportInv, Filled
<1>3. edges = AllEdgesRead
  BY <1>1, <1>2 DEF FillInv
<1>4. edges \in Seq(Edge) /\ SortedByStart(edges)
  BY <1>2, <1>3, ReadFacts
<1>5. NodeCount \in Nat /\ \A e \in Edge : e.start \in Int
  BY <1>2, FileFacts
<1>6. CASE pc = "grid"
  <2>1. offset = Offsets(edges)
    BY <1>2, <1>3, <1>6 DEF FillInv
  <2>2. (Offsets(edges)[n] + 1)..Offsets(edges)[n + 1] = {i \in DOMAIN edges : edges[i].start = n}
    BY <1>4, <1>5, OffsetsDelimit
  <2> QED BY <2>1, <2>2, <1>6 DEF EdgesOf
<1>7. CASE pc = "dynamic"
  <2>1. sortedEdges[n] = RowOf(edges, n)
    BY <1>2, <1>3, <1>7 DEF FillInv
  <2>2. ToSet(RowOf(edges, n)) = {i \in DOMAIN edges : edges[i].start = n}
    BY <1>4, RowHasEdges
  <2> QED BY <2>1, <2>2, <1>7 DEF EdgesOf
<1> QED BY <1>1, <1>6, <1>7 DEF Filled

\* What is stored is what was read and the missing edges back.
LEMMA AddedFromInv == ASSUME ImportInv PROVE OnlyMissingAreAdded
<1>1. SUFFICES ASSUME Filled
               PROVE  /\ \A i \in DOMAIN additional :
                           Back(additional[i]) \in ToSet(edgeList) /\ ~HasOpposite(Back(additional[i]))
                      /\ ToSet(edges) = ToSet(edgeList) \cup ToSet(additional)
                      /\ Len(edges) = Len(edgeList) + Len(additional)
  BY DEF OnlyMissingAreAdded
<1>2. WellFormed(file) /\ ReadInv /\ pc # "read" /\ edges = AllEdgesRead
  BY <1>1 DEF ImportInv, Filled, FillInv
<1> QED BY <1>2, ReadFacts DEF ReadInv

\* An exported file is read as it was written: internal ids are kept, and so
\* is the order of the edges.
LEMMA ReadAsWritten ==
  ASSUME ImportInv, original # NoGraph
  PROVE  SortByStart(EdgesOfFile) = original.edges
<1>1. WellFormed(file) /\ ExportInv
  BY DEF ImportInv
<1>2. /\ file.ids = [i \in 1..NodeCount |-> i - 1] /\ file.edges = original.edges
      /\ SortedByStart(original.edges)
  BY <1>1 DEF ExportInv, SortedByStart
<1>3. NodeCount \in Nat /\ EdgesOfFile \in Seq(Edge) /\ \A e \in Edge : e.start \in Int
  BY <1>1, FileFacts
<1>4. ASSUME NEW i \in 1..NodeCount PROVE InternalId(i - 1) = i - 1
  <2>1. DOMAIN file.ids = 1..NodeCount /\ \A j \in 1..NodeCount : file.ids[j] = j - 1
    BY <1>2
  <2> DEFINE k == CHOOSE j \in DOMAIN file.ids : file.ids[j] = i - 1
  <2>2. k \in 1..NodeCount /\ k - 1 = i - 1
    BY <2>1
  <2> QED BY <2>2 DEF InternalId
<1> DEFINE Line == [start : Int, dest : Int, dist : Int]
<1>5. file.edges \in Seq(Line)
  BY <1>1 DEF WellFormed
<1>6. ASSUME NEW m \in DOMAIN file.edges
      PROVE  [start |-> InternalId(file.edges[m].start), dest |-> InternalId(file.edges[m].dest),
              dist  |-> file.edges[m].dist] = file.edges[m]
  <2>1. PICK i \in DOMAIN file.ids, j \in DOMAIN file.ids :
           file.edges[m].start = file.ids[i] /\ file.edges[m].dest = file.ids[j]
    BY <1>1 DEF WellFormed
  <2>2. /\ InternalId(file.edges[m].start) = file.edges[m].start
        /\ InternalId(file.edges[m].dest) = file.edges[m].dest
    BY <2>1, <1>2, <1>4
  <2>3. file.edges[m] \in Line
    <3> HIDE DEF Line
    <3> QED BY <1>5
  <2> QED BY <2>2, <2>3
<1>7. EdgesOfFile = file.edges
  <2>1. file.edges = [m \in DOMAIN file.edges |-> file.edges[m]]
    <3> HIDE DEF Line
    <3> QED BY <1>5
  <2> QED BY <2>1, <1>6 DEF EdgesOfFile
<1> QED BY <1>2, <1>3, <1>7, SortedUnchanged

\* Nothing is added to an undirected graph, so that it is stored again as it
\* was.
LEMMA RoundTripFromInv == ASSUME ImportInv PROVE RoundTrip
<1>1. SUFFICES ASSUME pc = "grid", original # NoGraph,
                      \A e \in ToSet(original.edges) : Back(e) \in ToSet(original.edges)
               PROVE  edges = original.edges /\ offset = original.offset
  BY DEF RoundTrip
<1>2. WellFormed(file) /\ ReadInv /\ ExportInv /\ pc # "read" /\ edges = AllEdgesRead
      /\ offset = Offsets(AllEdgesRead)
  BY <1>1 DEF ImportInv, Filled, FillInv
<1>3. edgeList = original.edges
  BY <1>1, <1>2, ReadAsWritten DEF ReadInv
<1>4. edgeList \in Seq(Edge) /\ additional \in Seq(Edge) /\ SortedByStart(edgeList)
  BY <1>2, ReadFacts
<1>5. \A e \in ToSet(edgeList) : HasOpposite(e)
  <2>1. SUFFICES ASSUME NEW e \in ToSet(edgeList) PROVE HasOpposite(e)
    OBVIOUS
  <2>2. Back(e) \in ToSet(edgeList) /\ Back(e).start = e.dest /\ Back(e).dest = e.start
    BY <1>1, <1>3 DEF Back
  <2> QED BY <2>2 DEF HasOpposite, From
<1>6. additional = <<>>
  <2>1. \A i \in DOMAIN additional : FALSE
    BY <1>2, <1>5 DEF ReadInv
  <2>2. Len(additional) \in Nat /\ DOMAIN additional = 1..Len(additional)
    BY <1>4
  <2>3. Len(additional) = 0
    BY <2>1, <2>2
  <2> QED BY <2>3, <1>4
<1>7. edgeList \o additional = edgeList
  BY <1>4, <1>6
<1>8. \A e \in Edge : e.start \in Int
  BY <1>2, FileFacts
<1>9. edges = edgeList
  BY <1>2, <1>4, <1>7, <1>8, SortedUnchanged DEF AllEdgesRead
<1> QED BY <1>1, <1>2, <1>3, <1>9 DEF ExportInv

\* Whatever file is imported, Grid.offset and DynamicGrid's rows hold the
\* edges of every node and no others.
THEOREM ImportFindsEdges == Spec => []EdgesAreFound
<1>1. ImportInv => EdgesAreFound
  BY FoundFromInv
<1> QED BY <1>1, ImportInvariant, PTL

\* Whatever file is imported, the completion of the graph loses no edge of it
\* and adds only edges back where there is none.
THEOREM ImportAddsMissing == Spec => []OnlyMissingAreAdded
<1>1. ImportInv => OnlyMissingAreAdded
  BY AddedFromInv
<1> QED BY <1>1, ImportInvariant, PTL

\* Whatever undirected graph is exported, importing the file brings it back.
THEOREM ExportRoundTrip == Spec => []RoundTrip
<1>1. ImportInv => RoundTrip
  BY RoundTripFromInv
<1> QED BY <1>1, ImportInvariant, PTL
==============================================================================
