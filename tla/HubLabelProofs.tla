---------------------------- MODULE HubLabelProofs ----------------------------
(***************************************************************************)
(* The labels of every graph of the contraction hierarchy, by any number   *)
(* of threads (FirstEdgesLead, LabelsCover, LabelsAreExact), and what the  *)
(* router answers with them (DistanceIsShortest, LabelledAnswerIsShortest).*)
(*                                                                         *)
(* The argument says which labels a node ends up with.  A node c is a hub  *)
(* of n if it lies above all other nodes of the shortest paths from n to   *)
(* c.  The highest node of the shortest paths between two nodes is a hub   *)
(* of both, so hubs are labels enough.  A hub is found with its exact      *)
(* distance, since the labels of the neighbour that a shortest path leads  *)
(* to first have it, and it is never redundant, since every label of a hub *)
(* lies above it.  What is not a hub, or too far away, is redundant        *)
(* because of the highest node of the shortest paths.                      *)
(*                                                                         *)
(* The router needs less: a side has every hub with its exact distance,    *)
(* whatever else it has.  The path is measured by the trips that its parts *)
(* are: first edges lead to the hub, shortcuts stand for two shorter       *)
(* trips, and both are turned into a path of the imported graph.           *)
(***************************************************************************)
EXTENDS HubLRouter, ContractionProofs

\* Node w lies on a shortest path from u to v.
OnPath(D, u, w, v) == D[u][w] + D[w][v] = D[u][v]

\* Node c lies above all other nodes of the shortest paths from n to c.
IsHub(D, lv, n, c) ==
  /\ D[n][c] < far
  /\ \A w \in Nodes : w # c /\ OnPath(D, n, w, c) => lv[w] < lv[c]

Hubs(D, lv, n) == {c \in Nodes : IsHub(D, lv, n, c)}

\* What the labels need of the hierarchy es with the levels lv.
Hierarchy(D, es, lv) ==
  /\ IsMetric(D)
  /\ es \in Seq(EdgeRecord)
  /\ lv \in [Nodes -> 0..Cardinality(Nodes)]
  /\ \A e \in 1..Len(es) : /\ es[e].dist = D[es[e].start][es[e].dest]
                           /\ D[es[e].start][es[e].dest] < far
                           /\ lv[es[e].start] # lv[es[e].dest]
  /\ PathsRise(es, D, lv)
  /\ \A u, v, w \in Nodes : D[u][v] < far /\ D[v][w] < far => D[u][w] < far
------------------------------------------------------------------------------
LEMMA MetricFacts ==
  ASSUME NEW D, IsMetric(D)
  PROVE  /\ far \in Nat /\ far > 0
         /\ \A u, v \in Nodes : D[u][v] \in Nat /\ D[u][v] <= far
         /\ \A u \in Nodes : D[u][u] = 0
         /\ \A u, v \in Nodes : u # v => D[u][v] > 0
         /\ \A u, v, w \in Nodes : D[u][w] <= D[u][v] + D[v][w]
         /\ \A u, v \in Nodes : D[u][v] = D[v][u]
BY HierarchyAssumption DEF IsMetric

\* A node is a hub of itself.
LEMMA OwnHub ==
  ASSUME NEW D, IsMetric(D), NEW lv, NEW n \in Nodes
  PROVE  n \in Hubs(D, lv, n)
<1>1. D[n][n] < far
  BY MetricFacts
<1>2. ASSUME NEW w \in Nodes, w # n, OnPath(D, n, w, n) PROVE FALSE
  <2> DEFINE a == D[n][w]  b == D[w][n]
  <2>1. a \in Nat /\ a > 0 /\ b \in Nat /\ a + b = D[n][n] /\ D[n][n] = 0
    BY <1>2, MetricFacts DEF OnPath
  <2> HIDE DEF a, b
  <2> QED BY <2>1
<1> QED BY <1>1, <1>2 DEF Hubs, IsHub

\* A hub that is not the node itself lies above it.
LEMMA HubAbove ==
  ASSUME NEW D, IsMetric(D), NEW lv, NEW n \in Nodes, NEW c \in Hubs(D, lv, n), n # c
  PROVE  c \in Nodes /\ lv[n] < lv[c] /\ D[n][c] < far
<1>1. c \in Nodes /\ IsHub(D, lv, n, c)
  BY DEF Hubs
<1>2. OnPath(D, n, n, c)
  <2>1. D[n][n] = 0 /\ D[n][c] \in Nat
    BY <1>1, MetricFacts
  <2> QED BY <2>1 DEF OnPath
<1> QED BY <1>1, <1>2 DEF IsHub

\* Beyond a node of a shortest path the path is shortest.
LEMMA PathTail ==
  ASSUME NEW D, IsMetric(D), NEW u \in Nodes, NEW w \in Nodes, NEW z \in Nodes, NEW v \in Nodes,
         OnPath(D, u, w, v), OnPath(D, w, z, v)
  PROVE  OnPath(D, u, z, v)
<1> DEFINE uw == D[u][w]  wv == D[w][v]  uv == D[u][v]  wz == D[w][z]  zv == D[z][v]  uz == D[u][z]
<1>1. /\ uw \in Nat /\ wv \in Nat /\ uv \in Nat /\ wz \in Nat /\ zv \in Nat /\ uz \in Nat
      /\ uz <= uw + wz /\ uv <= uz + zv /\ uw + wv = uv /\ wz + zv = wv
  BY MetricFacts DEF OnPath
<1> HIDE DEF uw, wv, uv, wz, zv, uz
<1>2. uz + zv = uv
  BY <1>1
<1> QED BY <1>2 DEF OnPath, uz, zv, uv

\* The same from the other end.
LEMMA PathHead ==
  ASSUME NEW D, IsMetric(D), NEW u \in Nodes, NEW w \in Nodes, NEW z \in Nodes, NEW v \in Nodes,
         OnPath(D, u, w, v), OnPath(D, u, z, w)
  PROVE  OnPath(D, u, z, v) /\ OnPath(D, z, w, v)
<1> DEFINE uw == D[u][w]  wv == D[w][v]  uv == D[u][v]  zw == D[z][w]  zv == D[z][v]  uz == D[u][z]
<1>1. /\ uw \in Nat /\ wv \in Nat /\ uv \in Nat /\ zw \in Nat /\ zv \in Nat /\ uz \in Nat
      /\ zv <= zw + wv /\ uv <= uz + zv /\ uw + wv = uv /\ uz + zw = uw
  BY MetricFacts DEF OnPath
<1> HIDE DEF uw, wv, uv, zw, zv, uz
<1>2. uz + zv = uv /\ zw + wv = zv
  BY <1>1
<1> QED BY <1>2 DEF OnPath, uz, zv, uv, zw, wv

LEMMA PathBack ==
  ASSUME NEW D, IsMetric(D), NEW u \in Nodes, NEW w \in Nodes, NEW v \in Nodes, OnPath(D, u, w, v)
  PROVE  OnPath(D, v, w, u)
<1> DEFINE uw == D[u][w]  wv == D[w][v]  uv == D[u][v]
<1>1. /\ uw \in Nat /\ wv \in Nat /\ uv \in Nat /\ uw + wv = uv
      /\ D[w][u] = uw /\ D[v][w] = wv /\ D[v][u] = uv
  BY MetricFacts DEF OnPath
<1> HIDE DEF uw, wv, uv
<1>2. wv + uw = uv
  BY <1>1
<1> QED BY <1>1, <1>2 DEF OnPath

\* The distances from and to a node of a shortest path.
LEMMA PathParts ==
  ASSUME NEW D, IsMetric(D), NEW u \in Nodes, NEW w \in Nodes, NEW v \in Nodes, OnPath(D, u, w, v)
  PROVE  D[u][w] <= D[u][v] /\ D[w][v] <= D[u][v]
<1> DEFINE uw == D[u][w]  wv == D[w][v]  uv == D[u][v]
<1>1. uw \in Nat /\ wv \in Nat /\ uv \in Nat /\ uw + wv = uv
  BY MetricFacts DEF OnPath
<1> HIDE DEF uw, wv, uv
<1>2. uw <= uv /\ wv <= uv
  BY <1>1
<1> QED BY <1>2 DEF uw, wv, uv

\* A shortest path to a node that is not below begins with an edge upwards.
LEMMA RisingEdge ==
  ASSUME NEW D, NEW es, NEW lv, Hierarchy(D, es, lv),
         NEW u \in Nodes, NEW c \in Nodes, u # c, lv[c] >= lv[u], D[u][c] < far
  PROVE  \E e \in 1..Len(es) : /\ es[e].start = u /\ es[e].dest \in Nodes /\ lv[es[e].dest] > lv[u]
                               /\ OnPath(D, u, es[e].dest, c)
<1>1. lv \in [Nodes -> 0..Cardinality(Nodes)] /\ PathsRise(es, D, lv) /\ IsMetric(D)
  BY DEF Hierarchy
<1>2. \A n \in Nodes : lv[n] # -1
  BY <1>1, NodesFacts
<1>3. PICK e \in 1..Len(es) : es[e].start = u /\ es[e].dest \in Above(lv, u) /\ es[e].dist + D[es[e].dest][c] = D[u][c]
  BY <1>1, <1>2 DEF PathsRise, Leads
<1>4. es[e].dest \in Nodes /\ lv[es[e].dest] > lv[u]
  BY <1>2, <1>3 DEF Above
<1>5. es[e].dist = D[u][es[e].dest]
  BY <1>3 DEF Hierarchy
<1> QED BY <1>3, <1>4, <1>5 DEF OnPath

\* The highest node of the shortest paths between two nodes is a hub of one.
LEMMA HighestIsHub ==
  ASSUME NEW D, NEW es, NEW lv, Hierarchy(D, es, lv),
         NEW u \in Nodes, NEW v \in Nodes, D[u][v] < far, NEW c \in Nodes, OnPath(D, u, c, v),
         \A w \in Nodes : OnPath(D, u, w, v) => lv[w] <= lv[c]
  PROVE  c \in Hubs(D, lv, u)
<1>1. IsMetric(D) /\ \A n \in Nodes : lv[n] \in Nat
  BY NodesFacts DEF Hierarchy
<1>2. D[u][c] < far
  BY <1>1, PathParts, MetricFacts
<1>3. ASSUME NEW w \in Nodes, w # c, OnPath(D, u, w, c) PROVE lv[w] < lv[c]
  <2>1. OnPath(D, u, w, v) /\ OnPath(D, w, c, v)
    BY <1>1, <1>3, PathHead
  <2>2. lv[w] <= lv[c]
    BY <2>1
  <2>3. SUFFICES ASSUME lv[w] = lv[c] PROVE FALSE
    BY <2>2, <1>1
  <2>4. D[w][c] < far
    BY <1>1, <1>2, <1>3, PathParts, MetricFacts
  <2>5. lv[c] >= lv[w]
    BY <2>3, <1>1
  <2>6. PICK e \in 1..Len(es) : /\ es[e].dest \in Nodes /\ lv[es[e].dest] > lv[w]
                                /\ OnPath(D, w, es[e].dest, c)
    BY <2>4, <2>5, <1>3, RisingEdge
  <2> DEFINE z == es[e].dest
  <2>7. z \in Nodes /\ lv[z] > lv[w] /\ OnPath(D, w, z, c)
    BY <2>6
  <2> HIDE DEF z
  <2>8. OnPath(D, w, z, v)
    BY <2>1, <2>7, <1>1, PathHead
  <2>9. OnPath(D, u, z, v)
    BY <2>1, <2>7, <2>8, <1>1, PathTail
  <2> QED BY <2>3, <2>7, <2>9, <1>1
<1> QED BY <1>2, <1>3 DEF Hubs, IsHub

\* Two nodes that are joined have a common hub on a shortest path.
LEMMA CommonHub ==
  ASSUME NEW D, NEW es, NEW lv, Hierarchy(D, es, lv),
         NEW u \in Nodes, NEW v \in Nodes, D[u][v] < far
  PROVE  \E c \in Nodes : OnPath(D, u, c, v) /\ c \in Hubs(D, lv, u) /\ c \in Hubs(D, lv, v)
<1> DEFINE N == Cardinality(Nodes)
           Depths == {N - lv[w] : w \in {x \in Nodes : OnPath(D, u, x, v)}}
<1>1. IsMetric(D) /\ N \in Nat /\ \A n \in Nodes : lv[n] \in 0..N
  BY NodesFacts DEF Hierarchy
<1> HIDE DEF N
<1>2. OnPath(D, u, u, v)
  <2>1. D[u][u] = 0 /\ D[u][v] \in Nat
    BY <1>1, MetricFacts
  <2> QED BY <2>1 DEF OnPath
<1>3. Depths \in SUBSET Nat /\ Depths # {}
  BY <1>1, <1>2
<1>4. PICK m \in Depths : \A k \in Depths : m <= k
  <2> HIDE DEF Depths
  <2> QED BY <1>3, LeastMember
<1>5. PICK c \in Nodes : OnPath(D, u, c, v) /\ m = N - lv[c]
  BY <1>4
<1>6. ASSUME NEW w \in Nodes, OnPath(D, u, w, v) PROVE lv[w] <= lv[c]
  <2>1. N - lv[w] \in Depths
    BY <1>6
  <2>2. N - lv[c] <= N - lv[w]
    BY <2>1, <1>4, <1>5
  <2> QED BY <2>2, <1>1
<1>7. c \in Hubs(D, lv, u)
  BY <1>5, <1>6, HighestIsHub
<1>8. c \in Hubs(D, lv, v)
  <2>1. OnPath(D, v, c, u)
    BY <1>1, <1>5, PathBack
  <2>2. ASSUME NEW w \in Nodes, OnPath(D, v, w, u) PROVE lv[w] <= lv[c]
    <3>1. OnPath(D, u, w, v)
      BY <1>1, <2>2, PathBack
    <3> QED BY <3>1, <1>6
  <2>3. D[v][u] < far
    <3>1. D[v][u] = D[u][v]
      BY <1>1, MetricFacts
    <3> QED BY <3>1
  <2> QED BY <2>1, <2>2, <2>3, HighestIsHub
<1> QED BY <1>5, <1>7, <1>8

\* A shortest path to a hub leads upwards to a node that has the same hub.
LEMMA HubStep ==
  ASSUME NEW D, NEW es, NEW lv, Hierarchy(D, es, lv), NEW n \in Nodes, NEW c \in Hubs(D, lv, n), n # c
  PROVE  \E e \in 1..Len(es) : /\ es[e].start = n /\ es[e].dest \in Nodes /\ lv[es[e].dest] > lv[n]
                               /\ OnPath(D, n, es[e].dest, c) /\ c \in Hubs(D, lv, es[e].dest)
<1>1. IsMetric(D) /\ \A x \in Nodes : lv[x] \in Nat
  BY NodesFacts DEF Hierarchy
<1>2. c \in Nodes /\ lv[n] < lv[c] /\ D[n][c] < far /\ IsHub(D, lv, n, c)
  BY <1>1, HubAbove DEF Hubs
<1>3. lv[c] >= lv[n]
  BY <1>1, <1>2
<1>4. PICK e \in 1..Len(es) : /\ es[e].start = n /\ es[e].dest \in Nodes /\ lv[es[e].dest] > lv[n]
                              /\ OnPath(D, n, es[e].dest, c)
  BY <1>2, <1>3, RisingEdge
<1> DEFINE x == es[e].dest
<1>5. x \in Nodes /\ OnPath(D, n, x, c)
  BY <1>4
<1> HIDE DEF x
<1>6. D[x][c] < far
  BY <1>1, <1>2, <1>5, PathParts, MetricFacts
<1>7. ASSUME NEW w \in Nodes, w # c, OnPath(D, x, w, c) PROVE lv[w] < lv[c]
  <2>1. OnPath(D, n, w, c)
    BY <1>1, <1>2, <1>5, <1>7, PathTail
  <2> QED BY <2>1, <1>2, <1>7 DEF IsHub
<1>8. c \in Hubs(D, lv, x)
  BY <1>2, <1>6, <1>7 DEF Hubs, IsHub
<1> QED BY <1>4, <1>8 DEF x
------------------------------------------------------------------------------
\* Partial functions from hubs to labels.
LabelRecord == [dist : Nat, edge : Int]
Partial == UNION {[S -> LabelRecord] : S \in SUBSET Nodes}

LEMMA PartialFields ==
  ASSUME NEW f \in Partial
  PROVE  /\ DOMAIN f \in SUBSET Nodes /\ f \in [DOMAIN f -> LabelRecord]
         /\ \A h \in DOMAIN f : f[h] \in LabelRecord /\ f[h].dist \in Nat /\ f[h].edge \in Int
<1>1. PICK S \in SUBSET Nodes : f \in [S -> LabelRecord]
  BY DEF Partial
<1>2. \A r \in LabelRecord : r.dist \in Nat /\ r.edge \in Int
  BY DEF LabelRecord
<1> QED BY <1>1, <1>2

LEMMA PartialIntro ==
  ASSUME NEW S \in SUBSET Nodes, NEW f \in [S -> LabelRecord]
  PROVE  f \in Partial
BY DEF Partial

\* The loop over the edges of a node to higher nodes.
NearFound(base, seq) == FoldLeft(AddNeighbour, base, seq)

LEMMA NearTurns ==
  ASSUME NEW U, NEW T, NEW seq \in Seq(T), NEW base \in U,
         \A acc \in U, e \in T : AddNeighbour(acc, e) \in U
  PROVE  \E g : /\ g[0] = base
                /\ \A k \in 1..Len(seq) : g[k] = AddNeighbour(g[k - 1], seq[k])
                /\ NearFound(base, seq) = g[Len(seq)]
<1> DEFINE n == Len(seq)
           step == [x \in (1..n) \X U |-> AddNeighbour(x[2], seq[x[1]])]
           Body(f) == [s \in SUBSET DOMAIN seq |->
                         IF s = {} THEN base ELSE AddNeighbour(f[s \ {Max(s)}], seq[Max(s)])]
           c == CHOOSE f : f = Body(f)
           g == [k \in 0..n |-> c[1..k]]
<1>1. n \in Nat /\ DOMAIN seq = 1..n /\ \A k \in 1..n : seq[k] \in T
  OBVIOUS
<1>2. step \in [(1..n) \X U -> U]
  BY <1>1
<1>3. \A k \in 1..n, u \in U : step[<<k, u>>] = AddNeighbour(u, seq[k])
  OBVIOUS
<1> HIDE DEF n, step
<1>4. PICK iter \in [SUBSET (1..n) -> U] : FoldsBy(iter, n, base, step)
  BY <1>1, <1>2, FoldExists
<1>5. iter = Body(iter)
  <2>1. ASSUME NEW s \in SUBSET (1..n), s # {}
        PROVE  iter[s] = AddNeighbour(iter[s \ {Max(s)}], seq[Max(s)])
    <3>1. /\ Max(s) \in 1..n /\ s \ {Max(s)} \in SUBSET (1..n)
          /\ iter[s] = step[<<Max(s), iter[s \ {Max(s)}]>>]
      BY <1>4, <2>1 DEF FoldsBy
    <3>2. iter[s \ {Max(s)}] \in U
      BY <3>1
    <3> QED BY <3>1, <3>2, <1>3
  <2>2. iter = [s \in SUBSET (1..n) |-> iter[s]]
    OBVIOUS
  <2> QED BY <2>1, <2>2, <1>1, <1>4 DEF FoldsBy
<1>6. c = Body(c)
  BY <1>5
<1>7. NearFound(base, seq) = c[1..n]
  BY <1>1 DEF NearFound, FoldLeft, MapThenFoldSet
<1> HIDE DEF c
<1>8. c[{}] = base
  BY <1>6
<1>9. ASSUME NEW k \in 1..n PROVE c[1..k] = AddNeighbour(c[1..(k - 1)], seq[k])
  <2>1. /\ 1..k \in SUBSET (1..n) /\ 1..k # {}
        /\ Max(1..k) = k /\ (1..k) \ {k} = 1..(k - 1)
    BY <1>1, MaxInterval
  <2> QED BY <2>1, <1>1, <1>6
<1>10. g[0] = base /\ g[n] = c[1..n] /\ \A k \in 1..n : g[k] = AddNeighbour(g[k - 1], seq[k])
  BY <1>1, <1>8, <1>9
<1> HIDE DEF g
<1> QED BY <1>7, <1>10 DEF n

\* The loop over the neighbours whose labels are taken over.
Merged(base, seq) == FoldLeft(MergeLabels, base, seq)

LEMMA MergeTurns ==
  ASSUME NEW U, NEW T, NEW seq \in Seq(T), NEW base \in U,
         \A acc \in U, e \in T : MergeLabels(acc, e) \in U
  PROVE  \E g : /\ g[0] = base
                /\ \A k \in 1..Len(seq) : g[k] = MergeLabels(g[k - 1], seq[k])
                /\ Merged(base, seq) = g[Len(seq)]
<1> DEFINE n == Len(seq)
           step == [x \in (1..n) \X U |-> MergeLabels(x[2], seq[x[1]])]
           Body(f) == [s \in SUBSET DOMAIN seq |->
                         IF s = {} THEN base ELSE MergeLabels(f[s \ {Max(s)}], seq[Max(s)])]
           c == CHOOSE f : f = Body(f)
           g == [k \in 0..n |-> c[1..k]]
<1>1. n \in Nat /\ DOMAIN seq = 1..n /\ \A k \in 1..n : seq[k] \in T
  OBVIOUS
<1>2. step \in [(1..n) \X U -> U]
  BY <1>1
<1>3. \A k \in 1..n, u \in U : step[<<k, u>>] = MergeLabels(u, seq[k])
  OBVIOUS
<1> HIDE DEF n, step
<1>4. PICK iter \in [SUBSET (1..n) -> U] : FoldsBy(iter, n, base, step)
  BY <1>1, <1>2, FoldExists
<1>5. iter = Body(iter)
  <2>1. ASSUME NEW s \in SUBSET (1..n), s # {}
        PROVE  iter[s] = MergeLabels(iter[s \ {Max(s)}], seq[Max(s)])
    <3>1. /\ Max(s) \in 1..n /\ s \ {Max(s)} \in SUBSET (1..n)
          /\ iter[s] = step[<<Max(s), iter[s \ {Max(s)}]>>]
      BY <1>4, <2>1 DEF FoldsBy
    <3>2. iter[s \ {Max(s)}] \in U
      BY <3>1
    <3> QED BY <3>1, <3>2, <1>3
  <2>2. iter = [s \in SUBSET (1..n) |-> iter[s]]
    OBVIOUS
  <2> QED BY <2>1, <2>2, <1>1, <1>4 DEF FoldsBy
<1>6. c = Body(c)
  BY <1>5
<1>7. Merged(base, seq) = c[1..n]
  BY <1>1 DEF Merged, FoldLeft, MapThenFoldSet
<1> HIDE DEF c
<1>8. c[{}] = base
  BY <1>6
<1>9. ASSUME NEW k \in 1..n PROVE c[1..k] = MergeLabels(c[1..(k - 1)], seq[k])
  <2>1. /\ 1..k \in SUBSET (1..n) /\ 1..k # {}
        /\ Max(1..k) = k /\ (1..k) \ {k} = 1..(k - 1)
    BY <1>1, MaxInterval
  <2> QED BY <2>1, <1>1, <1>6
<1>10. g[0] = base /\ g[n] = c[1..n] /\ \A k \in 1..n : g[k] = MergeLabels(g[k - 1], seq[k])
  BY <1>1, <1>8, <1>9
<1> HIDE DEF g
<1> QED BY <1>7, <1>10 DEF n

\* The loop that removes labels that are redundant.
DropHub(f, h, n) == IF h # n /\ isRedundant(f, h) THEN [g \in DOMAIN f \ {h} |-> f[g]] ELSE f
DropClosed(U, T, n) == \A acc \in U, e \in T : DropHub(acc, e, n) \in U
Thinned(base, seq, n) == FoldLeft(LAMBDA a, e : DropHub(a, e, n), base, seq)

LEMMA DropTurns ==
  ASSUME NEW U, NEW T, NEW seq \in Seq(T), NEW base \in U,
         NEW n, DropClosed(U, T, n)
  PROVE  \E g : /\ g[0] = base
                /\ \A k \in 1..Len(seq) : g[k] = DropHub(g[k - 1], seq[k], n)
                /\ Thinned(base, seq, n) = g[Len(seq)]
<1> DEFINE m == Len(seq)
           step == [z \in (1..m) \X U |-> DropHub(z[2], seq[z[1]], n)]
           Body(f) == [s \in SUBSET DOMAIN seq |->
                         IF s = {} THEN base ELSE DropHub(f[s \ {Max(s)}], seq[Max(s)], n)]
           c == CHOOSE f : f = Body(f)
           g == [k \in 0..m |-> c[1..k]]
<1>1. m \in Nat /\ DOMAIN seq = 1..m /\ \A k \in 1..m : seq[k] \in T
  OBVIOUS
<1>2. step \in [(1..m) \X U -> U]
  BY <1>1 DEF DropClosed
<1>3. \A k \in 1..m, u \in U : step[<<k, u>>] = DropHub(u, seq[k], n)
  OBVIOUS
<1> HIDE DEF m, step
<1>4. PICK iter \in [SUBSET (1..m) -> U] : FoldsBy(iter, m, base, step)
  BY <1>1, <1>2, FoldExists
<1>5. iter = Body(iter)
  <2>1. ASSUME NEW s \in SUBSET (1..m), s # {}
        PROVE  iter[s] = DropHub(iter[s \ {Max(s)}], seq[Max(s)], n)
    <3>1. /\ Max(s) \in 1..m /\ s \ {Max(s)} \in SUBSET (1..m)
          /\ iter[s] = step[<<Max(s), iter[s \ {Max(s)}]>>]
      BY <1>4, <2>1 DEF FoldsBy
    <3>2. iter[s \ {Max(s)}] \in U
      BY <3>1
    <3> QED BY <3>1, <3>2, <1>3
  <2>2. iter = [s \in SUBSET (1..m) |-> iter[s]]
    OBVIOUS
  <2> QED BY <2>1, <2>2, <1>1, <1>4 DEF FoldsBy
<1>6. c = Body(c)
  BY <1>5
<1>7. Thinned(base, seq, n) = c[1..m]
  BY <1>1 DEF Thinned, FoldLeft, MapThenFoldSet
<1> HIDE DEF c
<1>8. c[{}] = base
  BY <1>6
<1>9. ASSUME NEW k \in 1..m PROVE c[1..k] = DropHub(c[1..(k - 1)], seq[k], n)
  <2>1. /\ 1..k \in SUBSET (1..m) /\ 1..k # {}
        /\ Max(1..k) = k /\ (1..k) \ {k} = 1..(k - 1)
    BY <1>1, MaxInterval
  <2> QED BY <2>1, <1>1, <1>6
<1>10. g[0] = base /\ g[m] = c[1..m] /\ \A k \in 1..m : g[k] = DropHub(g[k - 1], seq[k], n)
  BY <1>1, <1>8, <1>9
<1> HIDE DEF g
<1> QED BY <1>7, <1>10 DEF m

\* One turn of each loop.
LEMMA NeighbourAdded ==
  ASSUME edges \in Seq(EdgeRecord), NEW found \in Partial, NEW e \in 1..Len(edges)
  PROVE  LET v == edges[e].dest
             new == AddNeighbour(found, e)
         IN  /\ new \in Partial
             /\ DOMAIN new = DOMAIN found \cup {v}
             /\ \A h \in DOMAIN found : new[h] = found[h]
             /\ v \notin DOMAIN found => new[v].dist = edges[e].dist /\ new[v].edge = e
<1> DEFINE v == edges[e].dest
           r == [dist |-> edges[e].dist, edge |-> e]
           S == DOMAIN found \cup ({v} \ DOMAIN found)
           new == [h \in S |-> IF h \in {v} \ DOMAIN found THEN r ELSE found[h]]
<1>1. AddNeighbour(found, e) = new
  BY DEF AddNeighbour, Updated
<1>2. v \in Nodes /\ edges[e].dist \in Nat /\ e \in Int
  BY EdgeFields
<1>3. r \in LabelRecord /\ r.dist = edges[e].dist /\ r.edge = e
  BY <1>2 DEF LabelRecord
<1>4. DOMAIN found \in SUBSET Nodes /\ \A h \in DOMAIN found : found[h] \in LabelRecord
  BY PartialFields
<1> HIDE DEF r, v
<1>5. S \in SUBSET Nodes /\ new \in [S -> LabelRecord] /\ S = DOMAIN found \cup {v}
  BY <1>2, <1>3, <1>4
<1>6. new \in Partial
  <2> HIDE DEF S, new
  <2> QED BY <1>5, PartialIntro
<1>7. DOMAIN new = DOMAIN found \cup {v} /\ (\A h \in DOMAIN found : new[h] = found[h])
      /\ (v \notin DOMAIN found => new[v] = r)
  BY <1>5
<1> HIDE DEF new
<1> QED BY <1>1, <1>3, <1>6, <1>7 DEF v

LEMMA LabelsMerged ==
  ASSUME NEW found \in Partial, NEW base \in DOMAIN found, labels[base] \in Partial
  PROVE  LET new == MergeLabels(found, base)
             old == labels[base]
             Sum(h) == found[base].dist + old[h].dist
         IN  /\ new \in Partial
             /\ DOMAIN new = DOMAIN found \cup DOMAIN old
             /\ \A h \in DOMAIN new :
                  \/ /\ h \in DOMAIN found /\ new[h] = found[h]
                     /\ h \in DOMAIN old => found[h].dist <= Sum(h)
                  \/ /\ h \in DOMAIN old /\ (h \in DOMAIN found => found[h].dist > Sum(h))
                     /\ new[h].dist = Sum(h) /\ new[h].edge = found[base].edge
<1> DEFINE old == labels[base]
           Sum(h) == found[base].dist + old[h].dist
           Label(h) == [dist |-> Sum(h), edge |-> found[base].edge]
           closer == {h \in DOMAIN old : h \notin DOMAIN found \/ found[h].dist > Label(h).dist}
           S == DOMAIN found \cup closer
           new == [h \in S |-> IF h \in closer THEN Label(h) ELSE found[h]]
<1>1. MergeLabels(found, base) = new
  BY DEF MergeLabels, Updated
<1>2. /\ DOMAIN found \in SUBSET Nodes /\ DOMAIN old \in SUBSET Nodes
      /\ \A h \in DOMAIN found : found[h] \in LabelRecord /\ found[h].dist \in Nat /\ found[h].edge \in Int
      /\ \A h \in DOMAIN old : old[h].dist \in Nat
  BY PartialFields
<1> HIDE DEF old
<1>3. \A h : Label(h).dist = Sum(h) /\ Label(h).edge = found[base].edge
  OBVIOUS
<1>4. \A h \in DOMAIN old : Sum(h) \in Nat /\ Label(h) \in LabelRecord
  BY <1>2 DEF LabelRecord
<1> HIDE DEF Label
<1>5. S \in SUBSET Nodes /\ new \in [S -> LabelRecord] /\ S = DOMAIN found \cup DOMAIN old
  BY <1>2, <1>4
<1>6. new \in Partial
  <2> HIDE DEF S, new
  <2> QED BY <1>5, PartialIntro
<1>7. ASSUME NEW h \in S
      PROVE  \/ /\ h \in DOMAIN found /\ new[h] = found[h]
                /\ h \in DOMAIN old => found[h].dist <= Sum(h)
             \/ /\ h \in DOMAIN old /\ (h \in DOMAIN found => found[h].dist > Sum(h))
                /\ new[h].dist = Sum(h) /\ new[h].edge = found[base].edge
  <2>1. CASE h \in closer
    <3>1. new[h] = Label(h) /\ h \in DOMAIN old
      BY <2>1
    <3> QED BY <2>1, <3>1, <1>3
  <2>2. CASE h \notin closer
    <3>1. h \in DOMAIN found /\ new[h] = found[h]
      BY <2>2
    <3>2. ASSUME h \in DOMAIN old PROVE found[h].dist <= Sum(h)
      <4>1. ~(found[h].dist > Sum(h)) /\ found[h].dist \in Nat /\ Sum(h) \in Nat
        BY <2>2, <3>1, <3>2, <1>2, <1>3, <1>4
      <4> HIDE DEF Sum
      <4> QED BY <4>1
    <3> QED BY <3>1, <3>2
  <2> QED BY <2>1, <2>2
<1>8. DOMAIN new = S
  OBVIOUS
<1> HIDE DEF new, S, closer
<1> QED BY <1>1, <1>5, <1>6, <1>7, <1>8 DEF old

LEMMA HubDropped ==
  ASSUME NEW f \in Partial, NEW h, NEW n
  PROVE  /\ DropHub(f, h, n) \in Partial
         /\ DOMAIN DropHub(f, h, n) =
              IF h # n /\ isRedundant(f, h) THEN DOMAIN f \ {h} ELSE DOMAIN f
         /\ \A g \in DOMAIN DropHub(f, h, n) : DropHub(f, h, n)[g] = f[g]
<1> DEFINE S == DOMAIN f \ {h}
           less == [g \in S |-> f[g]]
<1>1. DOMAIN f \in SUBSET Nodes /\ \A g \in DOMAIN f : f[g] \in LabelRecord
  BY PartialFields
<1>2. S \in SUBSET Nodes /\ less \in [S -> LabelRecord] /\ \A g \in S : less[g] = f[g]
  BY <1>1
<1>3. less \in Partial
  <2> HIDE DEF S, less
  <2> QED BY <1>2, PartialIntro
<1>4. CASE h # n /\ isRedundant(f, h)
  <2>1. DropHub(f, h, n) = less
    BY <1>4 DEF DropHub
  <2> QED BY <2>1, <1>2, <1>3, <1>4
<1>5. CASE ~(h # n /\ isRedundant(f, h))
  <2>1. DropHub(f, h, n) = f
    BY <1>5 DEF DropHub
  <2> QED BY <2>1, <1>5
<1> QED BY <1>4, <1>5
------------------------------------------------------------------------------
\* Edge e leads from n to a higher node.
UpEdge(es, lv, n, e) ==
  e \in 1..Len(es) /\ es[e].start = n /\ es[e].dest \in Nodes /\ lv[es[e].dest] > lv[n]

\* The labels lab of n are its hubs, with exact distances and first edges of
\* shortest paths.
LabelOK(lab, D, es, lv, n) ==
  /\ lab \in Partial
  /\ DOMAIN lab = Hubs(D, lv, n)
  /\ \A h \in DOMAIN lab : lab[h].dist = D[n][h]
  /\ \A h \in DOMAIN lab \ {n} : /\ UpEdge(es, lv, n, lab[h].edge)
                                 /\ h \in Hubs(D, lv, es[lab[h].edge].dest)
                                 /\ OnPath(D, n, es[lab[h].edge].dest, h)

\* The nodes above n have their labels.
HigherLabelled(D, n) ==
  \A m \in Nodes : levels[m] > levels[n] => LabelOK(labels[m], D, edges, levels, m)

LEMMA UpwardFacts ==
  ASSUME NEW D, Hierarchy(D, edges, levels), NEW n \in Nodes
  PROVE  /\ UpwardEdges(n) \in Seq(1..Len(edges))
         /\ \A i \in 1..Len(UpwardEdges(n)) : UpEdge(edges, levels, n, UpwardEdges(n)[i])
         /\ \A e : UpEdge(edges, levels, n, e) => \E i \in 1..Len(UpwardEdges(n)) : UpwardEdges(n)[i] = e
<1> DEFINE S == {e \in ToSet(AllEdges(n)) : levels[edges[e].dest] >= levels[n]}
           ups == InOrder(S)
<1>1. UpwardEdges(n) = ups
  BY DEF UpwardEdges
<1>2. edges \in Seq(EdgeRecord) /\ \A m \in Nodes : levels[m] \in Nat
  BY NodesFacts DEF Hierarchy
<1>3. /\ Len(edges) \in Nat
      /\ \A e \in 1..Len(edges) : edges[e].start \in Nodes /\ edges[e].dest \in Nodes
                                  /\ levels[edges[e].start] # levels[edges[e].dest]
  BY <1>2, EdgeFields DEF Hierarchy
<1>4. ToSet(AllEdges(n)) = {e \in 1..Len(edges) : edges[e].start = n}
  BY <1>2, IdsFacts DEF AllEdges
<1>5. \A e : e \in S <=> UpEdge(edges, levels, n, e)
  BY <1>2, <1>3, <1>4 DEF UpEdge
<1>6. S \in SUBSET (1..Len(edges)) /\ S \in SUBSET Nat /\ IsFiniteSet(S)
  <2>1. S \in SUBSET (1..Len(edges)) /\ IsFiniteSet(1..Len(edges))
    BY <1>3, <1>4, FS_Interval
  <2> QED BY <2>1, <1>3, FS_Subset
<1> HIDE DEF S
<1>7. /\ Cardinality(S) \in Nat /\ ups \in [1..Cardinality(S) -> S]
      /\ \A x \in S : \E k \in 1..Cardinality(S) : ups[k] = x
  BY <1>6, InOrderFacts
<1> HIDE DEF ups
<1>8. Len(ups) = Cardinality(S) /\ ups \in Seq(1..Len(edges)) /\ \A i \in 1..Len(ups) : ups[i] \in S
  <2> DEFINE c == Cardinality(S)
             T == 1..Len(edges)
  <2>1. c \in Nat /\ ups \in [1..c -> S] /\ ups \in [1..c -> T]
    BY <1>6, <1>7
  <2> HIDE DEF c, T
  <2>2. ups \in Seq(T) /\ Len(ups) = c /\ \A i \in 1..c : ups[i] \in S
    BY <2>1
  <2> QED BY <2>2 DEF c, T
<1> QED BY <1>1, <1>5, <1>7, <1>8

\* A hub that the labels of a higher node lead to.
Via(f, D, n, h) ==
  /\ UpEdge(edges, levels, n, f[h].edge)
  /\ h \in Hubs(D, levels, edges[f[h].edge].dest)
  /\ f[h].dist = D[n][edges[f[h].edge].dest] + D[edges[f[h].edge].dest][h]

\* The labels f after the first k edges ups of n.
NearOK(f, D, n, ups, k) ==
  /\ f \in Partial
  /\ n \in DOMAIN f /\ f[n].dist = 0
  /\ \A h \in DOMAIN f \ {n} : /\ UpEdge(edges, levels, n, f[h].edge)
                               /\ edges[f[h].edge].dest = h /\ f[h].dist = D[n][h]
  /\ \A i \in 1..k : edges[ups[i]].dest \in DOMAIN f

LEMMA DirectFound ==
  ASSUME NEW D, Hierarchy(D, edges, levels), NEW n \in Nodes
  PROVE  NearOK(DirectLabels(n), D, n, UpwardEdges(n), Len(UpwardEdges(n)))
<1> DEFINE base == [h \in {n} |-> [dist |-> 0, edge |-> -1]]
           ups == UpwardEdges(n)
           m == Len(ups)
           T == 1..Len(edges)
<1>1. /\ ups \in Seq(T) /\ m \in Nat
      /\ \A i \in 1..m : ups[i] \in T /\ UpEdge(edges, levels, n, ups[i])
  BY UpwardFacts
<1>2. edges \in Seq(EdgeRecord) /\ \A e \in T : edges[e].dist = D[edges[e].start][edges[e].dest]
  BY DEF Hierarchy
<1>3. DirectLabels(n) = NearFound(base, ups)
  BY DEF DirectLabels, NearFound
<1>4. base \in Partial /\ DOMAIN base = {n} /\ base[n].dist = 0
  <2>1. base \in [{n} -> LabelRecord] /\ DOMAIN base = {n} /\ base[n].dist = 0
    BY DEF LabelRecord
  <2> HIDE DEF base
  <2> QED BY <2>1, PartialIntro
<1> HIDE DEF base, ups, m
<1>5. \A acc \in Partial, e \in T : AddNeighbour(acc, e) \in Partial
  BY <1>2, NeighbourAdded
<1>6. PICK g : /\ g[0] = base
               /\ \A k \in 1..m : g[k] = AddNeighbour(g[k - 1], ups[k])
               /\ NearFound(base, ups) = g[m]
  <2> HIDE DEF T
  <2> QED BY <1>1, <1>4, <1>5, NearTurns DEF m
<1>7. NearOK(g[0], D, n, ups, 0)
  BY <1>4, <1>6 DEF NearOK
<1>8. ASSUME NEW k \in 1..m, NearOK(g[k - 1], D, n, ups, k - 1) PROVE NearOK(g[k], D, n, ups, k)
  <2> DEFINE f == g[k - 1]
             e == ups[k]
             v == edges[e].dest
  <2>1. e \in T /\ UpEdge(edges, levels, n, e)
    BY <1>1
  <2>2. v \in Nodes /\ edges[e].start = n /\ edges[e].dist = D[n][v]
    BY <2>1, <1>2 DEF UpEdge
  <2>3. g[k] = AddNeighbour(f, e)
    BY <1>6
  <2>4. f \in Partial
    BY <1>8 DEF NearOK
  <2>5. /\ g[k] \in Partial
        /\ DOMAIN g[k] = DOMAIN f \cup {v}
        /\ \A h \in DOMAIN f : g[k][h] = f[h]
        /\ v \notin DOMAIN f => g[k][v].dist = edges[e].dist /\ g[k][v].edge = e
    <3> HIDE DEF f, e
    <3> DEFINE w == edges[e].dest
               new == AddNeighbour(f, e)
    <3>1. e \in 1..Len(edges)
      BY <2>1
    <3>2. /\ new \in Partial
          /\ DOMAIN new = DOMAIN f \cup {w}
          /\ \A h \in DOMAIN f : new[h] = f[h]
          /\ w \notin DOMAIN f => new[w].dist = edges[e].dist /\ new[w].edge = e
      BY <3>1, <2>4, <1>2, NeighbourAdded
    <3> HIDE DEF new
    <3> QED BY <3>2, <2>3 DEF new
  <2>6. /\ n \in DOMAIN f /\ f[n].dist = 0
        /\ \A h \in DOMAIN f \ {n} : /\ UpEdge(edges, levels, n, f[h].edge)
                                     /\ edges[f[h].edge].dest = h /\ f[h].dist = D[n][h]
        /\ \A i \in 1..(k - 1) : edges[ups[i]].dest \in DOMAIN f
    BY <1>8 DEF NearOK
  <2>7. ASSUME NEW h \in DOMAIN g[k] \ {n}
        PROVE  /\ UpEdge(edges, levels, n, g[k][h].edge)
               /\ edges[g[k][h].edge].dest = h /\ g[k][h].dist = D[n][h]
    <3>1. CASE h \in DOMAIN f
      BY <3>1, <2>5, <2>6
    <3>2. CASE h \notin DOMAIN f
      <4>1. h = v /\ g[k][h].edge = e /\ g[k][h].dist = edges[e].dist
        BY <3>2, <2>5
      <4> QED BY <4>1, <2>1, <2>2
    <3> QED BY <3>1, <3>2
  <2>8. ASSUME NEW i \in 1..k PROVE edges[ups[i]].dest \in DOMAIN g[k]
    <3>1. i \in 1..(k - 1) \/ i = k
      BY <1>1
    <3> QED BY <3>1, <2>5, <2>6
  <2> QED BY <2>5, <2>6, <2>7, <2>8 DEF NearOK
<1> DEFINE A == {k \in 0..m : NearOK(g[k], D, n, ups, k)}
<1>9. 0..m \subseteq A
  <2>1. 0 \in A /\ \A k \in 1..m : k - 1 \in A => k \in A
    BY <1>1, <1>7, <1>8
  <2> HIDE DEF A
  <2> QED BY <2>1, <1>1, IntervalInduction
<1>10. NearOK(g[m], D, n, ups, m)
  BY <1>1, <1>9
<1> QED BY <1>3, <1>6, <1>10 DEF ups, m

\* The labels f after those of the first k neighbours seq were taken over.
MergeOK(f, D, n, seq, k) ==
  /\ f \in Partial
  /\ n \in DOMAIN f /\ f[n].dist = 0
  /\ \A h \in DOMAIN f \ {n} : Via(f, D, n, h)
  /\ \A i \in 1..Len(seq) : /\ seq[i] \in DOMAIN f
                            /\ edges[f[seq[i]].edge].dest = seq[i]
                            /\ f[seq[i]].dist = D[n][seq[i]]
  /\ \A i \in 1..k : \A c \in Hubs(D, levels, seq[i]) :
       c \in DOMAIN f /\ f[c].dist <= D[n][seq[i]] + D[seq[i]][c]

LEMMA MergeOne ==
  ASSUME NEW D, Hierarchy(D, edges, levels), NEW n \in Nodes, HigherLabelled(D, n),
         NEW seq, Len(seq) \in Nat,
         \A i \in 1..Len(seq) : seq[i] \in Nodes /\ levels[seq[i]] > levels[n],
         NEW k \in 1..Len(seq), NEW f, MergeOK(f, D, n, seq, k - 1)
  PROVE  MergeOK(MergeLabels(f, seq[k]), D, n, seq, k)
<1> DEFINE x == seq[k]
           old == labels[x]
           new == MergeLabels(f, x)
           Sum(h) == f[x].dist + old[h].dist
<1>1. IsMetric(D) /\ \A m \in Nodes : levels[m] \in Nat
  BY NodesFacts DEF Hierarchy
<1>2. x \in Nodes /\ levels[x] > levels[n] /\ x # n
  BY <1>1
<1>3. LabelOK(old, D, edges, levels, x)
  BY <1>2 DEF HigherLabelled
<1>4. /\ old \in Partial /\ DOMAIN old = Hubs(D, levels, x)
      /\ \A h \in DOMAIN old : old[h].dist = D[x][h]
  BY <1>3 DEF LabelOK
<1>5. /\ f \in Partial
      /\ n \in DOMAIN f /\ f[n].dist = 0
      /\ \A h \in DOMAIN f \ {n} : Via(f, D, n, h)
      /\ \A i \in 1..Len(seq) : /\ seq[i] \in DOMAIN f
                                /\ edges[f[seq[i]].edge].dest = seq[i]
                                /\ f[seq[i]].dist = D[n][seq[i]]
      /\ \A i \in 1..(k - 1) : \A c \in Hubs(D, levels, seq[i]) :
           c \in DOMAIN f /\ f[c].dist <= D[n][seq[i]] + D[seq[i]][c]
  BY DEF MergeOK
<1>6. x \in DOMAIN f /\ edges[f[x].edge].dest = x /\ f[x].dist = D[n][x] /\ UpEdge(edges, levels, n, f[x].edge)
  BY <1>2, <1>5 DEF Via
<1>7. \A h \in DOMAIN old : h \in Nodes /\ levels[h] > levels[n] /\ h # n /\ Sum(h) = D[n][x] + D[x][h]
  <2> SUFFICES ASSUME NEW h \in DOMAIN old
               PROVE  h \in Nodes /\ levels[h] > levels[n] /\ h # n /\ Sum(h) = D[n][x] + D[x][h]
    OBVIOUS
  <2>1. h \in Hubs(D, levels, x) /\ h \in Nodes
    BY <1>4 DEF Hubs
  <2>2. levels[h] >= levels[x]
    <3>1. CASE h = x
      BY <3>1, <1>1, <1>2
    <3>2. CASE h # x
      <4>1. levels[x] < levels[h]
        BY <3>2, <2>1, <1>1, <1>2, HubAbove
      <4> QED BY <4>1, <2>1, <1>1, <1>2
    <3> QED BY <3>1, <3>2
  <2>3. levels[h] \in Nat /\ levels[x] \in Nat /\ levels[n] \in Nat
    BY <1>1, <1>2, <2>1
  <2> QED BY <2>1, <2>2, <2>3, <1>2, <1>4, <1>6
<1> HIDE DEF x, old
<1>8. /\ new \in Partial
      /\ DOMAIN new = DOMAIN f \cup DOMAIN old
      /\ \A h \in DOMAIN new :
           \/ /\ h \in DOMAIN f /\ new[h] = f[h]
              /\ h \in DOMAIN old => f[h].dist <= Sum(h)
           \/ /\ h \in DOMAIN old /\ (h \in DOMAIN f => f[h].dist > Sum(h))
              /\ new[h].dist = Sum(h) /\ new[h].edge = f[x].edge
  <2>1. labels[x] \in Partial
    BY <1>4 DEF old
  <2> QED BY <2>1, <1>5, <1>6, LabelsMerged DEF old
<1> HIDE DEF new, Sum
<1>9. n \in DOMAIN new /\ new[n].dist = 0
  BY <1>5, <1>7, <1>8
<1>10. ASSUME NEW h \in DOMAIN new \ {n} PROVE Via(new, D, n, h)
  <2>1. CASE h \in DOMAIN f /\ new[h] = f[h]
    <3>1. Via(f, D, n, h)
      BY <2>1, <1>5
    <3> QED BY <2>1, <3>1 DEF Via
  <2>2. CASE h \in DOMAIN old /\ new[h].dist = Sum(h) /\ new[h].edge = f[x].edge
    <3>1. edges[new[h].edge].dest = x /\ UpEdge(edges, levels, n, new[h].edge)
      BY <2>2, <1>6
    <3>2. h \in Hubs(D, levels, x) /\ new[h].dist = D[n][x] + D[x][h]
      BY <2>2, <1>4, <1>7
    <3> QED BY <3>1, <3>2 DEF Via
  <2> QED BY <2>1, <2>2, <1>8
<1>11. \A h \in DOMAIN f : h \in DOMAIN new /\ new[h].dist <= f[h].dist
  <2> SUFFICES ASSUME NEW h \in DOMAIN f PROVE h \in DOMAIN new /\ new[h].dist <= f[h].dist
    OBVIOUS
  <2>1. h \in DOMAIN new /\ f[h].dist \in Nat /\ new[h].dist \in Nat
    BY <1>5, <1>8, PartialFields
  <2>2. new[h] = f[h] \/ f[h].dist > new[h].dist
    BY <2>1, <1>8
  <2> QED BY <2>1, <2>2
<1>12. \A h \in DOMAIN old : h \in DOMAIN new /\ new[h].dist <= Sum(h)
  <2> SUFFICES ASSUME NEW h \in DOMAIN old PROVE h \in DOMAIN new /\ new[h].dist <= Sum(h)
    OBVIOUS
  <2>1. h \in DOMAIN new /\ new[h].dist \in Nat
    BY <1>8, PartialFields
  <2>2. new[h].dist = Sum(h) \/ new[h].dist <= Sum(h)
    BY <2>1, <1>8
  <2> QED BY <2>1, <2>2
<1>13. ASSUME NEW i \in 1..Len(seq)
       PROVE  /\ seq[i] \in DOMAIN new /\ edges[new[seq[i]].edge].dest = seq[i]
              /\ new[seq[i]].dist = D[n][seq[i]]
  <2> DEFINE y == seq[i]
  <2>1. y \in Nodes /\ y \in DOMAIN f /\ edges[f[y].edge].dest = y /\ f[y].dist = D[n][y]
    BY <1>5
  <2> HIDE DEF y
  <2>2. y \in DOMAIN new
    BY <2>1, <1>8
  <2>3. new[y] = f[y]
    <3> SUFFICES ASSUME y \in DOMAIN old, f[y].dist > Sum(y) PROVE FALSE
      BY <2>1, <2>2, <1>8
    <3> DEFINE nx == D[n][x]  xy == D[x][y]  ny == D[n][y]
    <3>1. nx \in Nat /\ xy \in Nat /\ ny \in Nat /\ ny <= nx + xy /\ ny > nx + xy
      BY <2>1, <1>1, <1>2, <1>7, MetricFacts
    <3> HIDE DEF nx, xy, ny
    <3> QED BY <3>1
  <2> QED BY <2>1, <2>2, <2>3 DEF y
<1>14. ASSUME NEW i \in 1..k, NEW c \in Hubs(D, levels, seq[i])
       PROVE  c \in DOMAIN new /\ new[c].dist <= D[n][seq[i]] + D[seq[i]][c]
  <2>1. CASE i = k
    <3>1. c \in DOMAIN old
      BY <2>1, <1>4 DEF x
    <3>2. c \in DOMAIN new /\ new[c].dist <= Sum(c) /\ Sum(c) = D[n][x] + D[x][c]
      BY <3>1, <1>7, <1>12
    <3> QED BY <2>1, <3>2 DEF x
  <2>2. CASE i # k
    <3>1. i \in 1..(k - 1)
      BY <2>2
    <3> DEFINE y == seq[i]  ny == D[n][y]  yc == D[y][c]  a == f[c].dist  b == new[c].dist
    <3>2. c \in DOMAIN f /\ a <= ny + yc
      BY <3>1, <1>5
    <3>3. c \in DOMAIN new /\ b <= a
      BY <3>2, <1>11
    <3>4. y \in Nodes /\ c \in Nodes
      BY <3>1, <3>2 DEF Hubs
    <3>5. ny \in Nat /\ yc \in Nat
      BY <3>4, <1>1, MetricFacts
    <3>6. a \in Nat /\ b \in Nat
      BY <3>2, <3>3, <1>5, <1>8, PartialFields
    <3> HIDE DEF ny, yc, a, b
    <3>7. b <= ny + yc
      BY <3>2, <3>3, <3>5, <3>6
    <3> QED BY <3>3, <3>7 DEF ny, yc, b
  <2> QED BY <2>1, <2>2
<1>15. MergeOK(new, D, n, seq, k)
  BY <1>8, <1>9, <1>10, <1>13, <1>14 DEF MergeOK
<1> QED BY <1>15 DEF new, x

\* The labels that are found for n before the redundant ones are removed.
Candidates(n) ==
  LET ups == UpwardEdges(n)
  IN  FoldLeft(MergeLabels, DirectLabels(n), [i \in DOMAIN ups |-> edges[ups[i]].dest])

\* They have every hub with its distance; the others are not closer than they are.
CandidatesOK(f, D, n) ==
  /\ f \in Partial
  /\ \A h \in Hubs(D, levels, n) : h \in DOMAIN f /\ f[h].dist = D[n][h]
  /\ \A h \in DOMAIN f : /\ D[n][h] < far /\ f[h].dist >= D[n][h]
                         /\ h # n => levels[h] > levels[n] /\ Via(f, D, n, h)

LEMMA AllMerged ==
  ASSUME NEW D, Hierarchy(D, edges, levels), NEW n \in Nodes, HigherLabelled(D, n)
  PROVE  \E seq : /\ Len(seq) \in Nat
                  /\ \A e : UpEdge(edges, levels, n, e) => \E i \in 1..Len(seq) : seq[i] = edges[e].dest
                  /\ MergeOK(Candidates(n), D, n, seq, Len(seq))
<1> DEFINE ups == UpwardEdges(n)
           m == Len(ups)
           seq == [i \in DOMAIN ups |-> edges[ups[i]].dest]
           base == DirectLabels(n)
           T == {x \in Nodes : levels[x] > levels[n]}
           U == {f \in Partial : T \cap DOMAIN base \subseteq DOMAIN f}
           X == T \cap DOMAIN base
<1>1. IsMetric(D) /\ edges \in Seq(EdgeRecord) /\ \A x \in Nodes : levels[x] \in Nat
  BY NodesFacts DEF Hierarchy
<1>2. /\ ups \in Seq(1..Len(edges)) /\ m \in Nat
      /\ \A i \in 1..m : UpEdge(edges, levels, n, ups[i])
      /\ \A e : UpEdge(edges, levels, n, e) => \E i \in 1..m : ups[i] = e
  BY UpwardFacts
<1>3. NearOK(base, D, n, ups, m)
  BY DirectFound
<1>4. Candidates(n) = Merged(base, seq)
  BY DEF Candidates, Merged
<1> HIDE DEF ups, base
<1>5. seq \in Seq(Nodes) /\ Len(seq) = m /\ \A i \in 1..m : seq[i] = edges[ups[i]].dest /\ seq[i] \in T
  <2>1. DOMAIN ups = 1..m
    BY <1>2
  <2>2. \A i \in 1..m : edges[ups[i]].dest \in T
    BY <1>2 DEF UpEdge
  <2> HIDE DEF m
  <2> QED BY <2>1, <2>2, <1>2
<1>6. /\ base \in Partial
      /\ n \in DOMAIN base /\ base[n].dist = 0
      /\ \A h \in DOMAIN base \ {n} : /\ UpEdge(edges, levels, n, base[h].edge)
                                      /\ edges[base[h].edge].dest = h /\ base[h].dist = D[n][h]
      /\ \A i \in 1..m : edges[ups[i]].dest \in DOMAIN base
  BY <1>3 DEF NearOK
<1> HIDE DEF seq, m
<1>7. seq \in Seq(X)
  <2>1. DOMAIN seq = 1..m
    BY <1>5
  <2>2. \A i \in 1..m : seq[i] \in X
    BY <1>5, <1>6
  <2> HIDE DEF X
  <2> QED BY <2>1, <2>2, <1>5, SeqInto
<1>8. \A x \in T : x \in Nodes /\ x # n /\ levels[x] > levels[n] /\ labels[x] \in Partial
  BY <1>1 DEF HigherLabelled, LabelOK
<1>9. \A acc \in U, x \in X : MergeLabels(acc, x) \in U
  <2> SUFFICES ASSUME NEW acc \in U, NEW x \in X PROVE MergeLabels(acc, x) \in U
    OBVIOUS
  <2>1. acc \in Partial /\ x \in DOMAIN acc /\ labels[x] \in Partial
    BY <1>8
  <2> DEFINE new == MergeLabels(acc, x)
  <2>2. new \in Partial /\ DOMAIN new = DOMAIN acc \cup DOMAIN labels[x]
    <3> HIDE DEF U, X
    <3> QED BY <2>1, LabelsMerged
  <2> HIDE DEF new
  <2>3. new \in U
    BY <2>2
  <2> QED BY <2>3 DEF new
<1>10. base \in U
  BY <1>6
<1>11. PICK g : /\ g[0] = base
                /\ \A k \in 1..m : g[k] = MergeLabels(g[k - 1], seq[k])
                /\ Merged(base, seq) = g[m]
  <2> HIDE DEF U, X
  <2>1. \E g : /\ g[0] = base
               /\ \A k \in 1..Len(seq) : g[k] = MergeLabels(g[k - 1], seq[k])
               /\ Merged(base, seq) = g[Len(seq)]
    BY <1>7, <1>9, <1>10, MergeTurns
  <2> QED BY <2>1, <1>5
<1>12. MergeOK(g[0], D, n, seq, 0)
  <2>1. ASSUME NEW h \in DOMAIN base \ {n} PROVE Via(base, D, n, h)
    <3>1. UpEdge(edges, levels, n, base[h].edge) /\ edges[base[h].edge].dest = h /\ base[h].dist = D[n][h] /\ h \in Nodes
      BY <1>6, PartialFields
    <3>2. h \in Hubs(D, levels, h)
      BY <3>1, <1>1, OwnHub
    <3>3. D[n][h] = D[n][h] + D[h][h]
      <4>1. D[n][h] \in Nat /\ D[h][h] = 0
        BY <3>1, <1>1, MetricFacts
      <4> QED BY <4>1
    <3> QED BY <3>1, <3>2, <3>3 DEF Via
  <2>2. ASSUME NEW i \in 1..Len(seq)
        PROVE  seq[i] \in DOMAIN base /\ edges[base[seq[i]].edge].dest = seq[i] /\ base[seq[i]].dist = D[n][seq[i]]
    <3>1. seq[i] \in DOMAIN base /\ seq[i] # n
      BY <1>5, <1>6, <1>8
    <3> QED BY <3>1, <1>6
  <2> QED BY <2>1, <2>2, <1>6, <1>11 DEF MergeOK
<1>13. ASSUME NEW k \in 1..m, MergeOK(g[k - 1], D, n, seq, k - 1) PROVE MergeOK(g[k], D, n, seq, k)
  <2>1. g[k] = MergeLabels(g[k - 1], seq[k])
    BY <1>11
  <2> DEFINE f == g[k - 1]
  <2>2. MergeOK(f, D, n, seq, k - 1) /\ k \in 1..Len(seq)
    BY <1>13, <1>5
  <2>3. Len(seq) \in Nat /\ \A i \in 1..Len(seq) : seq[i] \in Nodes /\ levels[seq[i]] > levels[n]
    BY <1>2, <1>5
  <2> HIDE DEF f
  <2>4. MergeOK(MergeLabels(f, seq[k]), D, n, seq, k)
    BY <2>2, <2>3, MergeOne
  <2> QED BY <2>1, <2>4 DEF f
<1> DEFINE A == {k \in 0..m : MergeOK(g[k], D, n, seq, k)}
<1>14. 0..m \subseteq A
  <2>1. 0 \in A /\ \A k \in 1..m : k - 1 \in A => k \in A
    BY <1>2, <1>12, <1>13
  <2> HIDE DEF A
  <2> QED BY <2>1, <1>2, IntervalInduction
<1>15. MergeOK(g[m], D, n, seq, m)
  BY <1>2, <1>14
<1>16. \A e : UpEdge(edges, levels, n, e) => \E i \in 1..Len(seq) : seq[i] = edges[e].dest
  BY <1>2, <1>5
<1> QED BY <1>2, <1>4, <1>5, <1>11, <1>15, <1>16

LEMMA CandidatesFound ==
  ASSUME NEW D, Hierarchy(D, edges, levels), NEW n \in Nodes, HigherLabelled(D, n)
  PROVE  CandidatesOK(Candidates(n), D, n)
<1> DEFINE f == Candidates(n)
<1>1. IsMetric(D) /\ edges \in Seq(EdgeRecord) /\ \A x \in Nodes : levels[x] \in Nat
  BY NodesFacts DEF Hierarchy
<1>2. PICK seq : /\ Len(seq) \in Nat
                 /\ \A e : UpEdge(edges, levels, n, e) => \E i \in 1..Len(seq) : seq[i] = edges[e].dest
                 /\ MergeOK(f, D, n, seq, Len(seq))
  BY AllMerged
<1> HIDE DEF f
<1>3. /\ f \in Partial
      /\ n \in DOMAIN f /\ f[n].dist = 0
      /\ \A h \in DOMAIN f \ {n} : Via(f, D, n, h)
      /\ \A i \in 1..Len(seq) : \A c \in Hubs(D, levels, seq[i]) :
           c \in DOMAIN f /\ f[c].dist <= D[n][seq[i]] + D[seq[i]][c]
  BY <1>2 DEF MergeOK
<1>4. ASSUME NEW h \in DOMAIN f
      PROVE  /\ D[n][h] < far /\ f[h].dist >= D[n][h]
             /\ h # n => levels[h] > levels[n] /\ Via(f, D, n, h)
  <2>1. CASE h = n
    <3>1. D[n][n] = 0 /\ far > 0
      BY <1>1, MetricFacts
    <3> QED BY <2>1, <3>1, <1>3
  <2>2. CASE h # n
    <3> DEFINE x == edges[f[h].edge].dest
               nx == D[n][x]  xh == D[x][h]  nh == D[n][h]  d == f[h].dist
    <3>1. Via(f, D, n, h) /\ h \in Nodes
      BY <2>2, <1>3, PartialFields
    <3>2. x \in Nodes /\ levels[x] > levels[n] /\ h \in Hubs(D, levels, x) /\ d = nx + xh /\ nx < far
      BY <3>1 DEF Via, UpEdge, Hierarchy
    <3> HIDE DEF x
    <3>3. xh < far /\ (h # x => levels[h] > levels[x])
      BY <3>1, <3>2, <1>1, HubAbove DEF Hubs, IsHub
    <3>4. nh < far
      BY <3>1, <3>2, <3>3 DEF Hierarchy
    <3>5. nx \in Nat /\ xh \in Nat /\ nh \in Nat /\ nh <= nx + xh
      BY <3>1, <3>2, <1>1, MetricFacts
    <3>6. levels[h] > levels[n]
      <4>1. levels[h] \in Nat /\ levels[x] \in Nat /\ levels[n] \in Nat
        BY <1>1, <3>1, <3>2
      <4> QED BY <4>1, <3>2, <3>3
    <3> HIDE DEF nx, xh, nh, d
    <3>7. d >= nh
      BY <3>2, <3>5
    <3> QED BY <3>1, <3>4, <3>6, <3>7 DEF d, nh
  <2> QED BY <2>1, <2>2
<1>5. ASSUME NEW h \in Hubs(D, levels, n) PROVE h \in DOMAIN f /\ f[h].dist = D[n][h]
  <2>1. CASE h = n
    <3>1. D[n][n] = 0
      BY <1>1, MetricFacts
    <3> QED BY <2>1, <3>1, <1>3
  <2>2. CASE h # n
    <3>1. PICK e \in 1..Len(edges) :
            /\ edges[e].start = n /\ edges[e].dest \in Nodes /\ levels[edges[e].dest] > levels[n]
            /\ OnPath(D, n, edges[e].dest, h) /\ h \in Hubs(D, levels, edges[e].dest)
      BY <2>2, HubStep
    <3> DEFINE x == edges[e].dest
               nx == D[n][x]  xh == D[x][h]  nh == D[n][h]  d == f[h].dist
    <3>2. UpEdge(edges, levels, n, e) /\ x \in Nodes /\ h \in Nodes
      BY <3>1 DEF UpEdge, Hubs
    <3>3. PICK i \in 1..Len(seq) : seq[i] = x
      BY <3>2, <1>2
    <3>4. h \in DOMAIN f /\ d <= nx + xh /\ nx + xh = nh
      BY <3>1, <3>3, <1>3 DEF OnPath
    <3> HIDE DEF x
    <3>5. nx \in Nat /\ xh \in Nat /\ nh \in Nat
      BY <3>2, <1>1, MetricFacts
    <3>6. d \in Nat /\ d >= nh
      BY <3>4, <1>3, <1>4, PartialFields
    <3> HIDE DEF nx, xh, nh, d
    <3>7. d = nh
      BY <3>4, <3>5, <3>6
    <3> QED BY <3>4, <3>7 DEF d, nh
  <2> QED BY <2>1, <2>2
<1>6. CandidatesOK(f, D, n)
  BY <1>3, <1>4, <1>5 DEF CandidatesOK
<1> QED BY <1>6 DEF f

\* The labels f, of those found, after the first k hubs seq were looked at.
DropOK(f, found, D, n, seq, k) ==
  /\ f \in Partial
  /\ DOMAIN f \subseteq DOMAIN found /\ \A h \in DOMAIN f : f[h] = found[h]
  /\ Hubs(D, levels, n) \subseteq DOMAIN f
  /\ \A i \in 1..k : seq[i] \in DOMAIN f => seq[i] \in Hubs(D, levels, n)

\* A hub is not redundant: its own labels lie above it.
LEMMA HubStays ==
  ASSUME NEW D, Hierarchy(D, edges, levels), NEW n \in Nodes, HigherLabelled(D, n),
         NEW found, CandidatesOK(found, D, n), NEW f \in Partial,
         DOMAIN f \subseteq DOMAIN found, \A g \in DOMAIN f : f[g] = found[g],
         NEW h \in Hubs(D, levels, n), h # n, h \in DOMAIN f
  PROVE  ~isRedundant(f, h)
<1>1. IsMetric(D) /\ \A x \in Nodes : levels[x] \in Nat
  BY NodesFacts DEF Hierarchy
<1>2. h \in Nodes /\ levels[h] > levels[n] /\ IsHub(D, levels, n, h)
  BY <1>1, HubAbove DEF Hubs
<1>3. LabelOK(labels[h], D, edges, levels, h)
  BY <1>2 DEF HigherLabelled
<1> SUFFICES ASSUME NEW c \in DOMAIN labels[h] \cap DOMAIN f, c # h,
                    f[c].dist + labels[h][c].dist <= f[h].dist
             PROVE  FALSE
  BY DEF isRedundant
<1> DEFINE nc == D[n][c]  ch == D[c][h]  nh == D[n][h]  a == f[c].dist
<1>4. c \in Hubs(D, levels, h) /\ labels[h][c].dist = D[h][c] /\ c \in Nodes
  BY <1>3 DEF LabelOK, Hubs
<1>5. levels[h] < levels[c]
  BY <1>1, <1>2, <1>4, HubAbove
<1>6. f[h].dist = nh /\ a >= nc /\ a \in Nat
  BY PartialFields DEF CandidatesOK
<1>7. D[h][c] = ch /\ ch \in Nat /\ nc \in Nat /\ nh \in Nat /\ nh <= nc + ch
  BY <1>1, <1>2, <1>4, MetricFacts
<1>8. a + ch <= nh
  BY <1>4, <1>6, <1>7
<1> HIDE DEF nc, ch, nh, a
<1>9. nc + ch = nh
  BY <1>6, <1>7, <1>8
<1>10. OnPath(D, n, c, h)
  BY <1>9 DEF OnPath, nc, ch, nh
<1>11. levels[c] < levels[h]
  BY <1>2, <1>4, <1>10 DEF IsHub
<1>12. levels[c] \in Nat /\ levels[h] \in Nat
  BY <1>1, <1>2, <1>4
<1> QED BY <1>5, <1>11, <1>12

\* What is not a hub is redundant: a common hub lies on a shortest path to it.
LEMMA OtherGoes ==
  ASSUME NEW D, Hierarchy(D, edges, levels), NEW n \in Nodes, HigherLabelled(D, n),
         NEW found, CandidatesOK(found, D, n), NEW f \in Partial,
         DOMAIN f \subseteq DOMAIN found, \A g \in DOMAIN f : f[g] = found[g],
         Hubs(D, levels, n) \subseteq DOMAIN f,
         NEW h \in DOMAIN f, h \notin Hubs(D, levels, n)
  PROVE  h # n /\ isRedundant(f, h)
<1>1. IsMetric(D)
  BY DEF Hierarchy
<1>2. h # n /\ h \in Nodes
  BY <1>1, OwnHub, PartialFields
<1>3. f[h] = found[h] /\ f[h].dist \in Nat /\ D[n][h] < far /\ f[h].dist >= D[n][h] /\ levels[h] > levels[n]
  BY <1>2, PartialFields DEF CandidatesOK
<1>4. PICK c \in Nodes : OnPath(D, n, c, h) /\ c \in Hubs(D, levels, n) /\ c \in Hubs(D, levels, h)
  BY <1>2, <1>3, CommonHub
<1>5. LabelOK(labels[h], D, edges, levels, h)
  BY <1>2, <1>3 DEF HigherLabelled
<1>6. c \in DOMAIN labels[h] /\ labels[h][c].dist = D[h][c] /\ c # h /\ c \in DOMAIN f
  BY <1>4, <1>5 DEF LabelOK
<1>7. f[c].dist = D[n][c]
  BY <1>4, <1>6 DEF CandidatesOK
<1> DEFINE nc == D[n][c]  ch == D[c][h]  nh == D[n][h]  d == f[h].dist
<1>8. nc \in Nat /\ ch \in Nat /\ nh \in Nat /\ D[h][c] = ch /\ nc + ch = nh /\ d \in Nat /\ d >= nh
  BY <1>1, <1>2, <1>3, <1>4, MetricFacts DEF OnPath
<1>9. nc + ch <= d
  <2> HIDE DEF nc, ch, nh, d
  <2> QED BY <1>8
<1>10. f[c].dist + labels[h][c].dist <= f[h].dist
  BY <1>6, <1>7, <1>8, <1>9
<1> QED BY <1>2, <1>6, <1>10 DEF isRedundant

\* calcLabels gives a node its hubs, with the distances and first edges.
LEMMA LabelsFound ==
  ASSUME NEW D, Hierarchy(D, edges, levels), NEW n \in Nodes, HigherLabelled(D, n)
  PROVE  LabelOK(LabelsOf(n), D, edges, levels, n)
<1> DEFINE found == Candidates(n)
           S == DOMAIN found
           seq == InOrder(S)
           m == Cardinality(S)
<1>1. LabelsOf(n) = Thinned(found, seq, n)
  BY DEF LabelsOf, Candidates, WithoutRedundancies, Thinned, DropHub
<1>2. CandidatesOK(found, D, n)
  BY CandidatesFound
<1> HIDE DEF found
<1>3. found \in Partial /\ S \in SUBSET Nodes /\ S \in SUBSET Nat /\ IsFiniteSet(S)
  <2>1. found \in Partial /\ S \in SUBSET Nodes
    BY <1>2, PartialFields DEF CandidatesOK
  <2> QED BY <2>1, NodesFacts, FS_Subset
<1> HIDE DEF S
<1>4. m \in Nat /\ seq \in [1..m -> S] /\ \A h \in S : \E k \in 1..m : seq[k] = h
  BY <1>3, InOrderFacts
<1> HIDE DEF seq, m
<1>5. seq \in Seq(S) /\ Len(seq) = m
  BY <1>4
<1>6. DropClosed(Partial, S, n)
  BY HubDropped DEF DropClosed
<1>7. PICK g : /\ g[0] = found
               /\ \A k \in 1..m : g[k] = DropHub(g[k - 1], seq[k], n)
               /\ Thinned(found, seq, n) = g[m]
  <2>1. \E g : /\ g[0] = found
               /\ \A k \in 1..Len(seq) : g[k] = DropHub(g[k - 1], seq[k], n)
               /\ Thinned(found, seq, n) = g[Len(seq)]
    <3>1. found \in Partial /\ seq \in Seq(S)
      BY <1>3, <1>5
    <3> QED BY <3>1, <1>6, DropTurns
  <2> QED BY <2>1, <1>5
<1>8. DropOK(g[0], found, D, n, seq, 0)
  BY <1>2, <1>3, <1>7 DEF DropOK, CandidatesOK
<1>9. ASSUME NEW k \in 1..m, DropOK(g[k - 1], found, D, n, seq, k - 1)
      PROVE  DropOK(g[k], found, D, n, seq, k)
  <2> DEFINE f == g[k - 1]
             h == seq[k]
             new == DropHub(f, h, n)
  <2>1. g[k] = new
    BY <1>7
  <2>2. /\ f \in Partial
        /\ DOMAIN f \subseteq DOMAIN found /\ \A x \in DOMAIN f : f[x] = found[x]
        /\ Hubs(D, levels, n) \subseteq DOMAIN f
        /\ \A i \in 1..(k - 1) : seq[i] \in DOMAIN f => seq[i] \in Hubs(D, levels, n)
    BY <1>9 DEF DropOK
  <2> HIDE DEF f, h
  <2>3. /\ new \in Partial
        /\ DOMAIN new = IF h # n /\ isRedundant(f, h) THEN DOMAIN f \ {h} ELSE DOMAIN f
        /\ \A x \in DOMAIN new : new[x] = f[x]
    <3>1. f \in Partial
      BY <2>2
    <3> QED BY <3>1, HubDropped
  <2> HIDE DEF new
  <2>4. h \in Hubs(D, levels, n) /\ h # n => ~isRedundant(f, h)
    BY <2>2, <1>2, HubStays
  <2>5. h \in DOMAIN f /\ h \notin Hubs(D, levels, n) => h # n /\ isRedundant(f, h)
    BY <2>2, <1>2, OtherGoes
  <2>6. DOMAIN new \subseteq DOMAIN f /\ \A x \in DOMAIN new : new[x] = found[x]
    BY <2>2, <2>3
  <2>7. Hubs(D, levels, n) \subseteq DOMAIN new
    BY <2>2, <2>3, <2>4
  <2>8. ASSUME NEW i \in 1..k, seq[i] \in DOMAIN new PROVE seq[i] \in Hubs(D, levels, n)
    <3>1. CASE i = k
      <4>1. h \in DOMAIN new
        BY <2>8, <3>1 DEF h
      <4>2. h \in Hubs(D, levels, n)
        BY <4>1, <2>3, <2>5
      <4> QED BY <3>1, <4>2 DEF h
    <3>2. CASE i # k
      <4>1. i \in 1..(k - 1)
        BY <3>2
      <4> QED BY <4>1, <2>2, <2>6, <2>8
    <3> QED BY <3>1, <3>2
  <2>9. DropOK(new, found, D, n, seq, k)
    BY <2>2, <2>3, <2>6, <2>7, <2>8 DEF DropOK
  <2> QED BY <2>1, <2>9
<1> DEFINE A == {k \in 0..m : DropOK(g[k], found, D, n, seq, k)}
<1>10. 0..m \subseteq A
  <2>1. 0 \in A /\ \A k \in 1..m : k - 1 \in A => k \in A
    BY <1>4, <1>8, <1>9
  <2> HIDE DEF A
  <2> QED BY <2>1, <1>4, IntervalInduction
<1> DEFINE f == g[m]
<1>11. DropOK(f, found, D, n, seq, m)
  BY <1>4, <1>10
<1> HIDE DEF f
<1>12. f \in Partial /\ DOMAIN f = Hubs(D, levels, n) /\ \A h \in DOMAIN f : f[h] = found[h]
  <2>1. ASSUME NEW h \in DOMAIN f PROVE h \in Hubs(D, levels, n)
    <3>1. h \in S
      BY <1>11 DEF DropOK, S
    <3>2. PICK k \in 1..m : seq[k] = h
      BY <3>1, <1>4
    <3> QED BY <3>2, <1>11, <2>1 DEF DropOK
  <2> QED BY <2>1, <1>11 DEF DropOK
<1>13. \A h \in DOMAIN f : f[h].dist = D[n][h]
  BY <1>2, <1>12 DEF CandidatesOK
<1>14. ASSUME NEW h \in DOMAIN f \ {n}
       PROVE  /\ UpEdge(edges, levels, n, f[h].edge)
              /\ h \in Hubs(D, levels, edges[f[h].edge].dest)
              /\ OnPath(D, n, edges[f[h].edge].dest, h)
  <2>1. f[h] = found[h] /\ h \in DOMAIN found
    BY <1>11, <1>12 DEF DropOK
  <2>2. Via(found, D, n, h)
    BY <2>1, <1>2 DEF CandidatesOK
  <2> QED BY <2>1, <2>2, <1>13 DEF Via, OnPath
<1>15. LabelOK(f, D, edges, levels, n)
  BY <1>12, <1>13, <1>14 DEF LabelOK
<1> QED BY <1>1, <1>7, <1>15 DEF f
------------------------------------------------------------------------------
\* What can be reached from a place within reach is within reach.
LEMMA Joined ==
  ASSUME NEW g \in Grids, NEW D, D = AllDistances[g],
         NEW u \in Nodes, NEW v \in Nodes, NEW w \in Nodes, D[u][v] < far, D[v][w] < far
  PROVE  D[u][w] < far
<1>1. AreDistances(g, Nodes, far, D) /\ IsMetric(D) /\ IsGraph(g, Nodes) /\ far \in Nat
  BY GridMetric, GridGraph, HierarchyAssumption
<1> SUFFICES ASSUME ~(D[u][w] < far) PROVE FALSE
  OBVIOUS
<1> DEFINE Ways == {x \in Nodes : D[u][x] < far /\ D[x][w] < far}
           Lengths == {D[x][w] : x \in Ways}
<1>2. Lengths \in SUBSET Nat /\ Lengths # {}
  <2>1. v \in Ways /\ D[v][w] \in Lengths
    OBVIOUS
  <2>2. \A x \in Ways : D[x][w] \in Nat
    BY <1>1, MetricFacts
  <2> HIDE DEF Ways
  <2> QED BY <2>1, <2>2
<1>3. PICK d \in Lengths : \A k \in Lengths : d <= k
  <2> HIDE DEF Lengths
  <2> QED BY <1>2, LeastMember
<1>4. PICK x \in Nodes : D[u][x] < far /\ D[x][w] < far /\ d = D[x][w]
  BY <1>3
<1>5. x # w
  BY <1>4
<1>6. PICK i \in DOMAIN g[x] : g[x][i].dist + D[g[x][i].dest][w] = D[x][w]
  BY <1>1, <1>4, <1>5, FirstEdge
<1> DEFINE y == g[x][i].dest
           yw == D[y][w]  xw == D[x][w]  a == g[x][i].dist
<1>7. y \in Nodes /\ a \in Nat /\ a > 0
  BY GridGraph
<1>8. D[u][y] < far
  BY <1>4, FarAssumption
<1>9. a + yw = xw /\ yw \in Nat /\ xw \in Nat /\ xw < far /\ far \in Nat
  BY <1>1, <1>4, <1>6, <1>7, MetricFacts
<1>10. yw < xw /\ yw < far
  <2> HIDE DEF yw, xw, a
  <2> QED BY <1>7, <1>9
<1>11. yw \in Lengths
  BY <1>7, <1>8, <1>10
<1>12. xw <= yw
  BY <1>3, <1>4, <1>11
<1> HIDE DEF yw, xw
<1> QED BY <1>9, <1>10, <1>12

\* The finished hierarchy is one that labels can be built on.
LEMMA HierarchyReady ==
  ASSUME CHInv, DistanceInv, CHDone
  PROVE  Hierarchy(AllDistances[grid], edges, levels)
<1> DEFINE D == AllDistances[grid]
<1>1. /\ grid \in Grids /\ FromGrid(grid, edges, numOfOriginalEdges)
      /\ EdgesMeasured(edges, numOfOriginalEdges, D) /\ PathsRise(edges, D, levels)
  BY DEF DistanceInv
<1>2. IsMetric(D)
  BY <1>1, GridMetric
<1>3. \A u, v, w \in Nodes : D[u][v] < far /\ D[v][w] < far => D[u][w] < far
  BY <1>1, Joined
<1>4. \A u, v \in Nodes : \A k \in DOMAIN grid[v] :
         /\ D[u][v] < far => D[u][grid[v][k].dest] < far
         /\ grid[v][k].dist = D[v][grid[v][k].dest]
  BY <1>1, FarAssumption, TriangleAssumption
<1> HIDE DEF D
<1>5. edges \in Seq(EdgeRecord) /\ numOfOriginalEdges \in 0..Len(edges)
  BY DEF CHInv, EdgesOK
<1>6. levels \in [Nodes -> 0..Cardinality(Nodes)] /\ \A m \in Nodes : levels[m] # -1
  <2>1. levels \in [Nodes -> -1..Cardinality(Nodes)] /\ \A m \in Nodes : levels[m] # -1
    BY DEF CHInv, LevelsOK, CHDone, Contracted
  <2>2. \A m \in Nodes : levels[m] \in 0..Cardinality(Nodes)
    BY <2>1, NodesFacts
  <2> QED BY <2>1, <2>2
<1>7. \A e \in 1..Len(edges) : levels[edges[e].start] # levels[edges[e].dest]
  BY <1>5, <1>6, EdgeFields DEF CHInv, LevelsAreIndependent, EdgeIds
<1> DEFINE Short(e) == \A u \in Nodes : D[u][edges[e].start] < far => D[u][edges[e].dest] < far
<1>8. ASSUME NEW e \in 1..Len(edges), e <= numOfOriginalEdges
      PROVE  Short(e) /\ edges[e].dist = D[edges[e].start][edges[e].dest]
  <2>1. PICK i \in DOMAIN grid[edges[e].start] :
          /\ grid[edges[e].start][i].dest = edges[e].dest
          /\ grid[edges[e].start][i].dist = edges[e].dist
    BY <1>1, <1>5, <1>8 DEF FromGrid
  <2>2. edges[e].start \in Nodes
    BY <1>5, EdgeFields
  <2> QED BY <2>1, <2>2, <1>4
<1>9. ASSUME NEW e \in 1..Len(edges) PROVE Short(e)
  <2> DEFINE Bad == {f \in 1..Len(edges) : ~Short(f)}
  <2>1. SUFFICES ASSUME Bad # {} PROVE FALSE
    OBVIOUS
  <2>2. Bad \in SUBSET Nat
    BY <1>5, EdgeFields
  <2>3. PICK f \in Bad : \A k \in Bad : f <= k
    <3> HIDE DEF Bad
    <3> QED BY <2>1, <2>2, LeastMember
  <2>4. f \in 1..Len(edges) /\ ~Short(f) /\ Len(edges) \in Nat
    BY <2>3, <1>5, EdgeFields
  <2>5. f > numOfOriginalEdges
    BY <2>4, <1>5, <1>8
  <2> DEFINE p == edges[f].parts[2]
             q == edges[f].parts[1]
  <2>6. /\ p \in 1..(f - 1) /\ q \in 1..(f - 1)
        /\ edges[p].start = edges[f].start /\ edges[q].dest = edges[f].dest
        /\ edges[p].dest = edges[q].start
    BY <2>4, <2>5 DEF CHInv, ShortcutsUnpack, getFirstShortcut, getSecondShortcut, EdgeIds
  <2> HIDE DEF p, q
  <2>7. p \in 1..Len(edges) /\ q \in 1..Len(edges) /\ ~(f <= p) /\ ~(f <= q)
    BY <2>4, <2>6
  <2>8. Short(p) /\ Short(q)
    BY <2>3, <2>7
  <2> QED BY <2>4, <2>6, <2>8
<1>10. ASSUME NEW e \in 1..Len(edges)
       PROVE  /\ edges[e].dist = D[edges[e].start][edges[e].dest]
              /\ D[edges[e].start][edges[e].dest] < far
  <2>1. edges[e].start \in Nodes /\ edges[e].dest \in Nodes
    BY <1>5, EdgeFields
  <2>2. D[edges[e].start][edges[e].start] < far
    BY <2>1, <1>2, MetricFacts
  <2>3. D[edges[e].start][edges[e].dest] < far
    BY <2>1, <2>2, <1>9
  <2>4. CASE e <= numOfOriginalEdges
    BY <2>3, <2>4, <1>8
  <2>5. CASE e > numOfOriginalEdges
    BY <2>3, <2>5, <1>1 DEF EdgesMeasured, D
  <2> QED BY <2>4, <2>5, <1>5
<1>11. Hierarchy(D, edges, levels)
  BY <1>1, <1>2, <1>3, <1>5, <1>6, <1>7, <1>10 DEF Hierarchy, D
<1> QED BY <1>11 DEF D
------------------------------------------------------------------------------
\* ord lists the nodes by falling level.
Falling(ord, lv) ==
  /\ ord \in [1..Cardinality(Nodes) -> Nodes]
  /\ \A n \in Nodes : \E i \in 1..Cardinality(Nodes) : ord[i] = n
  /\ \A i, j \in 1..Cardinality(Nodes) : i <= j => lv[ord[i]] >= lv[ord[j]]

\* The levels begin in ord where gs says; the last of them is level 0.
Grouped(ord, gs, lv) ==
  LET N == Cardinality(Nodes)
      K == Len(gs)
  IN  /\ Falling(ord, lv)
      /\ K \in Nat /\ K >= 2 /\ gs \in [1..K -> 1..(N + 1)]
      /\ gs[1] = 1 /\ gs[K] = N + 1
      /\ \A j \in 1..(K - 1) : gs[j] < gs[j + 1]
      /\ \A j \in 1..(K - 1) : \A i \in gs[j]..(gs[j + 1] - 1) : lv[ord[i]] = K - 1 - j

LEMMA OrderFalls ==
  ASSUME \A n \in Nodes : levels[n] \in Nat
  PROVE  Falling(ByLevel, levels)
<1> DEFINE R == {p \in Nodes \X Nodes : \/ levels[p[1]] > levels[p[2]]
                                        \/ levels[p[1]] = levels[p[2]] /\ p[1] <= p[2]}
           place == [n \in Nodes |-> Cardinality({m \in Nodes : <<m, n>> \in R})]
           N == Cardinality(Nodes)
<1>1. \A x, y \in Nodes : <<x, y>> \in R <=> levels[x] > levels[y] \/ (levels[x] = levels[y] /\ x <= y)
  OBVIOUS
<1> HIDE DEF R
<1>2. ByLevel = Arranged(Nodes, place)
  <2>1. \A n \in Nodes : {m \in Nodes : levels[m] > levels[n] \/ (levels[m] = levels[n] /\ m <= n)}
                          = {m \in Nodes : <<m, n>> \in R}
    BY <1>1
  <2>2. place = [n \in Nodes |-> Cardinality({m \in Nodes : levels[m] > levels[n] \/ (levels[m] = levels[n] /\ m <= n)})]
    BY <2>1
  <2> HIDE DEF place
  <2> QED BY <2>2 DEF ByLevel
<1>3. /\ \A x \in Nodes : <<x, x>> \in R
      /\ \A x, y \in Nodes : <<x, y>> \in R \/ <<y, x>> \in R
      /\ \A x, y \in Nodes : <<x, y>> \in R /\ <<y, x>> \in R => x = y
      /\ \A x, y, z \in Nodes : <<x, y>> \in R /\ <<y, z>> \in R => <<x, z>> \in R
  <2>1. \A x \in Nodes : x \in Nat /\ levels[x] \in Nat
    BY NodesFacts
  <2>2. \A x \in Nodes : <<x, x>> \in R
    BY <2>1, <1>1
  <2>3. ASSUME NEW x \in Nodes, NEW y \in Nodes PROVE <<x, y>> \in R \/ <<y, x>> \in R
    <3> DEFINE a == levels[x]  b == levels[y]
    <3>1. a \in Nat /\ b \in Nat /\ x \in Nat /\ y \in Nat
      BY <2>1
    <3>2. a > b \/ (a = b /\ x <= y) \/ b > a \/ (b = a /\ y <= x)
      <4> HIDE DEF a, b
      <4> QED BY <3>1
    <3> QED BY <3>2, <1>1
  <2>4. ASSUME NEW x \in Nodes, NEW y \in Nodes, <<x, y>> \in R, <<y, x>> \in R PROVE x = y
    <3> DEFINE a == levels[x]  b == levels[y]
    <3>1. /\ a \in Nat /\ b \in Nat /\ x \in Nat /\ y \in Nat
          /\ a > b \/ (a = b /\ x <= y)
          /\ b > a \/ (b = a /\ y <= x)
      BY <2>1, <2>4, <1>1
    <3> HIDE DEF a, b
    <3> QED BY <3>1
  <2>5. ASSUME NEW x \in Nodes, NEW y \in Nodes, NEW z \in Nodes, <<x, y>> \in R, <<y, z>> \in R
        PROVE  <<x, z>> \in R
    <3> DEFINE a == levels[x]  b == levels[y]  c == levels[z]
    <3>1. /\ a \in Nat /\ b \in Nat /\ c \in Nat /\ x \in Nat /\ y \in Nat /\ z \in Nat
          /\ a > b \/ (a = b /\ x <= y)
          /\ b > c \/ (b = c /\ y <= z)
      BY <2>1, <2>5, <1>1
    <3>2. a > c \/ (a = c /\ x <= z)
      <4> HIDE DEF a, b, c
      <4> QED BY <3>1
    <3> QED BY <3>2, <1>1
  <2> QED BY <2>2, <2>3, <2>4, <2>5
<1>4. /\ place \in [Nodes -> 1..N]
      /\ \A x, y \in Nodes : place[x] = place[y] => x = y
      /\ \A x, y \in Nodes : place[x] <= place[y] <=> <<x, y>> \in R
  <2>1. place = [x \in Nodes |-> Cardinality({y \in Nodes : <<y, x>> \in R})]
    OBVIOUS
  <2>2. IsFiniteSet(Nodes)
    BY NodesFacts
  <2> HIDE DEF place
  <2> QED BY <2>1, <2>2, <1>3, TotalOrderPlaces
<1> HIDE DEF place
<1>5. /\ ByLevel \in [1..N -> Nodes]
      /\ \A x \in Nodes : ByLevel[place[x]] = x
      /\ \A k \in 1..N : place[ByLevel[k]] = k
  BY <1>2, <1>4, NodesFacts, ArrangedInverts
<1>6. ASSUME NEW i \in 1..N, NEW j \in 1..N, i <= j PROVE levels[ByLevel[i]] >= levels[ByLevel[j]]
  <2> DEFINE x == ByLevel[i]  y == ByLevel[j]
  <2>1. x \in Nodes /\ y \in Nodes /\ place[x] <= place[y]
    BY <1>5, <1>6
  <2> HIDE DEF x, y
  <2>2. <<x, y>> \in R
    BY <2>1, <1>4
  <2>3. levels[x] > levels[y] \/ levels[x] = levels[y]
    BY <2>1, <2>2, <1>1
  <2>4. levels[x] \in Nat /\ levels[y] \in Nat
    BY <2>1
  <2>5. levels[x] >= levels[y]
    BY <2>3, <2>4
  <2> QED BY <2>5 DEF x, y
<1>7. \A n \in Nodes : \E i \in 1..N : ByLevel[i] = n
  BY <1>4, <1>5
<1> QED BY <1>5, <1>6, <1>7 DEF Falling

LEMMA GroupsFall ==
  ASSUME levels \in [Nodes -> 0..Cardinality(Nodes)], LevelsFilled(levels),
         NEW ord, Falling(ord, levels)
  PROVE  Grouped(ord, ChangeIndices(ord), levels)
<1> DEFINE N == Cardinality(Nodes)
           G == {1, N + 1} \cup {i \in 2..N : levels[ord[i]] < levels[ord[i - 1]]}
           gs == InOrder(G)
           K == Cardinality(G)
           at == [i \in 1..N |-> levels[ord[i]]]
<1>1. /\ ord \in [1..N -> Nodes] /\ N \in Nat /\ N >= 1
      /\ \A n \in Nodes : \E i \in 1..N : ord[i] = n
  BY NodesFacts DEF Falling
<1>2. /\ at \in [1..N -> Nat]
      /\ \A i \in 1..N : at[i] = levels[ord[i]]
      /\ \A i, j \in 1..N : i <= j => at[i] >= at[j]
  BY <1>1 DEF Falling
<1> HIDE DEF N, at
<1>3. ChangeIndices(ord) = gs
  <2>1. Len(ord) = N
    BY <1>1
  <2> QED BY <2>1 DEF ChangeIndices
<1>4. G \in SUBSET (1..(N + 1)) /\ G \in SUBSET Nat /\ IsFiniteSet(G) /\ 1 \in G /\ N + 1 \in G
  <2>1. G \in SUBSET (1..(N + 1)) /\ 1 \in G /\ N + 1 \in G
    BY <1>1
  <2> HIDE DEF G
  <2>2. IsFiniteSet(1..(N + 1))
    BY <1>1, FS_Interval
  <2>3. IsFiniteSet(G)
    BY <2>1, <2>2, FS_Subset
  <2> QED BY <2>1, <2>3, <1>1
<1>5. \A i \in 2..N : i \notin G => at[i] = at[i - 1]
  <2> SUFFICES ASSUME NEW i \in 2..N, i \notin G PROVE at[i] = at[i - 1]
    OBVIOUS
  <2>1. i \in 1..N /\ i - 1 \in 1..N /\ i - 1 <= i
    BY <1>1
  <2>2. ~(at[i] < at[i - 1])
    BY <2>1, <1>2
  <2>3. at[i - 1] >= at[i] /\ at[i] \in Nat /\ at[i - 1] \in Nat
    BY <2>1, <1>2
  <2> QED BY <2>2, <2>3
<1>6. \A i \in G : i \in 2..N => at[i] < at[i - 1]
  <2> SUFFICES ASSUME NEW i \in G, i \in 2..N PROVE at[i] < at[i - 1]
    OBVIOUS
  <2>1. i - 1 \in 1..N /\ i \in 1..N /\ i # 1 /\ i # N + 1
    BY <1>1
  <2> QED BY <2>1, <1>2
<1> HIDE DEF G
<1>7. /\ K \in Nat /\ gs \in [1..K -> G]
      /\ \A x \in G : \E k \in 1..K : gs[k] = x
      /\ \A k, l \in 1..K : k < l => gs[k] < gs[l]
  BY <1>4, InOrderFacts
<1> HIDE DEF K, gs
<1>8. Len(gs) = K /\ gs \in [1..K -> 1..(N + 1)] /\ \A k \in 1..K : gs[k] \in G /\ gs[k] \in 1..(N + 1)
  <2> DEFINE Z == 1..(N + 1)
  <2>1. gs \in [1..K -> Z] /\ \A k \in 1..K : gs[k] \in G /\ gs[k] \in Z
    BY <1>4, <1>7
  <2> HIDE DEF Z
  <2>2. Len(gs) = K
    BY <2>1, <1>7
  <2> QED BY <2>1, <2>2 DEF Z
<1>9. K >= 2 /\ gs[1] = 1 /\ gs[K] = N + 1
  <2>1. PICK a \in 1..K : gs[a] = 1
    BY <1>4, <1>7
  <2>2. PICK b \in 1..K : gs[b] = N + 1
    BY <1>4, <1>7
  <2>3. a = 1
    <3> SUFFICES ASSUME a # 1 PROVE FALSE
      OBVIOUS
    <3>1. 1 \in 1..K /\ 1 < a
      BY <1>7
    <3>2. gs[1] < 1 /\ gs[1] >= 1 /\ gs[1] \in Nat
      BY <3>1, <2>1, <1>1, <1>7, <1>8
    <3> QED BY <3>2
  <2>4. b = K
    <3> SUFFICES ASSUME b # K PROVE FALSE
      OBVIOUS
    <3>1. K \in 1..K /\ b < K
      BY <1>7
    <3>2. N + 1 < gs[K] /\ gs[K] <= N + 1 /\ gs[K] \in Nat
      BY <3>1, <2>2, <1>1, <1>7, <1>8
    <3> QED BY <3>2, <1>1
  <2>5. K # 1
    BY <2>1, <2>2, <2>3, <2>4, <1>1
  <2> QED BY <2>1, <2>2, <2>3, <2>4, <2>5, <1>7
<1>10. \A j \in 1..(K - 1) : gs[j] < gs[j + 1]
  BY <1>7
<1>11. ASSUME NEW j \in 1..(K - 1), NEW i \in gs[j]..(gs[j + 1] - 1)
       PROVE  i \in 1..N /\ gs[j] \in 1..N /\ at[i] = at[gs[j]]
  <2> DEFINE a == gs[j]
             b == gs[j + 1]
             Low == {k \in a..(b - 1) : at[k] # at[a]}
  <2>1. j \in 1..K /\ j + 1 \in 1..K
    BY <1>7
  <2>2. a \in 1..(N + 1) /\ b \in 1..(N + 1) /\ a < b
    BY <2>1, <1>8, <1>10
  <2> HIDE DEF a, b
  <2>3. a \in 1..N /\ \A k \in a..(b - 1) : k \in 1..N
    BY <2>2, <1>1
  <2>4. Low = {}
    <3> SUFFICES ASSUME Low # {} PROVE FALSE
      OBVIOUS
    <3>1. Low \in SUBSET Nat
      BY <2>2
    <3>2. PICK k \in Low : \A l \in Low : k <= l
      <4> HIDE DEF Low
      <4> QED BY <3>1, LeastMember
    <3>3. k \in a..(b - 1) /\ at[k] # at[a] /\ k # a /\ k \in Nat
      BY <3>1, <3>2
    <3>4. k - 1 \in a..(b - 1) /\ k \in 2..N /\ ~(k <= k - 1)
      BY <3>3, <2>2, <1>1
    <3>5. at[k - 1] = at[a]
      BY <3>2, <3>4
    <3>6. k \in G
      BY <3>3, <3>4, <3>5, <1>5
    <3>7. PICK l \in 1..K : gs[l] = k
      BY <3>6, <1>7
    <3>8. ~(l < j) /\ l # j
      <4>1. a < k
        BY <2>2, <3>3
      <4>2. l < j => k < a
        BY <2>1, <3>7, <1>7 DEF a
      <4> QED BY <4>1, <4>2, <3>7, <2>2, <3>3 DEF a
    <3>9. ~(l > j + 1) /\ l # j + 1
      <4>1. k < b
        BY <2>2, <3>3
      <4>2. l > j + 1 => b < k
        BY <2>1, <3>7, <1>7 DEF b
      <4> QED BY <4>1, <4>2, <3>7, <2>2, <3>3 DEF b
    <3> QED BY <3>7, <3>8, <3>9, <2>1
  <2>5. i \in a..(b - 1)
    BY DEF a, b
  <2>6. at[i] = at[a]
    BY <2>4, <2>5
  <2> QED BY <2>3, <2>5, <2>6 DEF a
<1> DEFINE Right(t) == at[gs[K - 1 - t]] = t
<1>12. Right(0)
  <2>1. K - 1 \in 1..(K - 1) /\ K - 1 \in 1..K /\ (K - 1) + 1 = K
    BY <1>9, <1>7
  <2>2. gs[K] - 1 = N /\ gs[K - 1] < gs[K] /\ gs[K - 1] \in 1..(N + 1)
    BY <2>1, <1>8, <1>9, <1>10, <1>1
  <2>3. N \in gs[K - 1]..(gs[K] - 1)
    BY <2>2, <1>1, <1>9
  <2>4. at[N] = at[gs[K - 1]]
    BY <2>1, <2>3, <1>11
  <2>5. PICK x \in Nodes : levels[x] = 0
    <3>1. PICK n \in Nodes : TRUE
      BY NodesFacts
    <3>2. 0 \in 0..levels[n]
      BY NodesFacts
    <3> QED BY <3>1, <3>2 DEF LevelsFilled
  <2>6. PICK i \in 1..N : ord[i] = x
    BY <1>1
  <2>7. at[i] = 0 /\ at[i] >= at[N] /\ at[N] \in Nat
    BY <2>5, <2>6, <1>1, <1>2
  <2>8. K - 1 - 0 = K - 1
    BY <1>7
  <2> QED BY <2>4, <2>7, <2>8
<1>13. ASSUME NEW t \in 1..(K - 2), Right(t - 1) PROVE Right(t)
  <2> DEFINE j == K - 1 - t
             a == gs[j]
             b == gs[j + 1]
             l == at[a]
  <2>1. j \in 1..(K - 1) /\ j + 1 \in 1..(K - 1) /\ j + 1 = K - 1 - (t - 1) /\ j \in 1..K /\ j + 1 \in 1..K
    BY <1>7, <1>9
  <2>2. at[b] = t - 1
    BY <1>13, <2>1
  <2>3. a < b /\ b < gs[j + 1 + 1] /\ a \in 1..(N + 1) /\ b \in 1..(N + 1) /\ gs[j + 1 + 1] \in 1..(N + 1)
    <3>1. j + 1 + 1 \in 1..K
      BY <2>1, <1>7
    <3> QED BY <2>1, <3>1, <1>8, <1>10
  <2>4. b \in 2..N /\ b \in G
    <3>1. b \in G
      BY <2>1, <1>8
    <3> DEFINE c == gs[j + 1 + 1]
    <3>2. a < b /\ b < c /\ a \in 1..(N + 1) /\ b \in 1..(N + 1) /\ c \in 1..(N + 1)
      BY <2>3
    <3> HIDE DEF a, b, c
    <3>3. b \in 2..N
      BY <3>2, <1>1
    <3> QED BY <3>1, <3>3
  <2>5. at[b] < at[b - 1] /\ b - 1 \in 1..N /\ b \in 1..N
    <3> HIDE DEF b
    <3>1. at[b] < at[b - 1]
      BY <2>4, <1>6
    <3>2. b - 1 \in 1..N /\ b \in 1..N
      BY <2>4, <1>1
    <3> QED BY <3>1, <3>2
  <2>6. at[b - 1] = l /\ a \in 1..N
    <3>1. b - 1 \in a..(b - 1)
      BY <2>3, <1>1
    <3>2. b - 1 \in gs[j]..(gs[j + 1] - 1)
      BY <3>1
    <3> HIDE DEF j
    <3> QED BY <3>2, <2>1, <1>11
  <2> HIDE DEF j, a, b
  <2>7. l \in Nat /\ t \in Nat /\ l >= t
    BY <2>2, <2>5, <2>6, <1>2, <1>7
  <2>8. ~(l > t)
    <3> SUFFICES ASSUME l > t PROVE FALSE
      OBVIOUS
    <3>1. ord[a] \in Nodes /\ levels[ord[a]] = l
      BY <2>6, <1>1, <1>2
    <3>2. t \in 0..levels[ord[a]]
      BY <3>1, <2>7
    <3>3. PICK x \in Nodes : levels[x] = t
      BY <3>1, <3>2 DEF LevelsFilled
    <3>4. PICK i \in 1..N : ord[i] = x
      BY <1>1
    <3>5. at[i] = t
      BY <3>3, <3>4, <1>2
    <3>6. ~(b <= i)
      BY <3>5, <2>2, <2>5, <2>7, <1>2
    <3>7. i <= b - 1
      BY <3>6, <2>5, <1>1
    <3>8. at[i] >= at[b - 1]
      BY <3>7, <2>5, <1>2
    <3> QED BY <3>5, <3>8, <2>6, <2>7
  <2> QED BY <2>7, <2>8 DEF a, j
<1>14. ASSUME NEW j \in 1..(K - 1) PROVE at[gs[j]] = K - 1 - j
  <2> DEFINE A == {t \in 0..(K - 2) : Right(t)}
             n == K - 2
  <2>1. n \in Nat
    BY <1>7, <1>9
  <2>2. 0 \in A /\ \A k \in 1..n : k - 1 \in A => k \in A
    BY <2>1, <1>12, <1>13
  <2> HIDE DEF A, n
  <2>3. 0..n \subseteq A
    BY <2>1, <2>2, IntervalInduction
  <2>4. K - 1 - j \in 0..n /\ K - 1 - (K - 1 - j) = j
    BY <1>7, <1>9 DEF n
  <2>5. K - 1 - j \in A
    BY <2>3, <2>4
  <2> QED BY <2>4, <2>5 DEF A
<1>15. ASSUME NEW j \in 1..(K - 1), NEW i \in gs[j]..(gs[j + 1] - 1) PROVE levels[ord[i]] = K - 1 - j
  <2>1. i \in 1..N /\ at[i] = at[gs[j]]
    BY <1>11
  <2>2. at[gs[j]] = K - 1 - j
    BY <1>14
  <2> QED BY <2>1, <2>2, <1>2
<1>16. Grouped(ord, gs, levels)
  BY <1>7, <1>8, <1>9, <1>10, <1>15 DEF Grouped, N
<1> QED BY <1>3, <1>16

\* The slices of the threads are indices of the level, and none is left out.
LEMMA SliceFacts ==
  ASSUME NEW first \in Nat, NEW last \in Nat, first < last
  PROVE  /\ \A t \in 1..NUM_OF_THREADS : SliceOf(first, last, t) \in Seq(first..(last - 1))
         /\ \A i \in first..(last - 1) : \E t \in 1..NUM_OF_THREADS :
              \E k \in DOMAIN SliceOf(first, last, t) : SliceOf(first, last, t)[k] = i
<1> DEFINE T == NUM_OF_THREADS
           count == last - first
           share == count \div T
           Z == first..(last - 1)
           At(t) == first + (t - 1) * share
           To(t) == IF t = T THEN last ELSE At(t) + share
<1>1. T \in Nat \ {0} /\ T \in Nat /\ T >= 1 /\ count \in Nat /\ count > 0
  BY HierarchyAssumption
<1>2. CASE count > T
  <2>1. share \in Nat /\ count % T \in 0..(T - 1) /\ count = T * share + (count % T)
    <3> HIDE DEF T, count
    <3> QED BY <1>1, DivFacts
  <2>2. share \in Nat /\ T * share <= count
    <3> DEFINE p == T * share
               r == count % T
    <3>1. p \in Nat /\ r \in Nat /\ count = p + r /\ count \in Nat
      BY <2>1, <1>1
    <3> HIDE DEF p, r, count
    <3>2. p <= count
      BY <3>1
    <3> QED BY <3>2, <2>1 DEF p
  <2>3. \A t \in 1..T : SliceOf(first, last, t) = [i \in 1..(To(t) - At(t)) |-> At(t) + i - 1]
    BY <1>2 DEF SliceOf
  <2> HIDE DEF share, T, count
  <2>4. ASSUME NEW t \in 1..T
        PROVE  /\ At(t) \in Nat /\ To(t) \in Nat /\ first <= At(t) /\ To(t) <= last
               /\ t # T => To(t) = first + t * share
               /\ At(t) <= To(t)
    <3> DEFINE p == (t - 1) * share
               q == t * share
               r == T * share
    <3>1. p \in Nat /\ q = p + share /\ q \in Nat /\ r \in Nat
      BY <1>1, <2>2
    <3>2. q <= r
      <4>1. T - t \in Nat /\ r = q + (T - t) * share
        BY <1>1, <2>2
      <4>2. (T - t) * share \in Nat
        BY <4>1, <2>2
      <4> HIDE DEF q, r
      <4> QED BY <3>1, <4>1, <4>2
    <3>3. r <= count /\ count \in Nat /\ share \in Nat /\ first + count = last
      BY <1>1, <2>2 DEF count
    <3>4. At(t) = first + p
      OBVIOUS
    <3> HIDE DEF p, q, r
    <3>5. CASE t = T
      BY <3>1, <3>2, <3>3, <3>4, <3>5
    <3>6. CASE t # T
      <4>1. To(t) = first + q
        BY <3>1, <3>3, <3>4, <3>6
      <4>2. first + q <= last /\ first <= first + p /\ first + p <= first + q /\ first + p \in Nat /\ first + q \in Nat
        BY <3>1, <3>2, <3>3
      <4> HIDE DEF To, At
      <4>3. At(t) \in Nat /\ To(t) \in Nat /\ first <= At(t) /\ To(t) <= last /\ At(t) <= To(t)
        BY <3>4, <4>1, <4>2
      <4> QED BY <4>1, <4>3, <3>6 DEF q
    <3> QED BY <3>5, <3>6
  <2>5. ASSUME NEW t \in 1..T PROVE SliceOf(first, last, t) \in Seq(Z)
    <3> DEFINE n == To(t) - At(t)
               s == [i \in 1..n |-> At(t) + i - 1]
    <3>1. n \in Nat /\ \A i \in 1..n : At(t) + i - 1 \in Z
      <4> HIDE DEF To, At
      <4> QED BY <2>4
    <3>2. s \in [1..n -> Z]
      BY <3>1
    <3> HIDE DEF Z, n
    <3>3. s \in Seq(Z)
      BY <3>1, <3>2
    <3> QED BY <3>3, <2>3 DEF n
  <2>6. ASSUME NEW i \in Z
        PROVE  \E t \in 1..T : \E k \in DOMAIN SliceOf(first, last, t) : SliceOf(first, last, t)[k] = i
    <3> DEFINE Fit == {t \in 1..T : i < first + t * share \/ t = T}
    <3>1. Fit \in SUBSET Nat /\ T \in Fit
      BY <1>1
    <3>2. PICK t \in Fit : \A u \in Fit : t <= u
      <4> HIDE DEF Fit
      <4> QED BY <3>1, LeastMember
    <3>3. t \in 1..T /\ (t # T => i < first + t * share)
      BY <3>2
    <3>4. At(t) <= i
      <4>1. CASE t = 1
        <5>1. (t - 1) * share = 0
          BY <4>1, <2>2
        <5> QED BY <5>1
      <4>2. CASE t # 1
        <5> DEFINE u == t - 1
        <5>1. u \in 1..T /\ ~(t <= u)
          BY <4>2, <3>3, <1>1
        <5>2. ~(i < first + u * share)
          BY <5>1, <3>2
        <5>3. first + u * share \in Nat /\ i \in Nat
          BY <5>1, <2>2, <1>1
        <5> HIDE DEF u
        <5>4. first + u * share <= i
          BY <5>2, <5>3
        <5> QED BY <5>4 DEF u
      <4> QED BY <4>1, <4>2
    <3>5. i < To(t)
      <4>1. CASE t = T
        BY <4>1
      <4>2. CASE t # T
        <5>1. To(t) = first + t * share
          BY <4>2, <3>3, <2>4
        <5> HIDE DEF To
        <5> QED BY <5>1, <4>2, <3>3
      <4> QED BY <4>1, <4>2
    <3> DEFINE a == At(t)
               b == To(t)
               k == i - a + 1
               s == [j \in 1..(b - a) |-> a + j - 1]
    <3>6. a \in Nat /\ b \in Nat /\ i \in Nat /\ a <= i /\ i < b
      BY <2>4, <3>3, <3>4, <3>5
    <3> HIDE DEF a, b
    <3>7. k \in 1..(b - a) /\ a + k - 1 = i
      BY <3>6
    <3> HIDE DEF k
    <3>8. k \in DOMAIN s /\ s[k] = i
      BY <3>7
    <3>9. SliceOf(first, last, t) = s
      BY <2>3, <3>3 DEF a, b
    <3> QED BY <3>3, <3>8, <3>9
  <2> QED BY <2>5, <2>6 DEF T
<1>3. CASE ~(count > T)
  <2>1. \A t \in 1..T : SliceOf(first, last, t) = IF t <= count THEN <<first + t - 1>> ELSE <<>>
    BY <1>3 DEF SliceOf
  <2> HIDE DEF T
  <2>2. ASSUME NEW t \in 1..T PROVE SliceOf(first, last, t) \in Seq(Z)
    <3>1. CASE t <= count
      <4>1. first + t - 1 \in Z
        BY <3>1, <1>1
      <4>2. SliceOf(first, last, t) = <<first + t - 1>>
        BY <3>1, <2>1
      <4> HIDE DEF Z
      <4>3. <<first + t - 1>> \in Seq(Z)
        BY <4>1
      <4> QED BY <4>2, <4>3
    <3>2. CASE ~(t <= count)
      <4>1. SliceOf(first, last, t) = <<>>
        BY <3>2, <2>1
      <4> HIDE DEF Z
      <4>2. <<>> \in Seq(Z)
        OBVIOUS
      <4> QED BY <4>1, <4>2
    <3> QED BY <3>1, <3>2
  <2>3. ASSUME NEW i \in Z
        PROVE  \E t \in 1..T : \E k \in DOMAIN SliceOf(first, last, t) : SliceOf(first, last, t)[k] = i
    <3> DEFINE t == i - first + 1
    <3>1. t \in 1..T /\ t <= count /\ first + t - 1 = i
      BY <1>1, <1>3
    <3> HIDE DEF t, count
    <3>2. SliceOf(first, last, t) = <<i>>
      BY <3>1, <2>1
    <3>3. 1 \in DOMAIN SliceOf(first, last, t) /\ SliceOf(first, last, t)[1] = i
      BY <3>2
    <3> QED BY <3>1, <3>3
  <2> QED BY <2>2, <2>3 DEF T
<1> QED BY <1>2, <1>3
------------------------------------------------------------------------------
Labelled(n) == LabelOK(labels[n], AllDistances[grid], edges, levels, n)

\* A node has all its labels or none, and none before the nodes above it.
LabelsOK ==
  /\ DOMAIN labels = Nodes
  /\ \A n \in Nodes : \/ labels[n] = NoLabels
                      \/ Labelled(n) /\ HigherLabelled(AllDistances[grid], n)

\* calcLabels has come to a level: those before it are labelled.
LevelsBefore ==
  /\ CHDone
  /\ noLabelLvls \in Nat
  /\ Grouped(order, groups, levels)
  /\ group \in 1..Len(groups)
  /\ \A i \in 1..(groups[group] - 1) : Labelled(order[i])

\* The nodes of the level at hand are labelled or in the slice of a thread.
LevelAtHand ==
  /\ group <= MaxGroup
  /\ DOMAIN slices = 1..NUM_OF_THREADS
  /\ \A t \in 1..NUM_OF_THREADS : slices[t] \in Seq(groups[group]..(groups[group + 1] - 1))
  /\ \A i \in groups[group]..(groups[group + 1] - 1) :
       \/ Labelled(order[i])
       \/ \E t \in 1..NUM_OF_THREADS : \E k \in DOMAIN slices[t] : slices[t][k] = i

HubInv ==
  /\ hlPhase \in {"wait", "start", "run", "done"}
  /\ LabelsOK
  /\ hlPhase = "wait" => group = 1 /\ \A n \in Nodes : labels[n] = NoLabels
  /\ hlPhase # "wait" => LevelsBefore
  /\ hlPhase = "run" => LevelAtHand
  /\ hlPhase = "done" => group > MaxGroup

\* The contraction is over before the labels begin.
LEMMA ContractionOver ==
  ASSUME CHDone
  PROVE  ~CHNext
BY DEF CHDone, CHNext, SelectLevel, ThreadStep, SkipNode, nextCalc, nextStep, addShortcuts,
       AddAllShortcuts, RemoveLevel

LEMMA NoLabelsFacts ==
  ASSUME NEW n \in Nodes, NEW D, IsMetric(D), NEW es, NEW lv, NEW lab, LabelOK(lab, D, es, lv, n)
  PROVE  n \in DOMAIN lab /\ lab # NoLabels
<1>1. n \in DOMAIN lab
  BY OwnHub DEF LabelOK
<1>2. DOMAIN NoLabels = {}
  BY DEF NoLabels
<1> QED BY <1>1, <1>2

LEMMA GroupFacts ==
  ASSUME NEW ord, NEW gs, NEW lv, Grouped(ord, gs, lv), \A n \in Nodes : lv[n] \in Nat
  PROVE  /\ Cardinality(Nodes) \in Nat /\ Len(gs) \in Nat /\ Len(gs) >= 2
         /\ gs[1] = 1 /\ gs[Len(gs)] = Cardinality(Nodes) + 1
         /\ ord \in [1..Cardinality(Nodes) -> Nodes]
         /\ \A n \in Nodes : \E i \in 1..Cardinality(Nodes) : ord[i] = n
         /\ \A i, j \in 1..Cardinality(Nodes) : i <= j => lv[ord[i]] >= lv[ord[j]]
         /\ \A j \in 1..Len(gs) : gs[j] \in Nat /\ gs[j] >= 1 /\ gs[j] <= Cardinality(Nodes) + 1
         /\ \A j \in 1..(Len(gs) - 1) :
              /\ gs[j] < gs[j + 1] /\ j + 1 \in 1..Len(gs) /\ gs[j] \in 1..Cardinality(Nodes)
              /\ \A i \in gs[j]..(gs[j + 1] - 1) :
                   i \in 1..Cardinality(Nodes) /\ ord[i] \in Nodes /\ lv[ord[i]] = Len(gs) - 1 - j
<1> DEFINE N == Cardinality(Nodes)
           K == Len(gs)
<1>1. N \in Nat /\ K \in Nat /\ K >= 2 /\ Falling(ord, lv) /\ gs \in [1..K -> 1..(N + 1)]
      /\ gs[1] = 1 /\ gs[K] = N + 1
  BY NodesFacts DEF Grouped
<1>2. \A j \in 1..(K - 1) : gs[j] < gs[j + 1] /\ \A i \in gs[j]..(gs[j + 1] - 1) : lv[ord[i]] = K - 1 - j
  BY DEF Grouped
<1>3. /\ ord \in [1..N -> Nodes] /\ \A n \in Nodes : \E i \in 1..N : ord[i] = n
      /\ \A i, j \in 1..N : i <= j => lv[ord[i]] >= lv[ord[j]]
  BY <1>1 DEF Falling
<1> HIDE DEF N, K
<1>4. \A j \in 1..K : gs[j] \in Nat /\ gs[j] >= 1 /\ gs[j] <= N + 1
  BY <1>1
<1>5. ASSUME NEW j \in 1..(K - 1)
      PROVE  /\ gs[j] < gs[j + 1] /\ j + 1 \in 1..K /\ gs[j] \in 1..N
             /\ \A i \in gs[j]..(gs[j + 1] - 1) : i \in 1..N /\ ord[i] \in Nodes /\ lv[ord[i]] = K - 1 - j
  <2> DEFINE a == gs[j]  b == gs[j + 1]
  <2>1. j \in 1..K /\ j + 1 \in 1..K
    BY <1>1
  <2>2. a \in Nat /\ a >= 1 /\ b \in Nat /\ b <= N + 1 /\ a < b
    BY <2>1, <1>2, <1>4
  <2> HIDE DEF a, b
  <2>3. a \in 1..N /\ \A i \in a..(b - 1) : i \in 1..N
    BY <2>2, <1>1
  <2>4. \A i \in a..(b - 1) : ord[i] \in Nodes
    BY <2>3, <1>3
  <2> QED BY <2>1, <2>2, <2>3, <2>4, <1>2 DEF a, b
<1> QED BY <1>1, <1>3, <1>4, <1>5 DEF N, K

LEMMA HubStart ==
  ASSUME HLInit
  PROVE  HubInv
BY DEF HLInit, HubInv, LabelsOK

LEMMA HubFrame ==
  ASSUME HubInv, UNCHANGED allVars
  PROVE  HubInv'
<1> USE DEF allVars, hlVars, chVars, gridVars, threadVars
<1>1. LabelsOK' = LabelsOK /\ LevelsBefore' = LevelsBefore /\ LevelAtHand' = LevelAtHand /\ MaxGroup' = MaxGroup
  BY DEF LabelsOK, LevelsBefore, LevelAtHand, Labelled, HigherLabelled, CHDone, Contracted, MaxGroup
<1> QED BY <1>1 DEF HubInv

LEMMA ContractionFrame ==
  ASSUME HubInv, CHNext, UNCHANGED hlVars
  PROVE  HubInv'
<1>1. hlPhase = "wait"
  BY ContractionOver DEF HubInv, LevelsBefore
<1> QED BY <1>1 DEF HubInv, LabelsOK, hlVars

\* The nodes above those of the level at hand are labelled.
LEMMA HigherDone ==
  ASSUME \A n \in Nodes : levels[n] \in Nat, LevelsBefore, group \in 1..(Len(groups) - 1),
         NEW i \in groups[group]..(groups[group + 1] - 1)
  PROVE  order[i] \in Nodes /\ HigherLabelled(AllDistances[grid], order[i])
<1> DEFINE N == Cardinality(Nodes)
           K == Len(groups)
           l == K - 1 - group
<1>1. Grouped(order, groups, levels)
  BY DEF LevelsBefore
<1>2. /\ N \in Nat /\ K \in Nat /\ groups[group] \in 1..N
      /\ \A n \in Nodes : \E j \in 1..N : order[j] = n
      /\ \A j, k \in 1..N : j <= k => levels[order[j]] >= levels[order[k]]
      /\ \A j \in groups[group]..(groups[group + 1] - 1) : order[j] \in Nodes /\ levels[order[j]] = l
      /\ groups[group] < groups[group + 1] /\ group + 1 \in 1..K
      /\ \A j \in 1..K : groups[j] \in Nat
  BY <1>1, GroupFacts
<1>3. order[i] \in Nodes /\ levels[order[i]] = l
  BY <1>2
<1>4. ASSUME NEW m \in Nodes, levels[m] > levels[order[i]] PROVE Labelled(m)
  <2>1. PICK j \in 1..N : order[j] = m
    BY <1>2
  <2>2. levels[order[groups[group]]] = l
    <3> DEFINE a == groups[group]  b == groups[group + 1]
    <3>1. a \in Nat /\ b \in Nat /\ a < b
      BY <1>2
    <3>2. a \in a..(b - 1)
      <4> HIDE DEF a, b
      <4> QED BY <3>1
    <3> QED BY <3>2, <1>2
  <2>3. ~(groups[group] <= j)
    <3> SUFFICES ASSUME groups[group] <= j PROVE FALSE
      OBVIOUS
    <3>1. levels[order[groups[group]]] >= levels[order[j]]
      BY <1>2
    <3>2. l >= levels[m] /\ levels[m] > l /\ levels[m] \in Nat
      BY <3>1, <2>1, <2>2, <1>3, <1>4
    <3>3. l \in Int
      BY <1>2
    <3> HIDE DEF l
    <3> QED BY <3>2, <3>3
  <2>4. j \in 1..(groups[group] - 1)
    <3> DEFINE a == groups[group]
    <3>1. a \in Nat /\ ~(a <= j) /\ j \in Nat /\ j >= 1
      BY <2>3, <1>2
    <3> HIDE DEF a
    <3>2. j \in 1..(a - 1)
      BY <3>1
    <3> QED BY <3>2 DEF a
  <2> QED BY <2>1, <2>4 DEF LevelsBefore
<1> QED BY <1>3, <1>4 DEF HigherLabelled, Labelled

LEMMA OrderStep ==
  ASSUME CHInv, DistanceInv, HubInv, createHLCalcOrder
  PROVE  HubInv'
<1> USE DEF createHLCalcOrder
<1>1. /\ hlPhase = "wait" /\ CHDone /\ hlPhase' = "start"
      /\ UNCHANGED <<chVars, labels, group, slices>>
      /\ noLabelLvls' \in Nat /\ order' = ByLevel /\ groups' = ChangeIndices(ByLevel)
  BY LabelsAssumption
<1>2. Hierarchy(AllDistances[grid], edges, levels)
  BY <1>1, HierarchyReady
<1>3. levels \in [Nodes -> 0..Cardinality(Nodes)] /\ LevelsFilled(levels)
  BY <1>2 DEF Hierarchy, DistanceInv
<1>4. \A n \in Nodes : levels[n] \in Nat
  BY <1>3, NodesFacts
<1>5. Grouped(order', groups', levels)
  BY <1>1, <1>3, <1>4, OrderFalls, GroupsFall
<1>6. 1 \in 1..Len(groups') /\ groups'[1] = 1
  BY <1>4, <1>5, GroupFacts
<1>7. group' = 1 /\ \A n \in Nodes : labels'[n] = NoLabels
  BY <1>1 DEF HubInv
<1>8. levels' = levels /\ CHDone'
  BY <1>1 DEF chVars, gridVars, threadVars, CHDone, Contracted
<1>9. LevelsBefore'
  BY <1>1, <1>5, <1>6, <1>7, <1>8 DEF LevelsBefore
<1>10. LabelsOK'
  BY <1>1, <1>7 DEF HubInv, LabelsOK
<1> QED BY <1>1, <1>9, <1>10 DEF HubInv

LEMMA LevelStep ==
  ASSUME HubInv, \A n \in Nodes : levels[n] \in Nat, StartLevel
  PROVE  HubInv'
<1> USE DEF StartLevel
<1>1. /\ hlPhase = "start" /\ hlPhase' = "run" /\ group <= MaxGroup
      /\ slices' = [t \in 1..NUM_OF_THREADS |-> SliceOf(groups[group], groups[group + 1], t)]
      /\ UNCHANGED <<chVars, noLabelLvls, labels, order, groups, group>>
  OBVIOUS
<1>2. LevelsBefore /\ LabelsOK
  BY <1>1 DEF HubInv
<1>3. LevelsBefore' /\ LabelsOK' /\ MaxGroup' = MaxGroup
  BY <1>1, <1>2 DEF chVars, gridVars, threadVars, LabelsOK, LevelsBefore, Labelled, HigherLabelled, CHDone,
                    Contracted, MaxGroup
<1>4. Grouped(order, groups, levels) /\ noLabelLvls \in Nat /\ group \in 1..Len(groups)
  BY <1>2 DEF LevelsBefore
<1> DEFINE a == groups[group]  b == groups[group + 1]
<1>5. /\ Len(groups) \in Nat
      /\ \A j \in 1..(Len(groups) - 1) : groups[j] < groups[j + 1] /\ j + 1 \in 1..Len(groups)
      /\ \A j \in 1..Len(groups) : groups[j] \in Nat
  BY <1>4, GroupFacts
<1>6. group \in 1..(Len(groups) - 1)
  BY <1>1, <1>4, <1>5 DEF MaxGroup
<1>7. a \in Nat /\ b \in Nat /\ a < b
  BY <1>4, <1>5, <1>6
<1>8. a' = a /\ b' = b
  BY <1>1
<1> HIDE DEF a, b
<1>9. /\ \A t \in 1..NUM_OF_THREADS : SliceOf(a, b, t) \in Seq(a..(b - 1))
      /\ \A i \in a..(b - 1) : \E t \in 1..NUM_OF_THREADS :
           \E k \in DOMAIN SliceOf(a, b, t) : SliceOf(a, b, t)[k] = i
  BY <1>7, SliceFacts
<1>10. slices' = [t \in 1..NUM_OF_THREADS |-> SliceOf(a, b, t)]
  BY <1>1 DEF a, b
<1>11. /\ DOMAIN slices' = 1..NUM_OF_THREADS
       /\ \A t \in 1..NUM_OF_THREADS : slices'[t] \in Seq(a..(b - 1))
       /\ \A i \in a..(b - 1) : \E t \in 1..NUM_OF_THREADS : \E k \in DOMAIN slices'[t] : slices'[t][k] = i
  BY <1>9, <1>10
<1>12. LevelAtHand'
  BY <1>1, <1>3, <1>8, <1>11 DEF LevelAtHand, a, b
<1> QED BY <1>1, <1>3, <1>12 DEF HubInv

LEMMA CalcStep ==
  ASSUME CHInv, DistanceInv, HubInv, NEW t \in DOMAIN slices, calcLabels(t)
  PROVE  HubInv'
<1> DEFINE D == AllDistances[grid]
           i == Head(slices[t])
           n == order[i]
           a == groups[group]
           b == groups[group + 1]
           T == 1..NUM_OF_THREADS
<1>1. /\ hlPhase = "run" /\ slices[t] # <<>>
      /\ UNCHANGED <<chVars, noLabelLvls, order, groups, group, hlPhase>>
      /\ labels' = IF Ready(n) THEN [labels EXCEPT ![n] = LabelsOf(n)] ELSE labels
      /\ slices' = [slices EXCEPT ![t] = IF Ready(n) THEN Tail(slices[t]) ELSE <<>>]
  BY DEF calcLabels
<1>2. LevelsBefore /\ LevelAtHand /\ LabelsOK
  BY <1>1 DEF HubInv
<1>3. Hierarchy(D, edges, levels)
  BY <1>2, HierarchyReady DEF LevelsBefore
<1>4. IsMetric(D) /\ \A m \in Nodes : levels[m] \in Nat
  BY <1>3, NodesFacts DEF Hierarchy
<1>5. /\ UNCHANGED <<grid, edges, levels, order, groups, group, noLabelLvls, hlPhase>>
      /\ CHDone' = CHDone /\ MaxGroup' = MaxGroup
  BY <1>1 DEF chVars, gridVars, threadVars, CHDone, Contracted, MaxGroup
<1>6. /\ DOMAIN slices = T /\ t \in T
      /\ \A u \in T : slices[u] \in Seq(a..(b - 1))
      /\ \A j \in a..(b - 1) : Labelled(order[j]) \/ \E u \in T : \E k \in DOMAIN slices[u] : slices[u][k] = j
  BY <1>2 DEF LevelAtHand
<1>7. group \in 1..(Len(groups) - 1)
  <2>1. Len(groups) \in Nat
    BY <1>2, <1>4, GroupFacts DEF LevelsBefore
  <2> QED BY <2>1, <1>2 DEF LevelsBefore, LevelAtHand, MaxGroup
<1>8. i \in a..(b - 1) /\ Tail(slices[t]) \in Seq(a..(b - 1)) /\ Len(slices[t]) \in Nat /\ Len(slices[t]) >= 1
  <2> DEFINE Z == a..(b - 1)
             s == slices[t]
  <2>1. s \in Seq(Z) /\ s # <<>>
    BY <1>1, <1>6
  <2> HIDE DEF Z, s
  <2>2. Head(s) \in Z /\ Tail(s) \in Seq(Z) /\ Len(s) \in Nat /\ Len(s) >= 1
    BY <2>1
  <2> QED BY <2>2 DEF s, Z
<1>9. n \in Nodes /\ HigherLabelled(D, n)
  BY <1>2, <1>4, <1>7, <1>8, HigherDone
<1> HIDE DEF D, i
<1>10. Ready(n)
  <2> DEFINE ups == UpwardEdges(n)
  <2> SUFFICES ASSUME NEW k \in DOMAIN ups PROVE labels[edges[ups[k]].dest] # NoLabels
    BY DEF Ready
  <2>1. ups \in Seq(1..Len(edges)) /\ \A j \in 1..Len(ups) : UpEdge(edges, levels, n, ups[j])
    BY <1>3, <1>9, UpwardFacts
  <2>2. UpEdge(edges, levels, n, ups[k])
    BY <2>1
  <2> DEFINE m == edges[ups[k]].dest
  <2>3. m \in Nodes /\ levels[m] > levels[n]
    BY <2>2 DEF UpEdge
  <2> HIDE DEF m
  <2>4. LabelOK(labels[m], D, edges, levels, m)
    BY <2>3, <1>9 DEF HigherLabelled
  <2> QED BY <2>3, <2>4, <1>4, NoLabelsFacts DEF m
<1>11. LabelOK(LabelsOf(n), D, edges, levels, n)
  BY <1>3, <1>9, LabelsFound
<1>12. /\ DOMAIN labels' = Nodes
       /\ LabelOK(labels'[n], D, edges, levels, n)
       /\ \A m \in Nodes : m # n => labels'[m] = labels[m]
  <2>1. labels' = [labels EXCEPT ![n] = LabelsOf(n)]
    BY <1>1, <1>10
  <2>2. DOMAIN labels = Nodes
    BY <1>2 DEF LabelsOK
  <2>3. labels'[n] = LabelsOf(n) /\ DOMAIN labels' = Nodes /\ \A m \in Nodes : m # n => labels'[m] = labels[m]
    BY <2>1, <2>2, <1>9
  <2> QED BY <2>3, <1>11
<1>13. D' = D
  BY <1>5 DEF D
<1>14. \A m \in Nodes : LabelOK(labels[m], D, edges, levels, m) => LabelOK(labels'[m], D, edges, levels, m)
  BY <1>12
<1>15. \A m \in Nodes : HigherLabelled(D, m) => HigherLabelled(D, m)'
  BY <1>5, <1>13, <1>14 DEF HigherLabelled
<1>16. \A m \in Nodes : Labelled(m) => Labelled(m)'
  BY <1>5, <1>14 DEF Labelled, D
<1>17. PICK x \in Nodes : x = n /\ Labelled(x)' /\ HigherLabelled(AllDistances[grid], x)'
  <2>1. PICK x \in Nodes : x = n
    BY <1>9
  <2>2. LabelOK(labels'[x], D, edges, levels, x) /\ HigherLabelled(D, x)
    BY <2>1, <1>9, <1>12
  <2> HIDE DEF n
  <2>3. Labelled(x)'
    BY <2>2, <1>5 DEF Labelled, D
  <2>4. HigherLabelled(AllDistances[grid], x)'
    BY <2>2, <1>15 DEF D
  <2> QED BY <2>1, <2>3, <2>4
<1>18. LabelsOK'
  <2>1. ASSUME NEW m \in Nodes
        PROVE  labels'[m] = NoLabels \/ (Labelled(m)' /\ HigherLabelled(AllDistances[grid], m)')
    <3>1. CASE m = n
      BY <3>1, <1>17
    <3>2. CASE m # n
      <4>1. labels'[m] = labels[m]
        BY <3>2, <1>12
      <4>2. labels[m] = NoLabels \/ (Labelled(m) /\ HigherLabelled(D, m))
        BY <1>2 DEF LabelsOK, D
      <4> QED BY <4>1, <4>2, <1>15, <1>16 DEF D
    <3> QED BY <3>1, <3>2
  <2> QED BY <2>1, <1>12 DEF LabelsOK
<1>19. /\ Cardinality(Nodes) \in Nat /\ Len(groups) \in Nat /\ order \in [1..Cardinality(Nodes) -> Nodes]
       /\ a \in Nat /\ b \in Nat /\ a >= 1 /\ b <= Cardinality(Nodes) + 1
  <2>1. Grouped(order, groups, levels)
    BY <1>2 DEF LevelsBefore
  <2>2. group \in 1..Len(groups) /\ group + 1 \in 1..Len(groups)
    BY <2>1, <1>4, <1>7, GroupFacts
  <2> QED BY <2>1, <2>2, <1>4, GroupFacts
<1>20. LevelsBefore'
  <2>1. ASSUME NEW j \in 1..(a - 1) PROVE Labelled(order[j])'
    <3>1. Labelled(order[j])
      BY <1>2 DEF LevelsBefore
    <3>2. order[j] \in Nodes
      <4>1. a <= Cardinality(Nodes) + 1
        <5>1. group \in 1..Len(groups)
          BY <1>2 DEF LevelsBefore
        <5> QED BY <5>1, <1>2, <1>4, GroupFacts DEF LevelsBefore
      <4> HIDE DEF a
      <4>2. j \in 1..Cardinality(Nodes)
        BY <4>1, <1>19
      <4> QED BY <4>2, <1>19
    <3> QED BY <3>1, <3>2, <1>5, <1>16
  <2> QED BY <2>1, <1>2, <1>5 DEF LevelsBefore
<1>21. LevelAtHand'
  <2>1. slices' = [slices EXCEPT ![t] = Tail(slices[t])]
    BY <1>1, <1>10
  <2>2. DOMAIN slices' = T /\ slices'[t] = Tail(slices[t]) /\ \A u \in T : u # t => slices'[u] = slices[u]
    BY <2>1, <1>6
  <2>3. \A u \in T : slices'[u] \in Seq(a..(b - 1))
    BY <2>2, <1>6, <1>8
  <2>4. ASSUME NEW j \in a..(b - 1)
        PROVE  Labelled(order[j])' \/ \E u \in T : \E k \in DOMAIN slices'[u] : slices'[u][k] = j
    <3>1. order[j] \in Nodes
      <4> HIDE DEF a, b
      <4>1. j \in 1..Cardinality(Nodes)
        BY <1>19
      <4> QED BY <4>1, <1>19
    <3>2. CASE Labelled(order[j])
      BY <3>1, <3>2, <1>5, <1>16
    <3>3. CASE ~Labelled(order[j])
      <4>1. PICK u \in T : \E k \in DOMAIN slices[u] : slices[u][k] = j
        BY <3>3, <1>6
      <4>2. PICK k \in DOMAIN slices[u] : slices[u][k] = j
        BY <4>1
      <4>3. CASE u # t
        BY <4>2, <4>3, <2>2
      <4>4. CASE u = t
        <5>1. CASE k = 1
          <6>1. j = i
            BY <4>2, <4>4, <5>1, <1>8 DEF i
          <6>2. order[j] = x /\ order' = order
            BY <6>1, <1>5, <1>17
          <6> QED BY <6>2, <1>17 DEF Labelled
        <5>2. CASE k # 1
          <6> DEFINE Z == a..(b - 1)
                     s == slices[t]
          <6>1. s \in Seq(Z) /\ s # <<>> /\ k \in DOMAIN s /\ s[k] = j
            BY <1>1, <1>6, <4>2, <4>4
          <6> HIDE DEF Z, s
          <6>2. k - 1 \in DOMAIN Tail(s) /\ Tail(s)[k - 1] = j
            BY <6>1, <5>2
          <6>3. k - 1 \in DOMAIN slices'[t] /\ slices'[t][k - 1] = j
            BY <6>2, <2>2 DEF s
          <6> QED BY <6>3, <1>6
        <5> QED BY <5>1, <5>2
      <4> QED BY <4>3, <4>4
    <3> QED BY <3>2, <3>3
  <2>5. a' = a /\ b' = b /\ group' <= MaxGroup'
    BY <1>2, <1>5 DEF LevelAtHand
  <2> QED BY <2>2, <2>3, <2>4, <2>5 DEF LevelAtHand
<1>22. hlPhase' = "run"
  BY <1>1
<1> QED BY <1>18, <1>20, <1>21, <1>22 DEF HubInv

LEMMA JoinStep ==
  ASSUME HubInv, \A n \in Nodes : levels[n] \in Nat, JoinLevel
  PROVE  HubInv'
<1> USE DEF JoinLevel
<1>1. /\ hlPhase = "run" /\ hlPhase' = "start" /\ group' = group + 1
      /\ \A t \in DOMAIN slices : slices[t] = <<>>
      /\ UNCHANGED <<chVars, noLabelLvls, labels, order, groups, slices>>
  OBVIOUS
<1>2. LevelsBefore /\ LevelAtHand /\ LabelsOK
  BY <1>1 DEF HubInv
<1>3. /\ UNCHANGED <<grid, edges, levels, order, groups, noLabelLvls, labels>>
      /\ CHDone' = CHDone /\ LabelsOK'
  BY <1>1, <1>2 DEF chVars, gridVars, threadVars, CHDone, Contracted, LabelsOK, Labelled, HigherLabelled
<1>4. Grouped(order, groups, levels) /\ noLabelLvls \in Nat /\ group \in 1..Len(groups)
  BY <1>2 DEF LevelsBefore
<1> DEFINE a == groups[group]  b == groups[group + 1]
<1>5. /\ Len(groups) \in Nat
      /\ \A j \in 1..(Len(groups) - 1) : groups[j] < groups[j + 1] /\ j + 1 \in 1..Len(groups)
      /\ \A j \in 1..Len(groups) : groups[j] \in Nat
  BY <1>4, GroupFacts
<1>6. group \in 1..(Len(groups) - 1)
  BY <1>2, <1>4, <1>5 DEF MaxGroup, LevelAtHand
<1>7. group + 1 \in 1..Len(groups) /\ a \in Nat /\ b \in Nat
  BY <1>4, <1>5, <1>6
<1>8. ASSUME NEW j \in 1..(b - 1) PROVE Labelled(order[j])
  <2>1. CASE j \in 1..(a - 1)
    BY <2>1, <1>2 DEF LevelsBefore
  <2>2. CASE j \in a..(b - 1)
    BY <2>2, <1>1, <1>2 DEF LevelAtHand
  <2>3. j \in 1..(a - 1) \/ j \in a..(b - 1)
    <3> HIDE DEF a, b
    <3> QED BY <1>7
  <2> QED BY <2>1, <2>2, <2>3
<1>9. LevelsBefore'
  BY <1>1, <1>2, <1>3, <1>7, <1>8 DEF LevelsBefore, Labelled
<1> QED BY <1>1, <1>3, <1>9 DEF HubInv

LEMMA CompleteStep ==
  ASSUME HubInv, LabelsComplete
  PROVE  HubInv'
<1>1. LabelsOK' = LabelsOK /\ LevelsBefore' = LevelsBefore /\ MaxGroup' = MaxGroup
  BY DEF LabelsComplete, chVars, gridVars, threadVars, LabelsOK, LevelsBefore, Labelled, HigherLabelled,
         CHDone, Contracted, MaxGroup
<1> QED BY <1>1 DEF LabelsComplete, HubInv
------------------------------------------------------------------------------
LEMMA RouteFrame ==
  ASSUME RouteNext
  PROVE  UNCHANGED allVars
BY DEF RouteNext, route, TempExpand, TempMerge, SideDone, Answer

\* The routes and the labels leave the hierarchy alone.
LEMMA RouterContracts == RouterSpec => CHSpec
<1>1. RouterInit => CHInit
  BY DEF RouterInit, HLInit
<1>2. [RouterNext]_routerVars => [CHNext \/ CHFinished]_chVars
  <2> SUFFICES ASSUME [RouterNext]_routerVars PROVE [CHNext \/ CHFinished]_chVars
    OBVIOUS
  <2>1. CASE CHNext
    BY <2>1
  <2>2. CASE HLNext
    BY <2>2 DEF HLNext, createHLCalcOrder, StartLevel, calcLabels, JoinLevel, LabelsComplete
  <2>3. CASE RouteNext
    BY <2>3, RouteFrame DEF allVars
  <2>4. CASE UNCHANGED routerVars
    BY <2>4 DEF routerVars, allVars
  <2> QED BY <2>1, <2>2, <2>3, <2>4 DEF RouterNext
<1> QED BY <1>1, <1>2, PTL DEF RouterSpec, CHSpec

\* The labels of every level are those of hubs, with exact distances, and are
\* complete before the next level begins, whatever the threads do.
THEOREM HubLabelInvariant == RouterSpec => [](CHInv /\ DistanceInv /\ HubInv)
<1>1. RouterInit => HubInv
  BY HubStart DEF RouterInit
<1>2. CHInv /\ DistanceInv /\ HubInv /\ [RouterNext]_routerVars => HubInv'
  <2>0. SUFFICES ASSUME CHInv, DistanceInv, HubInv, [RouterNext]_routerVars PROVE HubInv'
    OBVIOUS
  <2>1. CASE CHNext /\ UNCHANGED <<hlVars, routeVars>>
    <3>1. UNCHANGED hlVars
      BY <2>1
    <3> QED BY <2>1, <3>1, <2>0, ContractionFrame
  <2>2. CASE HLNext
    <3>1. hlPhase # "wait" => \A n \in Nodes : levels[n] \in Nat
      <4> SUFFICES ASSUME hlPhase # "wait" PROVE \A n \in Nodes : levels[n] \in Nat
        OBVIOUS
      <4>1. CHDone
        BY <2>0 DEF HubInv, LevelsBefore
      <4>2. Hierarchy(AllDistances[grid], edges, levels)
        BY <4>1, <2>0, HierarchyReady
      <4> QED BY <4>2, NodesFacts DEF Hierarchy
    <3>2. CASE createHLCalcOrder
      BY <3>2, <2>0, OrderStep
    <3>3. CASE StartLevel
      <4>1. hlPhase # "wait"
        BY <3>3 DEF StartLevel
      <4> QED BY <4>1, <3>1, <3>3, <2>0, LevelStep
    <3>4. CASE \E t \in DOMAIN slices : calcLabels(t)
      BY <3>4, <2>0, CalcStep
    <3>5. CASE JoinLevel
      <4>1. hlPhase # "wait"
        BY <3>5 DEF JoinLevel
      <4> QED BY <4>1, <3>1, <3>5, <2>0, JoinStep
    <3>6. CASE LabelsComplete
      BY <3>6, <2>0, CompleteStep
    <3> QED BY <2>2, <3>2, <3>3, <3>4, <3>5, <3>6 DEF HLNext
  <2>3. CASE RouteNext
    BY <2>3, <2>0, RouteFrame, HubFrame
  <2>4. CASE UNCHANGED routerVars
    <3>1. UNCHANGED allVars
      BY <2>4 DEF routerVars
    <3> QED BY <3>1, <2>0, HubFrame
  <2> QED BY <2>1, <2>2, <2>3, <2>4, <2>0 DEF RouterNext
<1> QED BY <1>1, <1>2, RouterContracts, ContractionInvariant, ContractionPaths, PTL DEF RouterSpec

\* What the finished hierarchy and the labels of a node say.
LEMMA LabelFacts ==
  ASSUME CHInv, DistanceInv, HubInv, hlPhase # "wait"
  PROVE  /\ Hierarchy(AllDistances[grid], edges, levels)
         /\ LevelsBefore
         /\ \A n \in Nodes : \/ labels[n] = NoLabels
                             \/ Labelled(n) /\ HigherLabelled(AllDistances[grid], n)
<1>1. LevelsBefore /\ LabelsOK
  BY DEF HubInv
<1>2. CHDone
  BY <1>1 DEF LevelsBefore
<1>3. Hierarchy(AllDistances[grid], edges, levels)
  BY <1>2, HierarchyReady
<1> QED BY <1>1, <1>3 DEF LabelsOK

\* No label overestimates.
THEOREM ExactLabels == RouterSpec => []LabelsAreExact
<1>1. CHInv /\ DistanceInv /\ HubInv => LabelsAreExact
  <2>0. SUFFICES ASSUME CHInv, DistanceInv, HubInv, hlPhase = "start", NEW n \in Nodes, NEW h \in DOMAIN labels[n]
               PROVE  labels[n][h].dist = AllDistances[grid][n][h]
    BY DEF LabelsAreExact
  <2>1. labels[n] # NoLabels
    <3>1. DOMAIN NoLabels = {}
      BY DEF NoLabels
    <3> QED BY <3>1
  <2>2. Labelled(n)
    BY <2>0, <2>1, LabelFacts
  <2> QED BY <2>2 DEF Labelled, LabelOK
<1> QED BY <1>1, HubLabelInvariant, PTL

\* After every level the chains of first edges lead to the hubs.
THEOREM LeadingEdges == RouterSpec => []FirstEdgesLead
<1>1. CHInv /\ DistanceInv /\ HubInv => FirstEdgesLead
  <2> DEFINE D == AllDistances[grid]
  <2>0. SUFFICES ASSUME CHInv, DistanceInv, HubInv, hlPhase = "start", NEW n \in Nodes, NEW h \in DOMAIN labels[n] \ {n}
               PROVE  LET e == edges[labels[n][h].edge]
                      IN  /\ e.start = n
                          /\ levels[e.dest] > levels[n]
                          /\ h \in DOMAIN labels[e.dest]
                          /\ labels[n][h].dist = e.dist + labels[e.dest][h].dist
    BY DEF FirstEdgesLead
  <2>1. labels[n] # NoLabels
    <3>1. DOMAIN NoLabels = {}
      BY DEF NoLabels
    <3> QED BY <3>1
  <2>2. LabelOK(labels[n], D, edges, levels, n) /\ HigherLabelled(D, n) /\ Hierarchy(D, edges, levels)
    BY <2>0, <2>1, LabelFacts DEF Labelled
  <2> HIDE DEF D
  <2> DEFINE k == labels[n][h].edge
             x == edges[k].dest
  <2>3. /\ k \in 1..Len(edges) /\ edges[k].start = n /\ x \in Nodes /\ levels[x] > levels[n]
        /\ h \in Hubs(D, levels, x) /\ D[n][x] + D[x][h] = D[n][h] /\ labels[n][h].dist = D[n][h]
    BY <2>2 DEF LabelOK, UpEdge, OnPath
  <2>4. edges[k].dist = D[n][x]
    BY <2>2, <2>3 DEF Hierarchy
  <2>5. LabelOK(labels[x], D, edges, levels, x)
    BY <2>2, <2>3 DEF HigherLabelled
  <2>6. h \in DOMAIN labels[x] /\ labels[x][h].dist = D[x][h]
    BY <2>3, <2>5 DEF LabelOK
  <2> QED BY <2>3, <2>4, <2>6
<1> QED BY <1>1, HubLabelInvariant, PTL

\* The levels that are left out are those without labels.
LEMMA AllLevelsLabelled ==
  ASSUME CHInv, DistanceInv, HubInv, AllLabelled \/ hlPhase = "done", NEW u \in Nodes, nodeHasLabels(u)
  PROVE  Labelled(u)
<1> DEFINE N == Cardinality(Nodes)
           K == Len(groups)
<1>1. hlPhase # "wait" /\ group > MaxGroup
  BY DEF AllLabelled, HubInv
<1>2. /\ Hierarchy(AllDistances[grid], edges, levels)
      /\ Grouped(order, groups, levels) /\ noLabelLvls \in Nat /\ group \in 1..K
      /\ \A i \in 1..(groups[group] - 1) : Labelled(order[i])
  BY <1>1, LabelFacts DEF LevelsBefore
<1>3. \A n \in Nodes : levels[n] \in Nat
  BY <1>2, NodesFacts DEF Hierarchy
<1>4. N \in Nat /\ K \in Nat /\ groups[K] = N + 1
      /\ (\A n \in Nodes : \E i \in 1..N : order[i] = n)
      /\ (\A i, j \in 1..N : i <= j => levels[order[i]] >= levels[order[j]])
      /\ (\A j \in 1..K : groups[j] \in Nat)
      /\ (\A j \in 1..(K - 1) :
            /\ groups[j] < groups[j + 1] /\ j + 1 \in 1..K /\ groups[j] \in 1..N
            /\ \A i \in groups[j]..(groups[j + 1] - 1) : levels[order[i]] = K - 1 - j)
  BY <1>2, <1>3, GroupFacts
<1>5. PICK i \in 1..N : order[i] = u
  BY <1>4
<1> DEFINE a == groups[group]
<1>6. a \in Nat
  BY <1>2, <1>4
<1>7. ~(a <= i)
  <2> SUFFICES ASSUME a <= i PROVE FALSE
    OBVIOUS
  <2>1. group # K
    BY <1>4, <1>5
  <2>2. group \in 1..(K - 1)
    BY <2>1, <1>2, <1>4
  <2> DEFINE b == groups[group + 1]
  <2>3. a \in 1..N /\ b \in Nat /\ a < b /\ \A j \in a..(b - 1) : levels[order[j]] = K - 1 - group
    BY <2>2, <1>4
  <2>4. a \in a..(b - 1)
    <3> HIDE DEF a, b
    <3> QED BY <2>3
  <2>5. levels[order[a]] = K - 1 - group
    BY <2>3, <2>4
  <2>6. levels[order[a]] >= levels[u]
    BY <2>3, <1>4, <1>5
  <2>7. levels[u] >= noLabelLvls /\ levels[u] \in Nat
    BY <1>3 DEF nodeHasLabels
  <2>8. group > K - (noLabelLvls + 1)
    BY <1>1 DEF MaxGroup
  <2> HIDE DEF K, a
  <2> QED BY <2>2, <2>5, <2>6, <2>7, <2>8, <1>2, <1>4
<1>8. i \in 1..(a - 1)
  <2> HIDE DEF a
  <2> QED BY <1>4, <1>5, <1>6, <1>7
<1> QED BY <1>2, <1>5, <1>8

\* The best common hub of two nodes with labels gives their distance.
LEMMA BestSum ==
  ASSUME NEW D, NEW es, NEW lv, Hierarchy(D, es, lv), NEW u \in Nodes, NEW v \in Nodes,
         NEW p, LabelOK(p, D, es, lv, u), NEW q, LabelOK(q, D, es, lv, v)
  PROVE  /\ \A h \in DOMAIN p \cap DOMAIN q : /\ p[h].dist + q[h].dist \in Nat
                                              /\ p[h].dist + q[h].dist >= D[u][v] /\ D[u][v] < far
         /\ D[u][v] < far => \E h \in DOMAIN p \cap DOMAIN q : p[h].dist + q[h].dist = D[u][v]
<1>1. IsMetric(D)
  BY DEF Hierarchy
<1>2. /\ DOMAIN p = Hubs(D, lv, u) /\ \A h \in DOMAIN p : p[h].dist = D[u][h]
      /\ DOMAIN q = Hubs(D, lv, v) /\ \A h \in DOMAIN q : q[h].dist = D[v][h]
  BY DEF LabelOK
<1>3. ASSUME NEW h \in DOMAIN p \cap DOMAIN q
      PROVE  p[h].dist + q[h].dist \in Nat /\ p[h].dist + q[h].dist >= D[u][v] /\ D[u][v] < far
  <2> DEFINE uh == D[u][h]  vh == D[v][h]  uv == D[u][v]
  <2>1. h \in Nodes /\ uh < far /\ vh < far /\ p[h].dist = uh /\ q[h].dist = vh
    BY <1>2 DEF Hubs, IsHub
  <2>2. uh \in Nat /\ vh \in Nat /\ uv \in Nat /\ uv <= uh + D[h][v] /\ D[h][v] = vh
    BY <2>1, <1>1, MetricFacts
  <2>3. uv < far
    BY <2>1, <2>2 DEF Hierarchy
  <2> HIDE DEF uh, vh, uv
  <2>4. uh + vh \in Nat /\ uh + vh >= uv
    BY <2>2
  <2> QED BY <2>1, <2>3, <2>4 DEF uv
<1>4. ASSUME D[u][v] < far PROVE \E h \in DOMAIN p \cap DOMAIN q : p[h].dist + q[h].dist = D[u][v]
  <2>1. PICK c \in Nodes : OnPath(D, u, c, v) /\ c \in Hubs(D, lv, u) /\ c \in Hubs(D, lv, v)
    BY <1>4, CommonHub
  <2>2. D[v][c] = D[c][v]
    BY <1>1, MetricFacts
  <2> QED BY <2>1, <2>2, <1>2 DEF OnPath
<1> QED BY <1>3, <1>4

\* Two nodes with labels have a common hub on a shortest path, and none iff
\* no path joins them.
THEOREM CoveringLabels == RouterSpec => []LabelsCover
<1>1. CHInv /\ DistanceInv /\ HubInv => LabelsCover
  <2> DEFINE D == AllDistances[grid]
  <2>0. SUFFICES ASSUME CHInv, DistanceInv, HubInv, AllLabelled, NEW u \in Nodes, NEW v \in Nodes, nodeHasLabels(u), nodeHasLabels(v)
               PROVE  D[u][v] = Min({labels[u][h].dist + labels[v][h].dist :
                                       h \in DOMAIN labels[u] \cap DOMAIN labels[v]} \cup {far})
    BY DEF LabelsCover
  <2>1. LabelOK(labels[u], D, edges, levels, u) /\ LabelOK(labels[v], D, edges, levels, v)
    BY <2>0, AllLevelsLabelled DEF Labelled
  <2>2. Hierarchy(D, edges, levels)
    BY <2>0, LabelFacts DEF AllLabelled
  <2> DEFINE uv == D[u][v]
             p == labels[u]
             q == labels[v]
             C == DOMAIN p \cap DOMAIN q
             Sums == {p[h].dist + q[h].dist : h \in C}
             A == Sums \cup {far}
  <2>3. uv \in Nat /\ uv <= far /\ far \in Nat
    BY <2>2, MetricFacts DEF Hierarchy
  <2> HIDE DEF D, p, q
  <2>4. /\ \A h \in C : p[h].dist + q[h].dist \in Nat /\ p[h].dist + q[h].dist >= uv /\ uv < far
        /\ uv < far => \E h \in C : p[h].dist + q[h].dist = uv
    BY <2>1, <2>2, BestSum DEF p, q
  <2> HIDE DEF uv, C
  <2>5. A \in SUBSET Nat /\ A # {} /\ uv \in A /\ \A k \in A : k >= uv
    BY <2>3, <2>4
  <2> HIDE DEF A
  <2> DEFINE least == Min(A)
  <2>6. least \in A /\ least <= uv
    BY <2>5, MinFacts
  <2> HIDE DEF least
  <2>7. least = uv
    BY <2>3, <2>5, <2>6
  <2> QED BY <2>7 DEF least, A, C, p, q, uv
<1> QED BY <1>1, HubLabelInvariant, PTL
------------------------------------------------------------------------------
\* What calcTempLabels works with: a side, and the two heaps.
SideRecord == [dist : Nat, edge : Int, info : Int]
Collected == UNION {[S -> SideRecord] : S \in SUBSET Nodes}
Keys == UNION {[S -> Nat] : S \in SUBSET Nodes}
Searches == [found : Collected, heap : SUBSET Nodes, labelHeap : Keys]

LEMMA CollectedFields ==
  ASSUME NEW f \in Collected
  PROVE  /\ DOMAIN f \in SUBSET Nodes /\ f \in [DOMAIN f -> SideRecord]
         /\ \A h \in DOMAIN f : f[h] \in SideRecord /\ f[h].dist \in Nat
<1>1. PICK S \in SUBSET Nodes : f \in [S -> SideRecord]
  BY DEF Collected
<1>2. \A r \in SideRecord : r.dist \in Nat
  BY DEF SideRecord
<1> QED BY <1>1, <1>2

LEMMA CollectedIntro ==
  ASSUME NEW S \in SUBSET Nodes, NEW f \in [S -> SideRecord]
  PROVE  f \in Collected
BY DEF Collected

\* What the search acc becomes if node v is reached with the distance d.
WithNode(new, acc, v, d) ==
  /\ v \in Nodes /\ d \in Nat /\ new \in Searches
  /\ DOMAIN new.found = DOMAIN acc.found \cup {v}
  /\ \A h \in DOMAIN acc.found \ {v} : new.found[h] = acc.found[h]
  /\ new.found[v].dist <= d
  /\ v \in DOMAIN acc.found => new.found[v].dist <= acc.found[v].dist
  /\ \/ new = acc
     \/ /\ new.found[v].dist = d
        /\ new.heap = IF nodeHasLabels(v) THEN acc.heap ELSE acc.heap \cup {v}
        /\ DOMAIN new.labelHeap =
             IF nodeHasLabels(v) THEN DOMAIN acc.labelHeap \cup {v} ELSE DOMAIN acc.labelHeap

\* An edge out of a node of the lower levels.
LEMMA TempRelaxed ==
  ASSUME NEW acc \in Searches, NEW node \in DOMAIN acc.found, edges \in Seq(EdgeRecord),
         NEW e \in 1..Len(edges)
  PROVE  WithNode(TempRelax(acc, node, e), acc, edges[e].dest, acc.found[node].dist + edges[e].dist)
<1> DEFINE v == edges[e].dest
           d == acc.found[node].dist + edges[e].dist
           new == TempRelax(acc, node, e)
           f == acc.found
           r == [dist |-> d, edge |-> e, info |-> node]
           g == [h \in DOMAIN f \cup {v} |-> IF h \in {v} THEN r ELSE f[h]]
           k == [h \in DOMAIN acc.labelHeap \cup {v} |-> IF h \in {v} THEN d ELSE acc.labelHeap[h]]
<1>1. f \in Collected /\ acc.heap \in SUBSET Nodes /\ acc.labelHeap \in Keys
  BY DEF Searches
<1>2. DOMAIN f \in SUBSET Nodes /\ f \in [DOMAIN f -> SideRecord] /\ \A h \in DOMAIN f : f[h].dist \in Nat
  BY <1>1, CollectedFields
<1>3. v \in Nodes /\ edges[e].dist \in Nat
  BY EdgeFields
<1>4. d \in Nat
  BY <1>2, <1>3
<1>5. PICK S \in SUBSET Nodes : acc.labelHeap \in [S -> Nat]
  BY <1>1 DEF Keys
<1>6. k \in Keys /\ DOMAIN k = DOMAIN acc.labelHeap \cup {v}
  <2>1. k \in [S \cup {v} -> Nat] /\ DOMAIN k = DOMAIN acc.labelHeap \cup {v}
    BY <1>4, <1>5
  <2> HIDE DEF k
  <2>2. S \cup {v} \in SUBSET Nodes
    BY <1>3
  <2> QED BY <2>1, <2>2 DEF Keys
<1>7. /\ g \in Collected /\ DOMAIN g = DOMAIN f \cup {v} /\ g[v].dist = d
      /\ \A h \in DOMAIN f \ {v} : g[h] = f[h]
  <2>1. r \in SideRecord
    <3>1. e \in Int /\ node \in Int
      BY <1>2, NodesFacts, EdgeFields
    <3> QED BY <3>1, <1>4 DEF SideRecord
  <2>2. r.dist = d
    OBVIOUS
  <2> HIDE DEF r
  <2>3. /\ g \in [DOMAIN f \cup {v} -> SideRecord] /\ DOMAIN g = DOMAIN f \cup {v} /\ g[v] = r
        /\ \A h \in DOMAIN f \ {v} : g[h] = f[h]
    BY <2>1, <1>2
  <2>4. DOMAIN f \cup {v} \in SUBSET Nodes
    BY <1>2, <1>3
  <2> HIDE DEF g
  <2> QED BY <2>2, <2>3, <2>4, CollectedIntro
<1> SUFFICES WithNode(new, acc, v, d)
  OBVIOUS
<1> HIDE DEF new
<1>8. CASE v \in DOMAIN f /\ f[v].dist <= d
  <2>1. new = acc
    BY <1>8 DEF TempRelax, new
  <2>2. DOMAIN f = DOMAIN f \cup {v}
    BY <1>8
  <2> QED BY <2>1, <2>2, <1>2, <1>3, <1>4, <1>8 DEF WithNode
<1>9. CASE ~(v \in DOMAIN f /\ f[v].dist <= d) /\ nodeHasLabels(v)
  <2>1. new = [acc EXCEPT !.found = g, !.labelHeap = k]
    BY <1>9 DEF TempRelax, Updated, new
  <2> HIDE DEF g, k
  <2>2. new \in Searches /\ new.found = g /\ new.heap = acc.heap /\ new.labelHeap = k
    BY <2>1, <1>6, <1>7 DEF Searches
  <2> QED BY <2>2, <1>2, <1>3, <1>4, <1>6, <1>7, <1>9 DEF WithNode
<1>10. CASE ~(v \in DOMAIN f /\ f[v].dist <= d) /\ ~nodeHasLabels(v)
  <2> DEFINE hp == acc.heap \cup {v}
  <2>1. new = [acc EXCEPT !.found = g, !.heap = hp]
    BY <1>10 DEF TempRelax, Updated, new
  <2>2. hp \in SUBSET Nodes
    BY <1>1, <1>3
  <2> HIDE DEF g, hp
  <2>3. new \in Searches /\ new.found = g /\ new.heap = hp /\ new.labelHeap = acc.labelHeap
    BY <2>1, <2>2, <1>7 DEF Searches
  <2> QED BY <2>3, <1>2, <1>3, <1>4, <1>7, <1>10 DEF hp, WithNode
<1> QED BY <1>8, <1>9, <1>10

\* The loop over the stored edges of a node.
TempFound(base, seq, node) == FoldLeft(LAMBDA a, e : TempRelax(a, node, e), base, seq)
TempClosed(U, T, node) == \A acc \in U, e \in T : TempRelax(acc, node, e) \in U

LEMMA TempTurns ==
  ASSUME NEW U, NEW T, NEW seq \in Seq(T), NEW base \in U,
         NEW node, TempClosed(U, T, node)
  PROVE  \E g : /\ g[0] = base
                /\ \A k \in 1..Len(seq) : g[k] = TempRelax(g[k - 1], node, seq[k])
                /\ TempFound(base, seq, node) = g[Len(seq)]
<1> DEFINE m == Len(seq)
           step == [z \in (1..m) \X U |-> TempRelax(z[2], node, seq[z[1]])]
           Body(f) == [s \in SUBSET DOMAIN seq |->
                         IF s = {} THEN base ELSE TempRelax(f[s \ {Max(s)}], node, seq[Max(s)])]
           c == CHOOSE f : f = Body(f)
           g == [k \in 0..m |-> c[1..k]]
<1>1. m \in Nat /\ DOMAIN seq = 1..m /\ \A k \in 1..m : seq[k] \in T
  OBVIOUS
<1>2. step \in [(1..m) \X U -> U]
  BY <1>1 DEF TempClosed
<1>3. \A k \in 1..m, u \in U : step[<<k, u>>] = TempRelax(u, node, seq[k])
  OBVIOUS
<1> HIDE DEF m, step
<1>4. PICK iter \in [SUBSET (1..m) -> U] : FoldsBy(iter, m, base, step)
  BY <1>1, <1>2, FoldExists
<1>5. iter = Body(iter)
  <2>1. ASSUME NEW s \in SUBSET (1..m), s # {}
        PROVE  iter[s] = TempRelax(iter[s \ {Max(s)}], node, seq[Max(s)])
    <3>1. /\ Max(s) \in 1..m /\ s \ {Max(s)} \in SUBSET (1..m)
          /\ iter[s] = step[<<Max(s), iter[s \ {Max(s)}]>>]
      BY <1>4, <2>1 DEF FoldsBy
    <3>2. iter[s \ {Max(s)}] \in U
      BY <3>1
    <3> QED BY <3>1, <3>2, <1>3
  <2>2. iter = [s \in SUBSET (1..m) |-> iter[s]]
    OBVIOUS
  <2> QED BY <2>1, <2>2, <1>1, <1>4 DEF FoldsBy
<1>6. c = Body(c)
  BY <1>5
<1>7. TempFound(base, seq, node) = c[1..m]
  BY <1>1 DEF TempFound, FoldLeft, MapThenFoldSet
<1> HIDE DEF c
<1>8. c[{}] = base
  BY <1>6
<1>9. ASSUME NEW k \in 1..m PROVE c[1..k] = TempRelax(c[1..(k - 1)], node, seq[k])
  <2>1. /\ 1..k \in SUBSET (1..m) /\ 1..k # {}
        /\ Max(1..k) = k /\ (1..k) \ {k} = 1..(k - 1)
    BY <1>1, MaxInterval
  <2> QED BY <2>1, <1>1, <1>6
<1>10. g[0] = base /\ g[m] = c[1..m] /\ \A k \in 1..m : g[k] = TempRelax(g[k - 1], node, seq[k])
  BY <1>1, <1>8, <1>9
<1> HIDE DEF g
<1> QED BY <1>7, <1>10 DEF m

LEMMA StoredFacts ==
  ASSUME NEW D, Hierarchy(D, edges, levels), NEW n \in Nodes, ~nodeHasLabels(n)
  PROVE  /\ StoredEdges(n) \in Seq(1..Len(edges))
         /\ \A i \in 1..Len(StoredEdges(n)) : UpEdge(edges, levels, n, StoredEdges(n)[i])
         /\ \A e : UpEdge(edges, levels, n, e) => \E i \in 1..Len(StoredEdges(n)) : StoredEdges(n)[i] = e
<1> DEFINE S == {e \in ToSet(AllEdges(n)) : levels[edges[e].dest] > levels[n]}
           ups == InOrder(S)
<1>1. StoredEdges(n) = ups
  BY DEF StoredEdges
<1>2. edges \in Seq(EdgeRecord)
  BY DEF Hierarchy
<1>3. /\ Len(edges) \in Nat
      /\ \A e \in 1..Len(edges) : edges[e].start \in Nodes /\ edges[e].dest \in Nodes
  BY <1>2, EdgeFields
<1>4. ToSet(AllEdges(n)) = {e \in 1..Len(edges) : edges[e].start = n}
  BY <1>2, IdsFacts DEF AllEdges
<1>5. \A e : e \in S <=> UpEdge(edges, levels, n, e)
  BY <1>3, <1>4 DEF UpEdge
<1>6. S \in SUBSET (1..Len(edges)) /\ S \in SUBSET Nat /\ IsFiniteSet(S)
  <2>1. S \in SUBSET (1..Len(edges)) /\ IsFiniteSet(1..Len(edges))
    BY <1>3, <1>4, FS_Interval
  <2> QED BY <2>1, <1>3, FS_Subset
<1> HIDE DEF S
<1>7. /\ Cardinality(S) \in Nat /\ ups \in [1..Cardinality(S) -> S]
      /\ \A x \in S : \E k \in 1..Cardinality(S) : ups[k] = x
  BY <1>6, InOrderFacts
<1> HIDE DEF ups
<1>8. Len(ups) = Cardinality(S) /\ ups \in Seq(1..Len(edges)) /\ \A i \in 1..Len(ups) : ups[i] \in S
  <2> DEFINE c == Cardinality(S)
             T == 1..Len(edges)
  <2>1. c \in Nat /\ ups \in [1..c -> S] /\ ups \in [1..c -> T]
    BY <1>6, <1>7
  <2> HIDE DEF c, T
  <2>2. ups \in Seq(T) /\ Len(ups) = c /\ \A i \in 1..c : ups[i] \in S
    BY <2>1
  <2> QED BY <2>2 DEF c, T
<1> QED BY <1>1, <1>5, <1>7, <1>8
------------------------------------------------------------------------------
\* The side f of o does not promise too much.
Sound(f, D, o) == \A h \in DOMAIN f : D[o][h] < far /\ f[h].dist >= D[o][h]

\* The stored edges of u have been followed.
EdgesFollowed(f, u) ==
  \A e : UpEdge(edges, levels, u, e) =>
    edges[e].dest \in DOMAIN f /\ f[edges[e].dest].dist <= f[u].dist + edges[e].dist

HubFound(f, D, o, h) == h \in DOMAIN f /\ f[h].dist = D[o][h]

\* A shortest path from o to its hub h leads over v, which was found.
LeadsTo(f, D, o, v, h) == HubFound(f, D, o, v) /\ h \in Hubs(D, levels, v) /\ OnPath(D, o, v, h)

\* The search from o that is under way: a hub has been found with its distance
\* or a node that is still to be expanded or merged leads to it.
TempOK(acc, D, o) ==
  /\ acc \in Searches
  /\ o \in DOMAIN acc.found /\ acc.found[o].dist = 0
  /\ Sound(acc.found, D, o)
  /\ \A u \in acc.heap : u \in DOMAIN acc.found /\ ~nodeHasLabels(u)
  /\ \A u \in DOMAIN acc.labelHeap : u \in DOMAIN acc.found /\ nodeHasLabels(u)
  /\ \A u \in DOMAIN acc.found : ~nodeHasLabels(u) => u \in acc.heap \/ EdgesFollowed(acc.found, u)
  /\ acc.heap # {} => \A u \in DOMAIN acc.found : nodeHasLabels(u) => u \in DOMAIN acc.labelHeap
  /\ \A h \in Hubs(D, levels, o) :
       \/ HubFound(acc.found, D, o, h)
       \/ \E v \in acc.heap \cup DOMAIN acc.labelHeap : LeadsTo(acc.found, D, o, v, h)

\* The shortest path to a hub can be followed up to a node that is still to be
\* expanded or merged.
LEMMA HubInSight ==
  ASSUME NEW D, Hierarchy(D, edges, levels), NEW o \in Nodes, NEW f \in Collected,
         o \in DOMAIN f, f[o].dist = 0, Sound(f, D, o), NEW hp, NEW lh,
         \A u \in DOMAIN f : nodeHasLabels(u) => u \in lh,
         \A u \in DOMAIN f : ~nodeHasLabels(u) => u \in hp \/ EdgesFollowed(f, u),
         NEW h \in Hubs(D, levels, o)
  PROVE  HubFound(f, D, o, h) \/ \E v \in hp \cup lh : LeadsTo(f, D, o, v, h)
<1> DEFINE N == Cardinality(Nodes)
           Ways == {v \in Nodes : LeadsTo(f, D, o, v, h)}
           Depths == {N - levels[w] : w \in Ways}
<1>1. IsMetric(D) /\ N \in Nat /\ \A n \in Nodes : levels[n] \in 0..N
  BY NodesFacts DEF Hierarchy
<1>2. h \in Nodes
  BY DEF Hubs
<1>3. o \in Ways
  <2>1. D[o][o] = 0 /\ D[o][h] \in Nat
    BY <1>1, <1>2, MetricFacts
  <2> QED BY <2>1 DEF LeadsTo, HubFound, OnPath
<1> HIDE DEF N
<1>4. Depths \in SUBSET Nat /\ Depths # {}
  <2>1. \A w \in Ways : N - levels[w] \in Nat
    BY <1>1
  <2> HIDE DEF Ways
  <2> QED BY <1>3, <2>1
<1>5. PICK m \in Depths : \A k \in Depths : m <= k
  <2> HIDE DEF Depths
  <2> QED BY <1>4, LeastMember
<1>6. PICK c \in Nodes : LeadsTo(f, D, o, c, h) /\ m = N - levels[c]
  BY <1>5
<1>7. c \in DOMAIN f /\ f[c].dist = D[o][c] /\ h \in Hubs(D, levels, c) /\ OnPath(D, o, c, h)
  BY <1>6 DEF LeadsTo, HubFound
<1>8. CASE c \in hp \cup lh
  BY <1>6, <1>8
<1>9. CASE c = h
  BY <1>7, <1>9 DEF HubFound
<1>10. CASE c \notin hp \cup lh /\ c # h
  <2>1. EdgesFollowed(f, c)
    BY <1>7, <1>10
  <2>2. PICK e \in 1..Len(edges) :
          /\ edges[e].start = c /\ edges[e].dest \in Nodes /\ levels[edges[e].dest] > levels[c]
          /\ OnPath(D, c, edges[e].dest, h) /\ h \in Hubs(D, levels, edges[e].dest)
    BY <1>7, <1>10, HubStep
  <2> DEFINE x == edges[e].dest
  <2>3. x \in DOMAIN f /\ f[x].dist <= f[c].dist + edges[e].dist
    BY <2>1, <2>2 DEF EdgesFollowed, UpEdge
  <2>4. edges[e].dist = D[c][x]
    BY <2>2 DEF Hierarchy
  <2>5. x \in Nodes /\ levels[x] > levels[c] /\ OnPath(D, c, x, h) /\ h \in Hubs(D, levels, x)
    BY <2>2
  <2>6. f[x].dist <= D[o][c] + D[c][x] /\ f[x].dist >= D[o][x] /\ f[x].dist \in Nat
    BY <2>3, <2>4, <1>7, CollectedFields DEF Sound
  <2> HIDE DEF x
  <2>7. OnPath(D, o, x, h)
    BY <1>1, <1>2, <1>7, <2>5, PathTail
  <2>8. f[x].dist = D[o][x]
    <3> DEFINE oc == D[o][c]  ch == D[c][h]  oh == D[o][h]  cx == D[c][x]  xh == D[x][h]  ox == D[o][x]
               fx == f[x].dist
    <3>1. /\ oc \in Nat /\ ch \in Nat /\ oh \in Nat /\ cx \in Nat /\ xh \in Nat /\ ox \in Nat /\ fx \in Nat
          /\ oc + ch = oh /\ cx + xh = ch /\ ox + xh = oh /\ fx <= oc + cx /\ fx >= ox
      BY <1>1, <1>2, <1>7, <2>5, <2>6, <2>7, MetricFacts DEF OnPath
    <3> HIDE DEF oc, ch, oh, cx, xh, ox, fx
    <3>2. fx = ox
      BY <3>1
    <3> QED BY <3>2 DEF fx, ox
  <2>9. x \in Ways
    BY <2>3, <2>5, <2>7, <2>8 DEF LeadsTo, HubFound, x
  <2>10. N - levels[c] <= N - levels[x]
    BY <2>9, <1>5, <1>6
  <2> QED BY <2>5, <2>10, <1>1
<1> QED BY <1>8, <1>9, <1>10

\* The search from o after the first k of the stored edges seq of node.
TurnOK(acc, D, o, node, seq, k) ==
  /\ acc \in Searches
  /\ node \in DOMAIN acc.found
  /\ o \in DOMAIN acc.found /\ acc.found[o].dist = 0
  /\ Sound(acc.found, D, o)
  /\ \A u \in acc.heap : u \in DOMAIN acc.found /\ ~nodeHasLabels(u)
  /\ \A u \in DOMAIN acc.labelHeap : u \in DOMAIN acc.found /\ nodeHasLabels(u)
  /\ \A u \in DOMAIN acc.found : ~nodeHasLabels(u) => u \in acc.heap \/ u = node \/ EdgesFollowed(acc.found, u)
  /\ \A u \in DOMAIN acc.found : nodeHasLabels(u) => u \in DOMAIN acc.labelHeap
  /\ \A i \in 1..k : /\ edges[seq[i]].dest \in DOMAIN acc.found
                     /\ acc.found[edges[seq[i]].dest].dist <= acc.found[node].dist + edges[seq[i]].dist

LEMMA OneTurn ==
  ASSUME NEW D, Hierarchy(D, edges, levels), NEW o \in Nodes, NEW node \in Nodes, NEW seq, NEW k \in Nat \ {0},
         \A i \in 1..k : UpEdge(edges, levels, node, seq[i]), NEW acc, TurnOK(acc, D, o, node, seq, k - 1),
         NEW new, new = TempRelax(acc, node, seq[k])
  PROVE  TurnOK(new, D, o, node, seq, k)
<1> DEFINE e == seq[k]
           v == edges[e].dest
           d == acc.found[node].dist + edges[e].dist
           f == acc.found
           g == new.found
<1>1. /\ acc \in Searches /\ node \in DOMAIN f /\ o \in DOMAIN f /\ f[o].dist = 0 /\ Sound(f, D, o)
      /\ \A u \in acc.heap : u \in DOMAIN f /\ ~nodeHasLabels(u)
      /\ \A u \in DOMAIN acc.labelHeap : u \in DOMAIN f /\ nodeHasLabels(u)
      /\ \A u \in DOMAIN f : ~nodeHasLabels(u) => u \in acc.heap \/ u = node \/ EdgesFollowed(f, u)
      /\ \A u \in DOMAIN f : nodeHasLabels(u) => u \in DOMAIN acc.labelHeap
      /\ \A i \in 1..(k - 1) : /\ edges[seq[i]].dest \in DOMAIN f
                               /\ f[edges[seq[i]].dest].dist <= f[node].dist + edges[seq[i]].dist
  BY DEF TurnOK
<1>2. e \in 1..Len(edges) /\ edges[e].start = node /\ levels[v] > levels[node] /\ edges \in Seq(EdgeRecord)
      /\ IsMetric(D)
  BY k \in 1..k DEF UpEdge, Hierarchy
<1>3. /\ v \in Nodes /\ d \in Nat /\ new \in Searches
      /\ DOMAIN g = DOMAIN f \cup {v}
      /\ \A h \in DOMAIN f \ {v} : g[h] = f[h]
      /\ g[v].dist <= d
      /\ v \in DOMAIN f => g[v].dist <= f[v].dist
      /\ \/ new = acc
         \/ /\ g[v].dist = d
            /\ new.heap = IF nodeHasLabels(v) THEN acc.heap ELSE acc.heap \cup {v}
            /\ DOMAIN new.labelHeap =
                 IF nodeHasLabels(v) THEN DOMAIN acc.labelHeap \cup {v} ELSE DOMAIN acc.labelHeap
  <2>1. acc \in Searches /\ node \in DOMAIN acc.found /\ e \in 1..Len(edges) /\ edges \in Seq(EdgeRecord)
    BY <1>1, <1>2
  <2>2. v = edges[e].dest /\ d = acc.found[node].dist + edges[e].dist /\ new = TempRelax(acc, node, e)
    OBVIOUS
  <2> HIDE DEF e, v, d
  <2>3. WithNode(new, acc, v, d)
    BY <2>1, <2>2, TempRelaxed
  <2> QED BY <2>3 DEF WithNode
<1>4. v # node
  <2>1. levels[node] \in Nat
    BY NodesFacts DEF Hierarchy
  <2> QED BY <2>1, <1>2
<1>5. edges[e].dist = D[node][v] /\ D[node][v] < far
  BY <1>2 DEF Hierarchy
<1> DEFINE c == edges[e].dist
<1>6. c \in Nat /\ f[node].dist \in Nat /\ d = f[node].dist + c
  BY <1>1, <1>2, EdgeFields, CollectedFields DEF Searches
<1>7. \A h \in DOMAIN f : h \in Nodes /\ f[h].dist \in Nat
  BY <1>1, CollectedFields DEF Searches
<1>8. \A h \in DOMAIN g : h \in Nodes /\ g[h].dist \in Nat
  BY <1>3, CollectedFields DEF Searches
<1> HIDE DEF e, v, f, g, c, d
<1>9. \A h \in DOMAIN f : h \in DOMAIN g /\ g[h].dist <= f[h].dist
  BY <1>3, <1>7
<1>10. g[node] = f[node] /\ node \in DOMAIN g
  BY <1>1, <1>3, <1>4
<1>11. o \in DOMAIN g /\ g[o].dist = 0
  <2>1. o \in DOMAIN g /\ g[o].dist <= 0 /\ g[o].dist \in Nat
    BY <1>1, <1>8, <1>9
  <2> QED BY <2>1
<1>12. Sound(g, D, o)
  <2> SUFFICES ASSUME NEW h \in DOMAIN g PROVE D[o][h] < far /\ g[h].dist >= D[o][h]
    BY DEF Sound
  <2>1. CASE h # v \/ new = acc
    <3>1. h \in DOMAIN f /\ g[h] = f[h]
      <4>1. CASE new = acc
        BY <4>1 DEF f, g
      <4>2. CASE h # v
        BY <4>2, <1>3
      <4> QED BY <2>1, <4>1, <4>2
    <3> QED BY <3>1, <1>1 DEF Sound
  <2>2. CASE h = v /\ new # acc
    <3> DEFINE on == D[o][node]  nv == D[node][v]  ov == D[o][v]  fn == f[node].dist
    <3>1. on < far /\ fn >= on /\ nv < far /\ c = nv
      BY <1>1, <1>5 DEF Sound, c
    <3>2. on \in Nat /\ nv \in Nat /\ ov \in Nat /\ ov <= on + nv
      BY <1>2, <1>3, MetricFacts
    <3>3. ov < far
      BY <3>1, <1>3 DEF Hierarchy
    <3>4. g[h].dist = d /\ d = fn + c /\ fn \in Nat
      BY <2>2, <1>3, <1>6
    <3> HIDE DEF on, nv, ov, fn
    <3>5. g[h].dist >= ov
      BY <3>1, <3>2, <3>4
    <3> QED BY <2>2, <3>3, <3>5 DEF ov
  <2> QED BY <2>1, <2>2
<1>13. \A u \in new.heap : u \in DOMAIN g /\ ~nodeHasLabels(u)
  BY <1>1, <1>3
<1>14. \A u \in DOMAIN new.labelHeap : u \in DOMAIN g /\ nodeHasLabels(u)
  BY <1>1, <1>3
<1>15. ASSUME NEW u \in DOMAIN g, nodeHasLabels(u) PROVE u \in DOMAIN new.labelHeap
  <2>1. CASE new = acc
    BY <2>1, <1>1, <1>15 DEF f, g
  <2>2. CASE new # acc
    BY <2>2, <1>1, <1>3, <1>15
  <2> QED BY <2>1, <2>2
<1>16. ASSUME NEW u \in DOMAIN f, g[u] = f[u], EdgesFollowed(f, u) PROVE EdgesFollowed(g, u)
  <2> SUFFICES ASSUME NEW a, UpEdge(edges, levels, u, a)
               PROVE  edges[a].dest \in DOMAIN g /\ g[edges[a].dest].dist <= g[u].dist + edges[a].dist
    BY DEF EdgesFollowed
  <2> DEFINE x == edges[a].dest  l == edges[a].dist
  <2>1. x \in DOMAIN f /\ f[x].dist <= f[u].dist + l
    BY <1>16 DEF EdgesFollowed
  <2>2. l \in Nat
    BY <1>2, EdgeFields DEF UpEdge
  <2> HIDE DEF x, l
  <2>3. x \in DOMAIN g /\ g[x].dist <= f[x].dist /\ g[x].dist \in Nat /\ f[x].dist \in Nat /\ f[u].dist \in Nat
    BY <2>1, <1>7, <1>8, <1>9
  <2>4. g[x].dist <= f[u].dist + l
    BY <2>1, <2>2, <2>3
  <2> QED BY <2>3, <2>4, <1>16 DEF x, l
<1>17. ASSUME NEW u \in DOMAIN g, ~nodeHasLabels(u) PROVE u \in new.heap \/ u = node \/ EdgesFollowed(g, u)
  <2>1. CASE new = acc
    BY <2>1, <1>1, <1>17 DEF f, g
  <2>2. CASE new # acc /\ u = v
    BY <2>2, <1>3, <1>17
  <2>3. CASE new # acc /\ u # v
    <3>1. u \in DOMAIN f /\ g[u] = f[u] /\ acc.heap \subseteq new.heap
      BY <2>3, <1>3
    <3>2. u \in acc.heap \/ u = node \/ EdgesFollowed(f, u)
      BY <3>1, <1>1, <1>17
    <3> QED BY <3>1, <3>2, <1>16
  <2> QED BY <2>1, <2>2, <2>3
<1>18. ASSUME NEW i \in 1..k
       PROVE  /\ edges[seq[i]].dest \in DOMAIN g
              /\ g[edges[seq[i]].dest].dist <= g[node].dist + edges[seq[i]].dist
  <2>1. CASE i = k
    BY <2>1, <1>3, <1>6, <1>10 DEF e, v, c
  <2>2. CASE i # k
    <3> DEFINE x == edges[seq[i]].dest  l == edges[seq[i]].dist
    <3>1. i \in 1..(k - 1)
      BY <2>2
    <3>2. x \in DOMAIN f /\ f[x].dist <= f[node].dist + l
      BY <3>1, <1>1
    <3>3. l \in Nat
      BY <1>2, EdgeFields DEF UpEdge
    <3> HIDE DEF x, l
    <3>4. /\ x \in DOMAIN g /\ g[x].dist <= f[x].dist /\ g[x].dist \in Nat /\ f[x].dist \in Nat
          /\ f[node].dist \in Nat
      BY <3>2, <1>1, <1>7, <1>8, <1>9
    <3>5. g[x].dist <= f[node].dist + l
      BY <3>2, <3>3, <3>4
    <3> QED BY <3>4, <3>5, <1>10 DEF x, l
  <2> QED BY <2>1, <2>2
<1> QED BY <1>3, <1>10, <1>11, <1>12, <1>13, <1>14, <1>15, <1>17, <1>18 DEF TurnOK, f, g

\* A node of the lower levels is expanded.
LEMMA SearchExpands ==
  ASSUME NEW D, Hierarchy(D, edges, levels), NEW o \in Nodes, NEW acc, TempOK(acc, D, o), NEW node \in acc.heap
  PROVE  TempOK(TempFound([found |-> acc.found, heap |-> acc.heap \ {node}, labelHeap |-> acc.labelHeap],
                            StoredEdges(node), node), D, o)
<1> DEFINE base == [found |-> acc.found, heap |-> acc.heap \ {node}, labelHeap |-> acc.labelHeap]
           seq == StoredEdges(node)
           m == Len(seq)
           T == 1..Len(edges)
           U == {a \in Searches : node \in DOMAIN a.found}
           end == TempFound(base, seq, node)
<1>1. /\ acc \in Searches /\ o \in DOMAIN acc.found /\ acc.found[o].dist = 0 /\ Sound(acc.found, D, o)
      /\ \A u \in acc.heap : u \in DOMAIN acc.found /\ ~nodeHasLabels(u)
      /\ \A u \in DOMAIN acc.labelHeap : u \in DOMAIN acc.found /\ nodeHasLabels(u)
      /\ \A u \in DOMAIN acc.found : ~nodeHasLabels(u) => u \in acc.heap \/ EdgesFollowed(acc.found, u)
      /\ \A u \in DOMAIN acc.found : nodeHasLabels(u) => u \in DOMAIN acc.labelHeap
  BY DEF TempOK
<1>2. acc.found \in Collected /\ acc.heap \in SUBSET Nodes /\ acc.labelHeap \in Keys
  BY <1>1 DEF Searches
<1>3. node \in Nodes /\ ~nodeHasLabels(node) /\ node \in DOMAIN acc.found
  BY <1>1, <1>2
<1>4. base \in Searches /\ base.found = acc.found /\ base.heap = acc.heap \ {node} /\ base.labelHeap = acc.labelHeap
  BY <1>2 DEF Searches
<1>5. /\ seq \in Seq(T) /\ m \in Nat
      /\ \A i \in 1..m : UpEdge(edges, levels, node, seq[i])
      /\ \A e : UpEdge(edges, levels, node, e) => \E i \in 1..m : seq[i] = e
  BY <1>3, StoredFacts
<1> HIDE DEF base, seq, m
<1>6. TempClosed(U, T, node)
  <2> SUFFICES ASSUME NEW a \in Searches, node \in DOMAIN a.found, NEW e \in 1..Len(edges)
               PROVE  TempRelax(a, node, e) \in Searches /\ node \in DOMAIN TempRelax(a, node, e).found
    BY DEF TempClosed
  <2>1. edges \in Seq(EdgeRecord)
    BY DEF Hierarchy
  <2>2. WithNode(TempRelax(a, node, e), a, edges[e].dest, a.found[node].dist + edges[e].dist)
    BY <2>1, TempRelaxed
  <2> QED BY <2>2 DEF WithNode
<1>7. PICK g : /\ g[0] = base
               /\ \A k \in 1..m : g[k] = TempRelax(g[k - 1], node, seq[k])
               /\ end = g[m]
  <2>1. base \in U
    BY <1>3, <1>4
  <2>2. seq \in Seq(T)
    BY <1>5
  <2> HIDE DEF T, U
  <2> QED BY <2>1, <2>2, <1>6, TempTurns DEF m
<1>8. TurnOK(g[0], D, o, node, seq, 0)
  <2>1. \A i \in 1..0 : FALSE
    OBVIOUS
  <2> QED BY <2>1, <1>1, <1>3, <1>4, <1>7 DEF TurnOK
<1>9. ASSUME NEW k \in 1..m, TurnOK(g[k - 1], D, o, node, seq, k - 1) PROVE TurnOK(g[k], D, o, node, seq, k)
  <2>1. \A i \in 1..k : UpEdge(edges, levels, node, seq[i])
    BY <1>5
  <2>2. g[k] = TempRelax(g[k - 1], node, seq[k]) /\ k \in Nat \ {0}
    BY <1>5, <1>7
  <2> QED BY <2>1, <2>2, <1>3, <1>9, OneTurn
<1> DEFINE A == {k \in 0..m : TurnOK(g[k], D, o, node, seq, k)}
<1>10. 0..m \subseteq A
  <2>1. 0 \in A /\ \A k \in 1..m : k - 1 \in A => k \in A
    BY <1>5, <1>8, <1>9
  <2> HIDE DEF A
  <2> QED BY <2>1, <1>5, IntervalInduction
<1>11. TurnOK(end, D, o, node, seq, m)
  BY <1>5, <1>7, <1>10
<1> HIDE DEF end
<1>12. /\ end \in Searches /\ o \in DOMAIN end.found /\ end.found[o].dist = 0 /\ Sound(end.found, D, o)
       /\ \A u \in end.heap : u \in DOMAIN end.found /\ ~nodeHasLabels(u)
       /\ \A u \in DOMAIN end.labelHeap : u \in DOMAIN end.found /\ nodeHasLabels(u)
       /\ \A u \in DOMAIN end.found : ~nodeHasLabels(u) => u \in end.heap \/ u = node \/ EdgesFollowed(end.found, u)
       /\ \A u \in DOMAIN end.found : nodeHasLabels(u) => u \in DOMAIN end.labelHeap
       /\ \A i \in 1..m : /\ edges[seq[i]].dest \in DOMAIN end.found
                          /\ end.found[edges[seq[i]].dest].dist <= end.found[node].dist + edges[seq[i]].dist
  BY <1>11 DEF TurnOK
<1>13. EdgesFollowed(end.found, node)
  <2> SUFFICES ASSUME NEW e, UpEdge(edges, levels, node, e)
               PROVE  /\ edges[e].dest \in DOMAIN end.found
                      /\ end.found[edges[e].dest].dist <= end.found[node].dist + edges[e].dist
    BY DEF EdgesFollowed
  <2>1. PICK i \in 1..m : seq[i] = e
    BY <1>5
  <2> QED BY <2>1, <1>12
<1>14. \A u \in DOMAIN end.found : ~nodeHasLabels(u) => u \in end.heap \/ EdgesFollowed(end.found, u)
  BY <1>12, <1>13
<1>15. ASSUME NEW h \in Hubs(D, levels, o)
       PROVE  \/ HubFound(end.found, D, o, h)
              \/ \E v \in end.heap \cup DOMAIN end.labelHeap : LeadsTo(end.found, D, o, v, h)
  <2> DEFINE f == end.found  hp == end.heap  lh == DOMAIN end.labelHeap
  <2>1. f \in Collected
    BY <1>12 DEF Searches
  <2>2. /\ o \in DOMAIN f /\ f[o].dist = 0 /\ Sound(f, D, o)
        /\ \A u \in DOMAIN f : nodeHasLabels(u) => u \in lh
        /\ \A u \in DOMAIN f : ~nodeHasLabels(u) => u \in hp \/ EdgesFollowed(f, u)
    BY <1>12, <1>14
  <2> HIDE DEF f, hp, lh
  <2>3. HubFound(f, D, o, h) \/ \E v \in hp \cup lh : LeadsTo(f, D, o, v, h)
    BY <2>1, <2>2, HubInSight
  <2> QED BY <2>3 DEF f, hp, lh
<1>16. TempOK(end, D, o)
  BY <1>12, <1>14, <1>15 DEF TempOK
<1> QED BY <1>16 DEF end, base, seq

\* The labels of a node are merged.
LEMMA MergedSide ==
  ASSUME NEW f \in Collected, NEW node \in DOMAIN f, labels[node] \in Partial
  PROVE  /\ TempMerged(f, node) \in Collected
         /\ DOMAIN TempMerged(f, node) = DOMAIN f \cup DOMAIN labels[node]
         /\ \A h \in DOMAIN f \ DOMAIN labels[node] : TempMerged(f, node)[h] = f[h]
         /\ \A h \in DOMAIN f : TempMerged(f, node)[h].dist <= f[h].dist
         /\ \A h \in DOMAIN labels[node] : TempMerged(f, node)[h].dist <= f[node].dist + labels[node][h].dist
         /\ \A h \in DOMAIN TempMerged(f, node) :
              \/ h \in DOMAIN f /\ TempMerged(f, node)[h] = f[h]
              \/ h \in DOMAIN labels[node] /\ TempMerged(f, node)[h].dist = f[node].dist + labels[node][h].dist
<1> DEFINE lab == labels[node]
           new(h) == [dist |-> f[node].dist + lab[h].dist, edge |-> lab[h].edge, info |-> -node - 2]
           closer == {h \in DOMAIN lab : h \notin DOMAIN f \/ f[h].dist > new(h).dist}
           g == [h \in DOMAIN f \cup closer |-> IF h \in closer THEN new(h) ELSE f[h]]
<1>1. TempMerged(f, node) = g
  BY DEF TempMerged, Updated
<1>2. DOMAIN f \in SUBSET Nodes /\ f \in [DOMAIN f -> SideRecord] /\ \A h \in DOMAIN f : f[h].dist \in Nat
  BY CollectedFields
<1>3. DOMAIN lab \in SUBSET Nodes /\ \A h \in DOMAIN lab : lab[h].dist \in Nat /\ lab[h].edge \in Int
  BY PartialFields
<1> HIDE DEF lab
<1>4. -node - 2 \in Int /\ f[node].dist \in Nat
  BY <1>2, NodesFacts
<1>5. \A h \in DOMAIN lab : new(h) \in SideRecord /\ new(h).dist = f[node].dist + lab[h].dist /\ new(h).dist \in Nat
  BY <1>3, <1>4 DEF SideRecord
<1> HIDE DEF new
<1>6. /\ g \in [DOMAIN f \cup closer -> SideRecord] /\ DOMAIN g = DOMAIN f \cup closer
      /\ \A h \in closer : g[h] = new(h) /\ h \in DOMAIN lab /\ (h \in DOMAIN f => f[h].dist > new(h).dist)
      /\ \A h \in DOMAIN f \ closer : g[h] = f[h]
      /\ \A h \in DOMAIN lab \ closer : h \in DOMAIN f /\ ~(f[h].dist > new(h).dist)
  BY <1>2, <1>5
<1>7. DOMAIN f \cup closer = DOMAIN f \cup DOMAIN lab /\ DOMAIN f \cup closer \in SUBSET Nodes
  BY <1>2, <1>3, <1>6
<1> HIDE DEF g, closer
<1>8. g \in Collected
  BY <1>6, <1>7, CollectedIntro
<1>9. \A h \in DOMAIN f : g[h].dist <= f[h].dist
  BY <1>2, <1>5, <1>6
<1>10. \A h \in DOMAIN lab : g[h].dist <= f[node].dist + lab[h].dist
  <2> SUFFICES ASSUME NEW h \in DOMAIN lab PROVE g[h].dist <= f[node].dist + lab[h].dist
    OBVIOUS
  <2>1. CASE h \in closer
    BY <2>1, <1>5, <1>6
  <2>2. CASE h \notin closer
    <3>1. h \in DOMAIN f /\ g[h] = f[h] /\ ~(f[h].dist > new(h).dist) /\ f[h].dist \in Nat
      BY <2>2, <1>2, <1>6
    <3>2. new(h).dist \in Nat /\ new(h).dist = f[node].dist + lab[h].dist
      BY <1>5
    <3> QED BY <3>1, <3>2
  <2> QED BY <2>1, <2>2
<1>11. \A h \in DOMAIN g : \/ h \in DOMAIN f /\ g[h] = f[h]
                           \/ h \in DOMAIN lab /\ g[h].dist = f[node].dist + lab[h].dist
  BY <1>5, <1>6
<1> QED BY <1>1, <1>6, <1>7, <1>8, <1>9, <1>10, <1>11 DEF lab

LEMMA SearchMerges ==
  ASSUME NEW D, Hierarchy(D, edges, levels), NEW o \in Nodes, NEW acc, TempOK(acc, D, o), acc.heap = {},
         NEW node \in DOMAIN acc.labelHeap, LabelOK(labels[node], D, edges, levels, node), noLabelLvls \in Nat
  PROVE  TempOK([found |-> TempMerged(acc.found, node), heap |-> acc.heap,
                 labelHeap |-> [n \in DOMAIN acc.labelHeap \ {node} |-> acc.labelHeap[n]]], D, o)
<1> DEFINE f == acc.found
           g == TempMerged(f, node)
           lab == labels[node]
           lh == [n \in DOMAIN acc.labelHeap \ {node} |-> acc.labelHeap[n]]
           new == [found |-> g, heap |-> acc.heap, labelHeap |-> lh]
<1>1. /\ acc \in Searches /\ o \in DOMAIN f /\ f[o].dist = 0 /\ Sound(f, D, o)
      /\ \A u \in DOMAIN acc.labelHeap : u \in DOMAIN f /\ nodeHasLabels(u)
      /\ \A u \in DOMAIN f : ~nodeHasLabels(u) => EdgesFollowed(f, u)
      /\ \A h \in Hubs(D, levels, o) : \/ HubFound(f, D, o, h)
                                       \/ \E v \in DOMAIN acc.labelHeap : LeadsTo(f, D, o, v, h)
  BY DEF TempOK
<1>2. f \in Collected /\ acc.labelHeap \in Keys /\ node \in DOMAIN f /\ nodeHasLabels(node)
  BY <1>1 DEF Searches
<1>3. node \in Nodes /\ DOMAIN f \in SUBSET Nodes /\ \A h \in DOMAIN f : f[h].dist \in Nat
  BY <1>2, CollectedFields
<1>4. IsMetric(D) /\ edges \in Seq(EdgeRecord) /\ \A n \in Nodes : levels[n] \in Nat
  BY NodesFacts DEF Hierarchy
<1>5. lab \in Partial /\ DOMAIN lab = Hubs(D, levels, node) /\ \A h \in DOMAIN lab : lab[h].dist = D[node][h]
  BY DEF LabelOK
<1>6. \A h \in DOMAIN lab : h \in Nodes /\ D[node][h] < far
  BY <1>5 DEF Hubs, IsHub
<1>7. lh \in Keys /\ DOMAIN lh = DOMAIN acc.labelHeap \ {node}
  <2>1. PICK S \in SUBSET Nodes : acc.labelHeap \in [S -> Nat]
    BY <1>2 DEF Keys
  <2>2. lh \in [S \ {node} -> Nat] /\ DOMAIN lh = DOMAIN acc.labelHeap \ {node} /\ S \ {node} \in SUBSET Nodes
    BY <2>1
  <2> HIDE DEF lh
  <2> QED BY <2>2 DEF Keys
<1>8. /\ g \in Collected /\ DOMAIN g = DOMAIN f \cup DOMAIN lab
      /\ \A h \in DOMAIN f \ DOMAIN lab : g[h] = f[h]
      /\ \A h \in DOMAIN f : g[h].dist <= f[h].dist
      /\ \A h \in DOMAIN lab : g[h].dist <= f[node].dist + lab[h].dist
      /\ \A h \in DOMAIN g : \/ h \in DOMAIN f /\ g[h] = f[h]
                             \/ h \in DOMAIN lab /\ g[h].dist = f[node].dist + lab[h].dist
  BY <1>2, <1>5, MergedSide
<1> HIDE DEF f, g, lab, lh
<1>9. \A h \in DOMAIN g : h \in Nodes /\ g[h].dist \in Nat
  BY <1>8, CollectedFields
<1>10. new \in Searches /\ new.found = g /\ new.heap = {} /\ new.labelHeap = lh
  BY <1>7, <1>8 DEF Searches
<1> HIDE DEF new
<1>11. o \in DOMAIN g /\ g[o].dist = 0
  <2>1. o \in DOMAIN g /\ g[o].dist <= 0 /\ g[o].dist \in Nat
    BY <1>1, <1>8, <1>9
  <2> QED BY <2>1
<1>12. Sound(g, D, o)
  <2> SUFFICES ASSUME NEW h \in DOMAIN g PROVE D[o][h] < far /\ g[h].dist >= D[o][h]
    BY DEF Sound
  <2>1. CASE h \in DOMAIN f /\ g[h] = f[h]
    BY <2>1, <1>1 DEF Sound
  <2>2. CASE h \in DOMAIN lab /\ g[h].dist = f[node].dist + lab[h].dist
    <3> DEFINE on == D[o][node]  nh == D[node][h]  oh == D[o][h]  fn == f[node].dist  l == lab[h].dist
    <3>1. on < far /\ fn >= on /\ nh < far /\ l = nh /\ h \in Nodes
      BY <2>2, <1>1, <1>2, <1>5, <1>6 DEF Sound
    <3>2. on \in Nat /\ nh \in Nat /\ oh \in Nat /\ oh <= on + nh /\ fn \in Nat
      BY <3>1, <1>2, <1>3, <1>4, MetricFacts
    <3>3. oh < far
      BY <3>1, <1>3 DEF Hierarchy
    <3>4. g[h].dist = fn + l
      BY <2>2
    <3> HIDE DEF on, nh, oh, fn, l
    <3>5. g[h].dist >= oh
      BY <3>1, <3>2, <3>4
    <3> QED BY <3>3, <3>5 DEF oh
  <2> QED BY <2>1, <2>2, <1>8
<1>13. \A u \in DOMAIN lh : u \in DOMAIN g /\ nodeHasLabels(u)
  BY <1>1, <1>7, <1>8
<1>14. \A h \in DOMAIN lab : nodeHasLabels(h)
  <2> SUFFICES ASSUME NEW h \in DOMAIN lab, h # node PROVE nodeHasLabels(h)
    BY <1>2
  <2>1. levels[node] < levels[h] /\ levels[node] >= noLabelLvls /\ levels[node] \in Nat /\ levels[h] \in Nat
    BY <1>2, <1>3, <1>4, <1>5, <1>6, HubAbove DEF nodeHasLabels
  <2> QED BY <2>1 DEF nodeHasLabels
<1>15. ASSUME NEW u \in DOMAIN g, ~nodeHasLabels(u) PROVE EdgesFollowed(g, u)
  <2>1. u \in DOMAIN f /\ g[u] = f[u] /\ EdgesFollowed(f, u)
    BY <1>1, <1>8, <1>14, <1>15
  <2> SUFFICES ASSUME NEW a, UpEdge(edges, levels, u, a)
               PROVE  edges[a].dest \in DOMAIN g /\ g[edges[a].dest].dist <= g[u].dist + edges[a].dist
    BY DEF EdgesFollowed
  <2> DEFINE x == edges[a].dest  l == edges[a].dist
  <2>2. x \in DOMAIN f /\ f[x].dist <= f[u].dist + l
    BY <2>1 DEF EdgesFollowed
  <2>3. l \in Nat
    BY <1>4, EdgeFields DEF UpEdge
  <2> HIDE DEF x, l
  <2>4. x \in DOMAIN g /\ g[x].dist <= f[x].dist /\ g[x].dist \in Nat /\ f[x].dist \in Nat /\ f[u].dist \in Nat
    BY <2>1, <2>2, <1>3, <1>8, <1>9
  <2>5. g[x].dist <= f[u].dist + l
    BY <2>2, <2>3, <2>4
  <2> QED BY <2>1, <2>4, <2>5 DEF x, l
<1>16. ASSUME NEW h \in Nodes, HubFound(f, D, o, h) PROVE HubFound(g, D, o, h)
  <2> DEFINE oh == D[o][h]
  <2>1. /\ h \in DOMAIN g /\ g[h].dist <= f[h].dist /\ g[h].dist >= oh /\ f[h].dist = oh
        /\ g[h].dist \in Nat /\ oh \in Nat
    BY <1>4, <1>8, <1>9, <1>12, <1>16, MetricFacts DEF HubFound, Sound
  <2> HIDE DEF oh
  <2>2. g[h].dist = oh
    BY <2>1
  <2> QED BY <2>1, <2>2 DEF HubFound, oh
<1>17. ASSUME NEW h \in Hubs(D, levels, o)
       PROVE  HubFound(g, D, o, h) \/ \E v \in DOMAIN lh : LeadsTo(g, D, o, v, h)
  <2>0. h \in Nodes
    BY DEF Hubs
  <2>1. CASE HubFound(f, D, o, h)
    BY <2>0, <2>1, <1>16
  <2>2. CASE \E v \in DOMAIN acc.labelHeap : LeadsTo(f, D, o, v, h)
    <3>1. PICK v \in DOMAIN acc.labelHeap : LeadsTo(f, D, o, v, h)
      BY <2>2
    <3>2. HubFound(f, D, o, v) /\ h \in Hubs(D, levels, v) /\ OnPath(D, o, v, h) /\ v \in Nodes
      BY <3>1, <1>1, <1>3 DEF LeadsTo
    <3>3. CASE v # node
      BY <3>2, <3>3, <1>7, <1>16 DEF LeadsTo
    <3>4. CASE v = node
      <4> DEFINE on == D[o][node]  nh == D[node][h]  oh == D[o][h]
      <4>1. h \in DOMAIN lab /\ f[node].dist = on /\ on + nh = oh
        BY <3>2, <3>4, <1>5 DEF HubFound, OnPath
      <4>2. h \in DOMAIN g /\ g[h].dist <= on + nh /\ g[h].dist >= oh /\ g[h].dist \in Nat
        BY <4>1, <1>5, <1>8, <1>9, <1>12 DEF Sound
      <4>3. on \in Nat /\ nh \in Nat /\ oh \in Nat
        BY <2>0, <1>3, <1>4, MetricFacts
      <4> HIDE DEF on, nh, oh
      <4>4. g[h].dist = oh
        BY <4>1, <4>2, <4>3
      <4> QED BY <4>2, <4>4 DEF HubFound, oh
    <3> QED BY <3>3, <3>4
  <2> QED BY <2>1, <2>2, <1>1
<1>18. TempOK(new, D, o)
  BY <1>10, <1>11, <1>12, <1>13, <1>15, <1>17 DEF TempOK
<1> QED BY <1>18 DEF new, g, f, lh

\* A search begins.
LEMMA SearchBegins ==
  ASSUME NEW D, IsMetric(D), NEW o \in Nodes, ~nodeHasLabels(o), NEW lh \in Keys, DOMAIN lh = {}
  PROVE  TempOK([found |-> [h \in {o} |-> [dist |-> 0, edge |-> -1, info |-> -1]],
                 heap |-> {o}, labelHeap |-> lh], D, o)
<1> DEFINE f == [h \in {o} |-> [dist |-> 0, edge |-> -1, info |-> -1]]
           acc == [found |-> f, heap |-> {o}, labelHeap |-> lh]
<1>1. f \in [{o} -> SideRecord] /\ DOMAIN f = {o} /\ f[o].dist = 0
  BY DEF SideRecord
<1> HIDE DEF f
<1>2. f \in Collected
  BY <1>1, CollectedIntro
<1>3. acc \in Searches /\ acc.found = f /\ acc.heap = {o} /\ acc.labelHeap = lh
  BY <1>2 DEF Searches
<1> HIDE DEF acc
<1>4. D[o][o] = 0 /\ 0 < far /\ \A h \in Nodes : D[o][h] \in Nat
  BY MetricFacts
<1>5. Sound(f, D, o)
  BY <1>1, <1>4 DEF Sound
<1>6. \A h \in Hubs(D, levels, o) : LeadsTo(f, D, o, o, h)
  BY <1>1, <1>4 DEF LeadsTo, HubFound, OnPath, Hubs
<1>7. TempOK(acc, D, o)
  BY <1>1, <1>3, <1>5, <1>6 DEF TempOK
<1> QED BY <1>7 DEF acc, f

------------------------------------------------------------------------------
\* The side f of o can be searched for a common hub.
SideOK(f, D, o) ==
  /\ \A h \in DOMAIN f : h \in Nodes /\ f[h].dist \in Nat
  /\ Sound(f, D, o)
  /\ \A h \in Hubs(D, levels, o) : HubFound(f, D, o, h)

LEMMA LabelSide ==
  ASSUME NEW D, IsMetric(D), NEW n \in Nodes, NEW lab, LabelOK(lab, D, edges, levels, n)
  PROVE  SideOK(lab, D, n)
<1>1. lab \in Partial /\ DOMAIN lab = Hubs(D, levels, n) /\ \A h \in DOMAIN lab : lab[h].dist = D[n][h]
  BY DEF LabelOK
<1>2. \A h \in DOMAIN lab : h \in Nodes /\ D[n][h] < far /\ D[n][h] \in Nat
  BY <1>1, MetricFacts DEF Hubs, IsHub
<1> QED BY <1>1, <1>2 DEF SideOK, Sound, HubFound

LEMMA SideCollected ==
  ASSUME NEW D, NEW o, NEW acc, TempOK(acc, D, o), acc.heap = {}, DOMAIN acc.labelHeap = {}
  PROVE  SideOK(acc.found, D, o)
<1>1. acc \in Searches /\ Sound(acc.found, D, o)
  BY DEF TempOK
<1>2. \A h \in Hubs(D, levels, o) : HubFound(acc.found, D, o, h)
  BY DEF TempOK
<1>3. acc.found \in Collected
  BY <1>1 DEF Searches
<1>4. \A h \in DOMAIN acc.found : h \in Nodes /\ acc.found[h].dist \in Nat
  BY <1>3, CollectedFields
<1> QED BY <1>1, <1>2, <1>4 DEF SideOK

\* The best common hub of two sides gives the distance.
LEMMA BestCommon ==
  ASSUME NEW D, Hierarchy(D, edges, levels), NEW u \in Nodes, NEW v \in Nodes,
         NEW p, SideOK(p, D, u), NEW q, SideOK(q, D, v)
  PROVE  /\ DOMAIN p \cap DOMAIN q = {} => D[u][v] = far
         /\ DOMAIN p \cap DOMAIN q # {} =>
              /\ BestHub(p, q) \in DOMAIN p \cap DOMAIN q
              /\ p[BestHub(p, q)].dist + q[BestHub(p, q)].dist = D[u][v]
<1> DEFINE C == DOMAIN p \cap DOMAIN q
           uv == D[u][v]
           sum(h) == p[h].dist + q[h].dist
<1>1. IsMetric(D)
  BY DEF Hierarchy
<1>2. uv \in Nat /\ uv <= far /\ far \in Nat
  BY <1>1, MetricFacts
<1>3. ASSUME NEW h \in C PROVE h \in Nodes /\ sum(h) \in Nat /\ sum(h) >= uv /\ uv < far
  <2> DEFINE uh == D[u][h]  vh == D[v][h]  ph == p[h].dist  qh == q[h].dist
  <2>1. h \in Nodes /\ ph \in Nat /\ qh \in Nat /\ uh < far /\ vh < far /\ ph >= uh /\ qh >= vh
    BY DEF SideOK, Sound
  <2>2. uh \in Nat /\ vh \in Nat /\ uv <= uh + D[h][v] /\ D[h][v] = vh
    BY <2>1, <1>1, MetricFacts
  <2>3. uv < far
    BY <2>1, <2>2 DEF Hierarchy
  <2> HIDE DEF uh, vh, uv, ph, qh
  <2>4. ph + qh \in Nat /\ ph + qh >= uv
    BY <2>1, <2>2, <1>2
  <2> QED BY <2>1, <2>3, <2>4 DEF ph, qh, uv
<1>4. ASSUME uv < far PROVE \E h \in C : sum(h) = uv
  <2>1. PICK c \in Nodes : OnPath(D, u, c, v) /\ c \in Hubs(D, levels, u) /\ c \in Hubs(D, levels, v)
    BY <1>4, CommonHub
  <2>2. D[v][c] = D[c][v]
    BY <1>1, MetricFacts
  <2>3. c \in DOMAIN p /\ c \in DOMAIN q /\ p[c].dist = D[u][c] /\ q[c].dist = D[v][c]
    BY <2>1 DEF SideOK, HubFound
  <2> QED BY <2>1, <2>2, <2>3 DEF OnPath
<1>5. ASSUME C = {} PROVE uv = far
  <2>1. ~(uv < far)
    BY <1>4, <1>5
  <2> HIDE DEF uv
  <2> QED BY <2>1, <1>2
<1>6. ASSUME C # {} PROVE BestHub(p, q) \in C /\ sum(BestHub(p, q)) = uv
  <2>1. uv < far
    BY <1>3, <1>6
  <2>2. PICK c \in C : sum(c) = uv
    BY <2>1, <1>4
  <2> DEFINE Best == {h \in C : sum(h) = uv}
  <2>3. Best \in SUBSET Nat /\ Best # {}
    BY <2>2, <1>3, NodesFacts
  <2>4. PICK b \in Best : \A k \in Best : b <= k
    <3> HIDE DEF Best
    <3> QED BY <2>3, LeastMember
  <2> DEFINE IsBest(h) == \A g \in C : sum(h) < sum(g) \/ (sum(h) = sum(g) /\ h <= g)
  <2>5. b \in C /\ IsBest(b)
    <3>1. b \in C /\ sum(b) = uv
      BY <2>4
    <3>2. ASSUME NEW g \in C PROVE sum(b) < sum(g) \/ (sum(b) = sum(g) /\ b <= g)
      <4>1. sum(g) \in Nat /\ sum(g) >= uv
        BY <1>3
      <4>2. CASE sum(g) = uv
        BY <4>2, <3>1, <2>4
      <4> HIDE DEF sum, uv
      <4>3. CASE sum(g) # uv
        BY <4>1, <4>3, <3>1, <1>2
      <4> QED BY <4>2, <4>3
    <3> QED BY <3>1, <3>2
  <2>6. BestHub(p, q) = CHOOSE h \in C : IsBest(h)
    BY DEF BestHub
  <2>7. BestHub(p, q) \in C /\ IsBest(BestHub(p, q))
    <3> HIDE DEF C, IsBest
    <3> QED BY <2>5, <2>6
  <2> DEFINE hub == BestHub(p, q)
  <2> HIDE DEF hub
  <2>8. hub \in C /\ IsBest(hub)
    BY <2>7 DEF hub
  <2>9. sum(hub) \in Nat /\ sum(hub) >= uv
    BY <2>8, <1>3
  <2>10. sum(hub) < sum(c) \/ sum(hub) = sum(c)
    BY <2>8
  <2> HIDE DEF sum, uv
  <2>11. sum(hub) = uv
    BY <2>2, <2>9, <2>10, <1>2
  <2> QED BY <2>8, <2>11 DEF hub
<1> QED BY <1>5, <1>6
------------------------------------------------------------------------------
\* calcTempLabels at work on side s.
Searching(s) == [found |-> side[s], heap |-> heap, labelHeap |-> labelHeap]

\* What DistanceIsShortest says of an answer.
AnswerMeasured ==
  /\ answer.kind = "found" => answer.distance = AllDistances[grid][from][to]
  /\ answer.kind = "notFound" => AllDistances[grid][from][to] = far

\* A side that was collected serves until the answer, and the answer has the
\* distance of its nodes.
RouteInv ==
  /\ hlPhase # "done" => rpc = "idle" /\ answer.kind = "none"
  /\ rpc \in {"idle", "left", "right", "answer"}
  /\ DOMAIN side = Sides
  /\ rpc # "idle" => from \in Nodes /\ to \in Nodes
  /\ rpc = "left" => ~nodeHasLabels(from) /\ TempOK(Searching("left"), AllDistances[grid], from)
  /\ rpc = "right" => ~nodeHasLabels(to) /\ TempOK(Searching("right"), AllDistances[grid], to)
  /\ rpc \in {"right", "answer"} /\ ~nodeHasLabels(from) => SideOK(side["left"], AllDistances[grid], from)
  /\ rpc = "answer" /\ ~nodeHasLabels(to) => SideOK(side["right"], AllDistances[grid], to)
  /\ AnswerMeasured

LEMMA SearchFrame ==
  ASSUME UNCHANGED allVars
  PROVE  /\ AllDistances[grid]' = AllDistances[grid]
         /\ \A n : nodeHasLabels(n)' <=> nodeHasLabels(n)
         /\ \A acc, D, o : TempOK(acc, D, o)' <=> TempOK(acc, D, o)
         /\ \A f, D, o : SideOK(f, D, o)' <=> SideOK(f, D, o)
<1>1. edges' = edges /\ levels' = levels /\ noLabelLvls' = noLabelLvls /\ grid' = grid
  BY DEF allVars, hlVars, chVars, gridVars, threadVars
<1>2. \A n : nodeHasLabels(n)' <=> nodeHasLabels(n)
  BY <1>1 DEF nodeHasLabels
<1>3. \A f, u : EdgesFollowed(f, u)' <=> EdgesFollowed(f, u)
  BY <1>1 DEF EdgesFollowed
<1>4. \A f, D, o, v, h : LeadsTo(f, D, o, v, h)' <=> LeadsTo(f, D, o, v, h)
  BY <1>1 DEF LeadsTo
<1>5. ASSUME NEW acc, NEW D, NEW o PROVE TempOK(acc, D, o)' <=> TempOK(acc, D, o)
  BY <1>1, <1>2, <1>3, <1>4 DEF TempOK
<1>6. ASSUME NEW f, NEW D, NEW o PROVE SideOK(f, D, o)' <=> SideOK(f, D, o)
  BY <1>1 DEF SideOK
<1>7. AllDistances[grid]' = AllDistances[grid]
  BY <1>1
<1> QED BY <1>2, <1>5, <1>6, <1>7

\* What a search begins with.
LEMMA StageBegins ==
  ASSUME NEW D, IsMetric(D), NEW s \in Nodes, NEW d \in Nodes, NEW stage \in Sides, DOMAIN side = Sides,
         NEW lh \in Keys, DOMAIN lh = {}, StageStart(s, d, stage), ~nodeHasLabels(Origin(s, d, stage))
  PROVE  /\ DOMAIN side' = Sides /\ \A r \in Sides \ {stage} : side'[r] = side[r]
         /\ TempOK([found |-> side'[stage], heap |-> heap', labelHeap |-> lh], D, Origin(s, d, stage))
<1> DEFINE o == Origin(s, d, stage)
           f == [h \in {o} |-> [dist |-> 0, edge |-> -1, info |-> -1]]
<1>1. stage # "answer" /\ o \in Nodes
  BY DEF Sides, Origin
<1> HIDE DEF o
<1>2. heap' = {o} /\ side' = [side EXCEPT ![stage] = f]
  BY <1>1 DEF StageStart, o
<1> HIDE DEF f
<1>3. DOMAIN side' = Sides /\ side'[stage] = f /\ \A r \in Sides \ {stage} : side'[r] = side[r]
  BY <1>2
<1>4. TempOK([found |-> f, heap |-> {o}, labelHeap |-> lh], D, o)
  BY <1>1, SearchBegins DEF f, o
<1> QED BY <1>2, <1>3, <1>4 DEF o

\* The state that the steps of a request work on.
LEMMA ServingFacts ==
  ASSUME CHInv, DistanceInv, HubInv, hlPhase = "done"
  PROVE  /\ Hierarchy(AllDistances[grid], edges, levels) /\ IsMetric(AllDistances[grid])
         /\ noLabelLvls \in Nat
         /\ \A n \in Nodes : nodeHasLabels(n) => LabelOK(labels[n], AllDistances[grid], edges, levels, n)
<1>1. hlPhase # "wait"
  OBVIOUS
<1>2. Hierarchy(AllDistances[grid], edges, levels) /\ LevelsBefore
  BY <1>1, LabelFacts
<1>3. \A n \in Nodes : nodeHasLabels(n) => LabelOK(labels[n], AllDistances[grid], edges, levels, n)
  BY AllLevelsLabelled DEF Labelled
<1> QED BY <1>2, <1>3 DEF Hierarchy, LevelsBefore

LEMMA EmptyHeap == NoSide \in Keys /\ DOMAIN NoSide = {}
<1>1. NoSide \in [{} -> Nat] /\ DOMAIN NoSide = {}
  BY DEF NoSide
<1>2. {} \in SUBSET Nodes
  OBVIOUS
<1> QED BY <1>1, <1>2 DEF Keys

LEMMA RouteStep ==
  ASSUME CHInv, DistanceInv, HubInv, RouteInv, NEW s \in Nodes, NEW d \in Nodes, route(s, d)
  PROVE  RouteInv'
<1> DEFINE D == AllDistances[grid]
           stage == FirstStage(s, d)
<1>1. /\ hlPhase = "done" /\ from' = s /\ to' = d /\ rpc' = stage /\ StageStart(s, d, stage)
      /\ labelHeap' = NoSide /\ answer' = Failed("none") /\ UNCHANGED allVars
  BY DEF route
<1>2. DOMAIN side = Sides /\ hlPhase' = hlPhase
  BY <1>1 DEF RouteInv, allVars, hlVars
<1>3. IsMetric(D)
  BY <1>1, ServingFacts
<1>4. answer'.kind = "none" /\ AnswerMeasured'
  BY <1>1 DEF Failed, AnswerMeasured
<1>5. D' = D /\ \A n : nodeHasLabels(n)' <=> nodeHasLabels(n)
  BY <1>1, SearchFrame
<1> HIDE DEF D
<1>6. CASE ~nodeHasLabels(s)
  <2>1. stage = "left" /\ Origin(s, d, stage) = s
    BY <1>6 DEF FirstStage, Origin
  <2>2. DOMAIN side' = Sides /\ TempOK([found |-> side'["left"], heap |-> heap', labelHeap |-> NoSide], D, s)
    <3>1. "left" \in Sides /\ StageStart(s, d, "left") /\ ~nodeHasLabels(Origin(s, d, "left")) /\ Origin(s, d, "left") = s
      BY <2>1, <1>1, <1>6 DEF Sides
    <3> QED BY <3>1, <1>2, <1>3, EmptyHeap, StageBegins
  <2>3. TempOK(Searching("left"), D, from)'
    <3>1. PICK acc : acc = [found |-> side'["left"], heap |-> heap', labelHeap |-> NoSide]
      OBVIOUS
    <3>2. TempOK(acc, D, s)'
      <4>1. PICK x : x = D
        OBVIOUS
      <4>2. TempOK(acc, x, s)'
        BY <2>2, <3>1, <4>1, <1>1, SearchFrame
      <4> QED BY <4>1, <4>2, <1>5
    <3>3. Searching("left")' = acc
      BY <3>1, <1>1 DEF Searching
    <3> QED BY <3>2, <3>3, <1>1
  <2> QED BY <2>1, <2>2, <2>3, <1>1, <1>2, <1>4, <1>5, <1>6 DEF RouteInv, D
<1>7. CASE nodeHasLabels(s) /\ ~nodeHasLabels(d)
  <2>1. stage = "right" /\ Origin(s, d, stage) = d
    BY <1>7 DEF FirstStage, AfterLeft, Origin
  <2>2. DOMAIN side' = Sides /\ TempOK([found |-> side'["right"], heap |-> heap', labelHeap |-> NoSide], D, d)
    <3>1. "right" \in Sides /\ StageStart(s, d, "right") /\ ~nodeHasLabels(Origin(s, d, "right")) /\ Origin(s, d, "right") = d
      BY <2>1, <1>1, <1>7 DEF Sides
    <3> QED BY <3>1, <1>2, <1>3, EmptyHeap, StageBegins
  <2>3. TempOK(Searching("right"), D, to)'
    <3>1. PICK acc : acc = [found |-> side'["right"], heap |-> heap', labelHeap |-> NoSide]
      OBVIOUS
    <3>2. TempOK(acc, D, d)'
      <4>1. PICK x : x = D
        OBVIOUS
      <4>2. TempOK(acc, x, d)'
        BY <2>2, <3>1, <4>1, <1>1, SearchFrame
      <4> QED BY <4>1, <4>2, <1>5
    <3>3. Searching("right")' = acc
      BY <3>1, <1>1 DEF Searching
    <3> QED BY <3>2, <3>3, <1>1
  <2> QED BY <2>1, <2>2, <2>3, <1>1, <1>2, <1>4, <1>5, <1>7 DEF RouteInv, D
<1>8. CASE nodeHasLabels(s) /\ nodeHasLabels(d)
  <2>1. stage = "answer"
    BY <1>8 DEF FirstStage, AfterLeft
  <2>2. side' = side
    BY <2>1, <1>1 DEF StageStart
  <2> QED BY <2>1, <2>2, <1>1, <1>2, <1>4, <1>5, <1>8 DEF RouteInv
<1> QED BY <1>6, <1>7, <1>8

\* A step of a search on side s.
LEMMA SearchStep ==
  ASSUME CHInv, DistanceInv, HubInv, RouteInv, rpc \in Sides, NEW found, side' = [side EXCEPT ![rpc] = found],
         UNCHANGED <<allVars, rpc, from, to, answer>>,
         TempOK([found |-> found, heap |-> heap', labelHeap |-> labelHeap'], AllDistances[grid], Origin(from, to, rpc))
  PROVE  RouteInv'
<1> DEFINE D == AllDistances[grid]
           o == Origin(from, to, rpc)
<1>1. /\ UNCHANGED allVars /\ rpc' = rpc /\ from' = from /\ to' = to /\ answer' = answer /\ grid' = grid
      /\ hlPhase' = hlPhase
  BY DEF allVars, chVars, gridVars, hlVars
<1>2. /\ D' = D /\ \A n : nodeHasLabels(n)' <=> nodeHasLabels(n)
  BY <1>1, SearchFrame
<1>3. DOMAIN side' = Sides /\ side'[rpc] = found /\ \A r \in Sides \ {rpc} : side'[r] = side[r]
  BY DEF RouteInv
<1>4. PICK acc, x, z : acc = [found |-> found, heap |-> heap', labelHeap |-> labelHeap'] /\ x = D /\ z = o
  OBVIOUS
<1>5. TempOK(acc, x, z)'
  <2>1. TempOK(acc, x, z)
    BY <1>4
  <2> QED BY <2>1, <1>1, SearchFrame
<1>6. Searching(rpc)' = acc
  BY <1>1, <1>3, <1>4 DEF Searching
<1>7. AnswerMeasured'
  BY <1>1 DEF RouteInv, AnswerMeasured
<1>8. CASE rpc = "left"
  <2>1. TempOK(Searching("left"), D, from)'
    <3>1. z = from' /\ x = D'
      BY <1>1, <1>2, <1>4, <1>8 DEF Origin
    <3>2. Searching("left")' = acc
      BY <1>1, <1>6, <1>8
    <3> HIDE DEF D
    <3> QED BY <3>1, <3>2, <1>5
  <2> QED BY <2>1, <1>1, <1>2, <1>3, <1>7, <1>8 DEF RouteInv
<1>9. CASE rpc = "right"
  <2>1. TempOK(Searching("right"), D, to)'
    <3>1. z = to' /\ x = D'
      BY <1>1, <1>2, <1>4, <1>9 DEF Origin
    <3>2. Searching("right")' = acc
      BY <1>1, <1>6, <1>9
    <3> HIDE DEF D
    <3> QED BY <3>1, <3>2, <1>5
  <2>2. (~nodeHasLabels(from) => SideOK(side["left"], D, from))'
    <3>1. side'["left"] = side["left"]
      BY <1>3, <1>9 DEF Sides
    <3>2. PICK f, y : f = side["left"] /\ y = from
      OBVIOUS
    <3>3. SideOK(f, x, y)' <=> SideOK(f, x, y)
      BY <1>1, SearchFrame
    <3>4. ~nodeHasLabels(from) => SideOK(f, x, y)
      BY <3>2, <1>4, <1>9 DEF RouteInv
    <3>5. f = side'["left"] /\ y = from' /\ x = D'
      BY <3>1, <3>2, <1>1, <1>2, <1>4
    <3>6. nodeHasLabels(from)' <=> nodeHasLabels(from)
      BY <1>1, <1>2
    <3> HIDE DEF D
    <3> QED BY <3>3, <3>4, <3>5, <3>6
  <2> QED BY <2>1, <2>2, <1>1, <1>2, <1>3, <1>7, <1>9 DEF RouteInv
<1> QED BY <1>8, <1>9 DEF Sides

LEMMA ExpandStep ==
  ASSUME CHInv, DistanceInv, HubInv, RouteInv, NEW node \in heap, TempExpand(node)
  PROVE  RouteInv'
<1> DEFINE D == AllDistances[grid]
           o == Origin(from, to, rpc)
           acc == Searching(rpc)
           end == TempFound([found |-> acc.found, heap |-> acc.heap \ {node}, labelHeap |-> acc.labelHeap],
                            StoredEdges(node), node)
<1>1. rpc \in Sides /\ UNCHANGED <<allVars, rpc, from, to, answer>>
  BY DEF TempExpand
<1>2. rpc # "idle" /\ hlPhase = "done"
  BY <1>1 DEF RouteInv, Sides
<1>3. Hierarchy(D, edges, levels)
  BY <1>2, ServingFacts
<1>4. o \in Nodes /\ TempOK(acc, D, o)
  BY <1>1, <1>2 DEF RouteInv, Origin, Sides
<1>5. acc.heap = heap /\ acc.found = side[rpc] /\ acc.labelHeap = labelHeap
  BY DEF Searching
<1>6. side' = [side EXCEPT ![rpc] = end.found] /\ heap' = end.heap /\ labelHeap' = end.labelHeap
  BY <1>5 DEF TempExpand, TempFound
<1> HIDE DEF D, o, acc
<1>7. TempOK(end, D, o)
  BY <1>3, <1>4, <1>5, SearchExpands
<1> HIDE DEF end
<1>8. end = [found |-> end.found, heap |-> heap', labelHeap |-> labelHeap']
  BY <1>6, <1>7 DEF TempOK, Searches
<1>9. TempOK([found |-> end.found, heap |-> heap', labelHeap |-> labelHeap'], D, o)
  BY <1>7, <1>8
<1> QED BY <1>1, <1>6, <1>9, SearchStep DEF D, o

LEMMA MergeStep ==
  ASSUME CHInv, DistanceInv, HubInv, RouteInv, NEW node \in DOMAIN labelHeap, TempMerge(node)
  PROVE  RouteInv'
<1> DEFINE D == AllDistances[grid]
           o == Origin(from, to, rpc)
           acc == Searching(rpc)
           found == TempMerged(side[rpc], node)
<1>1. /\ rpc \in Sides /\ UNCHANGED <<allVars, rpc, from, to, answer>> /\ heap = {} /\ heap' = heap
      /\ side' = [side EXCEPT ![rpc] = found]
      /\ labelHeap' = [n \in DOMAIN labelHeap \ {node} |-> labelHeap[n]]
  BY DEF TempMerge
<1>2. rpc # "idle" /\ hlPhase = "done"
  BY <1>1 DEF RouteInv, Sides
<1>3. /\ Hierarchy(D, edges, levels) /\ noLabelLvls \in Nat
      /\ \A n \in Nodes : nodeHasLabels(n) => LabelOK(labels[n], D, edges, levels, n)
  BY <1>2, ServingFacts
<1>4. o \in Nodes /\ TempOK(acc, D, o)
  BY <1>1, <1>2 DEF RouteInv, Origin, Sides
<1>5. acc.heap = {} /\ acc.found = side[rpc] /\ acc.labelHeap = labelHeap
  BY <1>1 DEF Searching
<1> HIDE DEF D, o, acc
<1>6. LabelOK(labels[node], D, edges, levels, node)
  <2>1. acc \in Searches /\ node \in DOMAIN acc.found /\ nodeHasLabels(node)
    BY <1>4, <1>5 DEF TempOK
  <2>2. node \in Nodes
    BY <2>1, CollectedFields DEF Searches
  <2> QED BY <2>1, <2>2, <1>3
<1>7. TempOK([found |-> TempMerged(acc.found, node), heap |-> acc.heap,
              labelHeap |-> [n \in DOMAIN acc.labelHeap \ {node} |-> acc.labelHeap[n]]], D, o)
  BY <1>3, <1>4, <1>5, <1>6, SearchMerges
<1>8. TempOK([found |-> found, heap |-> heap', labelHeap |-> labelHeap'], D, o)
  BY <1>1, <1>5, <1>7
<1> HIDE DEF found
<1> QED BY <1>1, <1>8, SearchStep DEF D, o

LEMMA DoneStep ==
  ASSUME CHInv, DistanceInv, HubInv, RouteInv, SideDone
  PROVE  RouteInv'
<1> DEFINE D == AllDistances[grid]
           stage == IF rpc = "left" THEN AfterLeft(to) ELSE "answer"
           acc == Searching(rpc)
           o == Origin(from, to, rpc)
<1>1. /\ rpc \in Sides /\ heap = {} /\ DOMAIN labelHeap = {} /\ rpc' = stage /\ StageStart(from, to, stage)
      /\ UNCHANGED allVars /\ from' = from /\ to' = to /\ labelHeap' = labelHeap /\ answer' = answer
  BY DEF SideDone
<1>2. rpc # "idle" /\ hlPhase = "done" /\ DOMAIN side = Sides /\ from \in Nodes /\ to \in Nodes
  BY <1>1 DEF RouteInv, Sides
<1>3. IsMetric(D)
  BY <1>2, ServingFacts
<1>4. TempOK(acc, D, o)
  BY <1>1 DEF RouteInv, Origin, Sides
<1>5. acc.heap = {} /\ acc.found = side[rpc] /\ acc.labelHeap = labelHeap
  BY <1>1 DEF Searching
<1>6. hlPhase' = hlPhase /\ AnswerMeasured'
  BY <1>1 DEF RouteInv, AnswerMeasured, allVars, chVars, gridVars, hlVars
<1>7. /\ D' = D /\ \A n : nodeHasLabels(n)' <=> nodeHasLabels(n)
  BY <1>1, SearchFrame
<1> HIDE DEF D, o, acc
<1>8. SideOK(side[rpc], D, o)
  BY <1>1, <1>4, <1>5, SideCollected
<1>9. labelHeap \in Keys
  BY <1>4, <1>5 DEF TempOK, Searches
<1>10. PICK x : x = D
  OBVIOUS
<1>11. ASSUME side'["left"] = side["left"], rpc = "left" \/ ~nodeHasLabels(from)
       PROVE  (~nodeHasLabels(from) => SideOK(side["left"], D, from))'
  <2>1. PICK f, y : f = side["left"] /\ y = from
    OBVIOUS
  <2>2. SideOK(f, x, y)
    BY <2>1, <1>8, <1>10, <1>1, <1>11 DEF RouteInv, D, Origin, Sides, o
  <2>3. SideOK(f, x, y)'
    BY <2>2, <1>1, SearchFrame
  <2>4. f = side'["left"] /\ y = from' /\ x = D'
    BY <2>1, <1>1, <1>7, <1>10, <1>11
  <2> QED BY <2>3, <2>4
<1>12. CASE rpc = "left" /\ ~nodeHasLabels(to)
  <2>1. stage = "right" /\ Origin(from, to, "right") = to
    BY <1>12 DEF AfterLeft, Origin
  <2>2. /\ DOMAIN side' = Sides /\ side'["left"] = side["left"]
        /\ TempOK([found |-> side'["right"], heap |-> heap', labelHeap |-> labelHeap], D, to)
    <3>1. "right" \in Sides /\ StageStart(from, to, "right") /\ ~nodeHasLabels(Origin(from, to, "right"))
      BY <2>1, <1>1, <1>12 DEF Sides
    <3>2. PICK lh : lh = labelHeap
      OBVIOUS
    <3>3. /\ DOMAIN side' = Sides /\ \A r \in Sides \ {"right"} : side'[r] = side[r]
          /\ TempOK([found |-> side'["right"], heap |-> heap', labelHeap |-> lh], D, Origin(from, to, "right"))
      BY <3>1, <3>2, <1>1, <1>2, <1>3, <1>9, StageBegins
    <3> QED BY <2>1, <3>2, <3>3 DEF Sides
  <2>3. TempOK(Searching("right"), D, to)'
    <3>1. PICK a, y : a = [found |-> side'["right"], heap |-> heap', labelHeap |-> labelHeap] /\ y = to
      OBVIOUS
    <3>2. TempOK(a, x, y)'
      BY <2>2, <3>1, <1>1, <1>10, SearchFrame
    <3>3. Searching("right")' = a /\ y = to' /\ x = D'
      BY <3>1, <1>1, <1>7, <1>10 DEF Searching
    <3> QED BY <3>2, <3>3
  <2>4. (~nodeHasLabels(from) => SideOK(side["left"], D, from))'
    BY <2>2, <1>11, <1>12
  <2> QED BY <2>1, <2>2, <2>3, <2>4, <1>1, <1>2, <1>6, <1>7, <1>12 DEF RouteInv, D
<1>13. CASE rpc = "left" /\ nodeHasLabels(to)
  <2>1. stage = "answer" /\ side' = side
    BY <1>1, <1>13 DEF AfterLeft, StageStart
  <2>2. (~nodeHasLabels(from) => SideOK(side["left"], D, from))'
    BY <2>1, <1>11, <1>13
  <2> QED BY <2>1, <2>2, <1>1, <1>2, <1>6, <1>7, <1>13 DEF RouteInv, D
<1>14. CASE rpc = "right"
  <2>1. stage = "answer" /\ side' = side
    BY <1>1, <1>14 DEF StageStart
  <2>2. (~nodeHasLabels(from) => SideOK(side["left"], D, from))'
    BY <2>1, <1>1, <1>7, <1>11
  <2>3. SideOK(side["right"], D, to)'
    <3>1. PICK f, y : f = side["right"] /\ y = to
      OBVIOUS
    <3>2. SideOK(f, x, y)
      BY <3>1, <1>8, <1>10, <1>14 DEF Origin, o
    <3>3. SideOK(f, x, y)'
      BY <3>2, <1>1, SearchFrame
    <3>4. f = side'["right"] /\ y = to' /\ x = D'
      BY <3>1, <2>1, <1>1, <1>7, <1>10
    <3> QED BY <3>3, <3>4
  <2> QED BY <2>1, <2>2, <2>3, <1>1, <1>2, <1>6, <1>7, <1>14 DEF RouteInv, D
<1> QED BY <1>1, <1>12, <1>13, <1>14 DEF Sides

\* The best common hub of two collected sides gives the distance.
LEMMA HubMeasured ==
  ASSUME CHInv, DistanceInv, HubInv, RouteInv, rpc = "answer",
         NEW p, p = SideOf(from, "left"), NEW q, q = SideOf(to, "right")
  PROVE  /\ DOMAIN p \cap DOMAIN q = {} => AllDistances[grid][from][to] = far
         /\ DOMAIN p \cap DOMAIN q # {} =>
              p[BestHub(p, q)].dist + q[BestHub(p, q)].dist = AllDistances[grid][from][to]
<1> DEFINE D == AllDistances[grid]
<1>2. hlPhase = "done" /\ from \in Nodes /\ to \in Nodes
  BY DEF RouteInv
<1>3. /\ Hierarchy(D, edges, levels) /\ IsMetric(D)
      /\ \A n \in Nodes : nodeHasLabels(n) => LabelOK(labels[n], D, edges, levels, n)
  BY <1>2, ServingFacts
<1>4. SideOK(p, D, from) /\ SideOK(q, D, to)
  <2> HIDE DEF D
  <2>1. SideOK(p, D, from)
    <3>1. CASE nodeHasLabels(from)
      BY <3>1, <1>2, <1>3, LabelSide DEF SideOf
    <3>2. CASE ~nodeHasLabels(from)
      BY <3>2 DEF RouteInv, SideOf, D
    <3> QED BY <3>1, <3>2
  <2>2. SideOK(q, D, to)
    <3>1. CASE nodeHasLabels(to)
      BY <3>1, <1>2, <1>3, LabelSide DEF SideOf
    <3>2. CASE ~nodeHasLabels(to)
      BY <3>2 DEF RouteInv, SideOf, D
    <3> QED BY <3>1, <3>2
  <2> QED BY <2>1, <2>2
<1> HIDE DEF D
<1>5. /\ DOMAIN p \cap DOMAIN q = {} => D[from][to] = far
      /\ DOMAIN p \cap DOMAIN q # {} => p[BestHub(p, q)].dist + q[BestHub(p, q)].dist = D[from][to]
  BY <1>2, <1>3, <1>4, BestCommon
<1> QED BY <1>5 DEF D

LEMMA AnswerStep ==
  ASSUME CHInv, DistanceInv, HubInv, RouteInv, Answer
  PROVE  RouteInv'
<1> DEFINE D == AllDistances[grid]
           p == SideOf(from, "left")
           q == SideOf(to, "right")
           hub == BestHub(p, q)
           up == EdgesTo(hub, from, p)
           down == EdgesTo(hub, to, q)
           res == IF DOMAIN p \cap DOMAIN q = {} THEN Failed("notFound")
                  ELSE IF -1 \in ToSet(up) \cup ToSet(down) THEN Failed("exception")
                  ELSE [kind |-> "found", path |-> calculateRoute(from, to, up, down),
                        distance |-> p[hub].dist + q[hub].dist]
<1>1. /\ rpc = "answer" /\ rpc' = "idle" /\ side' = [s \in Sides |-> NoSide] /\ UNCHANGED allVars
      /\ from' = from /\ to' = to /\ answer' = res
  BY DEF Answer
<1>2. hlPhase = "done" /\ from \in Nodes /\ to \in Nodes /\ hlPhase' = hlPhase
  BY <1>1 DEF RouteInv, allVars, hlVars
<1>5. D' = D
  BY <1>1, SearchFrame
<1>6. /\ DOMAIN p \cap DOMAIN q = {} => D[from][to] = far
      /\ DOMAIN p \cap DOMAIN q # {} => p[hub].dist + q[hub].dist = D[from][to]
  BY <1>1, HubMeasured
<1> HIDE DEF D, p, q, up, down
<1>7. /\ answer'.kind = "found" => answer'.distance = D[from][to]
      /\ answer'.kind = "notFound" => D[from][to] = far
  <2> DEFINE dist == p[hub].dist + q[hub].dist
             path == calculateRoute(from, to, up, down)
  <2> HIDE DEF dist, path, hub
  <2>1. CASE DOMAIN p \cap DOMAIN q = {}
    BY <2>1, <1>1, <1>6 DEF Failed
  <2>2. CASE DOMAIN p \cap DOMAIN q # {} /\ -1 \in ToSet(up) \cup ToSet(down)
    BY <2>2, <1>1 DEF Failed
  <2>3. CASE DOMAIN p \cap DOMAIN q # {} /\ ~(-1 \in ToSet(up) \cup ToSet(down))
    <3>1. answer' = [kind |-> "found", path |-> path, distance |-> dist]
      BY <2>3, <1>1 DEF path, dist
    <3>2. dist = D[from][to]
      BY <2>3, <1>6 DEF dist
    <3> QED BY <3>1, <3>2
  <2> QED BY <2>1, <2>2, <2>3
<1>8. AnswerMeasured'
  BY <1>1, <1>5, <1>7 DEF AnswerMeasured, D
<1>9. DOMAIN side' = Sides
  BY <1>1
<1> QED BY <1>1, <1>2, <1>8, <1>9 DEF RouteInv
------------------------------------------------------------------------------
\* Before the labels are complete no request is served.
LEMMA NotServing ==
  ASSUME RouteInv, hlPhase # "done", UNCHANGED routeVars
  PROVE  RouteInv'
<1>1. rpc' = rpc /\ answer' = answer /\ side' = side /\ rpc = "idle" /\ answer.kind = "none"
  BY DEF RouteInv, routeVars
<1> QED BY <1>1 DEF RouteInv, AnswerMeasured

LEMMA RouteInvFrame ==
  ASSUME RouteInv, UNCHANGED allVars, UNCHANGED routeVars
  PROVE  RouteInv'
<1> DEFINE D == AllDistances[grid]
<1>1. /\ rpc' = rpc /\ from' = from /\ to' = to /\ side' = side /\ heap' = heap /\ labelHeap' = labelHeap
      /\ answer' = answer
  BY DEF routeVars
<1>2. hlPhase' = hlPhase /\ grid' = grid
  BY DEF allVars, hlVars, chVars, gridVars
<1>3. /\ D' = D /\ \A n : nodeHasLabels(n)' <=> nodeHasLabels(n)
      /\ \A acc, d, o : TempOK(acc, d, o)' <=> TempOK(acc, d, o)
      /\ \A f, d, o : SideOK(f, d, o)' <=> SideOK(f, d, o)
  BY SearchFrame
<1>4. /\ Searching("left")' = Searching("left") /\ Searching("right")' = Searching("right")
      /\ AnswerMeasured' = AnswerMeasured
  BY <1>1, <1>2 DEF Searching, AnswerMeasured
<1> QED BY <1>1, <1>2, <1>3, <1>4 DEF RouteInv

LEMMA RoutesHold == RouterSpec => []RouteInv
<1>1. RouterInit => RouteInv
  BY DEF RouterInit, HLInit, RouteInv, Failed, AnswerMeasured, Sides
<1>2. CHInv /\ DistanceInv /\ HubInv /\ RouteInv /\ [RouterNext]_routerVars => RouteInv'
  <2>0. SUFFICES ASSUME CHInv, DistanceInv, HubInv, RouteInv, [RouterNext]_routerVars PROVE RouteInv'
    OBVIOUS
  <2>1. CASE CHNext /\ UNCHANGED <<hlVars, routeVars>>
    <3>1. hlPhase # "done"
      BY <2>0, <2>1, ContractionOver DEF HubInv, LevelsBefore
    <3> QED BY <2>0, <2>1, <3>1, NotServing
  <2>2. CASE HLNext /\ UNCHANGED routeVars
    <3>1. hlPhase # "done"
      BY <2>2 DEF HLNext, createHLCalcOrder, StartLevel, calcLabels, JoinLevel, LabelsComplete
    <3> QED BY <2>0, <2>2, <3>1, NotServing
  <2>3. CASE RouteNext
    <3>1. CASE \E s, d \in Nodes : route(s, d)
      BY <2>0, <3>1, RouteStep
    <3>2. CASE \E node \in heap : TempExpand(node)
      BY <2>0, <3>2, ExpandStep
    <3>3. CASE \E node \in DOMAIN labelHeap : TempMerge(node)
      BY <2>0, <3>3, MergeStep
    <3>4. CASE SideDone
      BY <2>0, <3>4, DoneStep
    <3>5. CASE Answer
      BY <2>0, <3>5, AnswerStep
    <3> QED BY <2>3, <3>1, <3>2, <3>3, <3>4, <3>5 DEF RouteNext
  <2>4. CASE UNCHANGED routerVars
    <3>1. UNCHANGED allVars /\ UNCHANGED routeVars
      BY <2>4 DEF routerVars
    <3> QED BY <2>0, <3>1, RouteInvFrame
  <2> QED BY <2>0, <2>1, <2>2, <2>3, <2>4 DEF RouterNext
<1> QED BY <1>1, <1>2, HubLabelInvariant, PTL DEF RouterSpec

\* Whatever labels are stored and whatever calcTempLabels has to collect, the
\* best common hub of the two sides gives the distance of the two nodes before
\* the path is put together, an answer has that distance, and "no route" is
\* only answered if there is none.  The graphs are undirected, with positive
\* lengths that obey the triangle inequality.
THEOREM ShortestDistance == RouterSpec => []DistanceIsShortest
<1>1. CHInv /\ DistanceInv /\ HubInv /\ RouteInv => DistanceIsShortest
  <2> SUFFICES ASSUME CHInv, DistanceInv, HubInv, RouteInv PROVE DistanceIsShortest
    OBVIOUS
  <2>1. ASSUME rpc = "answer"
        PROVE  HubDistance(SideOf(from, "left"), SideOf(to, "right")) = AllDistances[grid][from][to]
    BY <2>1, HubMeasured DEF HubDistance
  <2> QED BY <2>1 DEF DistanceIsShortest, RouteInv, AnswerMeasured
<1> QED BY <1>1, HubLabelInvariant, RoutesHold, PTL
------------------------------------------------------------------------------
\* The edges seq lead along the nodes at, the first i of them over off[i].
Leading(es, seq, at, off) ==
  /\ at \in [0..Len(seq) -> Nodes] /\ off \in [0..Len(seq) -> Nat] /\ off[0] = 0
  /\ \A i \in 1..Len(seq) : /\ es[seq[i]].start = at[i - 1] /\ es[seq[i]].dest = at[i]
                            /\ es[seq[i]].dist \in Nat /\ off[i] = off[i - 1] + es[seq[i]].dist

\* The edges seq, of the first m of es, lead from u to v over a length of d.
Trip(es, m, seq, u, v, d) ==
  /\ seq \in Seq(1..m)
  /\ \E at, off : Leading(es, seq, at, off) /\ at[0] = u /\ at[Len(seq)] = v /\ off[Len(seq)] = d

LEMMA EmptyTrip ==
  ASSUME NEW es, NEW m \in Nat, NEW u \in Nodes
  PROVE  Trip(es, m, <<>>, u, u, 0)
<1> DEFINE at == [i \in 0..0 |-> u]
           off == [i \in 0..0 |-> 0]
<1>1. at \in [0..0 -> Nodes] /\ off \in [0..0 -> Nat] /\ at[0] = u /\ off[0] = 0
  OBVIOUS
<1> HIDE DEF at, off
<1>2. Len(<<>>) = 0 /\ <<>> \in Seq(1..m)
  OBVIOUS
<1>3. Leading(es, <<>>, at, off)
  BY <1>1, <1>2 DEF Leading
<1> QED BY <1>1, <1>2, <1>3 DEF Trip

LEMMA EdgeTrip ==
  ASSUME NEW es, NEW m \in Nat, NEW e \in 1..m,
         es[e].start \in Nodes, es[e].dest \in Nodes, es[e].dist \in Nat
  PROVE  Trip(es, m, <<e>>, es[e].start, es[e].dest, es[e].dist)
<1> DEFINE u == es[e].start  v == es[e].dest  d == es[e].dist
           at == [i \in 0..1 |-> IF i = 0 THEN u ELSE v]
           off == [i \in 0..1 |-> IF i = 0 THEN 0 ELSE d]
           seq == <<e>>
<1>1. seq \in Seq(1..m) /\ Len(seq) = 1 /\ seq[1] = e
  OBVIOUS
<1> HIDE DEF u, v, d, seq
<1>2. u \in Nodes /\ v \in Nodes /\ d \in Nat
  BY DEF u, v, d
<1>3. /\ at \in [0..1 -> Nodes] /\ off \in [0..1 -> Nat]
      /\ at[0] = u /\ at[1] = v /\ off[0] = 0 /\ off[1] = 0 + d
  BY <1>2
<1> HIDE DEF at, off
<1>4. Leading(es, seq, at, off)
  <2>1. ASSUME NEW i \in 1..1
        PROVE  /\ es[seq[i]].start = at[i - 1] /\ es[seq[i]].dest = at[i]
               /\ es[seq[i]].dist \in Nat /\ off[i] = off[i - 1] + es[seq[i]].dist
    <3>1. i = 1 /\ i - 1 = 0
      OBVIOUS
    <3> QED BY <3>1, <1>1, <1>3 DEF u, v, d
  <2> QED BY <2>1, <1>1, <1>3 DEF Leading
<1>5. off[1] = d
  BY <1>2, <1>3
<1> QED BY <1>1, <1>3, <1>4, <1>5 DEF Trip, seq, u, v, d

\* One trip after the other is a trip.
LEMMA JoinedTrip ==
  ASSUME NEW es, NEW m \in Nat, NEW s, NEW t, NEW u, NEW v, NEW w, NEW a, NEW b,
         Trip(es, m, s, u, v, a), Trip(es, m, t, v, w, b)
  PROVE  Trip(es, m, s \o t, u, w, a + b)
<1>1. PICK p, x : Leading(es, s, p, x) /\ p[0] = u /\ p[Len(s)] = v /\ x[Len(s)] = a
  BY DEF Trip
<1>2. PICK q, y : Leading(es, t, q, y) /\ q[0] = v /\ q[Len(t)] = w /\ y[Len(t)] = b
  BY DEF Trip
<1> DEFINE j == Len(s)  k == Len(t)  n == Len(s \o t)
           at == [i \in 0..n |-> IF i <= j THEN p[i] ELSE q[i - j]]
           off == [i \in 0..n |-> IF i <= j THEN x[i] ELSE a + y[i - j]]
<1>3. s \in Seq(1..m) /\ t \in Seq(1..m)
  BY DEF Trip
<1>4. /\ s \o t \in Seq(1..m) /\ n = j + k /\ j \in Nat /\ k \in Nat /\ n \in Nat
      /\ \A i \in 1..j : (s \o t)[i] = s[i]
      /\ \A i \in 1..k : (s \o t)[j + i] = t[i]
  BY <1>3, ConcatFacts
<1>5. /\ \A i \in 0..j : p[i] \in Nodes /\ x[i] \in Nat
      /\ x[0] = 0
      /\ \A i \in 1..j : /\ es[s[i]].start = p[i - 1] /\ es[s[i]].dest = p[i]
                        /\ es[s[i]].dist \in Nat /\ x[i] = x[i - 1] + es[s[i]].dist
  BY <1>1 DEF Leading
<1>6. /\ \A i \in 0..k : q[i] \in Nodes /\ y[i] \in Nat
      /\ y[0] = 0
      /\ \A i \in 1..k : /\ es[t[i]].start = q[i - 1] /\ es[t[i]].dest = q[i]
                        /\ es[t[i]].dist \in Nat /\ y[i] = y[i - 1] + es[t[i]].dist
  BY <1>2 DEF Leading
<1>7. p[0] = u /\ p[j] = v /\ x[j] = a /\ q[0] = v /\ q[k] = w /\ y[k] = b
  BY <1>1, <1>2
<1>8. PICK z : z = s \o t
  OBVIOUS
<1> HIDE DEF j, k, n
<1>9. a \in Nat
  BY <1>4, <1>5, <1>7
<1>10. ASSUME NEW i \in 0..n
       PROVE  at[i] \in Nodes /\ off[i] \in Nat
  <2>1. CASE i <= j
    BY <2>1, <1>4, <1>5
  <2>2. CASE i > j
    <3>1. i - j \in 0..k
      BY <2>2, <1>4
    <3>2. q[i - j] \in Nodes /\ y[i - j] \in Nat
      BY <3>1, <1>6
    <3> QED BY <2>2, <3>2, <1>4, <1>9
  <2> QED BY <2>1, <2>2, <1>4
<1>11. at \in [0..n -> Nodes] /\ off \in [0..n -> Nat]
  BY <1>10
<1>12. \A i \in 0..j : at[i] = p[i] /\ off[i] = x[i]
  BY <1>4
<1>13. \A i \in 1..k : at[j + i] = q[i] /\ off[j + i] = a + y[i]
  <2>1. ASSUME NEW i \in 1..k PROVE j + i \in 0..n /\ ~(j + i <= j) /\ (j + i) - j = i
    BY <1>4
  <2> QED BY <2>1
<1>14. \A i \in 0..k : at[j + i] = q[i] /\ off[j + i] = a + y[i]
  <2>1. ASSUME NEW i \in 0..k PROVE at[j + i] = q[i] /\ off[j + i] = a + y[i]
    <3>1. CASE i = 0
      <4>1. j + 0 = j /\ j \in 0..j /\ a + 0 = a
        BY <1>4, <1>9
      <4>2. at[j] = v /\ off[j] = a
        BY <4>1, <1>7, <1>12
      <4> HIDE DEF at, off
      <4> QED BY <3>1, <4>1, <4>2, <1>6, <1>7
    <3>2. CASE i # 0
      <4>1. i \in 1..k
        BY <3>2, <1>4
      <4> QED BY <4>1, <1>13
    <3> QED BY <3>1, <3>2
  <2> QED BY <2>1
<1> HIDE DEF at, off
<1>15. ASSUME NEW i \in 1..n
       PROVE  /\ es[z[i]].start = at[i - 1] /\ es[z[i]].dest = at[i]
              /\ es[z[i]].dist \in Nat /\ off[i] = off[i - 1] + es[z[i]].dist
  <2>1. CASE i <= j
    <3>1. i \in 1..j /\ i \in 0..j /\ i - 1 \in 0..j
      BY <2>1, <1>4
    <3>2. z[i] = s[i]
      BY <3>1, <1>4, <1>8
    <3> QED BY <3>1, <3>2, <1>5, <1>12
  <2>2. CASE i > j
    <3>1. PICK l : l = i - j
      OBVIOUS
    <3>2. l \in 1..k /\ l \in 0..k /\ l - 1 \in 0..k /\ i = j + l /\ i - 1 = j + (l - 1)
      BY <2>2, <3>1, <1>4
    <3>3. z[i] = t[l]
      BY <3>2, <1>4, <1>8
    <3>4. at[i] = q[l] /\ at[i - 1] = q[l - 1] /\ off[i] = a + y[l] /\ off[i - 1] = a + y[l - 1]
      BY <3>2, <1>14
    <3>5. /\ es[t[l]].start = q[l - 1] /\ es[t[l]].dest = q[l]
          /\ es[t[l]].dist \in Nat /\ y[l] = y[l - 1] + es[t[l]].dist
      BY <3>2, <1>6
    <3>6. PICK d : d = es[t[l]].dist
      OBVIOUS
    <3>7. y[l] \in Nat /\ y[l - 1] \in Nat
      BY <3>2, <1>6
    <3>8. a + y[l] = (a + y[l - 1]) + d
      BY <3>5, <3>6, <3>7, <1>9
    <3> QED BY <3>3, <3>4, <3>5, <3>6, <3>8
  <2> QED BY <2>1, <2>2, <1>4
<1>16. off[0] = 0 /\ at[0] = u
  BY <1>4, <1>5, <1>7, <1>12
<1>17. at[n] = w /\ off[n] = a + b
  <2>1. k \in 0..k
    BY <1>4
  <2> QED BY <2>1, <1>4, <1>7, <1>14
<1>18. Leading(es, z, at, off)
  BY <1>8, <1>11, <1>15, <1>16 DEF Leading, n
<1> QED BY <1>4, <1>8, <1>16, <1>17, <1>18 DEF Trip, n

\* getEdges follows first edges to the hub: they lead there, each to a higher
\* node, over the distance of the hub.
LEMMA HubReached ==
  ASSUME NEW D, Hierarchy(D, edges, levels),
         \A n \in Nodes : LabelOK(labels[n], D, edges, levels, n),
         NEW u \in Nodes, NEW hub \in DOMAIN labels[u]
  PROVE  Trip(edges, Len(edges), getEdges(u, hub), u, hub, D[u][hub])
<1> DEFINE N == Cardinality(Nodes)
           m == Len(edges)
           V == Seq(Int)
           rank == [n \in Nodes |-> N - levels[n]]
           Turn(n, h) == IF n = hub THEN <<>>
                         ELSE IF hub \notin DOMAIN labels[n] THEN OutOfBounds
                         ELSE <<labels[n][hub].edge>> \o h[edges[labels[n][hub].edge].dest]
           F == [x \in Nodes \X [Nodes -> V] |-> Turn(x[1], x[2])]
           Body(f) == [n \in Nodes |-> Turn(n, f)]
           c == CHOOSE f : f = Body(f)
<1>1. /\ IsMetric(D) /\ edges \in Seq(EdgeRecord) /\ m \in Nat /\ levels \in [Nodes -> 0..N] /\ N \in Nat
      /\ \A e \in 1..m : edges[e].dist = D[edges[e].start][edges[e].dest]
  BY NodesFacts DEF Hierarchy
<1>2. ASSUME NEW e \in 1..m PROVE edges[e].start \in Nodes /\ edges[e].dest \in Nodes /\ edges[e].dist \in Nat
  <2>1. edges[e] \in EdgeRecord
    BY <1>1
  <2> QED BY <2>1 DEF EdgeRecord
<1>3. rank \in [Nodes -> 0..N] /\ \A n \in Nodes : rank[n] = N - levels[n] /\ levels[n] \in 0..N
  BY <1>1
<1>4. ASSUME NEW n \in Nodes, n # hub, hub \in DOMAIN labels[n]
      PROVE  \E e \in 1..m : /\ e = labels[n][hub].edge /\ edges[e].start = n /\ edges[e].dest \in Nodes
                             /\ rank[edges[e].dest] < rank[n] /\ hub \in DOMAIN labels[edges[e].dest]
                             /\ OnPath(D, n, edges[e].dest, hub)
  <2> DEFINE e == labels[n][hub].edge
  <2>1. UpEdge(edges, levels, n, e) /\ hub \in Hubs(D, levels, edges[e].dest) /\ OnPath(D, n, edges[e].dest, hub)
    BY <1>4 DEF LabelOK
  <2> HIDE DEF e
  <2>2. e \in 1..m /\ edges[e].start = n /\ edges[e].dest \in Nodes /\ levels[edges[e].dest] > levels[n]
    BY <2>1 DEF UpEdge
  <2>3. hub \in DOMAIN labels[edges[e].dest]
    BY <2>1, <2>2 DEF LabelOK
  <2>4. rank[edges[e].dest] < rank[n]
    <3>1. PICK v : v = edges[e].dest
      OBVIOUS
    <3>2. v \in Nodes /\ levels[v] > levels[n]
      BY <2>2, <3>1
    <3>3. rank[v] = N - levels[v] /\ rank[n] = N - levels[n] /\ levels[v] \in Int /\ levels[n] \in Int
      BY <3>2, <1>3
    <3> HIDE DEF rank
    <3>4. rank[v] < rank[n]
      BY <3>2, <3>3, <1>1
    <3> QED BY <3>1, <3>4
  <2> HIDE DEF rank
  <2> QED BY <2>1, <2>2, <2>3, <2>4 DEF e
<1> HIDE DEF rank, m, N
<1>5. ASSUME NEW n \in Nodes, NEW h \in [Nodes -> V] PROVE Turn(n, h) \in V
  <2>1. CASE n = hub
    BY <2>1
  <2>2. CASE n # hub /\ hub \notin DOMAIN labels[n]
    BY <2>2 DEF OutOfBounds
  <2>3. CASE n # hub /\ hub \in DOMAIN labels[n]
    <3>1. PICK e \in 1..m : e = labels[n][hub].edge /\ edges[e].dest \in Nodes
      BY <2>3, <1>4
    <3>2. PICK r : r = h[edges[e].dest]
      OBVIOUS
    <3>3. r \in Seq(Int) /\ <<e>> \in Seq(Int)
      BY <3>1, <3>2, <1>1
    <3>4. Turn(n, h) = <<e>> \o r
      BY <2>3, <3>1, <3>2
    <3>5. <<e>> \o r \in Seq(Int)
      BY <3>3
    <3> QED BY <3>4, <3>5
  <2> QED BY <2>1, <2>2, <2>3
<1>6. ASSUME NEW x \in Nodes, NEW g \in [Nodes -> V], NEW h \in [Nodes -> V],
             \A y \in Nodes : rank[y] < rank[x] => g[y] = h[y]
      PROVE  Turn(x, g) = Turn(x, h)
  <2>1. CASE x # hub /\ hub \in DOMAIN labels[x]
    <3>1. PICK e \in 1..m : e = labels[x][hub].edge /\ edges[e].dest \in Nodes /\ rank[edges[e].dest] < rank[x]
      BY <2>1, <1>4
    <3>2. g[edges[e].dest] = h[edges[e].dest]
      BY <3>1, <1>6
    <3> QED BY <2>1, <3>1, <3>2
  <2>2. CASE ~(x # hub /\ hub \in DOMAIN labels[x])
    BY <2>2
  <2> QED BY <2>1, <2>2
<1> HIDE DEF Turn
<1>7. /\ F \in [Nodes \X [Nodes -> V] -> V]
      /\ \A n \in Nodes : \A h \in [Nodes -> V] : F[<<n, h>>] = Turn(n, h)
  BY <1>5
<1>8. <<>> \in V
  OBVIOUS
<1> HIDE DEF F, V
<1>9. NeedsLower(Nodes, V, rank, F)
  BY <1>6, <1>7 DEF NeedsLower
<1>10. PICK h \in [Nodes -> V] : \A x \in Nodes : h[x] = F[<<x, h>>]
  <2>1. Solvable(Nodes, V, F)
    BY <1>1, <1>3, <1>7, <1>8, <1>9, RankedRecursion
  <2> QED BY <2>1 DEF Solvable
<1>11. h = Body(h)
  BY <1>7, <1>10
<1>12. c = Body(c)
  BY <1>11
<1>13. getEdges(u, hub) = c[u]
  BY DEF getEdges, Turn
<1> HIDE DEF c
<1>14. \A n \in Nodes : c[n] = Turn(n, c)
  BY <1>12
<1> DEFINE P == {n \in Nodes : hub \in DOMAIN labels[n] => Trip(edges, m, c[n], n, hub, D[n][hub])}
<1>15. ASSUME NEW n \in Nodes, \A y \in Nodes : rank[y] < rank[n] => y \in P PROVE n \in P
  <2>1. CASE n = hub
    <3>1. c[n] = <<>> /\ D[n][hub] = 0
      BY <2>1, <1>1, <1>14, MetricFacts DEF Turn
    <3> QED BY <2>1, <3>1, <1>1, EmptyTrip
  <2>2. CASE n # hub /\ hub \in DOMAIN labels[n]
    <3>1. PICK e \in 1..m : /\ e = labels[n][hub].edge /\ edges[e].start = n /\ edges[e].dest \in Nodes
                            /\ rank[edges[e].dest] < rank[n] /\ hub \in DOMAIN labels[edges[e].dest]
                            /\ OnPath(D, n, edges[e].dest, hub)
      BY <2>2, <1>4
    <3>2. PICK v, a, b : v = edges[e].dest /\ a = edges[e].dist /\ b = D[v][hub]
      OBVIOUS
    <3>3. Trip(edges, m, c[v], v, hub, b)
      BY <3>1, <3>2, <1>15
    <3>4. Trip(edges, m, <<e>>, n, v, a)
      BY <3>1, <3>2, <1>1, <1>2, EdgeTrip
    <3>5. c[n] = <<e>> \o c[v]
      BY <2>2, <3>1, <3>2, <1>14 DEF Turn
    <3>6. a + b = D[n][hub]
      BY <3>1, <3>2, <1>1 DEF OnPath
    <3>7. Trip(edges, m, c[n], n, hub, D[n][hub])
      BY <3>3, <3>4, <3>5, <3>6, <1>1, JoinedTrip
    <3> QED BY <3>7
  <2>3. CASE hub \notin DOMAIN labels[n]
    BY <2>3
  <2> QED BY <2>1, <2>2, <2>3
<1> HIDE DEF P
<1>16. Nodes \subseteq P
  <2>1. Inherits(Nodes, P, rank)
    BY <1>15 DEF Inherits
  <2> QED BY <2>1, <1>1, <1>3, RankedInduction
<1> QED BY <1>13, <1>16 DEF P, m

\* A shortcut and the edges of the graph that it stands for lead to the same
\* node over the same length.
LEMMA UnpackedTrip ==
  ASSUME EdgesOK(edges, numOfOriginalEdges), ShortcutsUnpack,
         NEW es, NEW u, NEW v, NEW d, Trip(edges, Len(edges), es, u, v, d)
  PROVE  Trip(edges, numOfOriginalEdges, Unpacked(es), u, v, d)
<1> DEFINE orig == numOfOriginalEdges
           m == Len(edges)
           S == 1..m
           V == Seq(1..orig)
           rank == [e \in S |-> e]
           Turn(e, h) == IF e > orig THEN h[edges[e].parts[2]] \o h[edges[e].parts[1]] ELSE <<e>>
           F == [x \in S \X [S -> V] |-> Turn(x[1], x[2])]
           Body(f) == [e \in S |-> Turn(e, f)]
           c == CHOOSE f : f = Body(f)
<1>1. edges \in Seq(EdgeRecord) /\ m \in Nat /\ orig \in Nat /\ orig <= m
  BY DEF EdgesOK
<1>2. ASSUME NEW e \in S PROVE edges[e].start \in Nodes /\ edges[e].dest \in Nodes /\ edges[e].dist \in Nat
  <2>1. edges[e] \in EdgeRecord
    BY <1>1
  <2> QED BY <2>1 DEF EdgeRecord
<1>3. rank \in [S -> 0..m] /\ \A e \in S : rank[e] = e
  BY <1>1
<1>4. ASSUME NEW e \in S, e > orig
      PROVE  \E i, j \in S : /\ i = edges[e].parts[2] /\ j = edges[e].parts[1] /\ rank[i] < rank[e] /\ rank[j] < rank[e]
                             /\ edges[i].start = edges[e].start /\ edges[i].dest = edges[j].start
                             /\ edges[j].dest = edges[e].dest /\ edges[i].dist + edges[j].dist = edges[e].dist
  <2> DEFINE i == edges[e].parts[2]  j == edges[e].parts[1]
  <2>1. /\ i \in 1..(e - 1) /\ j \in 1..(e - 1)
        /\ edges[i].start = edges[e].start /\ edges[i].dest = edges[j].start
        /\ edges[j].dest = edges[e].dest /\ edges[i].dist + edges[j].dist = edges[e].dist
    BY <1>1, <1>4 DEF ShortcutsUnpack, getFirstShortcut, getSecondShortcut, EdgeIds
  <2> HIDE DEF i, j
  <2>2. i \in S /\ j \in S /\ i < e /\ j < e
    BY <2>1, <1>1
  <2>3. rank[i] < rank[e] /\ rank[j] < rank[e]
    BY <2>2, <1>3
  <2> QED BY <2>1, <2>2, <2>3 DEF i, j
<1>5. \A e \in S : ~(e > orig) => e \in 1..orig
  BY <1>1
<1> HIDE DEF rank, S, m, orig
<1>6. ASSUME NEW e \in S, NEW h \in [S -> V] PROVE Turn(e, h) \in V
  <2>1. CASE e > orig
    <3>1. PICK i, j \in S : i = edges[e].parts[2] /\ j = edges[e].parts[1]
      BY <2>1, <1>4
    <3>2. PICK x, y : x = h[i] /\ y = h[j]
      OBVIOUS
    <3>3. x \in V /\ y \in V /\ Turn(e, h) = x \o y
      BY <2>1, <3>1, <3>2
    <3>4. x \o y \in V
      BY <3>3
    <3> QED BY <3>3, <3>4
  <2>2. CASE ~(e > orig)
    <3>1. <<e>> \in V
      BY <2>2, <1>5
    <3> QED BY <2>2, <3>1
  <2> QED BY <2>1, <2>2
<1>7. ASSUME NEW e \in S, NEW g \in [S -> V], NEW h \in [S -> V],
             \A y \in S : rank[y] < rank[e] => g[y] = h[y]
      PROVE  Turn(e, g) = Turn(e, h)
  <2>1. CASE e > orig
    <3>1. PICK i, j \in S : i = edges[e].parts[2] /\ j = edges[e].parts[1] /\ rank[i] < rank[e] /\ rank[j] < rank[e]
      BY <2>1, <1>4
    <3>2. g[i] = h[i] /\ g[j] = h[j]
      BY <3>1, <1>7
    <3> QED BY <2>1, <3>1, <3>2
  <2>2. CASE ~(e > orig)
    BY <2>2
  <2> QED BY <2>1, <2>2
<1> HIDE DEF Turn
<1>8. /\ F \in [S \X [S -> V] -> V]
      /\ \A e \in S : \A h \in [S -> V] : F[<<e, h>>] = Turn(e, h)
  BY <1>6
<1>9. <<>> \in V
  OBVIOUS
<1> HIDE DEF F, V
<1>10. NeedsLower(S, V, rank, F)
  BY <1>7, <1>8 DEF NeedsLower
<1>11. PICK h \in [S -> V] : \A e \in S : h[e] = F[<<e, h>>]
  <2>1. Solvable(S, V, F)
    BY <1>1, <1>3, <1>8, <1>9, <1>10, RankedRecursion
  <2> QED BY <2>1 DEF Solvable
<1>12. h = Body(h)
  BY <1>8, <1>11
<1>13. c = Body(c)
  BY <1>12
<1>14. Unpacked(es) = FlattenSeq([i \in DOMAIN es |-> c[es[i]]])
  BY DEF Unpacked, getFirstShortcut, getSecondShortcut, Turn, S, m, orig
<1> HIDE DEF c
<1>15. \A e \in S : c[e] = Turn(e, c)
  BY <1>13
<1> DEFINE P == {e \in S : Trip(edges, orig, c[e], edges[e].start, edges[e].dest, edges[e].dist)}
<1>16. ASSUME NEW e \in S, \A y \in S : rank[y] < rank[e] => y \in P PROVE e \in P
  <2>1. CASE e > orig
    <3>1. PICK i, j \in S : /\ i = edges[e].parts[2] /\ j = edges[e].parts[1] /\ rank[i] < rank[e] /\ rank[j] < rank[e]
                            /\ edges[i].start = edges[e].start /\ edges[i].dest = edges[j].start
                            /\ edges[j].dest = edges[e].dest /\ edges[i].dist + edges[j].dist = edges[e].dist
      BY <2>1, <1>4
    <3>2. /\ Trip(edges, orig, c[i], edges[i].start, edges[i].dest, edges[i].dist)
          /\ Trip(edges, orig, c[j], edges[j].start, edges[j].dest, edges[j].dist)
      BY <3>1, <1>16
    <3>3. c[e] = c[i] \o c[j]
      BY <2>1, <3>1, <1>15 DEF Turn
    <3>4. Trip(edges, orig, c[i] \o c[j], edges[i].start, edges[j].dest, edges[i].dist + edges[j].dist)
      BY <3>1, <3>2, <1>1, JoinedTrip
    <3> QED BY <3>1, <3>3, <3>4
  <2>2. CASE ~(e > orig)
    <3>1. c[e] = <<e>>
      BY <2>2, <1>15 DEF Turn
    <3>2. Trip(edges, orig, <<e>>, edges[e].start, edges[e].dest, edges[e].dist)
      BY <2>2, <1>1, <1>2, <1>5, EdgeTrip
    <3> QED BY <3>1, <3>2
  <2> QED BY <2>1, <2>2
<1> HIDE DEF P
<1>17. S \subseteq P
  <2>1. Inherits(S, P, rank)
    BY <1>16 DEF Inherits
  <2> QED BY <2>1, <1>1, <1>3, RankedInduction
<1>18. \A e \in S : Trip(edges, orig, c[e], edges[e].start, edges[e].dest, edges[e].dist)
  BY <1>17 DEF P
<1>19. PICK at, off : Leading(edges, es, at, off) /\ at[0] = u /\ at[Len(es)] = v /\ off[Len(es)] = d
  BY DEF Trip
<1> DEFINE n == Len(es)
           seqs == [i \in DOMAIN es |-> c[es[i]]]
<1>20. es \in Seq(S) /\ n \in Nat /\ DOMAIN es = 1..n
  BY DEF Trip, S, m
<1>21. ASSUME NEW i \in 1..n PROVE es[i] \in S /\ seqs[i] = c[es[i]] /\ c[es[i]] \in Seq(1..orig)
  <2>1. es[i] \in S
    BY <1>20
  <2> QED BY <2>1, <1>18, <1>20 DEF Trip
<1>22. seqs \in Seq(Seq(1..orig)) /\ Len(seqs) = n
  BY <1>20, <1>21
<1> HIDE DEF seqs
<1>23. PICK g \in [0..Len(seqs) -> Seq(1..orig)] : FlattenedBy(g, seqs)
  BY <1>22, FlattenTurns
<1>24. /\ g[0] = <<>> /\ FlattenSeq(seqs) = g[n]
       /\ \A k \in 1..n : g[k] = g[k - 1] \o seqs[k]
  BY <1>22, <1>23 DEF FlattenedBy
<1>25. /\ \A i \in 0..n : at[i] \in Nodes
       /\ off[0] = 0
       /\ \A i \in 1..n : edges[es[i]].start = at[i - 1] /\ edges[es[i]].dest = at[i] /\ off[i] = off[i - 1] + edges[es[i]].dist
  BY <1>19 DEF Leading
<1>26. at[n] = v /\ off[n] = d
  BY <1>19
<1> HIDE DEF n
<1> DEFINE A == {k \in 0..n : Trip(edges, orig, g[k], u, at[k], off[k])}
<1>27. 0 \in A
  <2>1. u \in Nodes /\ 0 \in 0..n
    BY <1>19, <1>20, <1>25
  <2>2. Trip(edges, orig, <<>>, u, u, 0)
    BY <2>1, <1>1, EmptyTrip
  <2> QED BY <2>1, <2>2, <1>19, <1>24, <1>25
<1>28. ASSUME NEW k \in 1..n, k - 1 \in A PROVE k \in A
  <2>1. Trip(edges, orig, g[k - 1], u, at[k - 1], off[k - 1])
    BY <1>28
  <2>2. PICK e \in S : e = es[k] /\ seqs[k] = c[e]
    BY <1>21
  <2>3. edges[e].start = at[k - 1] /\ edges[e].dest = at[k] /\ off[k] = off[k - 1] + edges[e].dist
    BY <2>2, <1>25
  <2>4. Trip(edges, orig, c[e], edges[e].start, edges[e].dest, edges[e].dist)
    BY <1>18
  <2>5. g[k] = g[k - 1] \o c[e]
    BY <2>2, <1>24
  <2>6. Trip(edges, orig, g[k - 1] \o c[e], u, at[k], off[k - 1] + edges[e].dist)
    BY <2>1, <2>3, <2>4, <1>1, JoinedTrip
  <2>7. Trip(edges, orig, g[k], u, at[k], off[k])
    BY <2>3, <2>5, <2>6
  <2>8. k \in 0..n
    BY <1>20
  <2> QED BY <2>7, <2>8
<1> HIDE DEF A
<1>29. 0..n \subseteq A
  BY <1>20, <1>27, <1>28, IntervalInduction
<1>30. n \in A
  BY <1>20, <1>29
<1>31. Unpacked(es) = g[n]
  BY <1>14, <1>24 DEF seqs
<1> QED BY <1>26, <1>30, <1>31 DEF A, orig

\* An edge of the imported graph is as long as the distance of its ends, and so
\* is the edge back.
LEMMA JoinedLength ==
  ASSUME NEW g \in Grids, NEW u \in Nodes, NEW v \in Nodes, NEW i \in DOMAIN g[u], g[u][i].dest = v
  PROVE  EdgeLength(g, u, v, far) = AllDistances[g][u][v]
<1> DEFINE d == AllDistances[g][u][v]
           A == {g[u][k].dist : k \in {j \in DOMAIN g[u] : g[u][j].dest = v}}
           B == A \cup {far}
<1>1. \A k \in DOMAIN g[u] : g[u][k].dest = v => g[u][k].dist = d
  BY TriangleAssumption
<1>2. d \in Nat /\ d <= far /\ far \in Nat
  BY GridMetric, MetricFacts
<1>3. EdgeLength(g, u, v, far) = Min(B)
  BY DEF EdgeLength
<1>4. d \in A /\ \A k \in A : k = d
  BY <1>1
<1> HIDE DEF A, d
<1>5. B \in SUBSET Nat /\ B # {} /\ d \in B /\ \A k \in B : k = d \/ k = far
  BY <1>2, <1>4
<1> HIDE DEF B
<1>6. PICK k : k = Min(B)
  OBVIOUS
<1>7. k \in B /\ k <= d
  BY <1>5, <1>6, MinFacts
<1>8. k = d
  BY <1>2, <1>5, <1>7
<1> QED BY <1>3, <1>6, <1>8 DEF d

LEMMA EdgeBothWays ==
  ASSUME grid \in Grids, FromGrid(grid, edges, numOfOriginalEdges), EdgesOK(edges, numOfOriginalEdges),
         NEW e \in 1..numOfOriginalEdges
  PROVE  /\ edges[e].dist \in Nat
         /\ EdgeLength(grid, edges[e].start, edges[e].dest, far) = edges[e].dist
         /\ EdgeLength(grid, edges[e].dest, edges[e].start, far) = edges[e].dist
<1> DEFINE u == edges[e].start  v == edges[e].dest  D == AllDistances[grid]
<1>1. edges \in Seq(EdgeRecord) /\ e \in 1..Len(edges)
  BY DEF EdgesOK
<1>2. edges[e] \in EdgeRecord
  BY <1>1
<1>3. u \in Nodes /\ v \in Nodes /\ edges[e].dist \in Nat
  BY <1>2 DEF EdgeRecord
<1>4. PICK i \in DOMAIN grid[u] : grid[u][i].dest = v /\ grid[u][i].dist = edges[e].dist
  BY DEF FromGrid
<1> HIDE DEF u, v
<1>5. edges[e].dist = D[u][v]
  BY <1>3, <1>4, TriangleAssumption
<1>6. PICK j \in DOMAIN grid[v] : grid[v][j].dest = u
  BY <1>3, <1>4, GridGraph DEF HasBackEdges
<1>7. D[v][u] = D[u][v]
  BY <1>3, GridMetric, MetricFacts
<1>8. EdgeLength(grid, u, v, far) = D[u][v]
  BY <1>3, <1>4, JoinedLength
<1>9. EdgeLength(grid, v, u, far) = D[v][u]
  BY <1>3, <1>6, JoinedLength
<1> QED BY <1>3, <1>5, <1>7, <1>8, <1>9 DEF u, v

\* The first i edges of the path p, which has n, are off[i] long.
LengthsOf(p, n, off) ==
  /\ Len(p) = n + 1
  /\ off[0] = 0
  /\ \A i \in 1..n : /\ EdgeLength(grid, p[i], p[i + 1], far) \in Nat
                     /\ off[i] = off[i - 1] + EdgeLength(grid, p[i], p[i + 1], far)

\* The length of a path is that of its edges, one after the other.
LEMMA PathMeasured ==
  ASSUME NEW n \in Nat, NEW p, NEW off, LengthsOf(p, n, off)
  PROVE  PathLength(p) = off[n]
<1> DEFINE len(i) == EdgeLength(grid, p[i], p[i + 1], far)
           seq == [i \in 1..n |-> len(i)]
<1>1. off[0] = 0 /\ \A i \in 1..n : len(i) \in Nat /\ off[i] = off[i - 1] + len(i)
  BY DEF LengthsOf
<1>2. (Len(p) - 1) = n
  BY DEF LengthsOf
<1>3. PathLength(p) = FoldLeft(+, 0, seq)
  BY <1>2 DEF PathLength
<1> HIDE DEF len
<1>4. seq \in Seq(Nat) /\ Len(seq) = n /\ \A i \in 1..n : seq[i] = len(i)
  BY <1>1
<1> HIDE DEF seq
<1>5. PICK g : /\ g[0] = 0
               /\ \A k \in 1..n : g[k] = g[k - 1] + seq[k]
               /\ PathLength(p) = g[n]
  <2>1. PICK g : /\ g[0] = 0
                 /\ \A k \in 1..Len(seq) : g[k] = g[k - 1] + seq[k]
                 /\ FoldLeft(+, 0, seq) = g[Len(seq)]
    BY <1>4, SumTurns
  <2> QED BY <2>1, <1>3, <1>4
<1> DEFINE A == {k \in 0..n : g[k] = off[k]}
<1>6. 0 \in A
  <2>1. g[0] = off[0]
    BY <1>1, <1>5
  <2>2. 0 \in 0..n
    OBVIOUS
  <2> QED BY <2>1, <2>2
<1>7. ASSUME NEW k \in 1..n, k - 1 \in A PROVE k \in A
  <2>1. g[k] = g[k - 1] + seq[k] /\ g[k - 1] = off[k - 1] /\ seq[k] = len(k) /\ off[k] = off[k - 1] + len(k)
    BY <1>1, <1>4, <1>5, <1>7
  <2>2. k \in 0..n
    OBVIOUS
  <2> QED BY <2>1, <2>2
<1> HIDE DEF A
<1>8. 0..n \subseteq A
  BY <1>6, <1>7, IntervalInduction
<1>9. g[n] = off[n]
  BY <1>8 DEF A
<1> QED BY <1>5, <1>9

\* A sequence given element by element.
LEMMA Listed ==
  ASSUME NEW S, NEW n \in Nat, NEW s, NEW f, s = [i \in 1..n |-> f[i]], \A i \in 1..n : f[i] \in S
  PROVE  s \in Seq(S) /\ Len(s) = n /\ \A i \in 1..n : s[i] = f[i]
OBVIOUS

\* z has the elements of s and then those of t.
Concatenated(z, s, t) ==
  /\ Len(z) = Len(s) + Len(t)
  /\ \A i \in 1..Len(s) : i \in 1..Len(z) /\ z[i] = s[i]
  /\ \A i \in 1..Len(t) : Len(s) + i \in 1..Len(z) /\ z[Len(s) + i] = t[i]

LEMMA Concatenation ==
  ASSUME NEW S, NEW s \in Seq(S), NEW t \in Seq(S)
  PROVE  s \o t \in Seq(S) /\ Concatenated(s \o t, s, t)
BY ConcatFacts DEF Concatenated

\* p goes over s and all but the last element of a, over b and to t.
GluedFrom(p, s, a, b, t) ==
  /\ p = Front(<<s>> \o a) \o b \o <<t>>
  /\ Len(p) = Len(a) + Len(b) + 1
  /\ \A i \in 1..Len(a) : p[i] = IF i = 1 THEN s ELSE a[i - 1]
  /\ \A i \in 1..Len(b) : p[Len(a) + i] = b[i]
  /\ p[Len(p)] = t

LEMMA Glued ==
  ASSUME NEW S, NEW a \in Seq(S), NEW b \in Seq(S), NEW s \in S, NEW t \in S
  PROVE  \E p : GluedFrom(p, s, a, b, t)
<1> DEFINE k == Len(a)  l == Len(b)
<1>1. PICK v, w : v = <<s>> /\ w = <<t>>
  OBVIOUS
<1>2. v \in Seq(S) /\ w \in Seq(S) /\ Len(v) = 1 /\ Len(w) = 1 /\ v[1] = s /\ w[1] = t
  BY <1>1
<1>3. PICK z : z = v \o a
  OBVIOUS
<1>4. /\ z \in Seq(S) /\ Len(z) = 1 + k
      /\ \A i \in 1..1 : z[i] = v[i]
      /\ \A i \in 1..k : z[1 + i] = a[i]
  <2>1. z \in Seq(S) /\ Concatenated(z, v, a)
    BY <1>2, <1>3, Concatenation
  <2> QED BY <2>1, <1>2 DEF Concatenated
<1>5. PICK f : f = Front(z)
  OBVIOUS
<1>6. k \in Nat /\ l \in Nat
  OBVIOUS
<1> HIDE DEF k, l
<1>7. f = SubSeq(z, 1, k)
  <2>1. Len(z) - 1 = k
    BY <1>4, <1>6
  <2> QED BY <2>1, <1>5 DEF Front
<1>8. f \in Seq(S) /\ Len(f) = k /\ \A i \in 1..k : f[i] = z[i]
  <2>1. \A i \in 1..k : i \in 1..Len(z)
    BY <1>4, <1>6
  <2>2. f = [i \in 1..k |-> z[i]]
    BY <1>4, <1>6, <1>7
  <2>3. \A i \in 1..k : z[i] \in S
    BY <2>1, <1>4
  <2> QED BY <2>2, <2>3, <1>6, Listed
<1>9. ASSUME NEW i \in 1..k PROVE f[i] = IF i = 1 THEN s ELSE a[i - 1]
  <2>1. CASE i = 1
    <3>1. 1 \in 1..1
      OBVIOUS
    <3> QED BY <2>1, <3>1, <1>2, <1>4, <1>8
  <2>2. CASE i # 1
    <3>1. i - 1 \in 1..k /\ 1 + (i - 1) = i
      BY <2>2, <1>6
    <3>2. z[1 + (i - 1)] = a[i - 1]
      BY <3>1, <1>4
    <3>3. f[i] = z[i]
      BY <1>8
    <3> QED BY <2>2, <3>1, <3>2, <3>3
  <2> QED BY <2>1, <2>2
<1>10. PICK q : q = f \o b
  OBVIOUS
<1>11. /\ q \in Seq(S) /\ Len(q) = k + l
       /\ \A i \in 1..k : i \in 1..(k + l) /\ q[i] = f[i]
       /\ \A i \in 1..l : k + i \in 1..(k + l) /\ q[k + i] = b[i]
  <2>1. q \in Seq(S) /\ Concatenated(q, f, b)
    BY <1>8, <1>10, Concatenation
  <2> QED BY <2>1, <1>8 DEF Concatenated, l
<1>12. PICK p : p = q \o w
  OBVIOUS
<1>13. PICK n : n = k + l
  OBVIOUS
<1>14. /\ Len(p) = n + 1
       /\ \A i \in 1..n : p[i] = q[i]
       /\ \A i \in 1..1 : p[n + i] = w[i]
  <2>1. Concatenated(p, q, w)
    BY <1>2, <1>11, <1>12, Concatenation
  <2> QED BY <2>1, <1>2, <1>11, <1>13 DEF Concatenated
<1>15. p[Len(p)] = t
  <2>1. 1 \in 1..1
    OBVIOUS
  <2> QED BY <2>1, <1>2, <1>14
<1>16. \A i \in 1..k : p[i] = IF i = 1 THEN s ELSE a[i - 1]
  BY <1>9, <1>11, <1>13, <1>14
<1>17. \A i \in 1..l : p[k + i] = b[i]
  BY <1>11, <1>13, <1>14
<1>18. p = Front(<<s>> \o a) \o b \o <<t>>
  BY <1>1, <1>3, <1>5, <1>10, <1>12
<1> QED BY <1>13, <1>14, <1>15, <1>16, <1>17, <1>18 DEF GluedFrom, k, l

\* The nodes of a route: those of the trip L up to the hub, which is left out,
\* and from the hub those of the trip R to it, backwards.
RoutePath(L, R, s, t) == Front(<<s>> \o Ends(L)) \o Ends(Reverse(R)) \o <<t>>

RouteAlong(p, L, R, s, t, x, y) ==
  /\ p = RoutePath(L, R, s, t)
  /\ Len(p) = Len(L) + Len(R) + 1
  /\ \A i \in 1..Len(L) : p[i] = x[i - 1]
  /\ \A i \in 1..(Len(R) + 1) : p[Len(L) + i] = y[Len(R) - i + 1]

LEMMA RouteNodes ==
  ASSUME NEW m \in Nat, NEW L, NEW R, NEW s, NEW t, NEW hub, NEW c, NEW d,
         Trip(edges, m, L, s, hub, c), Trip(edges, m, R, t, hub, d),
         NEW x, NEW y, NEW o, NEW r, Leading(edges, L, x, o), Leading(edges, R, y, r), x[0] = s, y[0] = t
  PROVE  \E p : RouteAlong(p, L, R, s, t, x, y)
<1> DEFINE k == Len(L)  l == Len(R)
           a == Ends(L)  b == Ends(Reverse(R))
<1>1. k \in Nat /\ l \in Nat /\ DOMAIN L = 1..k /\ DOMAIN R = 1..l
  BY DEF Trip
<1>2. /\ \A i \in 0..k : x[i] \in Nodes
      /\ \A i \in 1..k : edges[L[i]].dest = x[i]
  BY DEF Leading
<1>3. /\ \A i \in 0..l : y[i] \in Nodes
      /\ \A i \in 1..l : edges[R[i]].dest = y[i]
  BY DEF Leading
<1>4. a = [i \in 1..k |-> edges[L[i]].dest]
  BY <1>1 DEF Ends
<1>5. PICK z : z = Reverse(R)
  OBVIOUS
<1>6. z = [i \in 1..l |-> R[(l - i) + 1]]
  BY <1>5 DEF Reverse
<1>7. DOMAIN z = 1..l /\ b = [i \in 1..l |-> edges[z[i]].dest]
  BY <1>5, <1>6 DEF Ends
<1> HIDE DEF a, b, k, l
<1>8. a \in Seq(Nodes) /\ Len(a) = k /\ \A i \in 1..k : a[i] = x[i]
  <2>1. a = [i \in 1..k |-> x[i]]
    BY <1>2, <1>4
  <2>2. \A i \in 1..k : x[i] \in Nodes
    BY <1>1, <1>2
  <2> QED BY <2>1, <2>2, <1>1, Listed
<1>9. b \in Seq(Nodes) /\ Len(b) = l /\ \A i \in 1..l : b[i] = y[l - i + 1]
  <2> DEFINE f == [i \in 1..l |-> y[l - i + 1]]
  <2>1. ASSUME NEW i \in 1..l PROVE edges[z[i]].dest = y[l - i + 1] /\ y[l - i + 1] \in Nodes
    <3>1. l - i + 1 \in 1..l /\ l - i + 1 \in 0..l
      BY <1>1
    <3>2. z[i] = R[l - i + 1]
      BY <1>6
    <3> QED BY <3>1, <3>2, <1>3
  <2>2. \A i \in 1..l : f[i] = y[l - i + 1]
    OBVIOUS
  <2>3. b = [i \in 1..l |-> y[l - i + 1]]
    BY <2>1, <1>7
  <2> HIDE DEF f
  <2>4. b = [i \in 1..l |-> f[i]] /\ \A i \in 1..l : f[i] \in Nodes
    BY <2>1, <2>2, <2>3
  <2>5. b \in Seq(Nodes) /\ Len(b) = l /\ \A i \in 1..l : b[i] = f[i]
    BY <2>4, <1>1, Listed
  <2> QED BY <2>2, <2>5
<1>10. s \in Nodes /\ t \in Nodes
  BY <1>1, <1>2, <1>3
<1>11. PICK p : /\ p = Front(<<s>> \o a) \o b \o <<t>>
                /\ Len(p) = k + l + 1
                /\ \A i \in 1..k : p[i] = IF i = 1 THEN s ELSE a[i - 1]
                /\ \A i \in 1..l : p[k + i] = b[i]
                /\ p[Len(p)] = t
  <2>1. PICK p : GluedFrom(p, s, a, b, t)
    BY <1>8, <1>9, <1>10, Glued
  <2> QED BY <2>1, <1>8, <1>9 DEF GluedFrom
<1>12. ASSUME NEW i \in 1..k PROVE p[i] = x[i - 1]
  <2>1. CASE i = 1
    BY <2>1, <1>11
  <2>2. CASE i # 1
    <3>1. i - 1 \in 1..k
      BY <2>2, <1>1
    <3> QED BY <2>2, <3>1, <1>8, <1>11
  <2> QED BY <2>1, <2>2
<1>13. ASSUME NEW i \in 1..(l + 1) PROVE p[k + i] = y[l - i + 1]
  <2>1. CASE i = l + 1
    <3>1. k + i = k + l + 1 /\ l - i + 1 = 0
      BY <2>1, <1>1
    <3> QED BY <3>1, <1>11
  <2>2. CASE i # l + 1
    <3>1. i \in 1..l
      BY <2>2, <1>1
    <3> QED BY <3>1, <1>9, <1>11
  <2> QED BY <2>1, <2>2
<1> QED BY <1>11, <1>12, <1>13 DEF RouteAlong, RoutePath, a, b, k, l

\* The path of a route leads from s to t over the lengths of both trips.
LEMMA RouteMeasured ==
  ASSUME grid \in Grids, FromGrid(grid, edges, numOfOriginalEdges), EdgesOK(edges, numOfOriginalEdges),
         NEW L, NEW R, NEW s, NEW t, NEW hub, NEW a, NEW b,
         Trip(edges, numOfOriginalEdges, L, s, hub, a), Trip(edges, numOfOriginalEdges, R, t, hub, b),
         NEW p, p = RoutePath(L, R, s, t)
  PROVE  p[1] = s /\ p[Len(p)] = t /\ PathLength(p) = a + b
<1> DEFINE orig == numOfOriginalEdges  k == Len(L)  l == Len(R)  n == k + l
           len(u, v) == EdgeLength(grid, u, v, far)
<1>1. PICK x, o : Leading(edges, L, x, o) /\ x[0] = s /\ x[k] = hub /\ o[k] = a
  BY DEF Trip
<1>2. PICK y, r : Leading(edges, R, y, r) /\ y[0] = t /\ y[l] = hub /\ r[l] = b
  BY DEF Trip
<1>3. L \in Seq(1..orig) /\ R \in Seq(1..orig) /\ orig \in Nat /\ k \in Nat /\ l \in Nat /\ n \in Nat
  BY DEF Trip, EdgesOK
<1>4. /\ Len(p) = k + l + 1
      /\ \A i \in 1..k : p[i] = x[i - 1]
      /\ \A i \in 1..(l + 1) : p[k + i] = y[l - i + 1]
  <2>1. PICK z : RouteAlong(z, L, R, s, t, x, y)
    BY <1>1, <1>2, <1>3, RouteNodes
  <2> QED BY <2>1 DEF RouteAlong
<1>5. /\ \A i \in 0..k : x[i] \in Nodes /\ o[i] \in Nat
      /\ o[0] = 0
      /\ \A i \in 1..k : /\ edges[L[i]].start = x[i - 1] /\ edges[L[i]].dest = x[i]
                         /\ o[i] = o[i - 1] + edges[L[i]].dist
  BY <1>1 DEF Leading
<1>6. /\ \A i \in 0..l : y[i] \in Nodes /\ r[i] \in Nat
      /\ r[0] = 0
      /\ \A i \in 1..l : /\ edges[R[i]].start = y[i - 1] /\ edges[R[i]].dest = y[i]
                         /\ r[i] = r[i - 1] + edges[R[i]].dist
  BY <1>2 DEF Leading
<1>7. \A i \in 1..k : L[i] \in 1..orig
  BY <1>3
<1>8. \A i \in 1..l : R[i] \in 1..orig
  BY <1>3
<1> HIDE DEF k, l, orig, len
<1>9. \A e \in 1..orig : /\ edges[e].dist \in Nat
                         /\ len(edges[e].start, edges[e].dest) = edges[e].dist
                         /\ len(edges[e].dest, edges[e].start) = edges[e].dist
  BY EdgeBothWays DEF orig, len
<1>10. a \in Nat /\ b \in Nat
  BY <1>1, <1>2, <1>3, <1>5, <1>6
<1> DEFINE off == [i \in 0..n |-> IF i <= k THEN o[i] ELSE a + (b - r[l - (i - k)])]
<1>11. ASSUME NEW j \in 0..l PROVE p[(k + j) + 1] = y[l - j] /\ off[k + j] = a + (b - r[l - j])
  <2>1. j + 1 \in 1..(l + 1) /\ (k + j) + 1 = k + (j + 1) /\ l - (j + 1) + 1 = l - j
    BY <1>3
  <2>2. p[k + (j + 1)] = y[l - (j + 1) + 1]
    BY <2>1, <1>4
  <2>3. off[k + j] = a + (b - r[l - j])
    <3>1. k + j \in 0..n /\ (k + j) - k = j
      BY <1>3
    <3>2. CASE j = 0
      <4>1. k + j = k /\ l - j = l /\ k <= k /\ a + (b - b) = a
        BY <3>2, <1>3, <1>10
      <4>2. off[k] = o[k]
        BY <3>1, <4>1
      <4> HIDE DEF off
      <4> QED BY <4>1, <4>2, <1>1, <1>2
    <3>3. CASE j # 0
      <4>1. ~(k + j <= k)
        BY <3>3, <1>3
      <4> QED BY <3>1, <4>1
    <3> QED BY <3>2, <3>3
  <2> HIDE DEF off
  <2> QED BY <2>1, <2>2, <2>3
<1>12. ASSUME NEW i \in 0..k PROVE p[i + 1] = x[i] /\ off[i] = o[i]
  <2>1. i \in 0..n /\ i <= k
    BY <1>3
  <2>2. off[i] = o[i]
    BY <2>1
  <2> HIDE DEF off
  <2>3. CASE i = k
    <3>1. 0 \in 0..l /\ (k + 0) + 1 = i + 1 /\ l - 0 = l
      BY <2>3, <1>3
    <3>2. p[i + 1] = y[l]
      BY <3>1, <1>11
    <3> QED BY <2>2, <2>3, <3>2, <1>1, <1>2
  <2>4. CASE i # k
    <3>1. i + 1 \in 1..k /\ (i + 1) - 1 = i
      BY <2>4, <1>3
    <3> QED BY <2>2, <3>1, <1>4
  <2> QED BY <2>3, <2>4
<1> HIDE DEF off
<1>13. ASSUME NEW i \in 1..n PROVE len(p[i], p[i + 1]) \in Nat /\ off[i] = off[i - 1] + len(p[i], p[i + 1])
  <2>1. CASE i <= k
    <3>1. i \in 1..k /\ i \in 0..k /\ i - 1 \in 0..k /\ (i - 1) + 1 = i
      BY <2>1, <1>3
    <3>2. p[i + 1] = x[i] /\ p[i] = x[i - 1] /\ off[i] = o[i] /\ off[i - 1] = o[i - 1]
      BY <3>1, <1>12
    <3>3. PICK e \in 1..orig : e = L[i]
      BY <3>1, <1>7
    <3>4. edges[e].start = x[i - 1] /\ edges[e].dest = x[i] /\ o[i] = o[i - 1] + edges[e].dist
      BY <3>1, <3>3, <1>5
    <3>5. edges[e].dist \in Nat /\ len(edges[e].start, edges[e].dest) = edges[e].dist
      BY <1>9
    <3> QED BY <3>2, <3>4, <3>5
  <2>2. CASE i > k
    <3>1. PICK j : j = i - k
      OBVIOUS
    <3>2. /\ j \in 1..l /\ j \in 0..l /\ j - 1 \in 0..l /\ k + j = i /\ k + (j - 1) = i - 1 /\ (i - 1) + 1 = i
          /\ l - (j - 1) \in 1..l /\ l - (j - 1) \in 0..l /\ l - j \in 0..l /\ (l - (j - 1)) - 1 = l - j
      BY <2>2, <3>1, <1>3
    <3>3. PICK g, h : g = l - (j - 1) /\ h = l - j
      OBVIOUS
    <3>4. p[i + 1] = y[h] /\ p[i] = y[g] /\ off[i] = a + (b - r[h]) /\ off[i - 1] = a + (b - r[g])
      <4>1. p[(k + j) + 1] = y[l - j] /\ off[k + j] = a + (b - r[l - j])
        BY <3>2, <1>11
      <4>2. p[(k + (j - 1)) + 1] = y[l - (j - 1)] /\ off[k + (j - 1)] = a + (b - r[l - (j - 1)])
        BY <3>2, <1>11
      <4> QED BY <3>2, <3>3, <4>1, <4>2
    <3>5. PICK e \in 1..orig : e = R[g]
      BY <3>2, <3>3, <1>8
    <3>6. edges[e].start = y[h] /\ edges[e].dest = y[g] /\ r[g] = r[h] + edges[e].dist
      BY <3>2, <3>3, <3>5, <1>6
    <3>7. PICK w : w = edges[e].dist
      OBVIOUS
    <3>8. w \in Nat /\ len(p[i], p[i + 1]) = w
      BY <3>4, <3>6, <3>7, <1>9
    <3>9. r[g] \in Nat /\ r[h] \in Nat /\ r[g] = r[h] + w
      BY <3>2, <3>3, <3>6, <3>7, <1>6
    <3>10. a + (b - r[h]) = (a + (b - r[g])) + w
      BY <3>8, <3>9, <1>10
    <3> QED BY <3>4, <3>8, <3>10
  <2>3. i <= k \/ i > k
    BY <1>3
  <2> QED BY <2>1, <2>2, <2>3
<1>14. off[0] = 0 /\ p[1] = s
  <2>1. 0 \in 0..k /\ 0 + 1 = 1
    BY <1>3
  <2> QED BY <2>1, <1>1, <1>5, <1>12
<1>15. off[n] = a + b /\ p[Len(p)] = t
  <2>1. l \in 0..l /\ l - l = 0 /\ a + (b - 0) = a + b
    BY <1>3, <1>10
  <2>2. p[(k + l) + 1] = y[l - l] /\ off[k + l] = a + (b - r[l - l])
    BY <2>1, <1>11
  <2> QED BY <2>1, <2>2, <1>2, <1>4, <1>6
<1>16. Len(p) = n + 1
  BY <1>4
<1> HIDE DEF n
<1>17. LengthsOf(p, n, off)
  BY <1>13, <1>14, <1>16 DEF LengthsOf, len
<1>18. PathLength(p) = off[n]
  BY <1>3, <1>17, PathMeasured
<1> QED BY <1>14, <1>15, <1>18

------------------------------------------------------------------------------
\* What is promised of an answer depends on nothing that a search changes.
LEMMA PathLengthFrame ==
  ASSUME grid' = grid, NEW p
  PROVE  PathLength(p)' = PathLength(p)
BY DEF PathLength, FoldLeft, MapThenFoldSet

LEMMA AnswerFrame ==
  ASSUME LabelledAnswerIsShortest, UNCHANGED <<answer, from, to, grid, noLabelLvls>>
  PROVE  LabelledAnswerIsShortest'
<1>1. PICK p : p = answer.path
  OBVIOUS
<1>2. PathLength(p)' = PathLength(p)
  BY PathLengthFrame
<1>3. PathLength(answer.path)' = PathLength(answer.path)
  BY <1>1, <1>2
<1> QED BY <1>3 DEF LabelledAnswerIsShortest, AnswerIsReturned, AnswerIsShortest

\* With labels on all levels the chains of first edges from both nodes meet at
\* the best common hub, and the path along them is as long as the answer says.
LEMMA LabelledAnswer ==
  ASSUME CHInv, DistanceInv, HubInv, RouteInv, Answer, noLabelLvls = 0
  PROVE  AnswerIsReturned' /\ AnswerIsShortest'
<1> DEFINE D == AllDistances[grid]
           p == labels[from]
           q == labels[to]
           hub == BestHub(p, q)
           up == getEdges(from, hub)
           down == getEdges(to, hub)
           m == Len(edges)
<1>1. rpc = "answer" /\ from' = from /\ to' = to /\ UNCHANGED allVars
  BY DEF Answer
<1>2. hlPhase = "done" /\ from \in Nodes /\ to \in Nodes /\ grid' = grid
  BY <1>1 DEF RouteInv, allVars, hlVars, chVars, gridVars
<1>3. /\ Hierarchy(D, edges, levels) /\ IsMetric(D)
      /\ \A n \in Nodes : nodeHasLabels(n) => LabelOK(labels[n], D, edges, levels, n)
  BY <1>2, ServingFacts
<1>4. \A n \in Nodes : nodeHasLabels(n)
  <2>1. levels \in [Nodes -> 0..Cardinality(Nodes)] /\ Cardinality(Nodes) \in Nat
    BY <1>3, NodesFacts DEF Hierarchy
  <2> QED BY <2>1 DEF nodeHasLabels
<1>5. \A n \in Nodes : LabelOK(labels[n], D, edges, levels, n)
  BY <1>3, <1>4
<1>6. SideOf(from, "left") = p /\ SideOf(to, "right") = q
  BY <1>2, <1>4 DEF SideOf
<1>7. EdgesTo(hub, from, p) = up /\ EdgesTo(hub, to, q) = down
  BY <1>2, <1>4 DEF EdgesTo
<1>8. answer' = IF DOMAIN p \cap DOMAIN q = {} THEN Failed("notFound")
                ELSE IF -1 \in ToSet(up) \cup ToSet(down) THEN Failed("exception")
                ELSE [kind |-> "found", path |-> calculateRoute(from, to, up, down),
                      distance |-> p[hub].dist + q[hub].dist]
  BY <1>6, <1>7 DEF Answer
<1>9. SideOK(p, D, from) /\ SideOK(q, D, to)
  BY <1>2, <1>3, <1>5, LabelSide
<1>10. /\ \A h \in DOMAIN p : p[h].dist = D[from][h]
       /\ \A h \in DOMAIN q : q[h].dist = D[to][h]
  BY <1>2, <1>5 DEF LabelOK
<1>11. D' = D
  BY <1>1, SearchFrame
<1> HIDE DEF D
<1>12. /\ DOMAIN p \cap DOMAIN q = {} => D[from][to] = far
       /\ DOMAIN p \cap DOMAIN q # {} => hub \in DOMAIN p \cap DOMAIN q /\ p[hub].dist + q[hub].dist = D[from][to]
  BY <1>2, <1>3, <1>9, BestCommon
<1>13. CASE DOMAIN p \cap DOMAIN q = {}
  <2>1. answer'.kind = "notFound"
    BY <1>8, <1>13 DEF Failed
  <2>2. AllDistances[grid]'[from'][to'] = far
    BY <1>1, <1>11, <1>12, <1>13 DEF D
  <2> QED BY <2>1, <2>2 DEF AnswerIsReturned, AnswerIsShortest
<1>14. CASE DOMAIN p \cap DOMAIN q # {}
  <2>1. hub \in DOMAIN p /\ hub \in DOMAIN q /\ p[hub].dist + q[hub].dist = D[from][to]
    BY <1>12, <1>14
  <2>2. PICK c, a, b : c = hub /\ a = p[hub].dist /\ b = q[hub].dist
    OBVIOUS
  <2>3. a = D[from][c] /\ b = D[to][c]
    BY <2>1, <2>2, <1>10
  <2>4. PICK L, R : L = up /\ R = down
    OBVIOUS
  <2>5. Trip(edges, m, L, from, c, a) /\ Trip(edges, m, R, to, c, b)
    <3>1. c \in DOMAIN labels[from] /\ c \in DOMAIN labels[to] /\ L = getEdges(from, c) /\ R = getEdges(to, c)
      BY <2>1, <2>2, <2>4
    <3> QED BY <3>1, <2>3, <1>2, <1>3, <1>5, HubReached
  <2>6. L \in Seq(1..m) /\ R \in Seq(1..m)
    BY <2>5 DEF Trip
  <2>7. -1 \notin ToSet(L) \cup ToSet(R)
    <3>1. ToSet(L) \subseteq 1..m /\ ToSet(R) \subseteq 1..m
      BY <2>6 DEF ToSet
    <3>2. -1 \notin 1..m
      BY SMT
    <3> QED BY <3>1, <3>2
  <2> HIDE DEF p, q, hub, up, down
  <2>8. PICK path : path = calculateRoute(from, to, L, R)
    OBVIOUS
  <2>9. answer' = [kind |-> "found", path |-> path, distance |-> a + b]
    BY <2>2, <2>4, <2>7, <2>8, <1>8, <1>14
  <2>10. answer'.kind = "found" /\ answer'.path = path /\ answer'.distance = a + b
    BY <2>9
  <2>11. EdgesOK(edges, numOfOriginalEdges) /\ ShortcutsUnpack
    BY DEF CHInv
  <2>12. grid \in Grids /\ FromGrid(grid, edges, numOfOriginalEdges)
    BY DEF DistanceInv
  <2>13. PICK x, y : x = Unpacked(L) /\ y = Unpacked(R)
    OBVIOUS
  <2>14. Trip(edges, numOfOriginalEdges, x, from, c, a) /\ Trip(edges, numOfOriginalEdges, y, to, c, b)
    BY <2>5, <2>11, <2>13, UnpackedTrip DEF m
  <2>15. path = RoutePath(x, y, from, to)
    BY <2>8, <2>13 DEF calculateRoute, RoutePath
  <2>16. path[1] = from /\ path[Len(path)] = to /\ PathLength(path) = a + b
    BY <2>11, <2>12, <2>14, <2>15, RouteMeasured
  <2>17. PathLength(path)' = PathLength(path)
    BY <1>2, PathLengthFrame
  <2>18. PathLength(answer.path)' = a + b
    BY <2>10, <2>16, <2>17
  <2>19. AllDistances[grid]'[from'][to'] = a + b
    BY <2>1, <2>2, <1>1, <1>11 DEF D
  <2> QED BY <2>10, <2>16, <2>18, <2>19, <1>1 DEF AnswerIsReturned, AnswerIsShortest
<1> QED BY <1>13, <1>14

\* A router with labels on all levels returns an answer to every request, and
\* its path joins the two nodes along edges of the graph, as long as the answer
\* says and as their distance is; "no route" is only answered if there is none.
\* The graphs are undirected, with positive lengths that obey the triangle
\* inequality.
THEOREM LabelledAnswers == RouterSpec => []LabelledAnswerIsShortest
<1>1. RouterInit => LabelledAnswerIsShortest
  BY DEF RouterInit, Failed, LabelledAnswerIsShortest, AnswerIsReturned, AnswerIsShortest
<1>2. /\ CHInv /\ DistanceInv /\ HubInv /\ RouteInv /\ LabelledAnswerIsShortest /\ [RouterNext]_routerVars
      => LabelledAnswerIsShortest'
  <2>0. SUFFICES ASSUME CHInv, DistanceInv, HubInv, RouteInv, LabelledAnswerIsShortest, [RouterNext]_routerVars
                 PROVE  LabelledAnswerIsShortest'
    OBVIOUS
  <2>1. ASSUME answer'.kind = "none" PROVE LabelledAnswerIsShortest'
    BY <2>1 DEF LabelledAnswerIsShortest, AnswerIsReturned, AnswerIsShortest
  <2>2. ASSUME hlPhase # "done", UNCHANGED routeVars PROVE LabelledAnswerIsShortest'
    <3>1. answer.kind = "none" /\ answer' = answer
      BY <2>0, <2>2 DEF RouteInv, routeVars
    <3> QED BY <3>1, <2>1
  <2>3. ASSUME UNCHANGED allVars, answer' = answer, from' = from, to' = to PROVE LabelledAnswerIsShortest'
    <3>1. grid' = grid /\ noLabelLvls' = noLabelLvls
      BY <2>3 DEF allVars, chVars, gridVars, hlVars
    <3> QED BY <3>1, <2>0, <2>3, AnswerFrame
  <2>4. CASE CHNext /\ UNCHANGED <<hlVars, routeVars>>
    <3>1. hlPhase # "done"
      BY <2>0, <2>4, ContractionOver DEF HubInv, LevelsBefore
    <3> QED BY <2>2, <2>4, <3>1
  <2>5. CASE HLNext /\ UNCHANGED routeVars
    <3>1. hlPhase # "done"
      BY <2>5 DEF HLNext, createHLCalcOrder, StartLevel, calcLabels, JoinLevel, LabelsComplete
    <3> QED BY <2>2, <2>5, <3>1
  <2>6. CASE RouteNext
    <3>1. CASE \E s, d \in Nodes : route(s, d)
      <4>1. answer' = Failed("none")
        BY <3>1 DEF route
      <4> QED BY <4>1, <2>1 DEF Failed
    <3>2. CASE \E node \in heap : TempExpand(node)
      BY <3>2, <2>3 DEF TempExpand
    <3>3. CASE \E node \in DOMAIN labelHeap : TempMerge(node)
      BY <3>3, <2>3 DEF TempMerge
    <3>4. CASE SideDone
      BY <3>4, <2>3 DEF SideDone
    <3>5. CASE Answer
      <4>1. noLabelLvls' = noLabelLvls
        BY <3>5 DEF Answer, allVars, hlVars
      <4>2. noLabelLvls = 0 => AnswerIsReturned' /\ AnswerIsShortest'
        BY <2>0, <3>5, LabelledAnswer
      <4> QED BY <4>1, <4>2 DEF LabelledAnswerIsShortest
    <3> QED BY <2>6, <3>1, <3>2, <3>3, <3>4, <3>5 DEF RouteNext
  <2>7. CASE UNCHANGED routerVars
    <3>1. UNCHANGED allVars /\ answer' = answer /\ from' = from /\ to' = to
      BY <2>7 DEF routerVars, routeVars
    <3> QED BY <3>1, <2>3
  <2> QED BY <2>0, <2>4, <2>5, <2>6, <2>7 DEF RouterNext
<1> QED BY <1>1, <1>2, HubLabelInvariant, RoutesHold, PTL DEF RouterSpec
==============================================================================
