--------------------------- MODULE ContractionProofs ---------------------------
(***************************************************************************)
(* The contraction of every undirected graph with positive lengths, by any *)
(* number of threads and in any order: CHTypeOK, RemainingIsUndirected,    *)
(* LevelsAreIndependent and ShortcutsUnpack from one inductive invariant,  *)
(* CHInv, and DistancesArePreserved from a second one on top of it.        *)
(*                                                                         *)
(* The heart of it is that the two searches that find the two directions   *)
(* of a shortcut agree although they know nothing of each other.  What a   *)
(* search reports is characterised without any search: a path of two edges *)
(* over the contracted node that no path undercuts.  That nothing          *)
(* undercuts d is shown by a potential, a function of the nodes that grows *)
(* from 0 to d and along each edge by at most its length.  In an           *)
(* undirected graph d minus a potential is a potential for the way back.   *)
(***************************************************************************)
EXTENDS ContractionHierarchy, SharedLemmas

EdgeRecord == [start : Nodes, dest : Nodes, dist : Nat \ {0}, parts : Seq(Nat)]

\* The ids of the edges of es from u to v of length d.
Ids(es, u, v, d) == {e \in 1..Len(es) : es[e].start = u /\ es[e].dest = v /\ es[e].dist = d}

Swapped(e, f) == f.start = e.dest /\ f.dest = e.start

\* All edges, of the imported graph (the first orig) and shortcuts.
EdgesOK(es, orig) ==
  /\ es \in Seq(EdgeRecord)
  /\ orig \in 0..Len(es)
  /\ \A e \in 1..Len(es) : /\ es[e].start # es[e].dest
                           /\ Len(es[e].parts) = IF e <= orig THEN 0 ELSE 2
  /\ \A u, v \in Nodes, d \in Nat : Cardinality(Ids(es, u, v, d)) = Cardinality(Ids(es, v, u, d))
  /\ \A e \in (orig + 1)..Len(es) : \E f \in (orig + 1)..Len(es) : Swapped(es[e], es[f])

\* cur has the edges of es between the nodes of A, each once.
CurrentOK(es, cur, A) ==
  /\ cur \in [Nodes -> Seq(1..Len(es))]
  /\ \A u \in Nodes : \A i, j \in DOMAIN cur[u] : cur[u][i] = cur[u][j] => i = j
  /\ \A u \in Nodes :
       ToSet(cur[u]) = {e \in 1..Len(es) : u \in A /\ es[e].start = u /\ es[e].dest \in A}

\* The level that is being contracted, and the nodes not taken out yet.
Level == ToSet(nodesToCalc)
Alive == {n \in Nodes : ~Contracted(n) \/ n \in Level}

LevelsOK ==
  /\ levels \in [Nodes -> -1..Cardinality(Nodes)]
  /\ \A n \in Nodes : levels[n] < Cardinality({m \in Nodes : Contracted(m)})
  /\ nodesToCalc \in Seq(Nodes)
  /\ \A i, j \in DOMAIN nodesToCalc : nodesToCalc[i] = nodesToCalc[j] => i = j
  /\ \A x \in Level : Contracted(x) /\ \A y \in Level : levels[y] = levels[x]
------------------------------------------------------------------------------
\* No path from s to y is shorter than d.
Potential(es, cur, p, s, y, d) ==
  /\ p[s] = 0 /\ p[y] = d
  /\ \A u \in Nodes : \A e \in ToSet(cur[u]) : p[es[e].dest] <= p[u] + es[e].dist

\* A shortest path from s to y of length d leads over x only.
ShortOver(es, cur, s, x, y, d) ==
  /\ s # y
  /\ \E e \in ToSet(cur[s]), f \in ToSet(cur[x]) :
       es[e].dest = x /\ es[f].dest = y /\ d = es[e].dist + es[f].dist
  /\ \E p \in [Nodes -> 0..d] : Potential(es, cur, p, s, y, d)

\* What a shortcut that was found looks like.
FoundOK(es, cur, level, s) ==
  /\ s \in EdgeRecord
  /\ Len(s.parts) = 2 /\ s.parts[1] \in 1..Len(es) /\ s.parts[2] \in 1..Len(es)
  /\ s.start \notin level /\ s.dest \notin level
  /\ \E x \in level :
       /\ ShortOver(es, cur, s.start, x, s.dest, s.dist)
       /\ s.parts[2] \in ToSet(cur[s.start]) /\ es[s.parts[2]].dest = x
       /\ s.parts[1] \in ToSet(cur[x]) /\ es[s.parts[1]].dest = s.dest
       /\ es[s.parts[2]].dist + es[s.parts[1]].dist = s.dist

\* A search from s.initial, which prefers paths over x.
SearchRecord == [initial : Nodes, dist : [Nodes -> Int], prev : [Nodes -> Int],
                 edge : [Nodes -> Int], heap : SUBSET Nodes, final : SUBSET Nodes, steps : Nat]

Reached(s) == {n \in Nodes : s.dist[n] # -1}
Settled(s) == Reached(s) \ s.heap

\* The distances are the lengths of paths that prev leads back along.
PathsOK(es, cur, s) ==
  /\ s.heap \subseteq Reached(s)
  /\ s.dist[s.initial] = 0
  /\ \A n \in Nodes : s.dist[n] >= -1 /\ (s.prev[n] # -1 => n \in Reached(s))
  /\ \A n \in Reached(s) : n # s.initial =>
       /\ s.prev[n] \in Settled(s)
       /\ s.edge[n] \in ToSet(cur[s.prev[n]]) /\ es[s.edge[n]].dest = n
       /\ s.dist[n] = s.dist[s.prev[n]] + es[s.edge[n]].dist

\* Edge e out of node a has been taken into account.
EdgeRelaxed(es, s, x, a, e) ==
  LET v == es[e].dest
  IN  /\ v \in Reached(s)
      /\ s.dist[v] <= s.dist[a] + es[e].dist
      /\ a = x /\ s.dist[v] = s.dist[a] + es[e].dist => s.prev[v] = x
      /\ a = s.initial /\ v = x /\ s.dist[x] = es[e].dist => s.prev[x] = a

SearchOK(es, cur, s, x) ==
  /\ s \in SearchRecord
  /\ PathsOK(es, cur, s)
  /\ \A a \in Settled(s) : /\ \A b \in s.heap : s.dist[a] <= s.dist[b]
                           /\ \A e \in ToSet(cur[a]) : EdgeRelaxed(es, s, x, a, e)
  /\ s.final \subseteq {s.initial} \cup Settled(s)

\* A thread with the nodes td to contract, at neighbour k of the first.
ThreadOK(es, cur, level, td, k, s, found) ==
  /\ td \in Seq(level) /\ k \in Nat \ {0}
  /\ found \in Seq(EdgeRecord)
  /\ \A i \in DOMAIN found : FoundOK(es, cur, level, found[i])
  /\ td = <<>> => k = 1 /\ s = NoSearch
  /\ td # <<>> => k = 1 \/ k <= Len(cur[Head(td)])
  /\ s # NoSearch =>
       /\ td # <<>> /\ k <= Len(cur[Head(td)]) /\ Len(cur[Head(td)]) >= 2
       /\ s.initial = es[cur[Head(td)][k]].dest
       /\ SearchOK(es, cur, s, Head(td))

ThreadInv(t) ==
  ThreadOK(edges, currentEdges, Level, todo[t], nbr[t], search[t], shortcuts[t])

\* A thread has still to search from s for paths over x.
Pending(es, cur, td, k, x, s) ==
  /\ td # <<>>
  /\ \/ \E i \in DOMAIN td : i # 1 /\ td[i] = x
     \/ x = Head(td) /\ \E i \in DOMAIN cur[x] : i >= k /\ es[cur[x][i]].dest = s

Reported(found, s, y) == \E i \in DOMAIN found : found[i].start = s /\ found[i].dest = y

\* No shortcut is forgotten.
SearchComplete ==
  \A x \in Level : \A s, y \in Nodes : \A d \in Nat :
    ShortOver(edges, currentEdges, s, x, y, d) =>
      \E t \in Threads : \/ Pending(edges, currentEdges, todo[t], nbr[t], x, s)
                         \/ Reported(shortcuts[t], s, y)

\* The inductive invariant of the contraction.
CHInv ==
  /\ phase \in {"select", "search", "remove"}
  /\ todo \in [Threads -> Seq(Nodes)] /\ nbr \in [Threads -> Nat \ {0}]
  /\ calcOrder \in Orders
  /\ DOMAIN search = Threads /\ DOMAIN shortcuts = Threads
  /\ EdgesOK(edges, numOfOriginalEdges)
  /\ CurrentOK(edges, currentEdges, Alive)
  /\ LevelsOK
  /\ LevelsAreIndependent
  /\ ShortcutsUnpack
  /\ phase = "select" => nodesToCalc = <<>>
  /\ phase # "search" => \A t \in Threads : todo[t] = <<>> /\ shortcuts[t] = <<>>
  /\ \A t \in Threads : ThreadInv(t)
  /\ phase = "search" => SearchComplete
------------------------------------------------------------------------------
\* The folds of the model, turn by turn.  The lemmas differ in the operator
\* only, which a lemma cannot have as a parameter here.

\* The loop that picks a level.
Picked(base, seq) == FoldLeft(PickNode, base, seq)

LEMMA PickTurns ==
  ASSUME NEW U, NEW T, NEW seq \in Seq(T), NEW base \in U,
         \A acc \in U, e \in T : PickNode(acc, e) \in U
  PROVE  \E g : /\ g[0] = base
                /\ \A k \in 1..Len(seq) : g[k] = PickNode(g[k - 1], seq[k])
                /\ Picked(base, seq) = g[Len(seq)]
<1> DEFINE n == Len(seq)
           step == [x \in (1..n) \X U |-> PickNode(x[2], seq[x[1]])]
           Body(f) == [s \in SUBSET DOMAIN seq |->
                         IF s = {} THEN base ELSE PickNode(f[s \ {Max(s)}], seq[Max(s)])]
           c == CHOOSE f : f = Body(f)
           g == [k \in 0..n |-> c[1..k]]
<1>1. n \in Nat /\ DOMAIN seq = 1..n /\ \A k \in 1..n : seq[k] \in T
  OBVIOUS
<1>2. step \in [(1..n) \X U -> U]
  BY <1>1
<1>3. \A k \in 1..n, u \in U : step[<<k, u>>] = PickNode(u, seq[k])
  OBVIOUS
<1> HIDE DEF n, step
<1>4. PICK iter \in [SUBSET (1..n) -> U] : FoldsBy(iter, n, base, step)
  BY <1>1, <1>2, FoldExists
<1>5. iter = Body(iter)
  <2>1. ASSUME NEW s \in SUBSET (1..n), s # {}
        PROVE  iter[s] = PickNode(iter[s \ {Max(s)}], seq[Max(s)])
    <3>1. /\ Max(s) \in 1..n /\ s \ {Max(s)} \in SUBSET (1..n)
          /\ iter[s] = step[<<Max(s), iter[s \ {Max(s)}]>>]
      BY <1>4, <2>1 DEF FoldsBy
    <3>2. iter[s \ {Max(s)}] \in U
      BY <3>1
    <3> QED BY <3>1, <3>2, <1>3
  <2>2. iter = [s \in SUBSET (1..n) |-> iter[s]]
    OBVIOUS
  <2> QED BY <2>1, <2>2, <1>1, <1>4 DEF FoldsBy
<1>6. c = Body(c)
  BY <1>5
<1>7. Picked(base, seq) = c[1..n]
  BY <1>1 DEF Picked, FoldLeft, MapThenFoldSet
<1> HIDE DEF c
<1>8. c[{}] = base
  BY <1>6
<1>9. ASSUME NEW k \in 1..n PROVE c[1..k] = PickNode(c[1..(k - 1)], seq[k])
  <2>1. /\ 1..k \in SUBSET (1..n) /\ 1..k # {}
        /\ Max(1..k) = k /\ (1..k) \ {k} = 1..(k - 1)
    BY <1>1, MaxInterval
  <2> QED BY <2>1, <1>1, <1>6
<1>10. g[0] = base /\ g[n] = c[1..n] /\ \A k \in 1..n : g[k] = PickNode(g[k - 1], seq[k])
  BY <1>1, <1>8, <1>9
<1> HIDE DEF g
<1> QED BY <1>7, <1>10 DEF n

\* The loop over the edges of a node that a search has arrived at.
RelaxClosed(U, T, node, x) == \A acc \in U, e \in T : RelaxEdge(acc, node, e, x) \in U
Relaxed(base, seq, node, x) == FoldLeft(LAMBDA a, e : RelaxEdge(a, node, e, x), base, seq)

TurnsOfRelaxed(base, seq, node, x) ==
  \E g : /\ g[0] = base
         /\ \A k \in 1..Len(seq) : g[k] = RelaxEdge(g[k - 1], node, seq[k], x)
         /\ Relaxed(base, seq, node, x) = g[Len(seq)]

LEMMA RelaxTurns ==
  ASSUME NEW U, NEW T, NEW seq \in Seq(T), NEW base \in U,
         NEW node, NEW x, RelaxClosed(U, T, node, x)
  PROVE  TurnsOfRelaxed(base, seq, node, x)
<1> DEFINE n == Len(seq)
           step == [z \in (1..n) \X U |-> RelaxEdge(z[2], node, seq[z[1]], x)]
           Body(f) == [s \in SUBSET DOMAIN seq |->
                         IF s = {} THEN base ELSE RelaxEdge(f[s \ {Max(s)}], node, seq[Max(s)], x)]
           c == CHOOSE f : f = Body(f)
           g == [k \in 0..n |-> c[1..k]]
<1>1. n \in Nat /\ DOMAIN seq = 1..n /\ \A k \in 1..n : seq[k] \in T
  OBVIOUS
<1>2. step \in [(1..n) \X U -> U]
  BY <1>1 DEF RelaxClosed
<1>3. \A k \in 1..n, u \in U : step[<<k, u>>] = RelaxEdge(u, node, seq[k], x)
  OBVIOUS
<1> HIDE DEF n, step
<1>4. PICK iter \in [SUBSET (1..n) -> U] : FoldsBy(iter, n, base, step)
  BY <1>1, <1>2, FoldExists
<1>5. iter = Body(iter)
  <2>1. ASSUME NEW s \in SUBSET (1..n), s # {}
        PROVE  iter[s] = RelaxEdge(iter[s \ {Max(s)}], node, seq[Max(s)], x)
    <3>1. /\ Max(s) \in 1..n /\ s \ {Max(s)} \in SUBSET (1..n)
          /\ iter[s] = step[<<Max(s), iter[s \ {Max(s)}]>>]
      BY <1>4, <2>1 DEF FoldsBy
    <3>2. iter[s \ {Max(s)}] \in U
      BY <3>1
    <3> QED BY <3>1, <3>2, <1>3
  <2>2. iter = [s \in SUBSET (1..n) |-> iter[s]]
    OBVIOUS
  <2> QED BY <2>1, <2>2, <1>1, <1>4 DEF FoldsBy
<1>6. c = Body(c)
  BY <1>5
<1>7. Relaxed(base, seq, node, x) = c[1..n]
  BY <1>1 DEF Relaxed, FoldLeft, MapThenFoldSet
<1> HIDE DEF c
<1>8. c[{}] = base
  BY <1>6
<1>9. ASSUME NEW k \in 1..n PROVE c[1..k] = RelaxEdge(c[1..(k - 1)], node, seq[k], x)
  <2>1. /\ 1..k \in SUBSET (1..n) /\ 1..k # {}
        /\ Max(1..k) = k /\ (1..k) \ {k} = 1..(k - 1)
    BY <1>1, MaxInterval
  <2> QED BY <2>1, <1>1, <1>6
<1>10. g[0] = base /\ g[n] = c[1..n] /\ \A k \in 1..n : g[k] = RelaxEdge(g[k - 1], node, seq[k], x)
  BY <1>1, <1>8, <1>9
<1> HIDE DEF g
<1> QED BY <1>7, <1>10 DEF n, TurnsOfRelaxed

\* The loop that adds the shortcuts.
Added(base, seq) == FoldLeft(AddShortcut, base, seq)

LEMMA AddTurns ==
  ASSUME NEW U, NEW T, NEW seq \in Seq(T), NEW base \in U,
         \A acc \in U, e \in T : AddShortcut(acc, e) \in U
  PROVE  \E g : /\ g[0] = base
                /\ \A k \in 1..Len(seq) : g[k] = AddShortcut(g[k - 1], seq[k])
                /\ Added(base, seq) = g[Len(seq)]
<1> DEFINE n == Len(seq)
           step == [x \in (1..n) \X U |-> AddShortcut(x[2], seq[x[1]])]
           Body(f) == [s \in SUBSET DOMAIN seq |->
                         IF s = {} THEN base ELSE AddShortcut(f[s \ {Max(s)}], seq[Max(s)])]
           c == CHOOSE f : f = Body(f)
           g == [k \in 0..n |-> c[1..k]]
<1>1. n \in Nat /\ DOMAIN seq = 1..n /\ \A k \in 1..n : seq[k] \in T
  OBVIOUS
<1>2. step \in [(1..n) \X U -> U]
  BY <1>1
<1>3. \A k \in 1..n, u \in U : step[<<k, u>>] = AddShortcut(u, seq[k])
  OBVIOUS
<1> HIDE DEF n, step
<1>4. PICK iter \in [SUBSET (1..n) -> U] : FoldsBy(iter, n, base, step)
  BY <1>1, <1>2, FoldExists
<1>5. iter = Body(iter)
  <2>1. ASSUME NEW s \in SUBSET (1..n), s # {}
        PROVE  iter[s] = AddShortcut(iter[s \ {Max(s)}], seq[Max(s)])
    <3>1. /\ Max(s) \in 1..n /\ s \ {Max(s)} \in SUBSET (1..n)
          /\ iter[s] = step[<<Max(s), iter[s \ {Max(s)}]>>]
      BY <1>4, <2>1 DEF FoldsBy
    <3>2. iter[s \ {Max(s)}] \in U
      BY <3>1
    <3> QED BY <3>1, <3>2, <1>3
  <2>2. iter = [s \in SUBSET (1..n) |-> iter[s]]
    OBVIOUS
  <2> QED BY <2>1, <2>2, <1>1, <1>4 DEF FoldsBy
<1>6. c = Body(c)
  BY <1>5
<1>7. Added(base, seq) = c[1..n]
  BY <1>1 DEF Added, FoldLeft, MapThenFoldSet
<1> HIDE DEF c
<1>8. c[{}] = base
  BY <1>6
<1>9. ASSUME NEW k \in 1..n PROVE c[1..k] = AddShortcut(c[1..(k - 1)], seq[k])
  <2>1. /\ 1..k \in SUBSET (1..n) /\ 1..k # {}
        /\ Max(1..k) = k /\ (1..k) \ {k} = 1..(k - 1)
    BY <1>1, MaxInterval
  <2> QED BY <2>1, <1>1, <1>6
<1>10. g[0] = base /\ g[n] = c[1..n] /\ \A k \in 1..n : g[k] = AddShortcut(g[k - 1], seq[k])
  BY <1>1, <1>8, <1>9
<1> HIDE DEF g
<1> QED BY <1>7, <1>10 DEF n

\* The loop over the neighbours of a node that is taken out.
BackClosed(U, T, x) == \A acc \in U, e \in T : RemoveBackwardsEdge(acc, x, edges[e].dest) \in U
BackGone(base, seq, x) ==
  FoldLeft(LAMBDA a, e : RemoveBackwardsEdge(a, x, edges[e].dest), base, seq)

LEMMA BackTurns ==
  ASSUME NEW U, NEW T, NEW seq \in Seq(T), NEW base \in U,
         NEW x, BackClosed(U, T, x)
  PROVE  \E g : /\ g[0] = base
                /\ \A k \in 1..Len(seq) : g[k] = RemoveBackwardsEdge(g[k - 1], x, edges[seq[k]].dest)
                /\ BackGone(base, seq, x) = g[Len(seq)]
<1> DEFINE n == Len(seq)
           step == [z \in (1..n) \X U |-> RemoveBackwardsEdge(z[2], x, edges[seq[z[1]]].dest)]
           Body(f) == [s \in SUBSET DOMAIN seq |->
                         IF s = {} THEN base ELSE RemoveBackwardsEdge(f[s \ {Max(s)}], x, edges[seq[Max(s)]].dest)]
           c == CHOOSE f : f = Body(f)
           g == [k \in 0..n |-> c[1..k]]
<1>1. n \in Nat /\ DOMAIN seq = 1..n /\ \A k \in 1..n : seq[k] \in T
  OBVIOUS
<1>2. step \in [(1..n) \X U -> U]
  BY <1>1 DEF BackClosed
<1>3. \A k \in 1..n, u \in U : step[<<k, u>>] = RemoveBackwardsEdge(u, x, edges[seq[k]].dest)
  OBVIOUS
<1> HIDE DEF n, step
<1>4. PICK iter \in [SUBSET (1..n) -> U] : FoldsBy(iter, n, base, step)
  BY <1>1, <1>2, FoldExists
<1>5. iter = Body(iter)
  <2>1. ASSUME NEW s \in SUBSET (1..n), s # {}
        PROVE  iter[s] = RemoveBackwardsEdge(iter[s \ {Max(s)}], x, edges[seq[Max(s)]].dest)
    <3>1. /\ Max(s) \in 1..n /\ s \ {Max(s)} \in SUBSET (1..n)
          /\ iter[s] = step[<<Max(s), iter[s \ {Max(s)}]>>]
      BY <1>4, <2>1 DEF FoldsBy
    <3>2. iter[s \ {Max(s)}] \in U
      BY <3>1
    <3> QED BY <3>1, <3>2, <1>3
  <2>2. iter = [s \in SUBSET (1..n) |-> iter[s]]
    OBVIOUS
  <2> QED BY <2>1, <2>2, <1>1, <1>4 DEF FoldsBy
<1>6. c = Body(c)
  BY <1>5
<1>7. BackGone(base, seq, x) = c[1..n]
  BY <1>1 DEF BackGone, FoldLeft, MapThenFoldSet
<1> HIDE DEF c
<1>8. c[{}] = base
  BY <1>6
<1>9. ASSUME NEW k \in 1..n PROVE c[1..k] = RemoveBackwardsEdge(c[1..(k - 1)], x, edges[seq[k]].dest)
  <2>1. /\ 1..k \in SUBSET (1..n) /\ 1..k # {}
        /\ Max(1..k) = k /\ (1..k) \ {k} = 1..(k - 1)
    BY <1>1, MaxInterval
  <2> QED BY <2>1, <1>1, <1>6
<1>10. g[0] = base /\ g[n] = c[1..n] /\ \A k \in 1..n : g[k] = RemoveBackwardsEdge(g[k - 1], x, edges[seq[k]].dest)
  BY <1>1, <1>8, <1>9
<1> HIDE DEF g
<1> QED BY <1>7, <1>10 DEF n

\* The loop that takes a level out.
Removed(base, seq) == FoldLeft(RemoveNode, base, seq)

LEMMA RemoveTurns ==
  ASSUME NEW U, NEW T, NEW seq \in Seq(T), NEW base \in U,
         \A acc \in U, e \in T : RemoveNode(acc, e) \in U
  PROVE  \E g : /\ g[0] = base
                /\ \A k \in 1..Len(seq) : g[k] = RemoveNode(g[k - 1], seq[k])
                /\ Removed(base, seq) = g[Len(seq)]
<1> DEFINE n == Len(seq)
           step == [x \in (1..n) \X U |-> RemoveNode(x[2], seq[x[1]])]
           Body(f) == [s \in SUBSET DOMAIN seq |->
                         IF s = {} THEN base ELSE RemoveNode(f[s \ {Max(s)}], seq[Max(s)])]
           c == CHOOSE f : f = Body(f)
           g == [k \in 0..n |-> c[1..k]]
<1>1. n \in Nat /\ DOMAIN seq = 1..n /\ \A k \in 1..n : seq[k] \in T
  OBVIOUS
<1>2. step \in [(1..n) \X U -> U]
  BY <1>1
<1>3. \A k \in 1..n, u \in U : step[<<k, u>>] = RemoveNode(u, seq[k])
  OBVIOUS
<1> HIDE DEF n, step
<1>4. PICK iter \in [SUBSET (1..n) -> U] : FoldsBy(iter, n, base, step)
  BY <1>1, <1>2, FoldExists
<1>5. iter = Body(iter)
  <2>1. ASSUME NEW s \in SUBSET (1..n), s # {}
        PROVE  iter[s] = RemoveNode(iter[s \ {Max(s)}], seq[Max(s)])
    <3>1. /\ Max(s) \in 1..n /\ s \ {Max(s)} \in SUBSET (1..n)
          /\ iter[s] = step[<<Max(s), iter[s \ {Max(s)}]>>]
      BY <1>4, <2>1 DEF FoldsBy
    <3>2. iter[s \ {Max(s)}] \in U
      BY <3>1
    <3> QED BY <3>1, <3>2, <1>3
  <2>2. iter = [s \in SUBSET (1..n) |-> iter[s]]
    OBVIOUS
  <2> QED BY <2>1, <2>2, <1>1, <1>4 DEF FoldsBy
<1>6. c = Body(c)
  BY <1>5
<1>7. Removed(base, seq) = c[1..n]
  BY <1>1 DEF Removed, FoldLeft, MapThenFoldSet
<1> HIDE DEF c
<1>8. c[{}] = base
  BY <1>6
<1>9. ASSUME NEW k \in 1..n PROVE c[1..k] = RemoveNode(c[1..(k - 1)], seq[k])
  <2>1. /\ 1..k \in SUBSET (1..n) /\ 1..k # {}
        /\ Max(1..k) = k /\ (1..k) \ {k} = 1..(k - 1)
    BY <1>1, MaxInterval
  <2> QED BY <2>1, <1>1, <1>6
<1>10. g[0] = base /\ g[n] = c[1..n] /\ \A k \in 1..n : g[k] = RemoveNode(g[k - 1], seq[k])
  BY <1>1, <1>8, <1>9
<1> HIDE DEF g
<1> QED BY <1>7, <1>10 DEF n
------------------------------------------------------------------------------
\* Nodes are numbers, and finitely many.
LEMMA NodesFacts ==
  /\ Nodes \subseteq Nat /\ IsFiniteSet(Nodes) /\ Nodes # {}
  /\ Cardinality(Nodes) \in Nat \ {0} /\ Nodes = 0..(Cardinality(Nodes) - 1)
<1>1. IsFiniteSet(Nodes) /\ Nodes # {} /\ Nodes = 0..(Cardinality(Nodes) - 1)
  BY HierarchyAssumption
<1>2. Cardinality(Nodes) \in Nat
  BY <1>1, FS_CardinalityType
<1>3. Cardinality(Nodes) # 0
  BY <1>1, FS_EmptySet
<1>4. Nodes \subseteq Nat
  BY <1>1, <1>2
<1> QED BY <1>1, <1>2, <1>3, <1>4

\* The fields of an edge.
LEMMA EdgeFields ==
  ASSUME NEW es \in Seq(EdgeRecord)
  PROVE  /\ Len(es) \in Nat /\ DOMAIN es = 1..Len(es)
         /\ \A e \in 1..Len(es) : /\ es[e] \in EdgeRecord
                                  /\ es[e].start \in Nodes /\ es[e].dest \in Nodes
                                  /\ es[e].dist \in Nat /\ es[e].dist > 0
                                  /\ es[e].parts \in Seq(Nat)
<1>1. Len(es) \in Nat /\ DOMAIN es = 1..Len(es) /\ \A e \in 1..Len(es) : es[e] \in EdgeRecord
  OBVIOUS
<1>2. \A r \in EdgeRecord : /\ r.start \in Nodes /\ r.dest \in Nodes
                            /\ r.dist \in Nat /\ r.dist > 0 /\ r.parts \in Seq(Nat)
  BY DEF EdgeRecord
<1> QED BY <1>1, <1>2

\* The edges between two nodes are finitely many.
LEMMA IdsFinite ==
  ASSUME NEW es \in Seq(EdgeRecord), NEW u, NEW v, NEW d
  PROVE  IsFiniteSet(Ids(es, u, v, d)) /\ Cardinality(Ids(es, u, v, d)) \in Nat
<1>1. Len(es) \in Nat
  OBVIOUS
<1> DEFINE n == Len(es)
<1> HIDE DEF n
<1>2. IsFiniteSet(1..n)
  BY <1>1, FS_Interval DEF n
<1>3. Ids(es, u, v, d) \in SUBSET (1..n)
  BY DEF Ids, n
<1>4. IsFiniteSet(Ids(es, u, v, d))
  BY <1>2, <1>3, FS_Subset
<1> QED BY <1>4, FS_CardinalityType

\* Every edge has an edge back of the same length.
LEMMA EdgeBack ==
  ASSUME NEW es, NEW orig, EdgesOK(es, orig), NEW e \in 1..Len(es)
  PROVE  \E f \in 1..Len(es) : Swapped(es[e], es[f]) /\ es[f].dist = es[e].dist
<1> DEFINE u == es[e].start  v == es[e].dest  d == es[e].dist
<1>1. es \in Seq(EdgeRecord)
  BY DEF EdgesOK
<1>2. u \in Nodes /\ v \in Nodes /\ d \in Nat
  BY <1>1, EdgeFields
<1>3. Cardinality(Ids(es, u, v, d)) = Cardinality(Ids(es, v, u, d))
  BY <1>2 DEF EdgesOK
<1>4. e \in Ids(es, u, v, d)
  BY DEF Ids
<1> HIDE DEF u, v, d
<1>5. Cardinality(Ids(es, u, v, d)) # 0
  <2>1. IsFiniteSet(Ids(es, u, v, d))
    BY <1>1, IdsFinite
  <2> QED BY <2>1, <1>4, FS_EmptySet
<1>6. Ids(es, v, u, d) # {}
  BY <1>3, <1>5, FS_EmptySet
<1>7. PICK f \in Ids(es, v, u, d) : TRUE
  BY <1>6
<1>8. f \in 1..Len(es) /\ es[f].start = v /\ es[f].dest = u /\ es[f].dist = d
  BY <1>7 DEF Ids
<1> QED BY <1>8 DEF u, v, d, Swapped

\* The edges a node has in the remaining graph, and the edges back.
LEMMA LinkFacts ==
  ASSUME NEW es, NEW orig, EdgesOK(es, orig), NEW cur, NEW A, CurrentOK(es, cur, A),
         NEW u \in Nodes, NEW e \in ToSet(cur[u])
  PROVE  /\ e \in 1..Len(es) /\ es[e].start = u /\ u \in A /\ es[e].dest \in A
         /\ es[e].dest \in Nodes /\ es[e].dest # u /\ es[e].dist \in Nat /\ es[e].dist > 0
         /\ \E f \in ToSet(cur[es[e].dest]) : es[f].dest = u /\ es[f].dist = es[e].dist
<1>1. e \in 1..Len(es) /\ es[e].start = u /\ u \in A /\ es[e].dest \in A
  BY DEF CurrentOK
<1>2. es \in Seq(EdgeRecord)
  BY DEF EdgesOK
<1>3. es[e].dest \in Nodes /\ es[e].dist \in Nat /\ es[e].dist > 0
  BY <1>1, <1>2, EdgeFields
<1>4. es[e].dest # u
  BY <1>1 DEF EdgesOK
<1>5. PICK f \in 1..Len(es) : Swapped(es[e], es[f]) /\ es[f].dist = es[e].dist
  BY <1>1, EdgeBack
<1>6. f \in ToSet(cur[es[e].dest]) /\ es[f].dest = u
  BY <1>1, <1>3, <1>5 DEF Swapped, CurrentOK
<1> QED BY <1>1, <1>3, <1>4, <1>5, <1>6

\* A shortest path of two edges over x is one on the way back too.
LEMMA ShortBack ==
  ASSUME NEW es, NEW orig, EdgesOK(es, orig), NEW cur, NEW A, CurrentOK(es, cur, A),
         NEW s \in Nodes, NEW x \in Nodes, NEW y \in Nodes, NEW d \in Nat,
         ShortOver(es, cur, s, x, y, d)
  PROVE  ShortOver(es, cur, y, x, s, d)
<1>1. PICK e \in ToSet(cur[s]), f \in ToSet(cur[x]) :
         es[e].dest = x /\ es[f].dest = y /\ d = es[e].dist + es[f].dist
  BY DEF ShortOver
<1>2. PICK p \in [Nodes -> 0..d] : Potential(es, cur, p, s, y, d)
  BY DEF ShortOver
<1>3. PICK e2 \in ToSet(cur[x]) : es[e2].dest = s /\ es[e2].dist = es[e].dist
  BY <1>1, LinkFacts
<1>4. PICK f2 \in ToSet(cur[y]) : es[f2].dest = x /\ es[f2].dist = es[f].dist
  BY <1>1, LinkFacts
<1>5. es[e].dist \in Nat /\ es[f].dist \in Nat
  BY <1>1, LinkFacts
<1> DEFINE q == [n \in Nodes |-> d - p[n]]
<1>6. q \in [Nodes -> 0..d]
  OBVIOUS
<1>7. q[y] = 0 /\ q[s] = d
  BY <1>2 DEF Potential
<1>8. ASSUME NEW u \in Nodes, NEW a \in ToSet(cur[u])
      PROVE  q[es[a].dest] <= q[u] + es[a].dist
  <2> DEFINE v == es[a].dest
  <2>1. v \in Nodes /\ es[a].dist \in Nat
    BY LinkFacts
  <2>2. PICK b \in ToSet(cur[v]) : es[b].dest = u /\ es[b].dist = es[a].dist
    BY LinkFacts
  <2>3. p[u] <= p[v] + es[a].dist
    BY <1>2, <2>1, <2>2 DEF Potential
  <2>4. p[u] \in Int /\ p[v] \in Int /\ q[u] = d - p[u] /\ q[v] = d - p[v]
    BY <2>1
  <2> HIDE DEF v, q
  <2>5. q[v] <= q[u] + es[a].dist
    BY <2>1, <2>3, <2>4
  <2> QED BY <2>5 DEF v
<1>9. Potential(es, cur, q, y, s, d)
  BY <1>7, <1>8 DEF Potential
<1>10. d = es[f2].dist + es[e2].dist
  BY <1>1, <1>3, <1>4, <1>5
<1>11. y # s
  BY DEF ShortOver
<1> HIDE DEF q
<1> QED BY <1>3, <1>4, <1>6, <1>9, <1>10, <1>11 DEF ShortOver

\* Whatever node shortest paths lead over, they are equally long.
LEMMA ShortUnique ==
  ASSUME NEW es, NEW orig, EdgesOK(es, orig), NEW cur, NEW A, CurrentOK(es, cur, A),
         NEW s \in Nodes, NEW x \in Nodes, NEW x2 \in Nodes, NEW y \in Nodes,
         NEW d \in Nat, NEW d2 \in Nat,
         ShortOver(es, cur, s, x, y, d), ShortOver(es, cur, s, x2, y, d2)
  PROVE  d <= d2
<1>1. PICK e \in ToSet(cur[s]), f \in ToSet(cur[x2]) :
         es[e].dest = x2 /\ es[f].dest = y /\ d2 = es[e].dist + es[f].dist
  BY DEF ShortOver
<1>2. PICK p \in [Nodes -> 0..d] : Potential(es, cur, p, s, y, d)
  BY DEF ShortOver
<1>3. es[e].dist \in Nat /\ es[f].dist \in Nat
  BY <1>1, LinkFacts
<1>4. /\ p[x2] <= p[s] + es[e].dist /\ p[y] <= p[x2] + es[f].dist
      /\ p[s] = 0 /\ p[y] = d
  BY <1>1, <1>2 DEF Potential
<1>5. p[x2] \in Int
  OBVIOUS
<1> QED BY <1>1, <1>3, <1>4, <1>5
------------------------------------------------------------------------------
\* The fields of a search.
LEMMA SearchFields ==
  ASSUME NEW s \in SearchRecord
  PROVE  /\ s.initial \in Nodes /\ s.dist \in [Nodes -> Int] /\ s.prev \in [Nodes -> Int]
         /\ s.edge \in [Nodes -> Int] /\ s.heap \in SUBSET Nodes /\ s.final \in SUBSET Nodes
         /\ s.steps \in Nat
BY DEF SearchRecord

\* What looking at one edge changes.
LEMMA RelaxFields ==
  ASSUME NEW s \in SearchRecord, NEW node \in Nodes, NEW e \in Int, NEW x,
         edges[e].dest \in Nodes, edges[e].dist \in Nat
  PROVE  LET v == edges[e].dest
             d == s.dist[node] + edges[e].dist
             r == RelaxEdge(s, node, e, x)
         IN  /\ ~Better(s.dist[v], d, node = x) => r = s
             /\ Better(s.dist[v], d, node = x) =>
                  /\ r \in SearchRecord
                  /\ r.initial = s.initial /\ r.final = s.final /\ r.steps = s.steps
                  /\ r.dist = [s.dist EXCEPT ![v] = d]
                  /\ r.prev = [s.prev EXCEPT ![v] = node]
                  /\ r.edge = [s.edge EXCEPT ![v] = e]
                  /\ r.heap = s.heap \cup {v}
<1> DEFINE v == edges[e].dest
           d == s.dist[node] + edges[e].dist
           r == RelaxEdge(s, node, e, x)
<1>1. v \in Nodes /\ d \in Int
  BY SearchFields
<1>2. ~Better(s.dist[v], d, node = x) => r = s
  BY DEF RelaxEdge
<1>3. ASSUME Better(s.dist[v], d, node = x)
      PROVE  r = [s EXCEPT !.dist[v] = d, !.prev[v] = node, !.edge[v] = e, !.heap = @ \cup {v}]
  BY <1>3 DEF RelaxEdge
<1> HIDE DEF v, d, r
<1>4. ASSUME Better(s.dist[v], d, node = x)
      PROVE  /\ r \in SearchRecord
             /\ r.initial = s.initial /\ r.final = s.final /\ r.steps = s.steps
             /\ r.dist = [s.dist EXCEPT ![v] = d]
             /\ r.prev = [s.prev EXCEPT ![v] = node]
             /\ r.edge = [s.edge EXCEPT ![v] = e]
             /\ r.heap = s.heap \cup {v}
  <2> DEFINE q == [initial |-> s.initial, dist |-> [s.dist EXCEPT ![v] = d],
                   prev |-> [s.prev EXCEPT ![v] = node], edge |-> [s.edge EXCEPT ![v] = e],
                   heap |-> s.heap \cup {v}, final |-> s.final, steps |-> s.steps]
  <2>1. r = q
    BY <1>3, <1>4 DEF SearchRecord
  <2>2. q \in SearchRecord
    <3>1. node \in Int
      BY NodesFacts
    <3> QED BY <3>1, <1>1, SearchFields DEF SearchRecord
  <2> QED BY <2>1, <2>2
<1> QED BY <1>2, <1>4 DEF v, d, r

\* A distance other than that of the initial node is positive.
LEMMA PositiveDistance ==
  ASSUME NEW es, NEW orig, EdgesOK(es, orig), NEW cur, NEW A, CurrentOK(es, cur, A),
         NEW s \in SearchRecord, PathsOK(es, cur, s), NEW n \in Reached(s)
  PROVE  s.dist[n] \in Nat /\ (n # s.initial => s.dist[n] > 0)
<1>1. \A m \in Reached(s) : m \in Nodes /\ s.dist[m] \in Nat
  BY SearchFields DEF PathsOK, Reached
<1>2. ASSUME n # s.initial PROVE s.dist[n] > 0
  <2>1. /\ s.prev[n] \in Reached(s) /\ s.edge[n] \in ToSet(cur[s.prev[n]])
        /\ s.dist[n] = s.dist[s.prev[n]] + es[s.edge[n]].dist
    BY <1>2 DEF PathsOK, Settled
  <2>2. s.prev[n] \in Nodes /\ s.dist[s.prev[n]] \in Nat
    BY <2>1, <1>1
  <2>3. es[s.edge[n]].dist \in Nat /\ es[s.edge[n]].dist > 0
    BY <2>1, <2>2, LinkFacts
  <2> QED BY <2>1, <2>2, <2>3
<1> QED BY <1>1, <1>2

\* The first k edges of node, which was taken from the heap of b, have been
\* looked at.
RelaxOK(es, cur, b, s, x, node, k) ==
  /\ s \in SearchRecord
  /\ s.initial = b.initial /\ s.final = b.final /\ s.steps = b.steps
  /\ Settled(s) = Settled(b)
  /\ \A n \in Settled(b) : s.dist[n] = b.dist[n]
  /\ PathsOK(es, cur, s)
  /\ \A n \in s.heap : b.dist[node] <= s.dist[n]
  /\ \A a \in Settled(b) : a # node => \A e \in ToSet(cur[a]) : EdgeRelaxed(es, s, x, a, e)
  /\ \A i \in 1..k : EdgeRelaxed(es, s, x, node, cur[node][i])

\* Looking at one more edge.
LEMMA RelaxOne ==
  ASSUME NEW A, EdgesOK(edges, numOfOriginalEdges), CurrentOK(edges, currentEdges, A),
         NEW b \in SearchRecord, NEW s, NEW x \in Nodes, x # b.initial,
         NEW node \in Settled(b), \A a \in Settled(b) : b.dist[a] <= b.dist[node],
         NEW k \in 1..Len(currentEdges[node]),
         RelaxOK(edges, currentEdges, b, s, x, node, k - 1)
  PROVE  RelaxOK(edges, currentEdges, b, RelaxEdge(s, node, currentEdges[node][k], x), x, node, k)
<1> DEFINE e == currentEdges[node][k]
           v == edges[e].dest
           w == edges[e].dist
           d == s.dist[node] + w
           r == RelaxEdge(s, node, e, x)
<1>1. node \in Nodes /\ s \in SearchRecord /\ PathsOK(edges, currentEdges, s)
  BY DEF RelaxOK, Settled, Reached
<1>2. /\ s.dist \in [Nodes -> Int] /\ s.prev \in [Nodes -> Int] /\ s.edge \in [Nodes -> Int]
      /\ s.heap \in SUBSET Nodes /\ s.initial \in Nodes /\ b.dist \in [Nodes -> Int]
  BY <1>1, SearchFields
<1>3. e \in ToSet(currentEdges[node])
  <2>1. currentEdges[node] \in Seq(1..Len(edges))
    BY <1>1 DEF CurrentOK
  <2> QED BY <2>1 DEF ToSet
<1>4. v \in Nodes /\ w \in Nat /\ w > 0 /\ e \in Int /\ v # node
  BY <1>1, <1>3, LinkFacts
<1>5. /\ Settled(s) = Settled(b) /\ \A n \in Settled(b) : s.dist[n] = b.dist[n]
      /\ \A n \in s.heap : b.dist[node] <= s.dist[n]
      /\ s.initial = b.initial /\ s.final = b.final /\ s.steps = b.steps
  BY DEF RelaxOK
<1>6. node \in Settled(s) /\ node \in Reached(s) /\ s.dist[node] = b.dist[node]
  BY <1>5 DEF Settled
<1>7. s.dist[node] \in Nat
  BY <1>1, <1>6, PositiveDistance
<1> HIDE DEF e
<1>10. /\ ~Better(s.dist[v], d, node = x) => r = s
       /\ Better(s.dist[v], d, node = x) =>
            /\ r \in SearchRecord
            /\ r.initial = s.initial /\ r.final = s.final /\ r.steps = s.steps
            /\ r.dist = [s.dist EXCEPT ![v] = d]
            /\ r.prev = [s.prev EXCEPT ![v] = node]
            /\ r.edge = [s.edge EXCEPT ![v] = e]
            /\ r.heap = s.heap \cup {v}
  BY <1>1, <1>4, RelaxFields
<1>11. edges[e].dest = v /\ edges[e].dist = w /\ d = s.dist[node] + w /\ e = currentEdges[node][k]
  BY DEF e
<1>12. r = RelaxEdge(s, node, currentEdges[node][k], x)
  BY DEF e
<1> HIDE DEF r, d, w, v
<1>8. CASE ~Better(s.dist[v], d, node = x)
  <2>1. r = s
    BY <1>8, <1>10
  <2>2. s.dist[v] # -1 /\ ~(d < s.dist[v]) /\ ~(node = x /\ d = s.dist[v])
    BY <1>8 DEF Better
  <2>3. v \in Reached(s) /\ s.dist[v] <= d
    <3>1. s.dist[v] \in Int
      <4>1. s.dist \in [Nodes -> Int] /\ v \in Nodes
        BY <1>2, <1>4
      <4> QED BY <4>1
    <3>2. d \in Int
      <4>1. d = s.dist[node] + w /\ s.dist[node] \in Nat /\ w \in Nat
        BY <1>4, <1>7, <1>11
      <4> QED BY <4>1
    <3> QED BY <3>1, <3>2, <2>2, <1>4 DEF Reached
  <2>4. ASSUME node = s.initial, v = x, s.dist[x] = w PROVE s.prev[x] = node
    <3>1. s.prev[x] \in Settled(s)
      BY <2>3, <2>4, <1>1, <1>5 DEF PathsOK
    <3>2. s.dist[node] = 0
      BY <2>4, <1>1 DEF PathsOK
    <3>3. s.dist[s.prev[x]] <= 0
      BY <3>1, <3>2, <1>5, <1>6
    <3>4. s.prev[x] \in Reached(s)
      BY <3>1 DEF Settled
    <3>5. s.prev[x] # s.initial => s.dist[s.prev[x]] > 0
      BY <3>4, <1>1, PositiveDistance
    <3>6. s.dist[s.prev[x]] \in Nat
      BY <3>4, <1>1, PositiveDistance
    <3> QED BY <3>3, <3>5, <3>6, <2>4
  <2>5. EdgeRelaxed(edges, s, x, node, e)
    BY <2>2, <2>3, <2>4, <1>11 DEF EdgeRelaxed
  <2>6. \A i \in 1..k : EdgeRelaxed(edges, s, x, node, currentEdges[node][i])
    <3>1. \A i \in 1..(k - 1) : EdgeRelaxed(edges, s, x, node, currentEdges[node][i])
      BY DEF RelaxOK
    <3>2. \A i \in 1..k : i \in 1..(k - 1) \/ i = k
      OBVIOUS
    <3> QED BY <3>1, <3>2, <2>5, <1>11
  <2>7. RelaxOK(edges, currentEdges, b, r, x, node, k)
    BY <2>1, <2>6 DEF RelaxOK
  <2> QED BY <2>7, <1>12
<1>9. CASE Better(s.dist[v], d, node = x)
  <2>1. /\ r \in SearchRecord
        /\ r.initial = s.initial /\ r.final = s.final /\ r.steps = s.steps
        /\ r.dist = [s.dist EXCEPT ![v] = d]
        /\ r.prev = [s.prev EXCEPT ![v] = node]
        /\ r.edge = [s.edge EXCEPT ![v] = e]
        /\ r.heap = s.heap \cup {v}
    BY <1>9, <1>10
  <2>2. d \in Nat /\ d > s.dist[node] /\ d > 0 /\ d = s.dist[node] + w
    BY <1>4, <1>7, <1>11
  <2>3. v \notin Settled(s)
    <3>1. SUFFICES ASSUME v \in Settled(s) PROVE FALSE
      OBVIOUS
    <3>2. s.dist[v] <= s.dist[node] /\ s.dist[v] # -1
      BY <3>1, <1>5, <1>6 DEF Settled, Reached
    <3> QED BY <3>2, <2>2, <1>2, <1>4, <1>7, <1>9 DEF Better
  <2>4. v # s.initial
    <3>1. SUFFICES ASSUME v = s.initial PROVE FALSE
      OBVIOUS
    <3>2. s.dist[v] = 0
      BY <3>1, <1>1 DEF PathsOK
    <3> QED BY <3>2, <2>2, <1>9 DEF Better
  <2>5. /\ r.dist[v] = d /\ r.prev[v] = node /\ r.edge[v] = e
        /\ \A n \in Nodes : n # v =>
             r.dist[n] = s.dist[n] /\ r.prev[n] = s.prev[n] /\ r.edge[n] = s.edge[n]
    BY <2>1, <1>2, <1>4
  <2>6. Reached(r) = Reached(s) \cup {v}
    BY <2>2, <2>5, <1>4 DEF Reached
  <2>7. Settled(r) = Settled(s)
    BY <2>1, <2>3, <2>6 DEF Settled
  <2>8. \A n \in Settled(s) : n # v /\ n \in Nodes /\ r.dist[n] = s.dist[n]
    BY <2>3, <2>5 DEF Settled, Reached
  <2>9. PathsOK(edges, currentEdges, r)
    <3>1. r.heap \subseteq Reached(r)
      BY <2>1, <2>6, <1>1 DEF PathsOK
    <3>2. r.dist[r.initial] = 0
      BY <2>1, <2>4, <2>5, <1>1, <1>2 DEF PathsOK
    <3>3. ASSUME NEW n \in Nodes
          PROVE  r.dist[n] >= -1 /\ (r.prev[n] # -1 => n \in Reached(r))
      <4>1. CASE n = v
        BY <4>1, <2>2, <2>5, <2>6
      <4>2. CASE n # v
        BY <4>2, <2>5, <2>6, <1>1 DEF PathsOK
      <4> QED BY <4>1, <4>2
    <3>4. ASSUME NEW n \in Reached(r), n # r.initial
          PROVE  /\ r.prev[n] \in Settled(r)
                 /\ r.edge[n] \in ToSet(currentEdges[r.prev[n]]) /\ edges[r.edge[n]].dest = n
                 /\ r.dist[n] = r.dist[r.prev[n]] + edges[r.edge[n]].dist
      <4>1. CASE n = v
        <5>1. r.prev[n] = node /\ r.edge[n] = e /\ r.dist[n] = d
          BY <4>1, <2>5
        <5>2. r.dist[node] = s.dist[node] /\ edges[e].dest = v /\ edges[e].dist = w
          BY <2>8, <1>6, <1>11
        <5> QED BY <5>1, <5>2, <4>1, <2>2, <2>7, <1>3, <1>6
      <4>2. CASE n # v
        <5>1. n \in Reached(s) /\ n \in Nodes /\ n # s.initial
          BY <4>2, <3>4, <2>1, <2>6 DEF Reached
        <5>2. /\ s.prev[n] \in Settled(s)
              /\ s.edge[n] \in ToSet(currentEdges[s.prev[n]]) /\ edges[s.edge[n]].dest = n
              /\ s.dist[n] = s.dist[s.prev[n]] + edges[s.edge[n]].dist
          BY <5>1, <1>1 DEF PathsOK
        <5>3. r.prev[n] = s.prev[n] /\ r.edge[n] = s.edge[n] /\ r.dist[n] = s.dist[n]
          BY <5>1, <4>2, <2>5
        <5>4. r.dist[s.prev[n]] = s.dist[s.prev[n]]
          BY <5>2, <2>8
        <5> QED BY <5>2, <5>3, <5>4, <2>7
      <4> QED BY <4>1, <4>2
    <3> QED BY <3>1, <3>2, <3>3, <3>4 DEF PathsOK
  <2>10. \A n \in r.heap : b.dist[node] <= r.dist[n]
    <3>1. SUFFICES ASSUME NEW n \in r.heap PROVE b.dist[node] <= r.dist[n]
      OBVIOUS
    <3>2. CASE n = v
      BY <3>2, <2>2, <2>5, <1>6, <1>7
    <3>3. CASE n # v
      <4>1. n \in s.heap /\ n \in Nodes
        BY <3>1, <3>3, <2>1, <1>2
      <4> QED BY <4>1, <3>3, <2>5, <1>5
    <3> QED BY <3>2, <3>3
  \* An edge that had been looked at needs no second look.
  <2>11. ASSUME NEW a \in Settled(s), NEW f \in ToSet(currentEdges[a]), EdgeRelaxed(edges, s, x, a, f)
         PROVE  EdgeRelaxed(edges, r, x, a, f)
    <3> DEFINE y == edges[f].dest  u == edges[f].dist
    <3>1. a \in Nodes /\ a # v /\ r.dist[a] = s.dist[a]
      BY <2>8
    <3>2. y \in Nodes /\ u \in Nat
      BY <3>1, LinkFacts
    <3>3. /\ y \in Reached(s) /\ s.dist[y] <= s.dist[a] + u
          /\ a = x /\ s.dist[y] = s.dist[a] + u => s.prev[y] = x
          /\ a = s.initial /\ y = x /\ s.dist[x] = u => s.prev[x] = a
      BY <2>11 DEF EdgeRelaxed
    <3> HIDE DEF y, u
    <3>4. CASE y # v
      <4>1. r.dist[y] = s.dist[y] /\ r.prev[y] = s.prev[y] /\ y \in Reached(r)
        BY <3>2, <3>3, <3>4, <2>5, <2>6
      <4>2. /\ y \in Reached(r) /\ r.dist[y] <= r.dist[a] + u
            /\ a = x /\ r.dist[y] = r.dist[a] + u => r.prev[y] = x
            /\ a = r.initial /\ y = x /\ r.dist[x] = u => r.prev[x] = a
        BY <4>1, <3>1, <3>3, <2>1
      <4> QED BY <4>2 DEF EdgeRelaxed, y, u
    <3>5. CASE y = v
      <4>1. s.dist[v] # -1 /\ v \in Reached(r) /\ s.dist[a] \in Int /\ s.dist[v] \in Int
        BY <3>1, <3>3, <3>5, <2>6, <1>2, <1>4 DEF Reached
      <4>2. d <= s.dist[v] /\ (node # x => d < s.dist[v])
        BY <4>1, <2>2, <1>9 DEF Better
      <4>3. r.dist[v] <= r.dist[a] + u
        BY <4>1, <4>2, <3>1, <3>2, <3>3, <3>5, <2>2, <2>5
      <4>4. ASSUME a = x, r.dist[v] = r.dist[a] + u PROVE r.prev[v] = x
        <5>1. node = x
          BY <4>1, <4>2, <4>4, <3>1, <3>2, <3>3, <3>5, <2>2, <2>5
        <5> QED BY <5>1, <2>5
      <4>5. ASSUME a = r.initial, v = x, r.dist[x] = u PROVE r.prev[x] = a
        <5>1. node # x
          BY <4>5, <1>4
        <5>2. s.dist[a] = 0
          BY <4>5, <2>1, <1>1 DEF PathsOK
        <5>3. d < s.dist[v] /\ s.dist[v] <= u /\ d = u
          BY <5>1, <5>2, <4>2, <4>5, <3>2, <3>3, <3>5, <2>5
        <5> QED BY <5>3, <4>1, <3>2, <2>2
      <4> QED BY <4>1, <4>3, <4>4, <4>5, <3>5 DEF EdgeRelaxed, y, u
    <3> QED BY <3>4, <3>5
  <2>12. \A a \in Settled(b) : a # node =>
            \A f \in ToSet(currentEdges[a]) : EdgeRelaxed(edges, r, x, a, f)
    BY <2>11, <1>5 DEF RelaxOK
  <2>13. EdgeRelaxed(edges, r, x, node, e)
    <3>1. edges[e].dest = v /\ edges[e].dist = w
      BY <1>11
    <3>2. v \in Reached(r) /\ r.dist[v] = d /\ r.prev[v] = node /\ r.dist[node] = s.dist[node]
      BY <2>5, <2>6, <2>8, <1>6
    <3>3. r.dist[v] <= r.dist[node] + w
      BY <3>2, <2>2
    <3> QED BY <3>1, <3>2, <3>3 DEF EdgeRelaxed
  <2>14. \A i \in 1..k : EdgeRelaxed(edges, r, x, node, currentEdges[node][i])
    <3>1. SUFFICES ASSUME NEW i \in 1..k PROVE EdgeRelaxed(edges, r, x, node, currentEdges[node][i])
      OBVIOUS
    <3>2. CASE i = k
      BY <3>2, <2>13, <1>11
    <3>3. CASE i # k
      <4>1. i \in 1..(k - 1)
        BY <3>3
      <4>2. EdgeRelaxed(edges, s, x, node, currentEdges[node][i])
        BY <4>1 DEF RelaxOK
      <4>3. currentEdges[node][i] \in ToSet(currentEdges[node])
        <5>1. currentEdges[node] \in Seq(1..Len(edges)) /\ i \in 1..Len(currentEdges[node])
          BY <1>1 DEF CurrentOK
        <5> QED BY <5>1 DEF ToSet
      <4> QED BY <4>2, <4>3, <2>11, <1>6
    <3> QED BY <3>2, <3>3
  <2>15. \A n \in Settled(b) : r.dist[n] = b.dist[n]
    BY <2>8, <1>5
  <2>16. RelaxOK(edges, currentEdges, b, r, x, node, k)
    BY <2>1, <2>7, <2>9, <2>10, <2>12, <2>14, <2>15, <1>5 DEF RelaxOK
  <2> QED BY <2>16, <1>12
<1> QED BY <1>8, <1>9

\* The search with a node taken from its heap.
Taken(s, hp, fin) == [s EXCEPT !.heap = hp, !.final = fin]

LEMMA TakenFields ==
  ASSUME NEW s \in SearchRecord, NEW hp \in SUBSET Nodes, NEW fin \in SUBSET Nodes,
         NEW b, b = Taken(s, hp, fin)
  PROVE  /\ b \in SearchRecord
         /\ b.initial = s.initial /\ b.dist = s.dist /\ b.prev = s.prev /\ b.edge = s.edge
         /\ b.heap = hp /\ b.final = fin /\ b.steps = s.steps
<1>1. b = [initial |-> s.initial, dist |-> s.dist, prev |-> s.prev, edge |-> s.edge,
           heap |-> hp, final |-> fin, steps |-> s.steps]
  BY DEF SearchRecord, Taken
<1> QED BY <1>1, SearchFields DEF SearchRecord

\* nextStep without the count of the steps.
LEMMA ExpandedOK ==
  ASSUME NEW A, EdgesOK(edges, numOfOriginalEdges), CurrentOK(edges, currentEdges, A),
         NEW s, NEW x \in Nodes, x # s.initial, SearchOK(edges, currentEdges, s, x),
         NEW node \in s.heap, \A other \in s.heap : s.dist[node] <= s.dist[other]
  PROVE  /\ SearchOK(edges, currentEdges, Expanded(s, node, x), x)
         /\ Expanded(s, node, x).initial = s.initial
<1> DEFINE seq == currentEdges[node]
           fin == IF seq = <<>> THEN s.final ELSE s.final \cup {node}
           b == [s EXCEPT !.heap = @ \ {node}, !.final = fin]
<1>1. s \in SearchRecord /\ PathsOK(edges, currentEdges, s)
  BY DEF SearchOK
<1>2. /\ s.initial \in Nodes /\ s.dist \in [Nodes -> Int] /\ s.prev \in [Nodes -> Int]
      /\ s.edge \in [Nodes -> Int] /\ s.heap \in SUBSET Nodes /\ s.final \in SUBSET Nodes
      /\ s.steps \in Nat
  BY <1>1, SearchFields
<1>3. node \in Nodes /\ node \in Reached(s)
  BY <1>1, <1>2 DEF PathsOK
<1>4. fin \in SUBSET Nodes /\ fin \subseteq s.final \cup {node}
  BY <1>2, <1>3
<1>5. Expanded(s, node, x) = Relaxed(b, seq, node, x)
  BY DEF Expanded, Relaxed
<1> HIDE DEF fin
<1>6. /\ b \in SearchRecord
      /\ b.initial = s.initial /\ b.dist = s.dist /\ b.prev = s.prev /\ b.edge = s.edge
      /\ b.heap = s.heap \ {node} /\ b.final = fin /\ b.steps = s.steps
  <2>1. s.heap \ {node} \in SUBSET Nodes
    BY <1>2
  <2>2. b = Taken(s, s.heap \ {node}, fin)
    BY DEF Taken
  <2>3. s \in SearchRecord /\ fin \in SUBSET Nodes
    BY <1>1, <1>4
  <2> HIDE DEF b
  <2> QED BY <2>1, <2>2, <2>3, TakenFields
<1> HIDE DEF b
<1>7. seq \in Seq(1..Len(edges)) /\ Len(seq) \in Nat
  <2>1. seq \in Seq(1..Len(edges))
    BY <1>3 DEF CurrentOK
  <2> QED BY <2>1
<1>8. edges \in Seq(EdgeRecord)
  BY DEF EdgesOK
<1>9. ASSUME NEW acc \in SearchRecord, NEW e \in 1..Len(edges)
      PROVE  RelaxEdge(acc, node, e, x) \in SearchRecord
  <2>1. edges[e].dest \in Nodes /\ edges[e].dist \in Nat /\ e \in Int
    BY <1>8, EdgeFields
  <2> QED BY <2>1, <1>3, RelaxFields
<1> HIDE DEF seq
<1>10. PICK g : /\ g[0] = b
                /\ \A k \in 1..Len(seq) : g[k] = RelaxEdge(g[k - 1], node, seq[k], x)
                /\ Relaxed(b, seq, node, x) = g[Len(seq)]
  <2> DEFINE T == 1..Len(edges)
  <2>1. seq \in Seq(T) /\ b \in SearchRecord
    BY <1>6, <1>7
  <2>2. RelaxClosed(SearchRecord, T, node, x)
    BY <1>9 DEF RelaxClosed
  <2> HIDE DEF T
  <2>3. TurnsOfRelaxed(b, seq, node, x)
    BY <2>1, <2>2, RelaxTurns
  <2> QED BY <2>3 DEF TurnsOfRelaxed
<1>11. Reached(b) = Reached(s) /\ Settled(b) = Settled(s) \cup {node}
  BY <1>3, <1>6 DEF Reached, Settled
<1>12. \A a \in Settled(b) : b.dist[a] <= b.dist[node]
  <2>1. \A a \in Settled(s) : s.dist[a] <= s.dist[node]
    BY DEF SearchOK
  <2>2. s.dist[node] <= s.dist[node]
    BY <1>2, <1>3
  <2> QED BY <2>1, <2>2, <1>6, <1>11
<1>13. RelaxOK(edges, currentEdges, b, b, x, node, 0)
  <2>1. PathsOK(edges, currentEdges, b)
    BY <1>1, <1>6, <1>11 DEF PathsOK
  <2>2. ASSUME NEW a \in Settled(b), a # node, NEW e \in ToSet(currentEdges[a])
        PROVE  EdgeRelaxed(edges, b, x, a, e)
    <3>1. EdgeRelaxed(edges, s, x, a, e)
      BY <2>2, <1>11 DEF SearchOK
    <3> QED BY <3>1, <1>6, <1>11 DEF EdgeRelaxed
  <2> QED BY <2>1, <2>2, <1>6 DEF RelaxOK
<1> DEFINE Good == {k \in 0..Len(seq) : RelaxOK(edges, currentEdges, b, g[k], x, node, k)}
<1>14. 0 \in Good
  BY <1>7, <1>10, <1>13
<1>15. ASSUME NEW k \in 1..Len(seq), k - 1 \in Good PROVE k \in Good
  <2>1. RelaxOK(edges, currentEdges, b, g[k - 1], x, node, k - 1)
    BY <1>15
  <2>2. RelaxOK(edges, currentEdges, b, RelaxEdge(g[k - 1], node, seq[k], x), x, node, k)
    BY <2>1, <1>6, <1>11, <1>12, RelaxOne DEF seq
  <2> QED BY <2>2, <1>7, <1>10
<1> HIDE DEF Good
<1>16. 0..Len(seq) \subseteq Good
  BY <1>7, <1>14, <1>15, IntervalInduction
<1> DEFINE r == g[Len(seq)]
<1>17. RelaxOK(edges, currentEdges, b, r, x, node, Len(seq))
  BY <1>7, <1>16 DEF Good
<1>18. r = Expanded(s, node, x)
  BY <1>5, <1>10
<1> HIDE DEF r
<1>19. \A a \in Settled(r) : /\ \A n \in r.heap : r.dist[a] <= r.dist[n]
                             /\ \A e \in ToSet(currentEdges[a]) : EdgeRelaxed(edges, r, x, a, e)
  <2>1. SUFFICES ASSUME NEW a \in Settled(r)
                 PROVE  /\ \A n \in r.heap : r.dist[a] <= r.dist[n]
                        /\ \A e \in ToSet(currentEdges[a]) : EdgeRelaxed(edges, r, x, a, e)
    OBVIOUS
  <2>2. a \in Settled(b) /\ r.dist[a] = b.dist[a] /\ r \in SearchRecord
    BY <2>1, <1>17 DEF RelaxOK
  <2>3. ASSUME NEW n \in r.heap PROVE r.dist[a] <= r.dist[n]
    <3>1. b.dist[node] <= r.dist[n] /\ b.dist[a] <= b.dist[node]
      BY <2>2, <2>3, <1>12, <1>17 DEF RelaxOK
    <3>2. n \in Nodes /\ r.dist[n] \in Int /\ b.dist[node] \in Int /\ b.dist[a] \in Int
      BY <2>2, <1>3, <1>6, SearchFields DEF Settled, Reached
    <3> QED BY <3>1, <3>2, <2>2
  <2>4. CASE a # node
    BY <2>2, <2>3, <2>4, <1>17 DEF RelaxOK
  <2>5. CASE a = node
    <3>1. \A i \in 1..Len(seq) : EdgeRelaxed(edges, r, x, node, seq[i])
      BY <1>17 DEF RelaxOK, seq
    <3>2. \A e \in ToSet(seq) : \E i \in 1..Len(seq) : e = seq[i]
      BY <1>7 DEF ToSet
    <3> QED BY <3>1, <3>2, <2>3, <2>5 DEF seq
  <2> QED BY <2>4, <2>5
<1>20. r.final \subseteq {r.initial} \cup Settled(r)
  BY <1>4, <1>6, <1>11, <1>17 DEF RelaxOK, SearchOK
<1> QED BY <1>6, <1>17, <1>18, <1>19, <1>20 DEF RelaxOK, SearchOK

\* The count of the steps says nothing about a search.
LEMMA StepsFree ==
  ASSUME NEW es, NEW cur, NEW s, NEW x, SearchOK(es, cur, s, x), NEW k \in Nat
  PROVE  /\ SearchOK(es, cur, [s EXCEPT !.steps = k], x)
         /\ [s EXCEPT !.steps = k].initial = s.initial
<1> DEFINE r == [s EXCEPT !.steps = k]
<1>1. s \in SearchRecord
  BY DEF SearchOK
<1>2. /\ r \in SearchRecord
      /\ r.initial = s.initial /\ r.dist = s.dist /\ r.prev = s.prev /\ r.edge = s.edge
      /\ r.heap = s.heap /\ r.final = s.final
  BY <1>1 DEF SearchRecord
<1> HIDE DEF r
<1>3. Reached(r) = Reached(s) /\ Settled(r) = Settled(s)
  BY <1>2 DEF Reached, Settled
<1>4. PathsOK(es, cur, r)
  BY <1>2, <1>3 DEF PathsOK, SearchOK
<1>5. \A a \in Settled(s) : \A e \in ToSet(cur[a]) : EdgeRelaxed(es, r, x, a, e)
  BY <1>2, <1>3 DEF SearchOK, EdgeRelaxed
<1>6. SearchOK(es, cur, r, x)
  BY <1>2, <1>3, <1>4, <1>5 DEF SearchOK
<1> QED BY <1>2, <1>6 DEF r

\* The search that nextCalc begins.
Fresh(first, stale) ==
  [initial |-> first,
   dist    |-> [n \in Nodes |-> IF n = first THEN 0 ELSE -1],
   prev    |-> [n \in Nodes |-> -1],
   edge    |-> [n \in Nodes |-> -1],
   heap    |-> {first},
   final   |-> stale,
   steps   |-> 0]

LEMMA SearchStart ==
  ASSUME NEW es, NEW cur, NEW x \in Nodes, NEW first \in Nodes, NEW stale \in SUBSET {first}
  PROVE  /\ SearchOK(es, cur, Fresh(first, stale), x)
         /\ Fresh(first, stale).initial = first
<1> DEFINE s == Fresh(first, stale)
<1>1. /\ s \in SearchRecord /\ s.initial = first /\ s.heap = {first} /\ s.final = stale
      /\ s.dist = [n \in Nodes |-> IF n = first THEN 0 ELSE -1]
      /\ s.prev = [n \in Nodes |-> -1]
  BY DEF SearchRecord, Fresh
<1> HIDE DEF s
<1>2. Reached(s) = {first} /\ Settled(s) = {}
  BY <1>1 DEF Reached, Settled
<1>3. PathsOK(es, cur, s)
  <2>1. \A n \in Nodes : s.dist[n] >= -1 /\ s.prev[n] = -1
    BY <1>1
  <2>2. s.dist[s.initial] = 0
    BY <1>1
  <2> QED BY <1>1, <1>2, <2>1, <2>2 DEF PathsOK
<1>4. SearchOK(es, cur, s, x)
  BY <1>1, <1>2, <1>3 DEF SearchOK
<1> QED BY <1>1, <1>4 DEF s

\* The nodes next to x.
Near(es, cur, x) == {es[e].dest : e \in ToSet(cur[x])}

\* A search is over: nothing is on the heap, or all nodes next to x are final.
Over(es, cur, s, x) == s.heap = {} \/ Near(es, cur, x) \subseteq s.final

\* What a search that is over reports is a shortest path over x.
LEMMA SearchSound ==
  ASSUME NEW es, NEW orig, EdgesOK(es, orig), NEW cur, NEW A, CurrentOK(es, cur, A),
         NEW s, NEW x \in Nodes, x # s.initial, SearchOK(es, cur, s, x), Over(es, cur, s, x),
         s.dist[x] # -1, s.prev[x] = s.initial,
         NEW y \in Near(es, cur, x), y # s.initial, s.prev[y] = x
  PROVE  /\ s.dist[y] \in Nat \ {0}
         /\ ShortOver(es, cur, s.initial, x, y, s.dist[y])
         /\ s.edge[x] \in ToSet(cur[s.initial]) /\ es[s.edge[x]].dest = x
         /\ s.edge[y] \in ToSet(cur[x]) /\ es[s.edge[y]].dest = y
         /\ es[s.edge[x]].dist + es[s.edge[y]].dist = s.dist[y]
<1> DEFINE D == s.dist[y]
           p == [n \in Nodes |-> IF n \in Reached(s) /\ s.dist[n] < D THEN s.dist[n] ELSE D]
<1>1. s \in SearchRecord /\ PathsOK(es, cur, s) /\ s.initial \in Nodes
  BY SearchFields DEF SearchOK
<1>2. y \in Nodes
  BY LinkFacts DEF Near
<1>3. y \in Reached(s) /\ x \in Reached(s) /\ s.initial \in Reached(s)
  <2>1. x # -1
    BY NodesFacts
  <2>2. s.initial \in Reached(s)
    BY <1>1 DEF PathsOK, Reached
  <2> QED BY <2>1, <2>2, <1>1, <1>2 DEF PathsOK, Reached
<1>4. y \in Settled(s)
  BY <1>3 DEF Over, SearchOK, Settled
<1>5. /\ s.edge[y] \in ToSet(cur[x]) /\ es[s.edge[y]].dest = y
      /\ s.dist[y] = s.dist[x] + es[s.edge[y]].dist
  BY <1>1, <1>3 DEF PathsOK
<1>6. /\ s.edge[x] \in ToSet(cur[s.initial]) /\ es[s.edge[x]].dest = x
      /\ s.dist[x] = s.dist[s.initial] + es[s.edge[x]].dist /\ s.dist[s.initial] = 0
  BY <1>1, <1>3 DEF PathsOK
<1>7. es[s.edge[x]].dist \in Nat /\ es[s.edge[y]].dist \in Nat
  BY <1>1, <1>5, <1>6, LinkFacts
<1>8. es[s.edge[x]].dist + es[s.edge[y]].dist = s.dist[y]
  BY <1>5, <1>6, <1>7
<1>9. D \in Nat /\ D > 0
  BY <1>1, <1>3, PositiveDistance
<1>10. \A n \in Reached(s) : n \in Nodes /\ s.dist[n] \in Nat
  BY <1>1, PositiveDistance DEF Reached
<1>11. /\ \A n \in Reached(s) : s.dist[n] < D => p[n] = s.dist[n]
       /\ \A n \in Reached(s) : ~(s.dist[n] < D) => p[n] = D
       /\ \A n \in Nodes : n \notin Reached(s) => p[n] = D
  BY <1>10
<1>12. p \in [Nodes -> 0..D]
  BY <1>9, <1>10
<1> HIDE DEF p, D
<1>13. p[s.initial] = 0 /\ p[y] = D
  <2>1. ~(s.dist[y] < D)
    BY <1>9 DEF D
  <2> QED BY <2>1, <1>3, <1>6, <1>9, <1>11
<1>14. ASSUME NEW u \in Nodes, NEW e \in ToSet(cur[u])
       PROVE  p[es[e].dest] <= p[u] + es[e].dist
  <2> DEFINE v == es[e].dest  w == es[e].dist
  <2>1. v \in Nodes /\ w \in Nat
    BY LinkFacts
  <2>2. p[u] \in 0..D /\ p[v] \in 0..D
    BY <2>1, <1>12
  <2>3. CASE p[u] = D
    <3> HIDE DEF v, w
    <3>1. p[v] <= p[u] + w
      BY <2>1, <2>2, <2>3, <1>9
    <3> QED BY <3>1 DEF v, w
  <2>4. CASE p[u] # D
    <3>1. u \in Reached(s) /\ s.dist[u] < D /\ p[u] = s.dist[u]
      BY <2>4, <1>11
    <3>2. u \in Settled(s)
      <4>1. u \in s.heap => D <= s.dist[u]
        BY <1>4 DEF SearchOK, D
      <4>2. u \notin s.heap
        BY <4>1, <3>1, <1>9, <1>10
      <4> QED BY <4>2, <3>1 DEF Settled
    <3>3. v \in Reached(s) /\ s.dist[v] <= s.dist[u] + w
      BY <3>2 DEF SearchOK, EdgeRelaxed
    <3> HIDE DEF v, w
    <3>4. p[v] <= s.dist[v]
      BY <3>3, <1>9, <1>10, <1>11
    <3>5. p[v] <= p[u] + w
      BY <3>1, <3>3, <3>4, <2>1, <2>2, <1>9, <1>10
    <3> QED BY <3>5 DEF v, w
  <2> QED BY <2>3, <2>4
<1>15. Potential(es, cur, p, s.initial, y, D)
  BY <1>13, <1>14 DEF Potential
<1>16. ShortOver(es, cur, s.initial, x, y, D)
  <2>1. D = es[s.edge[x]].dist + es[s.edge[y]].dist
    BY <1>8 DEF D
  <2> QED BY <2>1, <1>5, <1>6, <1>12, <1>15 DEF ShortOver
<1> QED BY <1>5, <1>6, <1>8, <1>9, <1>16 DEF D

\* A search that is over has met every shortest path over x.
LEMMA SearchFull ==
  ASSUME NEW es, NEW orig, EdgesOK(es, orig), NEW cur, NEW A, CurrentOK(es, cur, A),
         NEW s, NEW x \in Nodes, x # s.initial, SearchOK(es, cur, s, x), Over(es, cur, s, x),
         NEW y \in Nodes, NEW d \in Nat, ShortOver(es, cur, s.initial, x, y, d)
  PROVE  /\ s.dist[x] # -1 /\ s.prev[x] = s.initial
         /\ y \in Near(es, cur, x) /\ y # s.initial /\ s.prev[y] = x
<1>1. s \in SearchRecord /\ PathsOK(es, cur, s) /\ s.initial \in Nodes
  BY SearchFields DEF SearchOK
<1>2. PICK e \in ToSet(cur[s.initial]), f \in ToSet(cur[x]) :
         es[e].dest = x /\ es[f].dest = y /\ d = es[e].dist + es[f].dist
  BY DEF ShortOver
<1>3. PICK p \in [Nodes -> 0..d] : Potential(es, cur, p, s.initial, y, d)
  BY DEF ShortOver
<1>4. y # s.initial /\ y \in Near(es, cur, x)
  BY <1>2 DEF ShortOver, Near
<1> DEFINE we == es[e].dist  wf == es[f].dist
<1>5. we \in Nat /\ wf \in Nat /\ wf > 0 /\ d = we + wf
  BY <1>1, <1>2, LinkFacts
<1>6. \A n \in Reached(s) : /\ n \in Nodes /\ s.dist[n] \in Nat
                            /\ n # s.initial => s.dist[n] > 0
  BY <1>1, PositiveDistance DEF Reached
<1>7. \A n \in Reached(s) : p[n] <= s.dist[n]
  <2> DEFINE Low == {s.dist[n] : n \in {m \in Reached(s) : ~(p[m] <= s.dist[m])}}
  <2>1. SUFFICES ASSUME Low # {} PROVE FALSE
    OBVIOUS
  <2>2. Low \in SUBSET Nat
    BY <1>6
  <2>3. PICK least \in Low : \A k \in Low : least <= k
    BY <2>1, <2>2, LeastMember
  <2>4. PICK n \in Reached(s) : ~(p[n] <= s.dist[n]) /\ least = s.dist[n]
    BY <2>3
  <2>5. n # s.initial
    BY <2>4, <1>1, <1>3 DEF PathsOK, Potential
  <2> DEFINE q == s.prev[n]  g == s.edge[n]
  <2>6. /\ q \in Reached(s) /\ g \in ToSet(cur[q]) /\ es[g].dest = n
        /\ s.dist[n] = s.dist[q] + es[g].dist
    BY <2>5, <1>1 DEF PathsOK, Settled
  <2> HIDE DEF q, g
  <2>7. q \in Nodes /\ s.dist[q] \in Nat /\ s.dist[n] \in Nat /\ n \in Nodes
    BY <2>6, <1>6
  <2>8. es[g].dist \in Nat /\ es[g].dist > 0
    BY <2>6, <2>7, LinkFacts
  <2>9. p[q] <= s.dist[q]
    <3>1. SUFFICES ASSUME ~(p[q] <= s.dist[q]) PROVE FALSE
      OBVIOUS
    <3>2. s.dist[q] \in Low
      BY <3>1, <2>6
    <3>3. s.dist[n] <= s.dist[q]
      BY <3>2, <2>3, <2>4
    <3> QED BY <3>3, <2>6, <2>7, <2>8
  <2>10. p[n] <= p[q] + es[g].dist
    BY <2>6, <2>7, <1>3 DEF Potential
  <2>11. p[n] \in Int /\ p[q] \in Int
    BY <2>7
  <2> QED BY <2>4, <2>6, <2>7, <2>8, <2>9, <2>10, <2>11
<1>8. s.initial \in Reached(s) /\ s.dist[s.initial] = 0
  BY <1>1 DEF PathsOK, Reached
<1>9. ASSUME NEW a \in Settled(s), NEW g \in ToSet(cur[a]) PROVE EdgeRelaxed(es, s, x, a, g)
  BY DEF SearchOK
<1> HIDE DEF we, wf
<1>10. y \in Settled(s)
  <2>1. CASE s.heap = {}
    <3>1. Settled(s) = Reached(s)
      BY <2>1 DEF Settled
    <3>2. x \in Reached(s)
      BY <3>1, <1>2, <1>8, <1>9 DEF EdgeRelaxed
    <3>3. y \in Reached(s)
      BY <3>1, <3>2, <1>2, <1>9 DEF EdgeRelaxed
    <3> QED BY <3>1, <3>3
  <2>2. CASE Near(es, cur, x) \subseteq s.final
    BY <2>2, <1>4 DEF SearchOK
  <2> QED BY <2>1, <2>2 DEF Over
<1>11. y \in Reached(s) /\ s.dist[y] \in Nat /\ s.dist[y] > 0 /\ \A n \in s.heap : s.dist[y] <= s.dist[n]
  <2>1. y \in Reached(s)
    BY <1>10 DEF Settled
  <2> QED BY <2>1, <1>4, <1>6, <1>10 DEF SearchOK
<1>12. s.initial \in Settled(s)
  <2>1. s.initial \notin s.heap
    BY <1>8, <1>11
  <2> QED BY <2>1, <1>8 DEF Settled
<1>13. EdgeRelaxed(es, s, x, s.initial, e)
  BY <1>9, <1>12
<1>14. x \in Reached(s) /\ s.dist[x] <= we /\ (s.dist[x] = we => s.prev[x] = s.initial)
  <2>1. x \in Reached(s) /\ s.dist[x] <= s.dist[s.initial] + es[e].dist
    BY <1>2, <1>13 DEF EdgeRelaxed
  <2>2. s.dist[x] = es[e].dist => s.prev[x] = s.initial
    BY <1>2, <1>13 DEF EdgeRelaxed
  <2>3. s.dist[x] <= 0 + we
    BY <2>1, <1>8 DEF we
  <2>4. s.dist[x] <= we
    BY <2>3, <1>5
  <2> QED BY <2>1, <2>2, <2>4 DEF we
<1>15. s.dist[x] \in Nat
  BY <1>6, <1>14
<1>16. d <= s.dist[y]
  BY <1>3, <1>7, <1>11 DEF Potential
<1>17. x \in Settled(s)
  <2>1. x \in s.heap => s.dist[y] <= s.dist[x]
    BY <1>11
  <2>2. x \notin s.heap
    BY <2>1, <1>5, <1>11, <1>14, <1>15, <1>16
  <2> QED BY <2>2, <1>14 DEF Settled
<1>18. EdgeRelaxed(es, s, x, x, f)
  BY <1>2, <1>9, <1>17
<1>19. s.dist[y] <= s.dist[x] + wf /\ (s.dist[y] = s.dist[x] + wf => s.prev[y] = x)
  BY <1>2, <1>18 DEF EdgeRelaxed, wf
<1>20. s.dist[x] = we /\ s.dist[y] = s.dist[x] + wf
  BY <1>5, <1>11, <1>14, <1>15, <1>16, <1>19
<1>21. s.dist[x] # -1
  BY <1>15
<1> QED BY <1>4, <1>14, <1>19, <1>20, <1>21

\* The neighbours of x, place by place.
LEMMA NeighbourFacts ==
  ASSUME NEW A, EdgesOK(edges, numOfOriginalEdges), CurrentOK(edges, currentEdges, A),
         NEW x \in Nodes
  PROVE  /\ currentEdges[x] \in Seq(1..Len(edges)) /\ Len(currentEdges[x]) \in Nat
         /\ DOMAIN currentEdges[x] = 1..Len(currentEdges[x])
         /\ DOMAIN NeighboursOf(x) = 1..Len(currentEdges[x])
         /\ \A i \in 1..Len(currentEdges[x]) :
              /\ currentEdges[x][i] \in ToSet(currentEdges[x])
              /\ NeighboursOf(x)[i] = edges[currentEdges[x][i]].dest
              /\ NeighboursOf(x)[i] \in Nodes /\ NeighboursOf(x)[i] # x
         /\ ToSet(NeighboursOf(x)) = Near(edges, currentEdges, x)
<1>1. currentEdges[x] \in Seq(1..Len(edges))
  BY DEF CurrentOK
<1>2. /\ Len(currentEdges[x]) \in Nat /\ DOMAIN currentEdges[x] = 1..Len(currentEdges[x])
      /\ ToSet(currentEdges[x]) = {currentEdges[x][i] : i \in 1..Len(currentEdges[x])}
  BY <1>1 DEF ToSet
<1>3. /\ DOMAIN NeighboursOf(x) = 1..Len(currentEdges[x])
      /\ \A i \in 1..Len(currentEdges[x]) : NeighboursOf(x)[i] = edges[currentEdges[x][i]].dest
  BY <1>2 DEF NeighboursOf
<1>4. \A i \in 1..Len(currentEdges[x]) : currentEdges[x][i] \in ToSet(currentEdges[x])
  BY <1>2
<1>5. \A i \in 1..Len(currentEdges[x]) : NeighboursOf(x)[i] \in Nodes /\ NeighboursOf(x)[i] # x
  BY <1>3, <1>4, LinkFacts
<1>6. ToSet(NeighboursOf(x)) = {NeighboursOf(x)[i] : i \in 1..Len(currentEdges[x])}
  BY <1>3 DEF ToSet
<1>7. ToSet(NeighboursOf(x)) = Near(edges, currentEdges, x)
  BY <1>2, <1>3, <1>6 DEF Near
<1> QED BY <1>1, <1>2, <1>3, <1>4, <1>5, <1>7

\* The ends of the paths over x that a search reports.
LEMMA EndsFacts ==
  ASSUME NEW A, EdgesOK(edges, numOfOriginalEdges), CurrentOK(edges, currentEdges, A),
         NEW x \in Nodes, NEW s
  PROVE  \E n \in Nat :
           /\ DOMAIN EndsOver(s, x) = 1..n
           /\ \A k \in 1..n : /\ EndsOver(s, x)[k] \in Near(edges, currentEdges, x)
                              /\ EndsOver(s, x)[k] # s.initial
                              /\ s.prev[EndsOver(s, x)[k]] = x
           /\ \A y \in Near(edges, currentEdges, x) :
                y # s.initial /\ s.prev[y] = x => \E k \in 1..n : EndsOver(s, x)[k] = y
<1> DEFINE near == NeighboursOf(x)
           m == Len(currentEdges[x])
           P == {i \in DOMAIN near : near[i] # s.initial /\ s.prev[near[i]] = x}
           places == InOrder(P)
<1>1. /\ m \in Nat /\ DOMAIN near = 1..m
      /\ ToSet(near) = Near(edges, currentEdges, x)
  BY NeighbourFacts
<1>2. ToSet(near) = {near[i] : i \in 1..m}
  BY <1>1 DEF ToSet
<1>3. EndsOver(s, x) = [k \in DOMAIN places |-> near[places[k]]]
  BY DEF EndsOver
<1> HIDE DEF near, m
<1>4. P \in SUBSET Nat /\ P \in SUBSET (1..m)
  BY <1>1
<1>5. IsFiniteSet(P)
  BY <1>1, <1>4, FS_Interval, FS_Subset
<1>6. \A i \in P : near[i] # s.initial /\ s.prev[near[i]] = x
  OBVIOUS
<1>7. \A i \in 1..m : near[i] # s.initial /\ s.prev[near[i]] = x => i \in P
  BY <1>1
<1> HIDE DEF P
<1> DEFINE n == Cardinality(P)
<1>8. /\ n \in Nat /\ places \in [1..n -> P]
      /\ \A i \in P : \E k \in 1..n : places[k] = i
  BY <1>4, <1>5, InOrderFacts
<1> HIDE DEF n, places
<1>9. DOMAIN EndsOver(s, x) = 1..n /\ \A k \in 1..n : EndsOver(s, x)[k] = near[places[k]]
  BY <1>3, <1>8
<1>10. ASSUME NEW k \in 1..n
       PROVE  /\ EndsOver(s, x)[k] \in ToSet(near) /\ EndsOver(s, x)[k] # s.initial
              /\ s.prev[EndsOver(s, x)[k]] = x
  <2>1. places[k] \in P /\ places[k] \in 1..m
    BY <1>4, <1>8
  <2> QED BY <2>1, <1>2, <1>6, <1>9
<1>11. ASSUME NEW y \in ToSet(near), y # s.initial, s.prev[y] = x
       PROVE  \E k \in 1..n : EndsOver(s, x)[k] = y
  <2>1. PICK i \in 1..m : y = near[i]
    BY <1>2
  <2>2. i \in P
    BY <2>1, <1>7, <1>11
  <2>3. PICK k \in 1..n : places[k] = i
    BY <2>2, <1>8
  <2> QED BY <2>1, <2>3, <1>9
<1>12. n \in Nat
  BY <1>8
<1> WITNESS n \in Nat
<1> QED BY <1>1, <1>9, <1>10, <1>11

\* addShortcuts reports exactly the shortest paths over x.
LEMMA ShortcutsFacts ==
  ASSUME NEW A, EdgesOK(edges, numOfOriginalEdges), CurrentOK(edges, currentEdges, A),
         NEW level, NEW x \in Nodes, x \in level,
         Near(edges, currentEdges, x) \cap level = {},
         NEW s, s.initial \in Near(edges, currentEdges, x),
         SearchOK(edges, currentEdges, s, x), Over(edges, currentEdges, s, x)
  PROVE  /\ ShortcutsOver(s, x) \in Seq(EdgeRecord)
         /\ \A i \in DOMAIN ShortcutsOver(s, x) :
              FoundOK(edges, currentEdges, level, ShortcutsOver(s, x)[i])
         /\ \A y \in Nodes : \A d \in Nat :
              ShortOver(edges, currentEdges, s.initial, x, y, d) =>
                Reported(ShortcutsOver(s, x), s.initial, y)
<1>1. PICK n \in Nat :
         /\ DOMAIN EndsOver(s, x) = 1..n
         /\ \A k \in 1..n : /\ EndsOver(s, x)[k] \in Near(edges, currentEdges, x)
                            /\ EndsOver(s, x)[k] # s.initial
                            /\ s.prev[EndsOver(s, x)[k]] = x
         /\ \A y \in Near(edges, currentEdges, x) :
              y # s.initial /\ s.prev[y] = x => \E k \in 1..n : EndsOver(s, x)[k] = y
  BY EndsFacts
<1>2. s.initial # x /\ s.initial \in Nodes /\ s.initial \notin level
  BY LinkFacts DEF Near
<1> DEFINE Cut(y) == [start |-> s.initial, dest |-> y, dist |-> s.dist[y],
                      parts |-> <<s.edge[y], s.edge[x]>>]
<1>3. CASE s.dist[x] = -1 \/ s.prev[x] # s.initial
  <2>1. ShortcutsOver(s, x) = <<>>
    BY <1>3 DEF ShortcutsOver
  <2>2. ASSUME NEW y \in Nodes, NEW d \in Nat, ShortOver(edges, currentEdges, s.initial, x, y, d)
        PROVE  FALSE
    BY <2>2, <1>2, <1>3, SearchFull
  <2> QED BY <2>1, <2>2
<1>4. CASE ~(s.dist[x] = -1 \/ s.prev[x] # s.initial)
  <2>1. ShortcutsOver(s, x) = [i \in 1..n |-> Cut(EndsOver(s, x)[i])]
    BY <1>1, <1>4 DEF ShortcutsOver
  <2>2. ASSUME NEW y \in Near(edges, currentEdges, x), y # s.initial, s.prev[y] = x
        PROVE  Cut(y) \in EdgeRecord /\ FoundOK(edges, currentEdges, level, Cut(y))
    <3>1. /\ s.dist[y] \in Nat \ {0}
          /\ ShortOver(edges, currentEdges, s.initial, x, y, s.dist[y])
          /\ s.edge[x] \in ToSet(currentEdges[s.initial]) /\ edges[s.edge[x]].dest = x
          /\ s.edge[y] \in ToSet(currentEdges[x]) /\ edges[s.edge[y]].dest = y
          /\ edges[s.edge[x]].dist + edges[s.edge[y]].dist = s.dist[y]
      BY <2>2, <1>2, <1>4, SearchSound
    <3>2. y \in Nodes /\ y \notin level
      BY LinkFacts DEF Near
    <3>3. s.edge[x] \in 1..Len(edges) /\ s.edge[y] \in 1..Len(edges)
      BY <3>1, <1>2, LinkFacts
    <3> DEFINE c == Cut(y)
    <3>4. /\ c.start = s.initial /\ c.dest = y /\ c.dist = s.dist[y]
          /\ c.parts[1] = s.edge[y] /\ c.parts[2] = s.edge[x] /\ Len(c.parts) = 2
      OBVIOUS
    <3>5. c \in EdgeRecord
      <4>1. <<s.edge[y], s.edge[x]>> \in Seq(Nat)
        BY <3>3
      <4> QED BY <4>1, <3>1, <3>2, <1>2 DEF EdgeRecord
    <3> HIDE DEF c
    <3>6. FoundOK(edges, currentEdges, level, c)
      BY <3>1, <3>2, <3>3, <3>4, <3>5, <1>2 DEF FoundOK
    <3> QED BY <3>5, <3>6 DEF c
  <2>3. /\ ShortcutsOver(s, x) \in Seq(EdgeRecord)
        /\ \A i \in DOMAIN ShortcutsOver(s, x) :
             FoundOK(edges, currentEdges, level, ShortcutsOver(s, x)[i])
    <3>1. \A i \in 1..n : /\ Cut(EndsOver(s, x)[i]) \in EdgeRecord
                          /\ FoundOK(edges, currentEdges, level, Cut(EndsOver(s, x)[i]))
      BY <2>2, <1>1
    <3> HIDE DEF Cut
    <3> QED BY <3>1, <2>1
  <2>4. ASSUME NEW y \in Nodes, NEW d \in Nat, ShortOver(edges, currentEdges, s.initial, x, y, d)
        PROVE  Reported(ShortcutsOver(s, x), s.initial, y)
    <3>1. y \in Near(edges, currentEdges, x) /\ y # s.initial /\ s.prev[y] = x
      BY <2>4, <1>2, SearchFull
    <3>2. PICK k \in 1..n : EndsOver(s, x)[k] = y
      BY <3>1, <1>1
    <3>3. ShortcutsOver(s, x)[k] = Cut(y) /\ k \in DOMAIN ShortcutsOver(s, x)
      BY <3>2, <2>1
    <3> QED BY <3>3 DEF Reported
  <2> QED BY <2>3, <2>4
<1> QED BY <1>3, <1>4
------------------------------------------------------------------------------
\* No two nodes of a level are neighbours.
LEMMA LevelApart ==
  ASSUME CHInv, NEW x \in Level
  PROVE  x \in Nodes /\ Near(edges, currentEdges, x) \cap Level = {}
<1>1. /\ EdgesOK(edges, numOfOriginalEdges) /\ CurrentOK(edges, currentEdges, Alive)
      /\ LevelsOK /\ LevelsAreIndependent
  BY DEF CHInv
<1>2. Level \subseteq Nodes
  BY <1>1 DEF LevelsOK, Level, ToSet
<1>3. ASSUME NEW e \in ToSet(currentEdges[x]), edges[e].dest \in Level PROVE FALSE
  <2>1. e \in 1..Len(edges) /\ edges[e].start = x
    BY <1>1, <1>2, LinkFacts
  <2>2. levels[x] # -1 /\ levels[edges[e].dest] = levels[x]
    BY <1>1, <1>3 DEF LevelsOK, Contracted
  <2> QED BY <2>1, <2>2, <1>1 DEF LevelsAreIndependent, EdgeIds
<1> QED BY <1>2, <1>3 DEF Near

\* What a step of thread t has to show.
LEMMA ThreadFrame ==
  ASSUME CHInv, phase = "search", NEW t \in Threads,
         UNCHANGED <<grid, gridVars, levels, calcOrder, nodesToCalc, phase>>,
         todo' \in [Threads -> Seq(Nodes)], nbr' \in [Threads -> Nat \ {0}],
         DOMAIN search' = Threads, DOMAIN shortcuts' = Threads,
         \A u \in Threads : u # t => /\ todo'[u] = todo[u] /\ nbr'[u] = nbr[u]
                                     /\ search'[u] = search[u] /\ shortcuts'[u] = shortcuts[u],
         ThreadOK(edges, currentEdges, Level, todo'[t], nbr'[t], search'[t], shortcuts'[t]),
         \A x \in Level : \A s, y \in Nodes : \A d \in Nat :
           /\ ShortOver(edges, currentEdges, s, x, y, d)
           /\ \/ Pending(edges, currentEdges, todo[t], nbr[t], x, s)
              \/ Reported(shortcuts[t], s, y)
           => \/ Pending(edges, currentEdges, todo'[t], nbr'[t], x, s)
              \/ Reported(shortcuts'[t], s, y)
  PROVE  CHInv'
<1>1. /\ edges' = edges /\ numOfOriginalEdges' = numOfOriginalEdges
      /\ currentEdges' = currentEdges /\ levels' = levels /\ calcOrder' = calcOrder
      /\ nodesToCalc' = nodesToCalc /\ phase' = phase
  BY DEF gridVars
<1>2. Level' = Level /\ Alive' = Alive
  BY <1>1 DEF Level, Alive, Contracted
<1>3. LevelsOK' /\ LevelsAreIndependent' /\ ShortcutsUnpack'
  <2>1. LevelsOK /\ LevelsAreIndependent /\ ShortcutsUnpack
    BY DEF CHInv
  <2>2. LevelsOK'
    BY <2>1, <1>1, <1>2 DEF LevelsOK, Contracted
  <2>3. LevelsAreIndependent'
    BY <2>1, <1>1 DEF LevelsAreIndependent, EdgeIds
  <2>4. ShortcutsUnpack'
    BY <2>1, <1>1 DEF ShortcutsUnpack, getFirstShortcut, getSecondShortcut, EdgeIds
  <2> QED BY <2>2, <2>3, <2>4
<1>4. ASSUME NEW u \in Threads PROVE ThreadInv(u)'
  <2>1. CASE u = t
    BY <2>1, <1>1, <1>2 DEF ThreadInv
  <2>2. CASE u # t
    <3>1. ThreadInv(u)
      BY DEF CHInv
    <3> QED BY <3>1, <2>2, <1>1, <1>2 DEF ThreadInv
  <2> QED BY <2>1, <2>2
<1>5. SearchComplete'
  <2>1. SUFFICES ASSUME NEW x \in Level, NEW s \in Nodes, NEW y \in Nodes, NEW d \in Nat,
                        ShortOver(edges, currentEdges, s, x, y, d)
                 PROVE  \E u \in Threads : \/ Pending(edges, currentEdges, todo'[u], nbr'[u], x, s)
                                           \/ Reported(shortcuts'[u], s, y)
    BY <1>1, <1>2 DEF SearchComplete
  <2>2. PICK u \in Threads : \/ Pending(edges, currentEdges, todo[u], nbr[u], x, s)
                             \/ Reported(shortcuts[u], s, y)
    BY <2>1 DEF CHInv, SearchComplete
  <2>3. \/ Pending(edges, currentEdges, todo'[u], nbr'[u], x, s)
        \/ Reported(shortcuts'[u], s, y)
    <3>1. CASE u = t
      BY <3>1, <2>1, <2>2
    <3>2. CASE u # t
      BY <3>2, <2>2
    <3> QED BY <3>1, <3>2
  <2> QED BY <2>3
<1>6. /\ EdgesOK(edges, numOfOriginalEdges) /\ CurrentOK(edges, currentEdges, Alive)
      /\ calcOrder \in Orders
  BY DEF CHInv
<1>7. phase' = "search"
  BY <1>1
<1> QED BY <1>1, <1>2, <1>3, <1>4, <1>5, <1>6, <1>7 DEF CHInv

\* What holds of a thread with a node to contract.
LEMMA ThreadFacts ==
  ASSUME CHInv, NEW t \in Threads, todo[t] # <<>>
  PROVE  /\ EdgesOK(edges, numOfOriginalEdges) /\ CurrentOK(edges, currentEdges, Alive)
         /\ ThreadOK(edges, currentEdges, Level, todo[t], nbr[t], search[t], shortcuts[t])
         /\ todo \in [Threads -> Seq(Nodes)] /\ nbr \in [Threads -> Nat \ {0}]
         /\ DOMAIN search = Threads /\ DOMAIN shortcuts = Threads
         /\ Head(todo[t]) \in Level /\ Head(todo[t]) \in Nodes
         /\ Tail(todo[t]) \in Seq(Level) /\ Tail(todo[t]) \in Seq(Nodes)
         /\ Len(currentEdges[Head(todo[t])]) \in Nat
<1>1. /\ EdgesOK(edges, numOfOriginalEdges) /\ CurrentOK(edges, currentEdges, Alive)
      /\ ThreadOK(edges, currentEdges, Level, todo[t], nbr[t], search[t], shortcuts[t])
      /\ todo \in [Threads -> Seq(Nodes)] /\ nbr \in [Threads -> Nat \ {0}]
      /\ DOMAIN search = Threads /\ DOMAIN shortcuts = Threads
  BY DEF CHInv, ThreadInv
<1>2. todo[t] \in Seq(Level) /\ todo[t] \in Seq(Nodes)
  BY <1>1 DEF ThreadOK
<1>3. /\ Head(todo[t]) \in Level /\ Head(todo[t]) \in Nodes
      /\ Tail(todo[t]) \in Seq(Level) /\ Tail(todo[t]) \in Seq(Nodes)
  BY <1>2
<1>4. Len(currentEdges[Head(todo[t])]) \in Nat
  BY <1>1, <1>3, NeighbourFacts
<1> QED BY <1>1, <1>3, <1>4

\* A search that is left when a thread goes on to its next node.
LEMMA PendingTail ==
  ASSUME NEW es, NEW orig, EdgesOK(es, orig), NEW cur, NEW A, CurrentOK(es, cur, A),
         NEW T, NEW td \in Seq(T), td # <<>>, NEW k,
         NEW x \in Nodes, NEW s \in Nodes, NEW y, NEW d,
         Pending(es, cur, td, k, x, s), ShortOver(es, cur, s, x, y, d)
  PROVE  \/ Pending(es, cur, Tail(td), 1, x, s)
         \/ x = Head(td) /\ \E i \in DOMAIN cur[x] : i >= k /\ es[cur[x][i]].dest = s
<1>1. SUFFICES ASSUME NEW i \in DOMAIN td, i # 1, td[i] = x
               PROVE  Pending(es, cur, Tail(td), 1, x, s)
  BY DEF Pending
<1>2. /\ i - 1 \in DOMAIN Tail(td) /\ Tail(td)[i - 1] = x /\ Tail(td) # <<>>
      /\ i - 1 = 1 => x = Head(Tail(td))
  BY <1>1
<1>3. \E j \in DOMAIN cur[x] : j >= 1 /\ es[cur[x][j]].dest = s
  <2>1. PICK e \in ToSet(cur[s]) : es[e].dest = x
    BY DEF ShortOver
  <2>2. PICK f \in ToSet(cur[x]) : es[f].dest = s
    BY <2>1, LinkFacts
  <2>3. cur[x] \in Seq(1..Len(es))
    BY DEF CurrentOK
  <2>4. \A j \in DOMAIN cur[x] : j >= 1
    BY <2>3
  <2>5. \E j \in DOMAIN cur[x] : cur[x][j] = f
    BY <2>2, <2>3 DEF ToSet
  <2> QED BY <2>2, <2>4, <2>5
<1>4. CASE i - 1 = 1
  BY <1>2, <1>3, <1>4 DEF Pending
<1>5. CASE i - 1 # 1
  BY <1>2, <1>5 DEF Pending
<1> QED BY <1>4, <1>5

\* Nothing is short over a node with fewer than two edges.
LEMMA FewEdges ==
  ASSUME NEW es, NEW orig, EdgesOK(es, orig), NEW cur, NEW A, CurrentOK(es, cur, A),
         NEW x \in Nodes, NEW s \in Nodes, NEW y, NEW d, ShortOver(es, cur, s, x, y, d)
  PROVE  Len(cur[x]) >= 2
<1>1. PICK e \in ToSet(cur[s]), f \in ToSet(cur[x]) : es[e].dest = x /\ es[f].dest = y
  BY DEF ShortOver
<1>2. PICK b \in ToSet(cur[x]) : es[b].dest = s
  BY <1>1, LinkFacts
<1>3. b # f
  BY <1>1, <1>2 DEF ShortOver
<1>4. cur[x] \in Seq(1..Len(es))
  BY DEF CurrentOK
<1>5. PICK i \in DOMAIN cur[x] : cur[x][i] = b
  BY <1>2, Zenon DEF ToSet
<1>6. PICK j \in DOMAIN cur[x] : cur[x][j] = f
  BY Zenon DEF ToSet
<1>7. DOMAIN cur[x] = 1..Len(cur[x]) /\ Len(cur[x]) \in Nat
  BY <1>4
<1>8. i # j
  BY <1>3, <1>5, <1>6
<1> QED BY <1>7, <1>8

\* SkipNode: over a node with fewer than two edges there is no path.
LEMMA SkipKeeps ==
  ASSUME CHInv, NEW t \in Threads, SkipNode(t)
  PROVE  CHInv'
<1> DEFINE td == todo[t]  x == Head(td)
<1>1. /\ phase = "search" /\ td # <<>> /\ Len(currentEdges[x]) < 2
      /\ todo' = [todo EXCEPT ![t] = Tail(td)]
      /\ nbr' = nbr /\ search' = search /\ shortcuts' = shortcuts
      /\ UNCHANGED <<grid, gridVars, levels, calcOrder, nodesToCalc, phase>>
  BY DEF SkipNode
<1>2. /\ EdgesOK(edges, numOfOriginalEdges) /\ CurrentOK(edges, currentEdges, Alive)
      /\ ThreadOK(edges, currentEdges, Level, td, nbr[t], search[t], shortcuts[t])
      /\ todo \in [Threads -> Seq(Nodes)] /\ nbr \in [Threads -> Nat \ {0}]
      /\ DOMAIN search = Threads /\ DOMAIN shortcuts = Threads
      /\ x \in Nodes /\ Tail(td) \in Seq(Level) /\ Tail(td) \in Seq(Nodes)
      /\ Len(currentEdges[x]) \in Nat
  BY <1>1, ThreadFacts
<1>3. /\ todo' \in [Threads -> Seq(Nodes)] /\ todo'[t] = Tail(td)
      /\ \A u \in Threads : u # t => todo'[u] = todo[u]
  BY <1>1, <1>2
<1> HIDE DEF td, x
<1>4. search[t] = NoSearch /\ nbr[t] = 1
  <2>1. nbr[t] \in Nat \ {0} /\ (nbr[t] = 1 \/ nbr[t] <= Len(currentEdges[x]))
    BY <1>1, <1>2 DEF ThreadOK, x
  <2>2. search[t] = NoSearch
    BY <1>1, <1>2 DEF ThreadOK, x
  <2> QED BY <2>1, <2>2, <1>1, <1>2
<1>5. ThreadOK(edges, currentEdges, Level, todo'[t], nbr'[t], search'[t], shortcuts'[t])
  <2>1. ThreadOK(edges, currentEdges, Level, Tail(td), 1, NoSearch, shortcuts[t])
    BY <1>2 DEF ThreadOK
  <2> QED BY <2>1, <1>1, <1>3, <1>4
<1>6. ASSUME NEW z \in Level, NEW s \in Nodes, NEW y \in Nodes, NEW d \in Nat,
             ShortOver(edges, currentEdges, s, z, y, d),
             Pending(edges, currentEdges, td, nbr[t], z, s)
      PROVE  Pending(edges, currentEdges, Tail(td), nbr[t], z, s)
  <2>1. z \in Nodes /\ td \in Seq(Nodes)
    BY <1>2, LevelApart DEF td
  <2>2. \/ Pending(edges, currentEdges, Tail(td), 1, z, s)
        \/ z = Head(td)
    BY <2>1, <1>1, <1>2, <1>6, PendingTail
  <2>3. z # x
    <3>1. Len(currentEdges[z]) >= 2
      BY <2>1, <1>2, <1>6, FewEdges
    <3> QED BY <3>1, <1>1, <1>2
  <2> QED BY <2>2, <2>3, <1>4 DEF x
<1> QED BY <1>1, <1>2, <1>3, <1>5, <1>6, ThreadFrame DEF td

\* nextCalc: a search begins at a neighbour.
LEMMA CalcKeeps ==
  ASSUME CHInv, NEW t \in Threads, nextCalc(t)
  PROVE  CHInv'
<1> DEFINE td == todo[t]  x == Head(td)  first == NeighboursOf(x)[nbr[t]]
<1>1. /\ phase = "search" /\ td # <<>> /\ Len(currentEdges[x]) >= 2
      /\ todo' = todo /\ nbr' = nbr /\ shortcuts' = shortcuts
      /\ UNCHANGED <<grid, gridVars, levels, calcOrder, nodesToCalc, phase>>
  BY DEF nextCalc
<1>2. /\ EdgesOK(edges, numOfOriginalEdges) /\ CurrentOK(edges, currentEdges, Alive)
      /\ ThreadOK(edges, currentEdges, Level, td, nbr[t], search[t], shortcuts[t])
      /\ todo \in [Threads -> Seq(Nodes)] /\ nbr \in [Threads -> Nat \ {0}]
      /\ DOMAIN search = Threads /\ DOMAIN shortcuts = Threads
      /\ x \in Nodes /\ Len(currentEdges[x]) \in Nat
  BY <1>1, ThreadFacts
<1>3. PICK stale \in SUBSET {first} : search' = [search EXCEPT ![t] = Fresh(first, stale)]
  BY DEF nextCalc, Fresh
<1>4. nbr[t] \in 1..Len(currentEdges[x])
  <2>1. nbr[t] \in Nat \ {0} /\ (nbr[t] = 1 \/ nbr[t] <= Len(currentEdges[x]))
    BY <1>1, <1>2 DEF ThreadOK
  <2> HIDE DEF x
  <2> QED BY <2>1, <1>1, <1>2
<1>5. first \in Nodes /\ first = edges[currentEdges[x][nbr[t]]].dest
  BY <1>2, <1>4, NeighbourFacts
<1> HIDE DEF td, x, first
<1>6. /\ search'[t] = Fresh(first, stale)
      /\ DOMAIN search' = Threads
      /\ \A u \in Threads : u # t => search'[u] = search[u]
  BY <1>2, <1>3
<1>7. SearchOK(edges, currentEdges, search'[t], x) /\ search'[t].initial = first
  <2>1. x \in Nodes /\ first \in Nodes /\ stale \in SUBSET {first}
    BY <1>2, <1>3, <1>5
  <2>2. SearchOK(edges, currentEdges, Fresh(first, stale), x) /\ Fresh(first, stale).initial = first
    BY <2>1, SearchStart
  <2> QED BY <2>2, <1>6
<1>8. ThreadOK(edges, currentEdges, Level, td, nbr[t], search'[t], shortcuts[t])
  BY <1>1, <1>2, <1>4, <1>5, <1>7 DEF ThreadOK, x
<1> QED BY <1>1, <1>2, <1>6, <1>8, ThreadFrame DEF td

\* nextStep: a search goes on with a node of its heap.
LEMMA StepKeeps ==
  ASSUME CHInv, NEW t \in Threads, NEW node \in Nodes, nextStep(t, node)
  PROVE  CHInv'
<1> DEFINE td == todo[t]  x == Head(td)  s == search[t]
           r == Expanded(s, node, x)  k == (r.steps + 1) % MULTIPLE_STEP_NUMBER
<1>1. /\ phase = "search" /\ s # NoSearch /\ node \in s.heap
      /\ \A other \in s.heap : s.dist[node] <= s.dist[other]
      /\ todo' = todo /\ nbr' = nbr /\ shortcuts' = shortcuts
      /\ search' = [search EXCEPT ![t] = [r EXCEPT !.steps = k]]
      /\ UNCHANGED <<grid, gridVars, levels, calcOrder, nodesToCalc, phase>>
  BY DEF nextStep
<1>2. td # <<>>
  BY <1>1 DEF CHInv, ThreadInv, ThreadOK
<1>3. /\ EdgesOK(edges, numOfOriginalEdges) /\ CurrentOK(edges, currentEdges, Alive)
      /\ ThreadOK(edges, currentEdges, Level, td, nbr[t], s, shortcuts[t])
      /\ todo \in [Threads -> Seq(Nodes)] /\ nbr \in [Threads -> Nat \ {0}]
      /\ DOMAIN search = Threads /\ DOMAIN shortcuts = Threads
      /\ x \in Nodes /\ Len(currentEdges[x]) \in Nat
  BY <1>2, ThreadFacts
<1>4. /\ nbr[t] \in 1..Len(currentEdges[x]) /\ s.initial = edges[currentEdges[x][nbr[t]]].dest
      /\ SearchOK(edges, currentEdges, s, x)
  BY <1>1, <1>3 DEF ThreadOK
<1>5. s.initial # x
  BY <1>3, <1>4, NeighbourFacts
<1> HIDE DEF td, x, s
<1>6. SearchOK(edges, currentEdges, r, x) /\ r.initial = s.initial
  BY <1>1, <1>3, <1>4, <1>5, ExpandedOK
<1> HIDE DEF r
<1>7. k \in Nat
  <2>1. r.steps \in Nat
    BY <1>6, SearchFields DEF SearchOK
  <2>2. MULTIPLE_STEP_NUMBER \in Nat \ {0}
    BY HierarchyAssumption
  <2> QED BY <2>1, <2>2
<1> HIDE DEF k
<1>8. /\ search'[t] = [r EXCEPT !.steps = k] /\ DOMAIN search' = Threads
      /\ \A u \in Threads : u # t => search'[u] = search[u]
  BY <1>1, <1>3
<1>9. SearchOK(edges, currentEdges, search'[t], x) /\ search'[t].initial = s.initial
  BY <1>6, <1>7, <1>8, StepsFree
<1>10. ThreadOK(edges, currentEdges, Level, td, nbr[t], search'[t], shortcuts[t])
  BY <1>1, <1>3, <1>4, <1>9 DEF ThreadOK, x
<1> QED BY <1>1, <1>3, <1>8, <1>10, ThreadFrame DEF td

\* Appending shortcuts that are fine to others that are leaves all of them fine.
LEMMA FoundConcat ==
  ASSUME NEW es, NEW cur, NEW L, NEW old \in Seq(EdgeRecord), NEW new \in Seq(EdgeRecord),
         \A i \in DOMAIN old : FoundOK(es, cur, L, old[i]),
         \A i \in DOMAIN new : FoundOK(es, cur, L, new[i])
  PROVE  /\ old \o new \in Seq(EdgeRecord)
         /\ \A i \in DOMAIN (old \o new) : FoundOK(es, cur, L, (old \o new)[i])
<1>1. /\ old \o new \in Seq(EdgeRecord)
      /\ \A k \in 1..Len(old) : k \in 1..Len(old \o new) /\ (old \o new)[k] = old[k]
      /\ \A k \in 1..Len(new) : /\ Len(old) + k \in 1..Len(old \o new)
                                /\ (old \o new)[Len(old) + k] = new[k]
      /\ \A j \in 1..Len(old \o new) :
           j \in 1..Len(old) \/ \E k \in 1..Len(new) : j = Len(old) + k
  BY ConcatFacts
<1>2. /\ DOMAIN old = 1..Len(old) /\ DOMAIN new = 1..Len(new)
      /\ DOMAIN (old \o new) = 1..Len(old \o new)
  BY <1>1
<1>3. ASSUME NEW j \in 1..Len(old \o new) PROVE FoundOK(es, cur, L, (old \o new)[j])
  <2>1. CASE j \in 1..Len(old)
    BY <2>1, <1>1, <1>2
  <2>2. CASE \E k \in 1..Len(new) : j = Len(old) + k
    BY <2>2, <1>1, <1>2
  <2> QED BY <2>1, <2>2, <1>1
<1> QED BY <1>1, <1>2, <1>3

\* A report stays one when more is appended.
LEMMA ReportedConcat ==
  ASSUME NEW T, NEW old \in Seq(T), NEW new \in Seq(T), NEW s, NEW y,
         Reported(old, s, y) \/ Reported(new, s, y)
  PROVE  Reported(old \o new, s, y)
<1>1. /\ \A k \in 1..Len(old) : k \in 1..Len(old \o new) /\ (old \o new)[k] = old[k]
      /\ \A k \in 1..Len(new) : /\ Len(old) + k \in 1..Len(old \o new)
                                /\ (old \o new)[Len(old) + k] = new[k]
      /\ old \o new \in Seq(T)
  BY ConcatFacts
<1>2. /\ DOMAIN old = 1..Len(old) /\ DOMAIN new = 1..Len(new)
      /\ DOMAIN (old \o new) = 1..Len(old \o new)
  BY <1>1
<1>3. CASE Reported(old, s, y)
  <2>1. PICK k \in 1..Len(old) : old[k].start = s /\ old[k].dest = y
    BY <1>2, <1>3 DEF Reported
  <2> QED BY <2>1, <1>1, <1>2 DEF Reported
<1>4. CASE Reported(new, s, y)
  <2>1. PICK k \in 1..Len(new) : new[k].start = s /\ new[k].dest = y
    BY <1>2, <1>4 DEF Reported
  <2>2. Len(old) + k \in DOMAIN (old \o new) /\ (old \o new)[Len(old) + k] = new[k]
    BY <2>1, <1>1, <1>2
  <2> QED BY <2>1, <2>2 DEF Reported
<1> QED BY <1>3, <1>4

\* addShortcuts: what a search found is reported, and the thread goes on.
LEMMA ReportKeeps ==
  ASSUME CHInv, NEW t \in Threads, addShortcuts(t)
  PROVE  CHInv'
<1> DEFINE td == todo[t]  x == Head(td)  s == search[t]  k == nbr[t]
           last == k = Len(currentEdges[x])
           new == ShortcutsOver(s, x)  old == shortcuts[t]
<1>1. /\ phase = "search" /\ s # NoSearch /\ SearchEnds(t)
      /\ shortcuts' = [shortcuts EXCEPT ![t] = old \o new]
      /\ nbr' = [nbr EXCEPT ![t] = IF last THEN 1 ELSE k + 1]
      /\ todo' = [todo EXCEPT ![t] = IF last THEN Tail(td) ELSE td]
      /\ search' = [search EXCEPT ![t] = NoSearch]
      /\ UNCHANGED <<grid, gridVars, levels, calcOrder, nodesToCalc, phase>>
  BY DEF addShortcuts
<1>2. td # <<>>
  BY <1>1 DEF CHInv, ThreadInv, ThreadOK
<1>3. /\ EdgesOK(edges, numOfOriginalEdges) /\ CurrentOK(edges, currentEdges, Alive)
      /\ ThreadOK(edges, currentEdges, Level, td, k, s, old)
      /\ todo \in [Threads -> Seq(Nodes)] /\ nbr \in [Threads -> Nat \ {0}]
      /\ DOMAIN search = Threads /\ DOMAIN shortcuts = Threads
      /\ x \in Level /\ x \in Nodes /\ Len(currentEdges[x]) \in Nat
      /\ Tail(td) \in Seq(Level) /\ Tail(td) \in Seq(Nodes)
  BY <1>2, ThreadFacts
<1>4. /\ k \in 1..Len(currentEdges[x]) /\ s.initial = edges[currentEdges[x][k]].dest
      /\ SearchOK(edges, currentEdges, s, x) /\ td \in Seq(Level)
      /\ old \in Seq(EdgeRecord)
      /\ \A i \in DOMAIN old : FoundOK(edges, currentEdges, Level, old[i])
  BY <1>1, <1>3 DEF ThreadOK
<1>5. s.initial \in Near(edges, currentEdges, x) /\ s.initial \in Nodes
  <2>1. currentEdges[x][k] \in ToSet(currentEdges[x])
    BY <1>3, <1>4, NeighbourFacts
  <2> QED BY <2>1, <1>3, <1>4, LinkFacts DEF Near
<1>6. Over(edges, currentEdges, s, x)
  <2>1. ToSet(NeighboursOf(x)) = Near(edges, currentEdges, x)
    BY <1>3, NeighbourFacts
  <2> QED BY <2>1, <1>1 DEF SearchEnds, Over
<1>7. Near(edges, currentEdges, x) \cap Level = {}
  BY <1>3, LevelApart
<1>8. /\ todo' \in [Threads -> Seq(Nodes)] /\ nbr' \in [Threads -> Nat \ {0}]
      /\ DOMAIN search' = Threads /\ DOMAIN shortcuts' = Threads
      /\ todo'[t] = IF last THEN Tail(td) ELSE td
      /\ nbr'[t] = IF last THEN 1 ELSE k + 1
      /\ search'[t] = NoSearch /\ shortcuts'[t] = old \o new
      /\ \A u \in Threads : u # t => /\ todo'[u] = todo[u] /\ nbr'[u] = nbr[u]
                                     /\ search'[u] = search[u] /\ shortcuts'[u] = shortcuts[u]
  BY <1>1, <1>3
<1>9. /\ td \in Seq(Nodes) /\ x = Head(td)
  BY <1>3
<1> HIDE DEF td, x, s, k, new, old
<1>10. /\ new \in Seq(EdgeRecord)
       /\ \A i \in DOMAIN new : FoundOK(edges, currentEdges, Level, new[i])
       /\ \A y \in Nodes : \A d \in Nat :
            ShortOver(edges, currentEdges, s.initial, x, y, d) => Reported(new, s.initial, y)
  BY <1>3, <1>4, <1>5, <1>6, <1>7, ShortcutsFacts DEF new
<1>11. /\ old \o new \in Seq(EdgeRecord)
       /\ \A i \in DOMAIN (old \o new) : FoundOK(edges, currentEdges, Level, (old \o new)[i])
  BY <1>4, <1>10, FoundConcat
<1>12. ThreadOK(edges, currentEdges, Level, todo'[t], nbr'[t], search'[t], shortcuts'[t])
  <2>1. CASE last
    <3>1. ThreadOK(edges, currentEdges, Level, Tail(td), 1, NoSearch, old \o new)
      BY <1>3, <1>11 DEF ThreadOK
    <3> QED BY <3>1, <2>1, <1>8
  <2>2. CASE ~last
    <3>1. k + 1 \in Nat \ {0} /\ k + 1 <= Len(currentEdges[x])
      BY <2>2, <1>3, <1>4
    <3>2. ThreadOK(edges, currentEdges, Level, td, k + 1, NoSearch, old \o new)
      BY <3>1, <1>2, <1>4, <1>9, <1>11 DEF ThreadOK
    <3> QED BY <3>2, <2>2, <1>8
  <2> QED BY <2>1, <2>2
<1>13. ASSUME NEW z \in Level, NEW a \in Nodes, NEW y \in Nodes, NEW d \in Nat,
              ShortOver(edges, currentEdges, a, z, y, d),
              Pending(edges, currentEdges, td, k, z, a) \/ Reported(old, a, y)
       PROVE  Pending(edges, currentEdges, todo'[t], nbr'[t], z, a) \/ Reported(old \o new, a, y)
  <2>1. CASE Reported(old, a, y)
    BY <2>1, <1>4, <1>10, ReportedConcat
  <2>2. CASE z = x /\ a = s.initial
    <3>1. Reported(new, a, y)
      BY <2>2, <1>10, <1>13
    <3> QED BY <3>1, <1>4, <1>10, ReportedConcat
  <2>3. CASE Pending(edges, currentEdges, td, k, z, a) /\ ~(z = x /\ a = s.initial)
    <3>1. z \in Nodes
      BY LevelApart
    <3>2. CASE last
      <4>1. \/ Pending(edges, currentEdges, Tail(td), 1, z, a)
            \/ z = Head(td) /\ \E i \in DOMAIN currentEdges[z] : i >= k /\ edges[currentEdges[z][i]].dest = a
        BY <3>1, <2>3, <1>2, <1>3, <1>9, <1>13, PendingTail
      <4>2. ASSUME z = x, NEW i \in DOMAIN currentEdges[x], i >= k, edges[currentEdges[x][i]].dest = a
            PROVE  FALSE
        <5>1. i \in 1..Len(currentEdges[x])
          BY <1>3, NeighbourFacts
        <5>2. i = k
          BY <5>1, <4>2, <3>2, <1>3
        <5> QED BY <5>2, <4>2, <2>3, <1>4
      <4> QED BY <4>1, <4>2, <3>2, <1>8, <1>9
    <3>3. CASE ~last
      <4>1. CASE \E i \in DOMAIN td : i # 1 /\ td[i] = z
        BY <4>1, <3>3, <1>2, <1>8 DEF Pending
      <4>2. CASE z = x /\ \E i \in DOMAIN currentEdges[z] : i >= k /\ edges[currentEdges[z][i]].dest = a
        <5>1. PICK i \in DOMAIN currentEdges[x] : i >= k /\ edges[currentEdges[x][i]].dest = a
          BY <4>2
        <5>2. i # k
          BY <5>1, <4>2, <2>3, <1>4
        <5>3. i \in 1..Len(currentEdges[x])
          BY <1>3, NeighbourFacts
        <5>4. i >= k + 1
          BY <5>1, <5>2, <5>3, <1>4
        <5> QED BY <5>1, <5>4, <4>2, <3>3, <1>2, <1>8, <1>9 DEF Pending
      <4> QED BY <4>1, <4>2, <2>3, <1>9 DEF Pending
    <3> QED BY <3>2, <3>3
  <2> QED BY <2>1, <2>2, <2>3, <1>13
<1> QED BY <1>1, <1>8, <1>12, <1>13, ThreadFrame DEF td, k, old
------------------------------------------------------------------------------
\* Division by a positive number.
LEMMA DivFacts ==
  ASSUME NEW a \in Nat, NEW n \in Nat \ {0}
  PROVE  /\ a \div n \in Nat /\ a % n \in 0..(n - 1)
         /\ a = n * (a \div n) + (a % n)
<1>1. a \div n \in Int /\ a \div n >= 0 /\ a % n \in 0..(n - 1)
  OBVIOUS
<1>2. a = n * (a \div n) + (a % n)
  OBVIOUS
<1> QED BY <1>1, <1>2

\* The shares of the threads are nodes of the level, and no node is left out.
LEMMA ShareFacts ==
  ASSUME NEW S, NEW level \in Seq(S)
  PROVE  /\ \A t \in Threads : ShareOf(level, t) \in Seq(ToSet(level))
         /\ \A j \in 1..Len(level) : \E t \in Threads :
              \E i \in DOMAIN ShareOf(level, t) : ShareOf(level, t)[i] = level[j]
<1> DEFINE N == NUM_OF_THREADS
           len == Len(level)
           Size(t) == (len - t + N - 1) \div N
<1>1. N \in Nat \ {0} /\ Threads = 0..(N - 1)
  BY HierarchyAssumption DEF Threads
<1>2. len \in Nat /\ DOMAIN level = 1..len
  OBVIOUS
<1>3. \A t \in Threads : ShareOf(level, t) = [i \in 1..Size(t) |-> level[(i - 1) * N + t + 1]]
  BY DEF ShareOf
<1>4. \A j \in 1..len : level[j] \in ToSet(level)
  BY <1>2 DEF ToSet
<1> HIDE DEF N, len
<1>5. ASSUME NEW t \in Threads
      PROVE  /\ Size(t) \in Nat
             /\ N * Size(t) <= len - t + N - 1 /\ len - t + N - 1 < N * Size(t) + N
  <2> DEFINE a == len - t + N - 1
  <2>1. a \in Nat
    BY <1>1, <1>2
  <2>2. Size(t) = a \div N
    OBVIOUS
  <2> HIDE DEF a
  <2> DEFINE q == a \div N  r == a % N
  <2>3. q \in Nat /\ r \in 0..(N - 1) /\ a = N * q + r
    BY <2>1, <1>1, DivFacts
  <2> HIDE DEF q, r
  <2>4. N * q <= a /\ a < N * q + N
    <3> DEFINE m == N * q
    <3>1. m \in Int
      BY <2>3, <1>1
    <3> HIDE DEF m
    <3>2. a = m + r
      BY <2>3 DEF m
    <3>3. m <= a /\ a < m + N
      BY <3>1, <3>2, <2>3, <1>1
    <3> QED BY <3>3 DEF m
  <2> QED BY <2>2, <2>3, <2>4 DEF a, q
<1> HIDE DEF Size
<1>6. ASSUME NEW t \in Threads, NEW i \in 1..Size(t)
      PROVE  (i - 1) * N + t + 1 \in 1..len
  <2> DEFINE s == Size(t)
  <2>1. s \in Nat /\ N * s <= len - t + N - 1 /\ i \in 1..s
    BY <1>5
  <2> HIDE DEF s
  <2> DEFINE m == i - 1  k == s - 1
  <2>2. m \in Nat /\ k \in Nat /\ m <= k
    BY <2>1
  <2>3. m * N <= k * N /\ m * N \in Nat /\ k * N \in Int /\ k * N = N * s - N
    BY <2>1, <2>2, <1>1
  <2>4. k * N <= len - t - 1
    BY <2>1, <2>3, <1>1, <1>2
  <2> DEFINE p == m * N  o == k * N
  <2>5. p \in Nat /\ o \in Int /\ p <= o /\ o <= len - t - 1 /\ t \in Nat
    BY <2>3, <2>4, <1>1
  <2> HIDE DEF p, o
  <2>6. p + t + 1 \in 1..len
    BY <2>5, <1>2
  <2> QED BY <2>6 DEF p
<1>7. ASSUME NEW t \in Threads PROVE ShareOf(level, t) \in Seq(ToSet(level))
  <2>1. \A i \in 1..Size(t) : level[(i - 1) * N + t + 1] \in ToSet(level)
    BY <1>4, <1>6
  <2> QED BY <2>1, <1>3, <1>5
<1>8. ASSUME NEW j \in 1..len
      PROVE  \E t \in Threads : \E i \in DOMAIN ShareOf(level, t) : ShareOf(level, t)[i] = level[j]
  <2> DEFINE a == (j - 1) \div N  t == (j - 1) % N
  <2>1. a \in Nat /\ t \in Threads /\ t \in Nat /\ j - 1 = N * a + t
    <3> DEFINE i == j - 1
    <3>1. i \in Nat
      OBVIOUS
    <3> HIDE DEF i
    <3>2. /\ i \div N \in Nat /\ i % N \in 0..(N - 1)
          /\ i = N * (i \div N) + (i % N)
      BY <3>1, <1>1, DivFacts
    <3>3. i % N \in Threads /\ i % N \in Nat
      BY <3>2, <1>1
    <3> QED BY <3>2, <3>3 DEF i
  <2> HIDE DEF a, t
  <2> DEFINE s == Size(t)
  <2>2. s \in Nat /\ len - t + N - 1 < N * s + N
    BY <2>1, <1>5
  <2> HIDE DEF s
  <2>3. a + 1 <= s
    <3>1. SUFFICES ASSUME s <= a PROVE FALSE
      BY <2>1, <2>2
    <3>2. N * s <= N * a /\ N * s \in Int /\ N * a \in Int
      BY <3>1, <2>1, <2>2, <1>1
    <3> DEFINE p == N * s  o == N * a
    <3>3. p \in Int /\ o \in Int /\ p <= o /\ j - 1 = o + t /\ len - t + N - 1 < p + N
      BY <3>2, <2>1, <2>2
    <3> HIDE DEF p, o
    <3> QED BY <3>3, <2>1, <1>1, <1>2
  <2>4. a + 1 \in 1..Size(t) /\ ((a + 1) - 1) * N + t + 1 = j
    <3>1. (a + 1) - 1 = a /\ a * N = N * a
      BY <2>1, <1>1
    <3> DEFINE o == N * a
    <3>2. o \in Int
      BY <2>1, <1>1
    <3>3. j - 1 = o + t /\ ((a + 1) - 1) * N = o
      BY <3>1, <2>1
    <3> HIDE DEF o
    <3>4. o + t + 1 = j
      BY <3>2, <3>3, <2>1
    <3> QED BY <3>3, <3>4, <2>1, <2>2, <2>3 DEF s
  <2>5. a + 1 \in DOMAIN ShareOf(level, t) /\ ShareOf(level, t)[a + 1] = level[j]
    BY <2>1, <2>4, <1>3
  <2> QED BY <2>1, <2>5
<1> QED BY <1>7, <1>8 DEF len

\* The number of the next level is above all others.
LEMMA NextLevelFacts ==
  ASSUME levels \in [Nodes -> -1..Cardinality(Nodes)]
  PROVE  /\ NextLevel \in Nat
         /\ \A n \in Nodes : levels[n] < NextLevel
         /\ \E m \in Nodes : NextLevel = 1 + levels[m]
<1> DEFINE c == Cardinality(Nodes)
           S == {levels[n] : n \in Nodes}
           Left == {c - l : l \in S}
<1>1. c \in Nat /\ Nodes # {}
  BY NodesFacts
<1> HIDE DEF c
<1>2. S # {} /\ S \in SUBSET (-1..c)
  BY <1>1 DEF c
<1>3. Left # {} /\ Left \in SUBSET Nat
  BY <1>1, <1>2
<1>4. PICK d \in Left : \A y \in Left : d <= y
  BY <1>3, LeastMember
<1>5. PICK m \in S : d = c - m
  BY <1>4
<1>6. \A l \in S : m >= l
  <2>1. SUFFICES ASSUME NEW l \in S PROVE m >= l
    OBVIOUS
  <2>2. c - m <= c - l
    BY <1>4, <1>5
  <2>3. m \in Int /\ l \in Int
    BY <1>2
  <2> QED BY <2>2, <2>3, <1>1
<1>7. Max(S) \in S /\ \A l \in S : Max(S) >= l
  BY <1>6 DEF Max
<1>8. NextLevel = 1 + Max(S)
  BY DEF NextLevel
<1> DEFINE x == Max(S)
<1>9. x \in -1..c /\ \A n \in Nodes : levels[n] \in -1..c /\ x >= levels[n]
  BY <1>2, <1>7
<1>10. \E n \in Nodes : x = levels[n]
  BY <1>7
<1>11. NextLevel = 1 + x
  BY <1>8
<1> HIDE DEF x, S
<1> QED BY <1>1, <1>9, <1>10, <1>11

\* The nodes picked among the first k are not contracted, and apart.
PickRecord == [level : Seq(Nodes), near : SUBSET Nodes]

PickOK(acc, k) ==
  /\ acc \in PickRecord
  /\ \A i, j \in 1..Len(acc.level) : acc.level[i] = acc.level[j] => i = j
  /\ \A i \in 1..Len(acc.level) :
       /\ ~Contracted(acc.level[i]) /\ acc.level[i] \in acc.near
       /\ Near(edges, currentEdges, acc.level[i]) \subseteq acc.near
       /\ \A j \in 1..Len(acc.level) : acc.level[j] \notin Near(edges, currentEdges, acc.level[i])
  /\ acc.level = <<>> => acc.near = {}
  /\ \A i \in 1..k : ~Contracted(calcOrder[i]) => acc.level # <<>>

\* Picking keeps the types.
LEMMA PickType ==
  ASSUME NEW A, EdgesOK(edges, numOfOriginalEdges), CurrentOK(edges, currentEdges, A),
         NEW acc \in PickRecord, NEW n \in Nodes
  PROVE  /\ PickNode(acc, n) \in PickRecord
         /\ Contracted(n) \/ n \in acc.near => PickNode(acc, n) = acc
         /\ ~(Contracted(n) \/ n \in acc.near) =>
              /\ PickNode(acc, n).level = Append(acc.level, n)
              /\ PickNode(acc, n).near = acc.near \cup {n} \cup Near(edges, currentEdges, n)
<1>1. acc.level \in Seq(Nodes) /\ acc.near \in SUBSET Nodes
  BY DEF PickRecord
<1>2. ToSet(NeighboursOf(n)) = Near(edges, currentEdges, n)
  BY NeighbourFacts
<1>3. Near(edges, currentEdges, n) \in SUBSET Nodes
  BY LinkFacts DEF Near
<1> DEFINE new == [level |-> Append(acc.level, n),
                   near  |-> acc.near \cup {n} \cup Near(edges, currentEdges, n)]
<1>4. PickNode(acc, n) = IF Contracted(n) \/ n \in acc.near THEN acc ELSE new
  BY <1>2 DEF PickNode
<1>5. new \in PickRecord
  BY <1>1, <1>3 DEF PickRecord
<1> QED BY <1>4, <1>5

\* One turn of the loop that picks a level.
LEMMA PickOne ==
  ASSUME NEW A, EdgesOK(edges, numOfOriginalEdges), CurrentOK(edges, currentEdges, A),
         calcOrder \in Seq(Nodes), NEW k \in 1..Len(calcOrder), NEW acc, PickOK(acc, k - 1)
  PROVE  PickOK(PickNode(acc, calcOrder[k]), k)
<1> DEFINE n == calcOrder[k]  r == PickNode(acc, n)  l == acc.level
<1>1. n \in Nodes
  OBVIOUS
<1>2. acc \in PickRecord /\ l \in Seq(Nodes)
  BY DEF PickOK, PickRecord
<1>3. /\ r \in PickRecord
      /\ Contracted(n) \/ n \in acc.near => r = acc
      /\ ~(Contracted(n) \/ n \in acc.near) =>
           /\ r.level = Append(l, n)
           /\ r.near = acc.near \cup {n} \cup Near(edges, currentEdges, n)
  BY <1>1, <1>2, PickType
<1>4. n = calcOrder[k]
  OBVIOUS
<1>5. \A i \in 1..k : i \in 1..(k - 1) \/ i = k
  OBVIOUS
<1> HIDE DEF n
<1>6. CASE Contracted(n) \/ n \in acc.near
  <2>1. r = acc
    BY <1>3, <1>6
  <2> HIDE DEF r
  <2>2. ~Contracted(n) => l # <<>>
    BY <1>6 DEF PickOK
  <2>3. PickOK(acc, k)
    BY <2>2, <1>4, <1>5 DEF PickOK
  <2> QED BY <2>1, <2>3, <1>4 DEF r
<1>7. CASE ~(Contracted(n) \/ n \in acc.near)
  <2> DEFINE q == r.level
  <2>1. q = Append(l, n) /\ r.near = acc.near \cup {n} \cup Near(edges, currentEdges, n)
    BY <1>3, <1>7
  <2> HIDE DEF r
  <2>2. /\ Len(l) \in Nat /\ Len(q) = Len(l) + 1 /\ q[Len(l) + 1] = n /\ q # <<>>
        /\ \A i \in 1..Len(l) : q[i] = l[i]
        /\ \A i \in 1..Len(q) : i \in 1..Len(l) \/ i = Len(l) + 1
    BY <2>1, <1>1, <1>2
  <2> HIDE DEF q
  <2>3. /\ \A i, j \in 1..Len(l) : l[i] = l[j] => i = j
        /\ \A i \in 1..Len(l) : /\ ~Contracted(l[i]) /\ l[i] \in acc.near /\ l[i] \in Nodes
                               /\ Near(edges, currentEdges, l[i]) \subseteq acc.near
                               /\ \A j \in 1..Len(l) : l[j] \notin Near(edges, currentEdges, l[i])
    BY <1>2 DEF PickOK
  <2>4. \A i \in 1..Len(l) : l[i] # n /\ n \notin Near(edges, currentEdges, l[i])
    BY <2>3, <1>7
  <2>5. ASSUME NEW u \in Nodes, u \in Near(edges, currentEdges, n)
        PROVE  u # n /\ n \in Near(edges, currentEdges, u)
    <3>1. PICK e \in ToSet(currentEdges[n]) : edges[e].dest = u
      BY <2>5 DEF Near
    <3>2. u # n /\ \E f \in ToSet(currentEdges[u]) : edges[f].dest = n
      BY <3>1, <1>1, LinkFacts
    <3> QED BY <3>2 DEF Near
  <2>6. n \notin Near(edges, currentEdges, n)
    BY <2>5, <1>1
  <2>7. \A i \in 1..Len(l) : l[i] \notin Near(edges, currentEdges, n)
    BY <2>3, <2>4, <2>5
  <2>8. \A i, j \in 1..Len(q) : q[i] = q[j] => i = j
    BY <2>2, <2>3, <2>4
  <2>9. ASSUME NEW i \in 1..Len(q)
        PROVE  /\ ~Contracted(q[i]) /\ q[i] \in r.near
               /\ Near(edges, currentEdges, q[i]) \subseteq r.near
               /\ \A j \in 1..Len(q) : q[j] \notin Near(edges, currentEdges, q[i])
    <3>1. CASE i \in 1..Len(l)
      BY <3>1, <2>1, <2>2, <2>3, <2>4
    <3>2. CASE i = Len(l) + 1
      BY <3>2, <2>1, <2>2, <2>6, <2>7, <1>7
    <3> QED BY <3>1, <3>2, <2>2
  <2>10. PickOK(r, k)
    BY <2>2, <2>8, <2>9, <1>3 DEF PickOK, q
  <2> QED BY <2>10, <1>4 DEF r
<1> QED BY <1>6, <1>7

\* The level: its nodes are not contracted yet, all different and apart, and
\* there is one as long as a node is left.
LevelOf == FoldLeft(PickNode, [level |-> <<>>, near |-> {}], calcOrder).level

LEMMA PickedFacts ==
  ASSUME NEW A, EdgesOK(edges, numOfOriginalEdges), CurrentOK(edges, currentEdges, A),
         calcOrder \in Orders
  PROVE  /\ LevelOf \in Seq(Nodes)
         /\ \A i, j \in DOMAIN LevelOf : LevelOf[i] = LevelOf[j] => i = j
         /\ \A x \in ToSet(LevelOf) : /\ x \in Nodes /\ ~Contracted(x)
                                      /\ Near(edges, currentEdges, x) \cap ToSet(LevelOf) = {}
         /\ (\E n \in Nodes : ~Contracted(n)) => ToSet(LevelOf) # {}
<1>1. calcOrder \in Seq(Nodes) /\ ToSet(calcOrder) = Nodes
  BY OrderAssumption
<1> DEFINE base == [level |-> <<>>, near |-> {}]
           len == Len(calcOrder)
<1>2. base \in PickRecord /\ base.level = <<>> /\ base.near = {}
  BY DEF PickRecord
<1>3. \A acc \in PickRecord, n \in Nodes : PickNode(acc, n) \in PickRecord
  BY PickType
<1>4. LevelOf = Picked(base, calcOrder).level
  BY DEF LevelOf, Picked
<1> HIDE DEF base
<1>5. PICK g : /\ g[0] = base
               /\ \A k \in 1..Len(calcOrder) : g[k] = PickNode(g[k - 1], calcOrder[k])
               /\ Picked(base, calcOrder) = g[Len(calcOrder)]
  BY <1>1, <1>2, <1>3, PickTurns
<1>6. len \in Nat
  BY <1>1
<1> DEFINE Good == {k \in 0..len : PickOK(g[k], k)}
<1>7. 0 \in Good
  <2>1. Len(base.level) = 0
    BY <1>2
  <2>2. PickOK(base, 0)
    BY <2>1, <1>2 DEF PickOK
  <2> QED BY <2>2, <1>5, <1>6
<1>8. ASSUME NEW k \in 1..len, k - 1 \in Good PROVE k \in Good
  <2>1. PickOK(g[k - 1], k - 1)
    BY <1>8
  <2>2. PickOK(PickNode(g[k - 1], calcOrder[k]), k)
    BY <2>1, <1>1, PickOne
  <2> QED BY <2>2, <1>5, <1>6
<1> HIDE DEF Good
<1>9. 0..len \subseteq Good
  BY <1>6, <1>7, <1>8, IntervalInduction
<1> DEFINE r == g[len]
<1>10. PickOK(r, len) /\ LevelOf = r.level
  BY <1>4, <1>5, <1>6, <1>9 DEF Good
<1> HIDE DEF r
<1> DEFINE l == LevelOf
<1>11. l \in Seq(Nodes) /\ Len(l) \in Nat /\ DOMAIN l = 1..Len(l)
  <2>1. l \in Seq(Nodes)
    BY <1>10 DEF PickOK, PickRecord
  <2> QED BY <2>1
<1>12. /\ \A i, j \in 1..Len(l) : l[i] = l[j] => i = j
       /\ \A i \in 1..Len(l) : /\ ~Contracted(l[i])
                              /\ \A j \in 1..Len(l) : l[j] \notin Near(edges, currentEdges, l[i])
  BY <1>10 DEF PickOK
<1>13. ToSet(l) = {l[i] : i \in 1..Len(l)}
  BY <1>11 DEF ToSet
<1>14. ASSUME NEW x \in ToSet(l)
       PROVE  /\ x \in Nodes /\ ~Contracted(x)
              /\ Near(edges, currentEdges, x) \cap ToSet(l) = {}
  BY <1>11, <1>12, <1>13
<1>15. ASSUME NEW n \in Nodes, ~Contracted(n) PROVE ToSet(l) # {}
  <2>1. PICK i \in 1..len : calcOrder[i] = n
    BY <1>1 DEF ToSet
  <2>2. l # <<>>
    BY <2>1, <1>10, <1>15 DEF PickOK
  <2>3. 1 \in 1..Len(l)
    BY <2>2, <1>11
  <2> QED BY <2>3, <1>13
<1> QED BY <1>11, <1>12, <1>14, <1>15

\* A shortest path over x begins with a link that x has too.
LEMMA LinkBack ==
  ASSUME NEW es, NEW orig, EdgesOK(es, orig), NEW cur, NEW A, CurrentOK(es, cur, A),
         NEW x \in Nodes, NEW s \in Nodes, NEW y, NEW d, ShortOver(es, cur, s, x, y, d)
  PROVE  \E j \in DOMAIN cur[x] : j >= 1 /\ es[cur[x][j]].dest = s
<1>1. PICK e \in ToSet(cur[s]) : es[e].dest = x
  BY DEF ShortOver
<1>2. PICK f \in ToSet(cur[x]) : es[f].dest = s
  BY <1>1, LinkFacts
<1>3. cur[x] \in Seq(1..Len(es))
  BY DEF CurrentOK
<1>4. \A j \in DOMAIN cur[x] : j >= 1
  BY <1>3
<1>5. \E j \in DOMAIN cur[x] : cur[x][j] = f
  BY <1>2, <1>3 DEF ToSet
<1> QED BY <1>2, <1>4, <1>5

\* The levels after a level was picked.
LEMMA SelectLevels ==
  ASSUME CHInv, SelectLevel
  PROVE  /\ LevelOf \in Seq(Nodes) /\ Level' = ToSet(LevelOf)
         /\ Alive' = Alive
         /\ LevelsOK' /\ LevelsAreIndependent' /\ ShortcutsUnpack'
<1> DEFINE L == ToSet(LevelOf)  C == {m \in Nodes : Contracted(m)}
           D == {m \in Nodes : Contracted(m)'}
<1>1. /\ phase = "select" /\ \E n \in Nodes : ~Contracted(n)
      /\ nodesToCalc' = LevelOf
      /\ levels' = [n \in Nodes |-> IF n \in L THEN NextLevel ELSE levels[n]]
      /\ edges' = edges /\ numOfOriginalEdges' = numOfOriginalEdges
      /\ currentEdges' = currentEdges
  BY DEF SelectLevel, LevelOf, gridVars
<1>2. /\ EdgesOK(edges, numOfOriginalEdges) /\ CurrentOK(edges, currentEdges, Alive)
      /\ calcOrder \in Orders /\ nodesToCalc = <<>>
      /\ LevelsOK /\ LevelsAreIndependent /\ ShortcutsUnpack
  BY <1>1 DEF CHInv
<1>3. /\ LevelOf \in Seq(Nodes)
      /\ \A i, j \in DOMAIN LevelOf : LevelOf[i] = LevelOf[j] => i = j
      /\ \A x \in L : /\ x \in Nodes /\ ~Contracted(x)
                      /\ Near(edges, currentEdges, x) \cap L = {}
      /\ L # {}
  BY <1>1, <1>2, PickedFacts
<1>4. /\ levels \in [Nodes -> -1..Cardinality(Nodes)]
      /\ \A n \in Nodes : levels[n] < Cardinality(C)
  BY <1>2 DEF LevelsOK
<1>5. /\ NextLevel \in Nat /\ \A n \in Nodes : levels[n] < NextLevel
      /\ \E m \in Nodes : NextLevel = 1 + levels[m]
  BY <1>4, NextLevelFacts
<1> HIDE DEF L
<1>6. /\ \A n \in Nodes : n \in L => levels'[n] = NextLevel
      /\ \A n \in Nodes : n \notin L => levels'[n] = levels[n]
  BY <1>1
<1>7. \A n \in Nodes : Contracted(n)' <=> Contracted(n) \/ n \in L
  BY <1>5, <1>6 DEF Contracted
<1>8. Level' = L /\ Level = {}
  BY <1>1, <1>2 DEF Level, L, ToSet
<1>9. Alive' = Alive
  <2>1. Alive' = {n \in Nodes : ~Contracted(n)' \/ n \in L}
    BY <1>8 DEF Alive, Contracted
  <2>2. Alive = {n \in Nodes : ~Contracted(n)}
    BY <1>8 DEF Alive
  <2> QED BY <2>1, <2>2, <1>3, <1>7
<1>10. /\ IsFiniteSet(C) /\ IsFiniteSet(D) /\ Cardinality(C) \in Nat /\ Cardinality(D) \in Nat
       /\ Cardinality(C) < Cardinality(D) /\ Cardinality(D) <= Cardinality(Nodes)
  <2>1. C \in SUBSET D /\ D \in SUBSET Nodes /\ C # D
    BY <1>3, <1>7
  <2> HIDE DEF C, D
  <2>2. IsFiniteSet(D) /\ Cardinality(D) <= Cardinality(Nodes)
    BY <2>1, NodesFacts, FS_Subset
  <2>3. IsFiniteSet(C) /\ Cardinality(C) <= Cardinality(D)
    BY <2>1, <2>2, FS_Subset
  <2>4. Cardinality(C) # Cardinality(D)
    BY <2>1, <2>2, FS_Subset
  <2>5. Cardinality(C) \in Nat /\ Cardinality(D) \in Nat
    BY <2>2, <2>3, FS_CardinalityType
  <2> QED BY <2>2, <2>3, <2>4, <2>5
<1>11. D = {m \in Nodes : Contracted(m)}'
  BY DEF Contracted
<1> HIDE DEF C, D
<1>12. ASSUME NEW n \in Nodes
       PROVE  levels'[n] \in -1..Cardinality(Nodes) /\ levels'[n] < Cardinality(D)
  <2>1. Cardinality(Nodes) \in Nat /\ levels[n] \in Int /\ levels[n] >= -1
    BY <1>4, NodesFacts
  <2>2. PICK m \in Nodes : NextLevel = 1 + levels[m]
    BY <1>5
  <2>3. levels[m] \in Int /\ levels[m] < Cardinality(C) /\ levels[n] < Cardinality(C)
    BY <1>4
  <2>4. NextLevel < Cardinality(D) /\ NextLevel \in Nat
    BY <2>2, <2>3, <1>5, <1>10
  <2>5. levels'[n] = NextLevel \/ levels'[n] = levels[n]
    BY <1>6
  <2> QED BY <2>1, <2>3, <2>4, <2>5, <1>10
<1>13. LevelsOK'
  <2>1. levels' \in [Nodes -> -1..Cardinality(Nodes)]
    BY <1>1, <1>12
  <2>2. \A x \in L : Contracted(x)' /\ \A y \in L : levels'[y] = levels'[x]
    BY <1>3, <1>6, <1>7
  <2>3. /\ nodesToCalc' \in Seq(Nodes)
        /\ \A i, j \in DOMAIN nodesToCalc' : nodesToCalc'[i] = nodesToCalc'[j] => i = j
    BY <1>1, <1>3
  <2>4. \A n \in Nodes : levels'[n] < Cardinality({m \in Nodes : Contracted(m)}')
    BY <1>11, <1>12
  <2> QED BY <2>1, <2>2, <2>3, <2>4, <1>8 DEF LevelsOK
<1>14. edges \in Seq(EdgeRecord)
  BY <1>2 DEF EdgesOK
<1>15. LevelsAreIndependent'
  <2>1. SUFFICES ASSUME NEW e \in 1..Len(edges), levels'[edges[e].start] # -1
                 PROVE  levels'[edges[e].start] # levels'[edges[e].dest]
    BY <1>1 DEF LevelsAreIndependent, EdgeIds
  <2> DEFINE u == edges[e].start  v == edges[e].dest
  <2>2. u \in Nodes /\ v \in Nodes
    BY <1>14, EdgeFields
  <2>3. levels[u] # -1 => levels[u] # levels[v]
    BY <1>2 DEF LevelsAreIndependent, EdgeIds
  <2>4. ASSUME u \in L, v \in L PROVE FALSE
    <3>1. u \in Alive /\ v \in Alive
      BY <2>2, <2>4, <1>3 DEF Alive
    <3>2. e \in ToSet(currentEdges[u])
      BY <2>2, <3>1, <1>2 DEF CurrentOK
    <3>3. v \in Near(edges, currentEdges, u)
      BY <3>2 DEF Near
    <3> QED BY <3>3, <2>4, <1>3
  <2>5. levels'[u] # -1
    BY <2>1
  <2> HIDE DEF u, v
  <2>6. levels[u] \in Int /\ levels[v] \in Int /\ NextLevel \in Int
    BY <2>2, <1>4, <1>5
  <2>7. levels'[u] # levels'[v]
    <3>1. CASE u \in L
      BY <3>1, <2>2, <2>4, <2>6, <1>5, <1>6
    <3>2. CASE u \notin L /\ v \in L
      BY <3>2, <2>2, <2>6, <1>5, <1>6
    <3>3. CASE u \notin L /\ v \notin L
      BY <3>3, <2>2, <2>3, <2>5, <1>6
    <3> QED BY <3>1, <3>2, <3>3
  <2> QED BY <2>7 DEF u, v
<1>16. ShortcutsUnpack'
  <2>1. SUFFICES ASSUME NEW e \in 1..Len(edges), e > numOfOriginalEdges
                 PROVE  LET first  == edges[edges[e].parts[2]]
                            second == edges[edges[e].parts[1]]
                        IN  /\ \A i \in {1, 2} : edges[e].parts[i] \in 1..(e - 1)
                            /\ first.start = edges[e].start /\ second.dest = edges[e].dest
                            /\ first.dest = second.start
                            /\ first.dist + second.dist = edges[e].dist
                            /\ levels'[first.dest] # -1
                            /\ \A n \in {edges[e].start, edges[e].dest} :
                                 levels'[n] = -1 \/ levels'[n] > levels'[first.dest]
    BY <1>1 DEF ShortcutsUnpack, getFirstShortcut, getSecondShortcut, EdgeIds
  <2> DEFINE first  == edges[edges[e].parts[2]]
             second == edges[edges[e].parts[1]]
             m == first.dest
  <2>2. /\ \A i \in {1, 2} : edges[e].parts[i] \in 1..(e - 1)
        /\ first.start = edges[e].start /\ second.dest = edges[e].dest
        /\ first.dest = second.start
        /\ first.dist + second.dist = edges[e].dist
        /\ levels[m] # -1
        /\ \A n \in {edges[e].start, edges[e].dest} : levels[n] = -1 \/ levels[n] > levels[m]
    BY <2>1, <1>2 DEF ShortcutsUnpack, getFirstShortcut, getSecondShortcut, EdgeIds
  <2>3. edges[e].start \in Nodes /\ edges[e].dest \in Nodes /\ m \in Nodes
    <3>1. edges[e].parts[2] \in 1..Len(edges)
      <4>1. edges[e].parts[2] \in 1..(e - 1) /\ Len(edges) \in Nat
        BY <2>2, <1>14
      <4> QED BY <4>1
    <3> QED BY <3>1, <1>14, EdgeFields
  <2>4. levels'[m] = levels[m]
    BY <2>2, <2>3, <1>3, <1>6 DEF Contracted
  <2>5. ASSUME NEW n \in {edges[e].start, edges[e].dest}
        PROVE  levels'[n] = -1 \/ levels'[n] > levels'[m]
    <3>1. n \in Nodes /\ (levels[n] = -1 \/ levels[n] > levels[m])
      BY <2>2, <2>3, <2>5
    <3> HIDE DEF m
    <3>2. levels[m] < NextLevel /\ levels[m] \in Int /\ NextLevel \in Int
      BY <2>3, <1>4, <1>5
    <3> QED BY <3>1, <3>2, <2>4, <1>6
  <2> QED BY <2>2, <2>4, <2>5
<1> QED BY <1>3, <1>8, <1>9, <1>13, <1>15, <1>16 DEF L

\* SelectLevel: the threads begin with all nodes of a level.
LEMMA SelectKeeps ==
  ASSUME CHInv, SelectLevel
  PROVE  CHInv'
<1> DEFINE L == ToSet(LevelOf)
<1>1. /\ phase = "select" /\ nodesToCalc' = LevelOf
      /\ todo' = [t \in Threads |-> ShareOf(LevelOf, t)]
      /\ shortcuts' = [t \in Threads |-> <<>>]
      /\ phase' = "search" /\ calcOrder' = calcOrder /\ nbr' = nbr /\ search' = search
      /\ edges' = edges /\ numOfOriginalEdges' = numOfOriginalEdges
      /\ currentEdges' = currentEdges
  BY DEF SelectLevel, LevelOf, gridVars
<1>2. /\ EdgesOK(edges, numOfOriginalEdges) /\ CurrentOK(edges, currentEdges, Alive)
      /\ calcOrder \in Orders /\ nbr \in [Threads -> Nat \ {0}] /\ DOMAIN search = Threads
      /\ \A t \in Threads : todo[t] = <<>> /\ ThreadInv(t)
  BY <1>1 DEF CHInv
<1>3. /\ LevelOf \in Seq(Nodes) /\ Level' = L /\ Alive' = Alive
      /\ LevelsOK' /\ LevelsAreIndependent' /\ ShortcutsUnpack'
  BY SelectLevels
<1>4. \A t \in Threads : nbr[t] = 1 /\ search[t] = NoSearch
  BY <1>2 DEF ThreadInv, ThreadOK
<1>5. /\ \A t \in Threads : ShareOf(LevelOf, t) \in Seq(L)
      /\ \A j \in 1..Len(LevelOf) : \E t \in Threads :
           \E i \in DOMAIN ShareOf(LevelOf, t) : ShareOf(LevelOf, t)[i] = LevelOf[j]
  BY <1>3, ShareFacts
<1>6. L \subseteq Nodes /\ \A x \in L : \E j \in 1..Len(LevelOf) : LevelOf[j] = x
  BY <1>3 DEF ToSet
<1> HIDE DEF L
<1>7. /\ \A t \in Threads : todo'[t] = ShareOf(LevelOf, t) /\ shortcuts'[t] = <<>>
      /\ DOMAIN todo' = Threads /\ DOMAIN shortcuts' = Threads
  BY <1>1
<1>8. todo' \in [Threads -> Seq(Nodes)]
  <2>1. \A t \in Threads : ShareOf(LevelOf, t) \in Seq(Nodes)
    BY <1>5, <1>6
  <2> QED BY <2>1, <1>1
<1>9. ASSUME NEW t \in Threads PROVE ThreadInv(t)'
  <2>1. ThreadOK(edges, currentEdges, L, ShareOf(LevelOf, t), 1, NoSearch, <<>>)
    BY <1>5 DEF ThreadOK
  <2> QED BY <2>1, <1>1, <1>3, <1>4, <1>7 DEF ThreadInv
<1>10. SearchComplete'
  <2>1. SUFFICES ASSUME NEW x \in L, NEW s \in Nodes, NEW y \in Nodes, NEW d \in Nat,
                        ShortOver(edges, currentEdges, s, x, y, d)
                 PROVE  \E t \in Threads : Pending(edges, currentEdges, todo'[t], nbr'[t], x, s)
    BY <1>1, <1>3 DEF SearchComplete
  <2>2. PICK t \in Threads : \E i \in DOMAIN ShareOf(LevelOf, t) : ShareOf(LevelOf, t)[i] = x
    BY <1>5, <1>6
  <2> DEFINE td == ShareOf(LevelOf, t)
  <2>3. PICK i \in DOMAIN td : td[i] = x
    BY <2>2
  <2>4. td \in Seq(L)
    BY <1>5
  <2> HIDE DEF td
  <2>5. td # <<>> /\ (i = 1 => x = Head(td))
    BY <2>3, <2>4
  <2>6. \E j \in DOMAIN currentEdges[x] : j >= 1 /\ edges[currentEdges[x][j]].dest = s
    BY <2>1, <1>2, <1>6, LinkBack
  <2>7. Pending(edges, currentEdges, td, 1, x, s)
    <3>1. CASE i = 1
      BY <3>1, <2>5, <2>6 DEF Pending
    <3>2. CASE i # 1
      BY <3>2, <2>3, <2>5 DEF Pending
    <3> QED BY <3>1, <3>2
  <2>8. todo'[t] = td /\ nbr'[t] = 1
    BY <1>1, <1>4, <1>7 DEF td
  <2> QED BY <2>7, <2>8
<1>11. EdgesOK(edges, numOfOriginalEdges)' /\ CurrentOK(edges, currentEdges, Alive)'
  BY <1>1, <1>2, <1>3
<1> QED BY <1>1, <1>2, <1>3, <1>7, <1>8, <1>9, <1>10, <1>11 DEF CHInv
------------------------------------------------------------------------------
AddRecord == [edges : Seq(EdgeRecord), current : [Nodes -> Seq(Nat)]]

\* What adding one shortcut changes.
LEMMA AddFields ==
  ASSUME NEW acc \in AddRecord, NEW s \in EdgeRecord
  PROVE  /\ acc.edges \in Seq(EdgeRecord) /\ acc.current \in [Nodes -> Seq(Nat)]
         /\ s.start \in Nodes
         /\ AddShortcut(acc, s) \in AddRecord
         /\ IsShortcut(acc.edges, s.start, s.dest) => AddShortcut(acc, s) = acc
         /\ ~IsShortcut(acc.edges, s.start, s.dest) =>
              /\ AddShortcut(acc, s).edges = Append(acc.edges, s)
              /\ AddShortcut(acc, s).current =
                   [acc.current EXCEPT ![s.start] = Append(@, Len(acc.edges) + 1)]
<1> DEFINE es == acc.edges  cur == acc.current  u == s.start
           new == [edges |-> Append(es, s),
                   current |-> [cur EXCEPT ![u] = Append(@, Len(es) + 1)]]
<1>1. es \in Seq(EdgeRecord) /\ cur \in [Nodes -> Seq(Nat)]
  BY DEF AddRecord
<1>2. u \in Nodes
  BY DEF EdgeRecord
<1>3. AddShortcut(acc, s) = IF IsShortcut(es, u, s.dest) THEN acc ELSE new
  <2>1. acc = [edges |-> es, current |-> cur]
    BY DEF AddRecord
  <2>2. [acc EXCEPT !.edges = Append(@, s), !.current[u] = Append(@, Len(acc.edges) + 1)] = new
    <3> DEFINE a == Append(acc.edges, s)  b == Append(acc.current[u], Len(acc.edges) + 1)
               m == [acc EXCEPT !.edges = a]  c == [acc.current EXCEPT ![u] = b]
    <3> HIDE DEF a, b, u
    <3>1. m = [edges |-> a, current |-> acc.current]
      BY <2>1
    <3> HIDE DEF c, m
    <3>2. [m EXCEPT !.current = c] = [edges |-> a, current |-> c]
      BY <3>1
    <3>3. m.current = acc.current
      BY <3>1
    <3>4. [m EXCEPT !.current[u] = b] = [m EXCEPT !.current = c]
      BY <3>3 DEF c
    <3> QED BY <3>2, <3>4 DEF a, b, c, m, u
  <2> QED BY <2>2 DEF AddShortcut
<1>4. new \in AddRecord
  <2>1. Append(es, s) \in Seq(EdgeRecord) /\ Len(es) + 1 \in Nat
    BY <1>1
  <2>2. Append(cur[u], Len(es) + 1) \in Seq(Nat)
    BY <2>1, <1>1, <1>2
  <2>3. [cur EXCEPT ![u] = Append(@, Len(es) + 1)] \in [Nodes -> Seq(Nat)]
    BY <2>2, <1>1, <1>2
  <2> QED BY <2>1, <2>3 DEF AddRecord
<1> QED BY <1>1, <1>2, <1>3, <1>4

\* The first k of the shortcuts found have been added to the edges es.
AddOK(es, orig, cur, found, acc, k) ==
  /\ acc \in AddRecord
  /\ Len(es) <= Len(acc.edges) /\ \A e \in 1..Len(es) : acc.edges[e] = es[e]
  /\ \A e \in (Len(es) + 1)..Len(acc.edges) : \E j \in 1..k : acc.edges[e] = found[j]
  /\ \A e \in (Len(es) + 1)..Len(acc.edges), f \in (orig + 1)..Len(acc.edges) :
       acc.edges[e].start = acc.edges[f].start /\ acc.edges[e].dest = acc.edges[f].dest => e = f
  /\ \A j \in 1..k : \E e \in (orig + 1)..Len(acc.edges) :
       acc.edges[e].start = found[j].start /\ acc.edges[e].dest = found[j].dest
  /\ \A u \in Nodes : \A i, j \in DOMAIN acc.current[u] :
       acc.current[u][i] = acc.current[u][j] => i = j
  /\ \A u \in Nodes :
       ToSet(acc.current[u]) =
         ToSet(cur[u]) \cup {e \in (Len(es) + 1)..Len(acc.edges) : acc.edges[e].start = u}

\* Adding one more.
LEMMA AddOne ==
  ASSUME NEW A, EdgesOK(edges, numOfOriginalEdges), CurrentOK(edges, currentEdges, A),
         NEW found \in Seq(EdgeRecord), NEW k \in 1..Len(found), NEW acc,
         AddOK(edges, numOfOriginalEdges, currentEdges, found, acc, k - 1)
  PROVE  AddOK(edges, numOfOriginalEdges, currentEdges, found, AddShortcut(acc, found[k]), k)
<1> DEFINE es == edges  orig == numOfOriginalEdges  cur == currentEdges
           s == found[k]  r == AddShortcut(acc, s)  old == acc.edges  oc == acc.current
<1>1. /\ s \in EdgeRecord /\ s = found[k] /\ k \in Nat
      /\ \A j \in 1..k : j \in 1..(k - 1) \/ j = k
      /\ \A j \in 1..(k - 1) : j \in 1..k
  OBVIOUS
<1>2. acc \in AddRecord
  BY DEF AddOK
<1>3. /\ old \in Seq(EdgeRecord) /\ oc \in [Nodes -> Seq(Nat)]
      /\ s.start \in Nodes
      /\ r \in AddRecord
      /\ IsShortcut(old, s.start, s.dest) => r = acc
      /\ ~IsShortcut(old, s.start, s.dest) =>
           /\ r.edges = Append(old, s)
           /\ r.current = [oc EXCEPT ![s.start] = Append(@, Len(old) + 1)]
  BY <1>1, <1>2, AddFields
<1>4. Len(es) \in Nat /\ orig \in 0..Len(es) /\ Len(old) \in Nat /\ Len(es) <= Len(old)
  <2>1. es \in Seq(EdgeRecord) /\ orig \in 0..Len(es)
    BY DEF EdgesOK
  <2>2. Len(es) <= Len(old)
    BY DEF AddOK
  <2> QED BY <2>1, <2>2, <1>3
<1>5. r = AddShortcut(acc, found[k])
  OBVIOUS
<1> HIDE DEF s, r
<1>6. CASE IsShortcut(old, s.start, s.dest)
  <2>1. \E e \in (orig + 1)..Len(old) : old[e].start = s.start /\ old[e].dest = s.dest
    BY <1>6 DEF IsShortcut
  <2>2. AddOK(es, orig, cur, found, acc, k)
    <3>1. \A e \in (Len(es) + 1)..Len(old) : \E j \in 1..k : old[e] = found[j]
      BY <1>1 DEF AddOK
    <3>2. \A j \in 1..k : \E e \in (orig + 1)..Len(old) :
             old[e].start = found[j].start /\ old[e].dest = found[j].dest
      BY <2>1, <1>1 DEF AddOK
    <3> QED BY <3>1, <3>2 DEF AddOK
  <2> QED BY <2>2, <1>3, <1>5, <1>6
<1>7. CASE ~IsShortcut(old, s.start, s.dest)
  <2> DEFINE n == Len(es)  m == Len(old)  new == r.edges  nc == r.current
  <2>1. /\ m \in Nat /\ n \in Nat /\ n <= m /\ orig \in 0..n
        /\ new = Append(old, s) /\ nc = [oc EXCEPT ![s.start] = Append(@, m + 1)]
    BY <1>3, <1>4, <1>7
  <2>2. Len(new) = m + 1 /\ new[m + 1] = s /\ \A e \in 1..m : new[e] = old[e]
    BY <2>1, <1>1, <1>3
  <2>3. \A e \in (orig + 1)..m : ~(old[e].start = s.start /\ old[e].dest = s.dest)
    BY <1>7 DEF IsShortcut
  <2>4. /\ \A e \in 1..n : old[e] = es[e]
        /\ \A e \in (n + 1)..m : \E j \in 1..(k - 1) : old[e] = found[j]
        /\ \A e \in (n + 1)..m, f \in (orig + 1)..m :
             old[e].start = old[f].start /\ old[e].dest = old[f].dest => e = f
        /\ \A j \in 1..(k - 1) : \E e \in (orig + 1)..m :
             old[e].start = found[j].start /\ old[e].dest = found[j].dest
        /\ \A u \in Nodes : \A i, j \in DOMAIN oc[u] : oc[u][i] = oc[u][j] => i = j
        /\ \A u \in Nodes : ToSet(oc[u]) = ToSet(cur[u]) \cup {e \in (n + 1)..m : old[e].start = u}
    BY DEF AddOK
  <2>5. \A u \in Nodes : ToSet(cur[u]) \subseteq 1..n
    BY DEF CurrentOK
  <2> HIDE DEF n, m, new, nc
  <2>6. /\ \A e \in (n + 1)..(m + 1) : e \in (n + 1)..m \/ e = m + 1
        /\ \A e \in (orig + 1)..(m + 1) : e \in (orig + 1)..m \/ e = m + 1
        /\ \A e \in (n + 1)..m : e \in 1..m /\ e \in (orig + 1)..m /\ e \in (n + 1)..(m + 1)
        /\ \A e \in (orig + 1)..m : e \in 1..m /\ e \in (orig + 1)..(m + 1)
        /\ \A e \in 1..n : e \in 1..m
        /\ m + 1 \in (n + 1)..(m + 1) /\ m + 1 \in (orig + 1)..(m + 1)
    BY <2>1
  <2>7. \A e \in 1..n : new[e] = es[e]
    BY <2>2, <2>4, <2>6
  <2>8. \A e \in (n + 1)..(m + 1) : \E j \in 1..k : new[e] = found[j]
    <3>1. SUFFICES ASSUME NEW e \in (n + 1)..(m + 1) PROVE \E j \in 1..k : new[e] = found[j]
      OBVIOUS
    <3>2. CASE e = m + 1
      <4>1. k \in 1..k
        BY <1>1
      <4> QED BY <4>1, <3>2, <2>2, <1>1
    <3>3. CASE e \in (n + 1)..m
      <4>1. new[e] = old[e]
        BY <3>3, <2>2, <2>6
      <4>2. PICK j \in 1..(k - 1) : old[e] = found[j]
        BY <3>3, <2>4
      <4> QED BY <4>1, <4>2, <1>1
    <3> QED BY <3>2, <3>3, <2>6
  <2>9. \A e \in (n + 1)..(m + 1), f \in (orig + 1)..(m + 1) :
          new[e].start = new[f].start /\ new[e].dest = new[f].dest => e = f
    <3>1. SUFFICES ASSUME NEW e \in (n + 1)..(m + 1), NEW f \in (orig + 1)..(m + 1),
                          new[e].start = new[f].start, new[e].dest = new[f].dest, e # f
                   PROVE  FALSE
      OBVIOUS
    <3>2. CASE e \in (n + 1)..m /\ f \in (orig + 1)..m
      BY <3>1, <3>2, <2>2, <2>4, <2>6
    <3>3. CASE e \in (n + 1)..m /\ f = m + 1
      <4>1. new[e] = old[e] /\ e \in (orig + 1)..m
        BY <3>3, <2>2, <2>6
      <4> QED BY <4>1, <3>1, <3>3, <2>2, <2>3
    <3>4. CASE e = m + 1 /\ f \in (orig + 1)..m
      <4>1. new[f] = old[f]
        BY <3>4, <2>2, <2>6
      <4> QED BY <4>1, <3>1, <3>4, <2>2, <2>3
    <3> QED BY <3>1, <3>2, <3>3, <3>4, <2>6
  <2>10. \A j \in 1..k : \E e \in (orig + 1)..(m + 1) :
           new[e].start = found[j].start /\ new[e].dest = found[j].dest
    <3>1. SUFFICES ASSUME NEW j \in 1..k
                   PROVE  \E e \in (orig + 1)..(m + 1) :
                            new[e].start = found[j].start /\ new[e].dest = found[j].dest
      OBVIOUS
    <3>2. CASE j = k
      BY <3>2, <2>2, <2>6, <1>1
    <3>3. CASE j \in 1..(k - 1)
      <4>1. PICK e \in (orig + 1)..m : old[e].start = found[j].start /\ old[e].dest = found[j].dest
        BY <3>3, <2>4
      <4>2. new[e] = old[e] /\ e \in (orig + 1)..(m + 1)
        BY <2>2, <2>6
      <4> QED BY <4>1, <4>2
    <3> QED BY <3>2, <3>3, <1>1
  <2>11. ASSUME NEW u \in Nodes
         PROVE  /\ \A i, j \in DOMAIN nc[u] : nc[u][i] = nc[u][j] => i = j
                /\ ToSet(nc[u]) = ToSet(cur[u]) \cup {e \in (n + 1)..(m + 1) : new[e].start = u}
    <3>1. oc[u] \in Seq(Nat) /\ oc[s.start] \in Seq(Nat)
      BY <1>3
    <3>2. CASE u # s.start
      <4>1. nc[u] = oc[u]
        BY <3>2, <2>1, <1>3
      <4>2. {e \in (n + 1)..(m + 1) : new[e].start = u} = {e \in (n + 1)..m : old[e].start = u}
        BY <3>2, <2>2, <2>6
      <4> QED BY <4>1, <4>2, <2>4
    <3>3. CASE u = s.start
      <4>1. nc[u] = Append(oc[u], m + 1)
        BY <3>3, <2>1, <1>3
      <4>2. m + 1 \notin ToSet(oc[u])
        <5>1. ToSet(oc[u]) \subseteq 1..m
          BY <2>4, <2>5, <2>6
        <5> QED BY <5>1, <2>1
      <4> DEFINE q == oc[u]  p == nc[u]
      <4>3. /\ DOMAIN p = 1..(Len(q) + 1) /\ p[Len(q) + 1] = m + 1 /\ Len(q) \in Nat
            /\ DOMAIN q = 1..Len(q)
            /\ \A i \in 1..Len(q) : p[i] = q[i]
        BY <4>1, <3>1, <2>1
      <4>4. ToSet(q) = {q[i] : i \in 1..Len(q)} /\ ToSet(p) = {p[i] : i \in 1..(Len(q) + 1)}
        BY <4>3 DEF ToSet
      <4>5. \A i, j \in DOMAIN q : q[i] = q[j] => i = j
        BY <2>4
      <4> HIDE DEF q, p
      <4>6. \A i \in 1..(Len(q) + 1) : i \in 1..Len(q) \/ i = Len(q) + 1
        BY <4>3
      <4>7. \A i \in 1..Len(q) : q[i] # m + 1 /\ i \in 1..(Len(q) + 1)
        BY <4>2, <4>3, <4>4 DEF q
      <4>8. \A i, j \in DOMAIN p : p[i] = p[j] => i = j
        BY <4>3, <4>5, <4>6, <4>7
      <4>9. ToSet(p) = ToSet(q) \cup {m + 1}
        <5>1. Len(q) + 1 \in 1..(Len(q) + 1)
          BY <4>3
        <5> QED BY <5>1, <4>3, <4>4, <4>6, <4>7
      <4>10. {e \in (n + 1)..(m + 1) : new[e].start = u}
                = {e \in (n + 1)..m : old[e].start = u} \cup {m + 1}
        BY <3>3, <2>2, <2>6
      <4> QED BY <4>8, <4>9, <4>10, <2>4 DEF p, q
    <3> QED BY <3>2, <3>3
  <2>12. Len(es) <= Len(new)
    BY <2>1, <2>2 DEF n
  <2>13. AddOK(es, orig, cur, found, r, k)
    BY <2>2, <2>7, <2>8, <2>9, <2>10, <2>11, <2>12, <1>3 DEF AddOK, n, new, nc
  <2> QED BY <2>13, <1>5
<1> QED BY <1>6, <1>7

\* All shortcuts the threads found, thread by thread.
FoundSeq == FlattenSeq([i \in 1..NUM_OF_THREADS |-> shortcuts[i - 1]])

\* What was found, and that nothing is missing.
FoundAll(es, cur, level, found) ==
  /\ found \in Seq(EdgeRecord)
  /\ \A j \in 1..Len(found) : FoundOK(es, cur, level, found[j])
  /\ \A x \in level : \A s, y \in Nodes : \A d \in Nat :
       ShortOver(es, cur, s, x, y, d) =>
         \E j \in 1..Len(found) : found[j].start = s /\ found[j].dest = y

LEMMA FoundFacts ==
  ASSUME CHInv, phase = "search", \A t \in Threads : todo[t] = <<>>
  PROVE  FoundAll(edges, currentEdges, Level, FoundSeq)
<1> DEFINE N == NUM_OF_THREADS
           seqs == [i \in 1..N |-> shortcuts[i - 1]]
<1>1. N \in Nat \ {0} /\ Threads = 0..(N - 1)
  BY HierarchyAssumption DEF Threads
<1>2. ASSUME NEW t \in Threads
      PROVE  /\ shortcuts[t] \in Seq(EdgeRecord)
             /\ \A i \in 1..Len(shortcuts[t]) : FoundOK(edges, currentEdges, Level, shortcuts[t][i])
  <2>1. /\ shortcuts[t] \in Seq(EdgeRecord)
        /\ \A i \in DOMAIN shortcuts[t] : FoundOK(edges, currentEdges, Level, shortcuts[t][i])
    BY DEF CHInv, ThreadInv, ThreadOK
  <2> QED BY <2>1
<1>3. /\ \A i \in 1..N : i - 1 \in Threads /\ seqs[i] = shortcuts[i - 1]
      /\ \A t \in Threads : t + 1 \in 1..N /\ seqs[t + 1] = shortcuts[t]
  BY <1>1
<1>4. seqs \in Seq(Seq(EdgeRecord)) /\ Len(seqs) = N
  <2>1. \A i \in 1..N : shortcuts[i - 1] \in Seq(EdgeRecord)
    BY <1>2, <1>3
  <2> QED BY <2>1, <1>1
<1>5. FoundSeq = FlattenSeq(seqs)
  BY DEF FoundSeq
<1> HIDE DEF N, seqs
<1>6. Len(seqs) # 0
  BY <1>1, <1>4
<1>7. FlattenSeq(seqs) \in Seq(EdgeRecord)
  BY <1>4, <1>6, FlattenFacts
<1>8. PICK off \in [0..Len(seqs) -> Nat] : Flattened(FlattenSeq(seqs), seqs, off)
  BY <1>4, <1>6, FlattenFacts
<1> DEFINE found == FoundSeq
<1>9. /\ Len(found) = off[N]
      /\ \A i \in 1..N : \A k \in 1..Len(seqs[i]) :
           off[i - 1] + k \in 1..off[N] /\ found[off[i - 1] + k] = seqs[i][k]
      /\ \A j \in 1..off[N] : \E i \in 1..N : \E k \in 1..Len(seqs[i]) : j = off[i - 1] + k
  BY <1>4, <1>5, <1>8 DEF Flattened
<1> HIDE DEF found
<1>10. ASSUME NEW j \in 1..Len(found) PROVE FoundOK(edges, currentEdges, Level, found[j])
  <2>1. PICK i \in 1..N : \E k \in 1..Len(seqs[i]) : j = off[i - 1] + k
    BY <1>9
  <2>2. PICK k \in 1..Len(seqs[i]) : j = off[i - 1] + k
    BY <2>1
  <2>3. found[j] = shortcuts[i - 1][k] /\ i - 1 \in Threads /\ k \in 1..Len(shortcuts[i - 1])
    BY <2>2, <1>3, <1>9
  <2> QED BY <2>3, <1>2
<1>11. ASSUME NEW x \in Level, NEW s \in Nodes, NEW y \in Nodes, NEW d \in Nat,
              ShortOver(edges, currentEdges, s, x, y, d)
       PROVE  \E j \in 1..Len(found) : found[j].start = s /\ found[j].dest = y
  <2>1. PICK t \in Threads : Reported(shortcuts[t], s, y)
    BY <1>11 DEF CHInv, SearchComplete, Pending
  <2>2. PICK k \in 1..Len(shortcuts[t]) : shortcuts[t][k].start = s /\ shortcuts[t][k].dest = y
    <3>1. DOMAIN shortcuts[t] = 1..Len(shortcuts[t])
      BY <1>2
    <3> QED BY <3>1, <2>1 DEF Reported
  <2>3. t + 1 \in 1..N /\ k \in 1..Len(seqs[t + 1]) /\ seqs[t + 1][k] = shortcuts[t][k]
    BY <2>2, <1>3
  <2>4. off[(t + 1) - 1] + k \in 1..off[N] /\ found[off[(t + 1) - 1] + k] = shortcuts[t][k]
    BY <2>3, <1>9
  <2> QED BY <2>2, <2>4, <1>9
<1> QED BY <1>5, <1>7, <1>10, <1>11 DEF FoundAll, found

\* A shortcut that was found joins two nodes of the remaining graph.
LEMMA FoundLinks ==
  ASSUME NEW es, NEW orig, EdgesOK(es, orig), NEW cur, NEW A, CurrentOK(es, cur, A),
         NEW level \in SUBSET Nodes, NEW s, FoundOK(es, cur, level, s)
  PROVE  /\ s \in EdgeRecord /\ s.start \in Nodes /\ s.dest \in Nodes /\ s.dist \in Nat
         /\ s.start \in A \ level /\ s.dest \in A \ level /\ s.start # s.dest
         /\ Len(s.parts) = 2 /\ s.parts[1] \in 1..Len(es) /\ s.parts[2] \in 1..Len(es)
         /\ \E x \in level :
              /\ ShortOver(es, cur, s.start, x, s.dest, s.dist)
              /\ es[s.parts[2]].start = s.start /\ es[s.parts[2]].dest = x
              /\ es[s.parts[1]].start = x /\ es[s.parts[1]].dest = s.dest
              /\ es[s.parts[2]].dist + es[s.parts[1]].dist = s.dist
<1>1. s \in EdgeRecord /\ s.start \in Nodes /\ s.dest \in Nodes /\ s.dist \in Nat
  BY DEF FoundOK, EdgeRecord
<1>2. PICK x \in level :
         /\ ShortOver(es, cur, s.start, x, s.dest, s.dist)
         /\ s.parts[2] \in ToSet(cur[s.start]) /\ es[s.parts[2]].dest = x
         /\ s.parts[1] \in ToSet(cur[x]) /\ es[s.parts[1]].dest = s.dest
         /\ es[s.parts[2]].dist + es[s.parts[1]].dist = s.dist
  BY DEF FoundOK
<1>3. es[s.parts[2]].start = s.start /\ s.start \in A
  BY <1>1, <1>2, LinkFacts
<1>4. x \in Nodes
  OBVIOUS
<1>5. es[s.parts[1]].start = x /\ es[s.parts[1]].dest \in A
  BY <1>2, <1>4, LinkFacts
<1>6. s.start # s.dest
  BY <1>2 DEF ShortOver
<1> QED BY <1>1, <1>2, <1>3, <1>5, <1>6 DEF FoundOK

\* The graph with all shortcuts is undirected again.
LEMMA AddedOK ==
  ASSUME NEW es, NEW orig, EdgesOK(es, orig), NEW cur, NEW A, CurrentOK(es, cur, A),
         NEW level \in SUBSET Nodes, NEW found, FoundAll(es, cur, level, found),
         NEW acc, AddOK(es, orig, cur, found, acc, Len(found))
  PROVE  /\ EdgesOK(acc.edges, orig)
         /\ CurrentOK(acc.edges, acc.current, A)
<1> DEFINE n == Len(es)  m == Len(acc.edges)  new == acc.edges  nc == acc.current  k == Len(found)
<1>1. new \in Seq(EdgeRecord) /\ nc \in [Nodes -> Seq(Nat)] /\ es \in Seq(EdgeRecord)
  BY DEF AddOK, AddRecord, EdgesOK
<1>2. n \in Nat /\ m \in Nat /\ n <= m /\ orig \in 0..n
  BY <1>1 DEF AddOK, EdgesOK
<1>3. /\ \A e \in 1..n : new[e] = es[e]
      /\ \A e \in (n + 1)..m : \E j \in 1..k : new[e] = found[j]
      /\ \A e \in (n + 1)..m, f \in (orig + 1)..m :
           new[e].start = new[f].start /\ new[e].dest = new[f].dest => e = f
      /\ \A j \in 1..k : \E e \in (orig + 1)..m :
           new[e].start = found[j].start /\ new[e].dest = found[j].dest
      /\ \A u \in Nodes : \A i, j \in DOMAIN nc[u] : nc[u][i] = nc[u][j] => i = j
      /\ \A u \in Nodes : ToSet(nc[u]) = ToSet(cur[u]) \cup {e \in (n + 1)..m : new[e].start = u}
  BY DEF AddOK
<1>4. ASSUME NEW e \in (n + 1)..m
      PROVE  FoundOK(es, cur, level, new[e])
  <2>1. PICK j \in 1..k : new[e] = found[j]
    BY <1>3
  <2> QED BY <2>1 DEF FoundAll
<1>5. /\ \A e \in 1..m : new[e] \in EdgeRecord /\ new[e].start \in Nodes /\ new[e].dest \in Nodes
      /\ \A e \in 1..n : es[e].start \in Nodes /\ es[e].dest \in Nodes
  BY <1>1, EdgeFields
<1>6. /\ \A e \in 1..n : /\ es[e].start # es[e].dest
                         /\ Len(es[e].parts) = IF e <= orig THEN 0 ELSE 2
      /\ \A u, v \in Nodes, d \in Nat : Cardinality(Ids(es, u, v, d)) = Cardinality(Ids(es, v, u, d))
      /\ \A e \in (orig + 1)..n : \E f \in (orig + 1)..n : Swapped(es[e], es[f])
  BY DEF EdgesOK
<1> HIDE DEF n, m, new, nc, k
<1>7. /\ \A e \in 1..m : e \in 1..n \/ e \in (n + 1)..m
      /\ \A e \in (orig + 1)..m : e \in (orig + 1)..n \/ e \in (n + 1)..m
      /\ \A e \in (orig + 1)..n : e \in 1..n /\ e \in (orig + 1)..m
      /\ \A e \in (n + 1)..m : e \in 1..m /\ e \in (orig + 1)..m /\ ~(e <= orig) /\ e \notin 1..n
      /\ \A e \in 1..n : e \in 1..m
  BY <1>2
\* The search from the other end found every new shortcut too.
<1>8. ASSUME NEW e \in (n + 1)..m
      PROVE  \E f \in (n + 1)..m : Swapped(new[e], new[f]) /\ new[f].dist = new[e].dist
  <2> DEFINE u == new[e].start  v == new[e].dest  d == new[e].dist
  <2>1. FoundOK(es, cur, level, new[e])
    BY <1>4
  <2>2. u \in Nodes /\ v \in Nodes /\ d \in Nat /\ \E x \in level : ShortOver(es, cur, u, x, v, d)
    BY <2>1, FoundLinks
  <2>3. PICK x \in level : ShortOver(es, cur, u, x, v, d)
    BY <2>2
  <2>4. x \in Nodes
    OBVIOUS
  <2> HIDE DEF u, v, d
  <2>5. ShortOver(es, cur, v, x, u, d)
    BY <2>2, <2>3, <2>4, ShortBack
  <2>6. PICK j \in 1..k : found[j].start = v /\ found[j].dest = u
    BY <2>2, <2>5 DEF FoundAll, k
  <2>7. PICK f \in (orig + 1)..m : new[f].start = v /\ new[f].dest = u
    BY <2>6, <1>3
  <2>8. f \in (n + 1)..m
    <3>1. SUFFICES ASSUME f \in (orig + 1)..n PROVE FALSE
      BY <1>7
    <3>2. new[f] = es[f]
      BY <3>1, <1>3, <1>7
    <3>3. PICK g \in (orig + 1)..n : Swapped(es[f], es[g])
      BY <3>1, <1>6
    <3>4. new[g] = es[g] /\ g \in (orig + 1)..m /\ g \in 1..n
      BY <1>3, <1>7
    <3>5. new[g].start = u /\ new[g].dest = v
      BY <3>2, <3>3, <3>4, <2>7 DEF Swapped
    <3>6. e = g
      BY <3>4, <3>5, <1>3 DEF u, v
    <3> QED BY <3>4, <3>6, <1>7
  <2> DEFINE c == new[f].dist
  <2>9. c \in Nat /\ \E z \in level : ShortOver(es, cur, v, z, u, c)
    BY <2>7, <2>8, <1>4, FoundLinks
  <2>10. PICK z \in level : ShortOver(es, cur, v, z, u, c)
    BY <2>9
  <2>11. z \in Nodes
    OBVIOUS
  <2> HIDE DEF c
  <2>12. c <= d /\ d <= c
    BY <2>2, <2>4, <2>5, <2>9, <2>10, <2>11, ShortUnique
  <2>13. c = d
    BY <2>2, <2>9, <2>12
  <2> QED BY <2>7, <2>8, <2>13 DEF Swapped, c, d, u, v
<1>9. ASSUME NEW u \in Nodes, NEW v \in Nodes, NEW d \in Nat
      PROVE  /\ (\E e \in (n + 1)..m : e \in Ids(new, u, v, d)) =>
                   Cardinality(Ids(new, u, v, d)) = Cardinality(Ids(es, u, v, d)) + 1
             /\ ~(\E e \in (n + 1)..m : e \in Ids(new, u, v, d)) =>
                   Cardinality(Ids(new, u, v, d)) = Cardinality(Ids(es, u, v, d))
  <2>1. Ids(es, u, v, d) = {e \in 1..n : es[e].start = u /\ es[e].dest = v /\ es[e].dist = d}
    BY DEF Ids, n
  <2>2. Ids(new, u, v, d) = {e \in 1..m : new[e].start = u /\ new[e].dest = v /\ new[e].dist = d}
    BY DEF Ids, m, new
  <2>3. ASSUME NEW e \in (n + 1)..m, e \in Ids(new, u, v, d)
        PROVE  Ids(new, u, v, d) = Ids(es, u, v, d) \cup {e} /\ e \notin Ids(es, u, v, d)
    <3>1. e \notin Ids(es, u, v, d)
      BY <2>1, <1>7
    <3>2. \A f \in Ids(new, u, v, d) : f # e => f \in Ids(es, u, v, d)
      <4>1. SUFFICES ASSUME NEW f \in Ids(new, u, v, d), f # e PROVE f \in Ids(es, u, v, d)
        OBVIOUS
      <4>2. f \notin (n + 1)..m
        BY <4>1, <2>2, <2>3, <1>3, <1>7
      <4>3. f \in 1..n /\ new[f] = es[f]
        BY <4>1, <4>2, <2>2, <1>3, <1>7
      <4> QED BY <4>1, <4>3, <2>1, <2>2
    <3>3. \A f \in Ids(es, u, v, d) : f \in Ids(new, u, v, d)
      BY <2>1, <2>2, <1>3, <1>7
    <3> QED BY <3>1, <3>2, <3>3, <2>3
  <2>4. ASSUME ~(\E e \in (n + 1)..m : e \in Ids(new, u, v, d))
        PROVE  Ids(new, u, v, d) = Ids(es, u, v, d)
    BY <2>1, <2>2, <2>4, <1>3, <1>7
  <2>5. IsFiniteSet(Ids(es, u, v, d))
    BY <1>1, IdsFinite
  <2>6. ASSUME NEW e \in (n + 1)..m, e \in Ids(new, u, v, d)
        PROVE  Cardinality(Ids(new, u, v, d)) = Cardinality(Ids(es, u, v, d)) + 1
    BY <2>3, <2>5, <2>6, FS_AddElement
  <2> QED BY <2>4, <2>6
<1>10. ASSUME NEW u \in Nodes, NEW v \in Nodes, NEW d \in Nat,
              NEW e \in (n + 1)..m, e \in Ids(new, u, v, d)
       PROVE  \E f \in (n + 1)..m : f \in Ids(new, v, u, d)
  <2>1. new[e].start = u /\ new[e].dest = v /\ new[e].dist = d
    BY <1>10 DEF Ids
  <2>2. PICK f \in (n + 1)..m : Swapped(new[e], new[f]) /\ new[f].dist = new[e].dist
    BY <1>8
  <2>3. f \in 1..Len(new)
    BY <1>7 DEF m, new
  <2> QED BY <2>1, <2>2, <2>3 DEF Ids, Swapped
<1>11. \A u, v \in Nodes, d \in Nat : Cardinality(Ids(new, u, v, d)) = Cardinality(Ids(new, v, u, d))
  <2>1. SUFFICES ASSUME NEW u \in Nodes, NEW v \in Nodes, NEW d \in Nat
                 PROVE  Cardinality(Ids(new, u, v, d)) = Cardinality(Ids(new, v, u, d))
    OBVIOUS
  <2>2. Cardinality(Ids(es, u, v, d)) = Cardinality(Ids(es, v, u, d))
    BY <1>6
  <2>3. CASE \E e \in (n + 1)..m : e \in Ids(new, u, v, d)
    <3>1. \E e \in (n + 1)..m : e \in Ids(new, v, u, d)
      BY <2>3, <1>10
    <3> QED BY <3>1, <2>2, <2>3, <1>9
  <2>4. CASE ~(\E e \in (n + 1)..m : e \in Ids(new, u, v, d))
    <3>1. ~(\E e \in (n + 1)..m : e \in Ids(new, v, u, d))
      BY <2>4, <1>10
    <3> QED BY <3>1, <2>2, <2>4, <1>9
  <2> QED BY <2>3, <2>4
<1>12. \A e \in 1..m : /\ new[e].start # new[e].dest
                       /\ Len(new[e].parts) = IF e <= orig THEN 0 ELSE 2
  <2>1. \A e \in 1..n : /\ new[e].start # new[e].dest
                        /\ Len(new[e].parts) = IF e <= orig THEN 0 ELSE 2
    BY <1>3, <1>6
  <2>2. \A e \in (n + 1)..m : /\ new[e].start # new[e].dest /\ Len(new[e].parts) = 2 /\ ~(e <= orig)
    BY <1>4, <1>7, FoundLinks
  <2> QED BY <2>1, <2>2, <1>7
<1>13. \A e \in (orig + 1)..m : \E f \in (orig + 1)..m : Swapped(new[e], new[f])
  <2>1. SUFFICES ASSUME NEW e \in (orig + 1)..m PROVE \E f \in (orig + 1)..m : Swapped(new[e], new[f])
    OBVIOUS
  <2>2. CASE e \in (n + 1)..m
    BY <2>2, <1>7, <1>8
  <2>3. CASE e \in (orig + 1)..n
    <3>1. PICK f \in (orig + 1)..n : Swapped(es[e], es[f])
      BY <2>3, <1>6
    <3>2. new[e] = es[e] /\ new[f] = es[f] /\ f \in (orig + 1)..m
      BY <2>3, <1>3, <1>7
    <3> QED BY <3>1, <3>2
  <2> QED BY <2>2, <2>3, <1>7
<1>14. EdgesOK(acc.edges, orig)
  <2>1. orig \in 0..m
    BY <1>2
  <2> QED BY <2>1, <1>1, <1>11, <1>12, <1>13 DEF EdgesOK, m, new
<1>15. ASSUME NEW u \in Nodes
       PROVE  /\ nc[u] \in Seq(1..m)
              /\ ToSet(nc[u]) = {e \in 1..m : u \in A /\ new[e].start = u /\ new[e].dest \in A}
  <2>1. ToSet(cur[u]) = {e \in 1..n : u \in A /\ es[e].start = u /\ es[e].dest \in A}
    BY DEF CurrentOK, n
  <2>2. \A e \in (n + 1)..m : new[e].start \in A /\ new[e].dest \in A
    BY <1>4, FoundLinks
  <2>3. ToSet(nc[u]) = {e \in 1..m : u \in A /\ new[e].start = u /\ new[e].dest \in A}
    BY <2>1, <2>2, <1>3, <1>7
  <2>4. nc[u] \in Seq(Nat)
    BY <1>1
  <2>5. \A i \in DOMAIN nc[u] : nc[u][i] \in ToSet(nc[u])
    BY DEF ToSet
  <2>6. \A i \in DOMAIN nc[u] : nc[u][i] \in 1..m
    BY <2>3, <2>5
  <2>7. nc[u] \in Seq(1..m)
    BY <2>4, <2>6, SeqInto
  <2> QED BY <2>3, <2>7
<1>16. nc \in [Nodes -> Seq(1..m)]
  BY <1>1, <1>15
<1>17. CurrentOK(acc.edges, acc.current, A)
  BY <1>3, <1>15, <1>16 DEF CurrentOK, m, new, nc
<1> QED BY <1>14, <1>17

\* The loop over all shortcuts.
LEMMA AllAdded ==
  ASSUME NEW A, EdgesOK(edges, numOfOriginalEdges), CurrentOK(edges, currentEdges, A),
         NEW found \in Seq(EdgeRecord)
  PROVE  AddOK(edges, numOfOriginalEdges, currentEdges, found,
               Added([edges |-> edges, current |-> currentEdges], found), Len(found))
<1> DEFINE base == [edges |-> edges, current |-> currentEdges]
           len == Len(found)
<1>1. edges \in Seq(EdgeRecord) /\ numOfOriginalEdges \in 0..Len(edges) /\ Len(edges) \in Nat
  BY DEF EdgesOK
<1>2. currentEdges \in [Nodes -> Seq(Nat)]
  <2>1. currentEdges \in [Nodes -> Seq(1..Len(edges))]
    BY DEF CurrentOK
  <2>2. \A u \in Nodes : currentEdges[u] \in Seq(Nat)
    BY <2>1, <1>1
  <2> QED BY <2>1, <2>2
<1>3. base \in AddRecord /\ base.edges = edges /\ base.current = currentEdges
  BY <1>1, <1>2 DEF AddRecord
<1>4. \A acc \in AddRecord, s \in EdgeRecord : AddShortcut(acc, s) \in AddRecord
  BY AddFields
<1> HIDE DEF base
<1>5. PICK g : /\ g[0] = base
               /\ \A k \in 1..Len(found) : g[k] = AddShortcut(g[k - 1], found[k])
               /\ Added(base, found) = g[Len(found)]
  BY <1>3, <1>4, AddTurns, ZenonT(60)
<1>6. len \in Nat
  OBVIOUS
<1> DEFINE Good == {k \in 0..len :
                      AddOK(edges, numOfOriginalEdges, currentEdges, found, g[k], k)}
<1>7. 0 \in Good
  <2>1. (Len(edges) + 1)..Len(edges) = {}
    BY <1>1
  <2>2. \A u \in Nodes : \A i, j \in DOMAIN currentEdges[u] :
          currentEdges[u][i] = currentEdges[u][j] => i = j
    BY DEF CurrentOK
  <2>3. Len(edges) <= Len(edges)
    BY <1>1
  <2>4. AddOK(edges, numOfOriginalEdges, currentEdges, found, base, 0)
    BY <2>1, <2>2, <2>3, <1>3 DEF AddOK
  <2> QED BY <2>4, <1>5, <1>6
<1>8. ASSUME NEW k \in 1..len, k - 1 \in Good PROVE k \in Good
  <2>1. AddOK(edges, numOfOriginalEdges, currentEdges, found, g[k - 1], k - 1)
    BY <1>8
  <2>2. AddOK(edges, numOfOriginalEdges, currentEdges, found, AddShortcut(g[k - 1], found[k]), k)
    BY <2>1, AddOne
  <2> QED BY <2>2, <1>5, <1>6
<1> HIDE DEF Good
<1>9. 0..len \subseteq Good
  BY <1>6, <1>7, <1>8, IntervalInduction
<1>10. AddOK(edges, numOfOriginalEdges, currentEdges, found, g[len], len)
  BY <1>6, <1>9 DEF Good
<1> QED BY <1>5, <1>10 DEF base

\* AddAllShortcuts: the two directions of every shortcut are added.
LEMMA AddKeeps ==
  ASSUME CHInv, AddAllShortcuts
  PROVE  CHInv'
<1> DEFINE acc == Added([edges |-> edges, current |-> currentEdges], FoundSeq)
           orig == numOfOriginalEdges
<1>1. /\ phase = "search" /\ \A t \in Threads : todo[t] = <<>>
      /\ edges' = acc.edges /\ currentEdges' = acc.current
      /\ shortcuts' = [t \in Threads |-> <<>>] /\ phase' = "remove"
      /\ orig' = orig /\ levels' = levels /\ calcOrder' = calcOrder
      /\ nodesToCalc' = nodesToCalc /\ todo' = todo /\ nbr' = nbr /\ search' = search
  BY DEF AddAllShortcuts, FoundSeq, Added
<1> HIDE DEF acc
<1>2. /\ EdgesOK(edges, orig) /\ CurrentOK(edges, currentEdges, Alive)
      /\ LevelsOK /\ LevelsAreIndependent /\ ShortcutsUnpack
      /\ calcOrder \in Orders /\ todo \in [Threads -> Seq(Nodes)]
      /\ nbr \in [Threads -> Nat \ {0}] /\ DOMAIN search = Threads
  BY DEF CHInv
<1>3. Level \in SUBSET Nodes
  BY <1>2 DEF LevelsOK, Level, ToSet
<1>4. FoundAll(edges, currentEdges, Level, FoundSeq)
  BY <1>1, FoundFacts
<1>5. FoundSeq \in Seq(EdgeRecord)
  BY <1>4 DEF FoundAll
<1>6. AddOK(edges, orig, currentEdges, FoundSeq, acc, Len(FoundSeq))
  BY <1>2, <1>5, AllAdded DEF acc
<1>7. EdgesOK(acc.edges, orig) /\ CurrentOK(acc.edges, acc.current, Alive)
  BY <1>2, <1>3, <1>4, <1>6, AddedOK
<1>8. Level' = Level /\ Alive' = Alive /\ LevelsOK'
  BY <1>1, <1>2 DEF Level, Alive, Contracted, LevelsOK
<1> DEFINE n == Len(edges)  m == Len(acc.edges)  new == acc.edges
<1>9. /\ n \in Nat /\ m \in Nat /\ n <= m /\ orig \in 0..n
      /\ edges \in Seq(EdgeRecord) /\ new \in Seq(EdgeRecord)
      /\ \A e \in 1..n : new[e] = edges[e]
  <2>1. edges \in Seq(EdgeRecord) /\ new \in Seq(EdgeRecord) /\ orig \in 0..n
    BY <1>2, <1>7 DEF EdgesOK
  <2> QED BY <2>1, <1>6 DEF AddOK
<1>10. ASSUME NEW e \in (n + 1)..m PROVE FoundOK(edges, currentEdges, Level, new[e])
  <2>1. PICK j \in 1..Len(FoundSeq) : new[e] = FoundSeq[j]
    BY <1>6 DEF AddOK
  <2> QED BY <2>1, <1>4 DEF FoundAll
<1>11. \A a \in Alive \ Level : levels[a] = -1
  BY DEF Alive, Contracted
<1> HIDE DEF n, m, new
<1>12. /\ \A e \in 1..m : e \in 1..n \/ e \in (n + 1)..m
       /\ \A e \in (n + 1)..m : \A i \in 1..n : i \in 1..(e - 1)
  BY <1>9
<1>13. LevelsAreIndependent'
  <2>1. SUFFICES ASSUME NEW e \in 1..m, levels[new[e].start] # -1
                 PROVE  levels[new[e].start] # levels[new[e].dest]
    BY <1>1 DEF LevelsAreIndependent, EdgeIds, m, new
  <2>2. CASE e \in 1..n
    BY <2>1, <2>2, <1>2, <1>9 DEF LevelsAreIndependent, EdgeIds, n
  <2>3. CASE e \in (n + 1)..m
    <3>1. new[e].start \in Alive \ Level
      BY <2>3, <1>2, <1>3, <1>10, FoundLinks
    <3> QED BY <3>1, <2>1, <1>11
  <2> QED BY <2>2, <2>3, <1>12
<1>14. ShortcutsUnpack'
  <2>1. SUFFICES ASSUME NEW e \in 1..m, e > orig
                 PROVE  LET first  == new[new[e].parts[2]]
                            second == new[new[e].parts[1]]
                        IN  /\ \A i \in {1, 2} : new[e].parts[i] \in 1..(e - 1)
                            /\ first.start = new[e].start /\ second.dest = new[e].dest
                            /\ first.dest = second.start
                            /\ first.dist + second.dist = new[e].dist
                            /\ levels[first.dest] # -1
                            /\ \A a \in {new[e].start, new[e].dest} :
                                 levels[a] = -1 \/ levels[a] > levels[first.dest]
    BY <1>1 DEF ShortcutsUnpack, getFirstShortcut, getSecondShortcut, EdgeIds, m, new
  <2> DEFINE first  == new[new[e].parts[2]]
             second == new[new[e].parts[1]]
  <2>2. CASE e \in 1..n
    <3>1. /\ \A i \in {1, 2} : edges[e].parts[i] \in 1..(e - 1)
          /\ edges[edges[e].parts[2]].start = edges[e].start
          /\ edges[edges[e].parts[1]].dest = edges[e].dest
          /\ edges[edges[e].parts[2]].dest = edges[edges[e].parts[1]].start
          /\ edges[edges[e].parts[2]].dist + edges[edges[e].parts[1]].dist = edges[e].dist
          /\ levels[edges[edges[e].parts[2]].dest] # -1
          /\ \A a \in {edges[e].start, edges[e].dest} :
               levels[a] = -1 \/ levels[a] > levels[edges[edges[e].parts[2]].dest]
      BY <2>1, <2>2, <1>2 DEF ShortcutsUnpack, getFirstShortcut, getSecondShortcut, EdgeIds, n
    <3>2. new[e] = edges[e]
      BY <2>2, <1>9
    <3>3. \A i \in 1..(e - 1) : new[i] = edges[i]
      <4>1. \A i \in 1..(e - 1) : i \in 1..n
        BY <2>2, <1>9
      <4> QED BY <4>1, <1>9
    <3>4. new[edges[e].parts[2]] = edges[edges[e].parts[2]]
      BY <3>1, <3>3
    <3>5. new[edges[e].parts[1]] = edges[edges[e].parts[1]]
      BY <3>1, <3>3
    <3> QED BY <3>1, <3>2, <3>4, <3>5
  <2>3. CASE e \in (n + 1)..m
    <3> DEFINE s == new[e]
    <3>1. /\ s.start \in Alive \ Level /\ s.dest \in Alive \ Level
          /\ s.parts[1] \in 1..n /\ s.parts[2] \in 1..n
          /\ \E x \in Level :
               /\ edges[s.parts[2]].start = s.start /\ edges[s.parts[2]].dest = x
               /\ edges[s.parts[1]].start = x /\ edges[s.parts[1]].dest = s.dest
               /\ edges[s.parts[2]].dist + edges[s.parts[1]].dist = s.dist
      BY <2>3, <1>2, <1>3, <1>10, FoundLinks DEF n
    <3>2. PICK x \in Level :
               /\ edges[s.parts[2]].start = s.start /\ edges[s.parts[2]].dest = x
               /\ edges[s.parts[1]].start = x /\ edges[s.parts[1]].dest = s.dest
               /\ edges[s.parts[2]].dist + edges[s.parts[1]].dist = s.dist
      BY <3>1
    <3>3. new[s.parts[1]] = edges[s.parts[1]] /\ new[s.parts[2]] = edges[s.parts[2]]
      BY <3>1, <1>9
    <3>4. s.parts[1] \in 1..(e - 1) /\ s.parts[2] \in 1..(e - 1)
      BY <3>1, <2>3, <1>12
    <3>5. levels[x] # -1
      BY <1>2 DEF LevelsOK, Contracted
    <3>6. levels[s.start] = -1 /\ levels[s.dest] = -1
      BY <3>1, <1>11
    <3> HIDE DEF s
    <3>7. /\ \A i \in {1, 2} : s.parts[i] \in 1..(e - 1)
          /\ new[s.parts[2]].start = s.start /\ new[s.parts[1]].dest = s.dest
          /\ new[s.parts[2]].dest = new[s.parts[1]].start
          /\ new[s.parts[2]].dist + new[s.parts[1]].dist = s.dist
          /\ levels[new[s.parts[2]].dest] # -1
          /\ \A a \in {s.start, s.dest} : levels[a] = -1
      BY <3>2, <3>3, <3>4, <3>5, <3>6
    <3> QED BY <3>7 DEF s
  <2> QED BY <2>2, <2>3, <1>12
<1>15. ASSUME NEW t \in Threads PROVE ThreadInv(t)'
  <2>1. nbr[t] = 1 /\ search[t] = NoSearch /\ todo[t] = <<>>
    BY <1>1 DEF CHInv, ThreadInv, ThreadOK
  <2>2. ThreadOK(edges', currentEdges', Level', <<>>, 1, NoSearch, <<>>)
    BY DEF ThreadOK
  <2>3. todo'[t] = <<>> /\ nbr'[t] = 1 /\ search'[t] = NoSearch /\ shortcuts'[t] = <<>>
    BY <2>1, <1>1
  <2> QED BY <2>2, <2>3 DEF ThreadInv
<1>16. EdgesOK(edges, numOfOriginalEdges)' /\ CurrentOK(edges, currentEdges, Alive)'
  BY <1>1, <1>7, <1>8
<1>17. /\ todo' \in [Threads -> Seq(Nodes)] /\ nbr' \in [Threads -> Nat \ {0}]
       /\ DOMAIN search' = Threads /\ DOMAIN shortcuts' = Threads
       /\ \A t \in Threads : todo'[t] = <<>> /\ shortcuts'[t] = <<>>
  BY <1>1, <1>2
<1> QED BY <1>1, <1>2, <1>8, <1>13, <1>14, <1>15, <1>16, <1>17 DEF CHInv
------------------------------------------------------------------------------
\* Taking the level out.

\* The ids of the edges of es from u to v.
Links(es, u, v) == {e \in 1..Len(es) : es[e].start = u /\ es[e].dest = v}

\* There are as many edges from one node to another as back.
LEMMA LinksBalanced ==
  ASSUME NEW es, NEW orig, EdgesOK(es, orig), NEW u \in Nodes, NEW v \in Nodes
  PROVE  /\ IsFiniteSet(Links(es, u, v))
         /\ Cardinality(Links(es, u, v)) = Cardinality(Links(es, v, u))
<1>1. es \in Seq(EdgeRecord)
  BY DEF EdgesOK
<1> DEFINE from == Links(es, u, v)  to == Links(es, v, u)
           match == [d \in Nat |-> CHOOSE f : Matches(f, Ids(es, u, v, d), Ids(es, v, u, d))]
           F == [e \in from |-> match[es[e].dist][e]]
<1>2. ASSUME NEW d \in Nat PROVE \E f : Matches(f, Ids(es, u, v, d), Ids(es, v, u, d))
  <2>1. Cardinality(Ids(es, u, v, d)) = Cardinality(Ids(es, v, u, d))
    BY DEF EdgesOK
  <2>2. IsFiniteSet(Ids(es, u, v, d)) /\ IsFiniteSet(Ids(es, v, u, d))
    BY <1>1, IdsFinite
  <2> QED BY <2>1, <2>2, Matching
<1>3. \A d \in Nat : Matches(match[d], Ids(es, u, v, d), Ids(es, v, u, d))
  BY <1>2
<1>4. ASSUME NEW d \in Nat
      PROVE  /\ match[d] \in [Ids(es, u, v, d) -> Ids(es, v, u, d)]
             /\ \A a, b \in Ids(es, u, v, d) : match[d][a] = match[d][b] => a = b
             /\ \A c \in Ids(es, v, u, d) : \E a \in Ids(es, u, v, d) : match[d][a] = c
  BY <1>3 DEF Matches
<1> HIDE DEF match
<1>5. /\ \A e \in from : es[e].dist \in Nat /\ e \in Ids(es, u, v, es[e].dist)
      /\ \A e \in to : es[e].dist \in Nat /\ e \in Ids(es, v, u, es[e].dist)
  BY <1>1, EdgeFields DEF Links, Ids
<1>6. \A d \in Nat : /\ \A e \in Ids(es, u, v, d) : e \in from /\ es[e].dist = d
                     /\ \A e \in Ids(es, v, u, d) : e \in to /\ es[e].dist = d
  BY DEF Links, Ids
<1>7. \A e \in from : F[e] \in to /\ es[F[e]].dist = es[e].dist
  BY <1>4, <1>5, <1>6
<1>8. \A a, b \in from : F[a] = F[b] => a = b
  BY <1>4, <1>5, <1>6, <1>7
<1>9. \A c \in to : \E a \in from : F[a] = c
  BY <1>4, <1>5, <1>6
<1>10. Matches(F, from, to)
  BY <1>7, <1>8, <1>9 DEF Matches
<1>11. IsFiniteSet(from)
  <2>1. Len(es) \in Nat
    BY <1>1
  <2> DEFINE n == Len(es)
  <2> HIDE DEF n
  <2>2. IsFiniteSet(1..n)
    BY <2>1, FS_Interval DEF n
  <2>3. from \in SUBSET (1..n)
    BY DEF Links, n
  <2> QED BY <2>2, <2>3, FS_Subset
<1> HIDE DEF from, to, F
<1>12. Cardinality(from) = Cardinality(to)
  BY <1>10, <1>11, SameSize
<1> QED BY <1>11, <1>12 DEF from, to

\* A sequence without its p-th element.
LEMMA DropAtFacts ==
  ASSUME NEW T, NEW s \in Seq(T), NEW p \in DOMAIN s
  PROVE  /\ DropAt(s, p) \in Seq(T)
         /\ IsInjective(s) => /\ IsInjective(DropAt(s, p))
                              /\ ToSet(DropAt(s, p)) = ToSet(s) \ {s[p]}
<1> DEFINE n == Len(s)
           r == [s EXCEPT ![p] = s[n]]
           d == [i \in 1..(n - 1) |-> IF i = p THEN s[n] ELSE s[i]]
<1>1. n \in Nat /\ p \in 1..n /\ n \in 1..n /\ DOMAIN s = 1..n /\ \A i \in 1..n : s[i] \in T
  OBVIOUS
<1>2. r \in Seq(T) /\ Len(r) = n /\ \A i \in 1..n : r[i] = IF i = p THEN s[n] ELSE s[i]
  BY <1>1
<1>3. DropAt(s, p) = SubSeq(r, 1, n - 1)
  BY <1>2 DEF DropAt, Front, Last
<1> HIDE DEF r
<1>4. DropAt(s, p) = d
  <2>1. SubSeq(r, 1, n - 1) = [i \in 1..(n - 1) |-> r[i]]
    BY <1>1, <1>2
  <2>2. \A i \in 1..(n - 1) : r[i] = d[i]
    BY <1>1, <1>2
  <2> QED BY <2>1, <2>2, <1>3
<1> HIDE DEF n
<1>5. \A i \in 1..(n - 1) : i \in 1..n /\ i # n /\ d[i] = (IF i = p THEN s[n] ELSE s[i])
  BY <1>1
<1>6. n - 1 \in Nat /\ \A i \in 1..n : i \in 1..(n - 1) \/ i = n
  BY <1>1
<1>7. d \in Seq(T)
  <2>1. d \in [1..(n - 1) -> T]
    BY <1>1, <1>5
  <2> QED BY <2>1, <1>6
<1>8. DOMAIN d = 1..(n - 1)
  OBVIOUS
<1> HIDE DEF d
<1>9. ASSUME IsInjective(s) PROVE IsInjective(d)
  BY <1>1, <1>5, <1>8, <1>9 DEF IsInjective
<1>10. ASSUME IsInjective(s) PROVE ToSet(d) = ToSet(s) \ {s[p]}
  <2>1. \A i, j \in 1..n : s[i] = s[j] => i = j
    BY <1>1, <1>10 DEF IsInjective
  <2>2. ToSet(d) = {d[i] : i \in 1..(n - 1)} /\ ToSet(s) = {s[i] : i \in 1..n}
    BY <1>1, <1>8 DEF ToSet
  <2>3. \A i \in 1..(n - 1) : d[i] \in ToSet(s) /\ d[i] # s[p]
    BY <2>1, <2>2, <1>1, <1>5
  <2>4. ASSUME NEW i \in 1..n, s[i] # s[p] PROVE s[i] \in ToSet(d)
    <3>1. CASE i = n
      <4>1. p \in 1..(n - 1)
        BY <3>1, <2>4, <1>1, <1>6
      <4> QED BY <4>1, <3>1, <2>2, <1>5
    <3>2. CASE i \in 1..(n - 1)
      BY <3>2, <2>2, <2>4, <1>5
    <3> QED BY <3>1, <3>2, <1>6
  <2> QED BY <2>2, <2>3, <2>4
<1> QED BY <1>4, <1>7, <1>9, <1>10

RemoveRecord == [cur : [Nodes -> Seq(1..Len(edges))], crashed : BOOLEAN]

\* removeBackwardsEdge: some edge back is dropped, if there is one.
LEMMA BackFields ==
  ASSUME NEW acc \in RemoveRecord, NEW x \in Nodes, NEW v \in Nodes
  PROVE  LET done == RemoveBackwardsEdge(acc, x, v)
         IN  /\ done \in RemoveRecord
             /\ Backwards(acc.cur, x, v) # {} =>
                  \E p \in Backwards(acc.cur, x, v) :
                    /\ done.cur = [acc.cur EXCEPT ![v] = DropAt(acc.cur[v], p)]
                    /\ done.crashed = acc.crashed
<1> DEFINE done == RemoveBackwardsEdge(acc, x, v)
           places == Backwards(acc.cur, x, v)
           p == CHOOSE i \in places : \A j \in places : i <= j
           rest == DropAt(acc.cur[v], p)
<1>1. acc.cur \in [Nodes -> Seq(1..Len(edges))] /\ acc.crashed \in BOOLEAN
  BY DEF RemoveRecord
<1>2. acc = [cur |-> acc.cur, crashed |-> acc.crashed]
  BY DEF RemoveRecord
<1>3. places \in SUBSET DOMAIN acc.cur[v] /\ places \in SUBSET Nat
  BY <1>1 DEF Backwards
<1>4. CASE places = {}
  <2>1. done = [cur |-> acc.cur, crashed |-> TRUE]
    BY <1>2, <1>4 DEF RemoveBackwardsEdge
  <2> QED BY <2>1, <1>1, <1>4 DEF RemoveRecord
<1>5. CASE places # {}
  <2>1. p \in places
    <3> HIDE DEF places
    <3>1. \E i \in places : \A j \in places : i <= j
      BY <1>3, <1>5, LeastMember
    <3> QED BY <3>1
  <2>2. done = [acc EXCEPT !.cur = [acc.cur EXCEPT ![v] = rest]]
    BY <1>1, <1>5 DEF RemoveBackwardsEdge
  <2> HIDE DEF p
  <2>3. acc.cur[v] \in Seq(1..Len(edges)) /\ p \in DOMAIN acc.cur[v]
    BY <2>1, <1>1, <1>3
  <2>4. rest \in Seq(1..Len(edges))
    BY <2>3, DropAtFacts
  <2> HIDE DEF rest
  <2> DEFINE c == [acc.cur EXCEPT ![v] = rest]
  <2>5. c \in [Nodes -> Seq(1..Len(edges))]
    BY <2>4, <1>1
  <2> HIDE DEF c
  <2>6. done = [cur |-> c, crashed |-> acc.crashed]
    BY <2>2, <1>2 DEF c
  <2>7. done \in RemoveRecord /\ done.cur = c /\ done.crashed = acc.crashed
    BY <2>5, <2>6, <1>1 DEF RemoveRecord
  <2>8. p \in places /\ done.cur = [acc.cur EXCEPT ![v] = DropAt(acc.cur[v], p)]
    BY <2>1, <2>7 DEF c, rest
  <2> HIDE DEF done, places
  <2>9. \E i \in places : /\ done.cur = [acc.cur EXCEPT ![v] = DropAt(acc.cur[v], i)]
                         /\ done.crashed = acc.crashed
    BY <2>7, <2>8
  <2> QED BY <2>7, <2>9 DEF done, places
<1> QED BY <1>4, <1>5

\* The loop over the neighbours stays among these records.
LEMMA BackType ==
  ASSUME edges \in Seq(EdgeRecord), NEW x \in Nodes
  PROVE  BackClosed(RemoveRecord, 1..Len(edges), x)
<1>1. \A e \in 1..Len(edges) : edges[e].dest \in Nodes
  BY EdgeFields
<1>2. \A acc \in RemoveRecord, v \in Nodes : RemoveBackwardsEdge(acc, x, v) \in RemoveRecord
  BY BackFields
<1> QED BY <1>1, <1>2 DEF BackClosed

\* removeNode: the loop, and then the node's own edges.
LEMMA RemoveFields ==
  ASSUME edges \in Seq(EdgeRecord), NEW acc \in RemoveRecord, NEW x \in Nodes
  PROVE  LET done == BackGone(acc, acc.cur[x], x)
         IN  /\ RemoveNode(acc, x) \in RemoveRecord
             /\ RemoveNode(acc, x).cur = [done.cur EXCEPT ![x] = <<>>]
             /\ RemoveNode(acc, x).crashed = done.crashed
<1> DEFINE done == BackGone(acc, acc.cur[x], x)
           seq == acc.cur[x]
<1>1. seq \in Seq(1..Len(edges))
  BY DEF RemoveRecord
<1>2. BackClosed(RemoveRecord, 1..Len(edges), x)
  BY BackType
<1> DEFINE T == 1..Len(edges)
<1>3. seq \in Seq(T) /\ BackClosed(RemoveRecord, T, x)
  BY <1>1, <1>2
<1> HIDE DEF T, seq
<1>4. PICK g : /\ g[0] = acc
               /\ \A k \in 1..Len(seq) : g[k] = RemoveBackwardsEdge(g[k - 1], x, edges[seq[k]].dest)
               /\ BackGone(acc, seq, x) = g[Len(seq)]
  BY <1>3, BackTurns
<1>5. Len(seq) \in Nat /\ \A k \in 1..Len(seq) : seq[k] \in T
  BY <1>3
<1> DEFINE n == Len(seq)
           Good == {k \in 0..n : g[k] \in RemoveRecord}
<1> HIDE DEF n
<1>6. n \in Nat
  BY <1>5 DEF n
<1>7. 0 \in Good
  BY <1>4, <1>6
<1>8. ASSUME NEW k \in 1..n, k - 1 \in Good PROVE k \in Good
  <2>1. g[k - 1] \in RemoveRecord /\ seq[k] \in T
    BY <1>5, <1>8 DEF n
  <2>2. g[k] = RemoveBackwardsEdge(g[k - 1], x, edges[seq[k]].dest)
    BY <1>4 DEF n
  <2>3. g[k] \in RemoveRecord
    BY <2>1, <2>2, <1>3 DEF BackClosed
  <2> QED BY <2>3, <1>6
<1> HIDE DEF Good
<1>9. 0..n \subseteq Good
  BY <1>6, <1>7, <1>8, IntervalInduction
<1>10. done \in RemoveRecord
  BY <1>4, <1>6, <1>9 DEF Good, n, seq
<1>11. RemoveNode(acc, x) = [done EXCEPT !.cur[x] = <<>>]
  BY DEF RemoveNode, BackGone
<1> HIDE DEF done
<1>12. done.cur \in [Nodes -> Seq(1..Len(edges))] /\ done.crashed \in BOOLEAN
       /\ done = [cur |-> done.cur, crashed |-> done.crashed]
  BY <1>10 DEF RemoveRecord
<1> DEFINE c == [done.cur EXCEPT ![x] = <<>>]
<1>13. c \in [Nodes -> Seq(1..Len(edges))]
  BY <1>12
<1>14. RemoveNode(acc, x) = [cur |-> c, crashed |-> done.crashed]
  BY <1>11, <1>12
<1> HIDE DEF c
<1>15. /\ RemoveNode(acc, x) \in RemoveRecord
       /\ RemoveNode(acc, x).cur = c /\ RemoveNode(acc, x).crashed = done.crashed
  BY <1>12, <1>13, <1>14 DEF RemoveRecord
<1> QED BY <1>15 DEF c, done

\* The edges to x in a node's list, and the places after the k-th of x's
\* list where an edge to u is.
LinksTo(list, x) == {e \in ToSet(list) : edges[e].dest = x}
Ahead(seq, k, u) == {i \in (k + 1)..Len(seq) : edges[seq[i]].dest = u}

\* After k turns of the loop over the neighbours of x.
BackOK(cur0, x, acc, k) ==
  /\ acc \in RemoveRecord /\ ~acc.crashed
  /\ acc.cur[x] = cur0[x]
  /\ \A u \in Nodes : /\ IsInjective(acc.cur[u])
                      /\ ToSet(acc.cur[u]) \subseteq ToSet(cur0[u])
                      /\ \A e \in ToSet(cur0[u]) : edges[e].dest # x => e \in ToSet(acc.cur[u])
  /\ \A u \in Nodes : u # x =>
       Cardinality(LinksTo(acc.cur[u], x)) = Cardinality(Ahead(cur0[x], k, u))

\* Sets of this kind are finite.
LEMMA BackFinite ==
  ASSUME edges \in Seq(EdgeRecord), NEW s \in Seq(1..Len(edges)), NEW x, NEW k \in Nat
  PROVE  /\ IsFiniteSet(LinksTo(s, x)) /\ Cardinality(LinksTo(s, x)) \in Nat
         /\ IsFiniteSet(Ahead(s, k, x)) /\ Cardinality(Ahead(s, k, x)) \in Nat
<1> DEFINE n == Len(edges)  m == Len(s)
<1>1. n \in Nat /\ m \in Nat
  OBVIOUS
<1>2. LinksTo(s, x) \in SUBSET (1..n)
  BY DEF LinksTo, ToSet
<1>3. Ahead(s, k, x) \in SUBSET ((k + 1)..m)
  BY DEF Ahead
<1> HIDE DEF n, m
<1>4. IsFiniteSet(1..n) /\ IsFiniteSet((k + 1)..m)
  BY <1>1, FS_Interval
<1>5. IsFiniteSet(LinksTo(s, x)) /\ IsFiniteSet(Ahead(s, k, x))
  BY <1>2, <1>3, <1>4, FS_Subset
<1> QED BY <1>5, FS_CardinalityType

\* One turn of the loop over the neighbours of x: there is an edge back.
LEMMA BackOne ==
  ASSUME edges \in Seq(EdgeRecord), NEW cur0 \in [Nodes -> Seq(1..Len(edges))], NEW x \in Nodes,
         \A e \in ToSet(cur0[x]) : edges[e].dest # x,
         NEW k \in 1..Len(cur0[x]), NEW acc, BackOK(cur0, x, acc, k - 1)
  PROVE  BackOK(cur0, x, RemoveBackwardsEdge(acc, x, edges[cur0[x][k]].dest), k)
<1> DEFINE seq == cur0[x]
           v == edges[seq[k]].dest
           done == RemoveBackwardsEdge(acc, x, v)
           places == Backwards(acc.cur, x, v)
<1>1. seq \in Seq(1..Len(edges)) /\ Len(seq) \in Nat /\ k \in Nat /\ k - 1 \in Nat
  OBVIOUS
<1>2. seq[k] \in 1..Len(edges) /\ seq[k] \in ToSet(seq)
  BY DEF ToSet
<1>3. v \in Nodes /\ v # x
  BY <1>2, EdgeFields
<1>4. /\ acc \in RemoveRecord /\ ~acc.crashed /\ acc.cur[x] = seq
      /\ acc.cur \in [Nodes -> Seq(1..Len(edges))]
  BY DEF BackOK, RemoveRecord
<1>5. ASSUME NEW u \in Nodes
      PROVE  /\ IsFiniteSet(Ahead(seq, k - 1, u))
             /\ k \in Ahead(seq, k - 1, u) <=> u = v
             /\ Ahead(seq, k, u) = Ahead(seq, k - 1, u) \ {k}
  <2>1. IsFiniteSet(Ahead(seq, k - 1, u))
    BY <1>1, BackFinite
  <2>2. k \in Ahead(seq, k - 1, u) <=> u = v
    <3>1. k \in ((k - 1) + 1)..Len(seq)
      BY <1>1
    <3> QED BY <3>1 DEF Ahead
  <2>3. Ahead(seq, k, u) = Ahead(seq, k - 1, u) \ {k}
    <3> DEFINE n == Len(seq)
    <3> HIDE DEF n
    <3>1. (k + 1)..n = (((k - 1) + 1)..n) \ {k}
      BY <1>1 DEF n
    <3> QED BY <3>1 DEF Ahead, n
  <2> QED BY <2>1, <2>2, <2>3
<1> HIDE DEF v, seq
<1>6. IsFiniteSet(LinksTo(acc.cur[v], x)) /\ IsInjective(acc.cur[v]) /\ acc.cur[v] \in Seq(1..Len(edges))
  <2>1. acc.cur[v] \in Seq(1..Len(edges))
    BY <1>3, <1>4
  <2>2. IsFiniteSet(LinksTo(acc.cur[v], x))
    BY <2>1, <1>1, BackFinite
  <2> QED BY <2>1, <2>2, <1>3 DEF BackOK
<1>7. Cardinality(LinksTo(acc.cur[v], x)) = Cardinality(Ahead(seq, k - 1, v))
  BY <1>3 DEF BackOK, seq
<1>8. Cardinality(Ahead(seq, k - 1, v)) # 0
  BY <1>3, <1>5, FS_EmptySet
<1>9. LinksTo(acc.cur[v], x) # {}
  BY <1>7, <1>8, FS_EmptySet
<1>10. places # {}
  <2>1. PICK e \in ToSet(acc.cur[v]) : edges[e].dest = x
    BY <1>9 DEF LinksTo
  <2>2. PICK i \in DOMAIN acc.cur[v] : acc.cur[v][i] = e
    BY DEF ToSet
  <2> QED BY <2>1, <2>2 DEF Backwards
<1>11. done \in RemoveRecord
  BY <1>3, <1>4, BackFields
<1>12. PICK p \in places : /\ done.cur = [acc.cur EXCEPT ![v] = DropAt(acc.cur[v], p)]
                           /\ done.crashed = acc.crashed
  BY <1>3, <1>4, <1>10, BackFields
<1>13. p \in DOMAIN acc.cur[v] /\ edges[acc.cur[v][p]].dest = x
  BY <1>12 DEF Backwards
<1> DEFINE gone == acc.cur[v][p]
           rest == DropAt(acc.cur[v], p)
<1>14. IsInjective(rest) /\ ToSet(rest) = ToSet(acc.cur[v]) \ {gone} /\ gone \in ToSet(acc.cur[v])
  <2>1. IsInjective(rest) /\ ToSet(rest) = ToSet(acc.cur[v]) \ {gone}
    BY <1>6, <1>13, DropAtFacts
  <2> QED BY <2>1, <1>13 DEF ToSet
<1> HIDE DEF done, places, rest
<1>15. /\ done.cur[v] = rest
       /\ \A u \in Nodes : u # v => done.cur[u] = acc.cur[u]
  BY <1>3, <1>4, <1>12 DEF rest
<1>16. edges[gone].dest = x
  BY <1>13
<1> HIDE DEF gone
<1>17. ASSUME NEW u \in Nodes
       PROVE  /\ IsInjective(done.cur[u])
              /\ ToSet(done.cur[u]) \subseteq ToSet(cur0[u])
              /\ \A e \in ToSet(cur0[u]) : edges[e].dest # x => e \in ToSet(done.cur[u])
  <2>1. /\ IsInjective(acc.cur[u]) /\ ToSet(acc.cur[u]) \subseteq ToSet(cur0[u])
        /\ \A e \in ToSet(cur0[u]) : edges[e].dest # x => e \in ToSet(acc.cur[u])
    BY DEF BackOK
  <2>2. CASE u = v
    BY <2>1, <2>2, <1>14, <1>15, <1>16
  <2>3. CASE u # v
    BY <2>1, <2>3, <1>15
  <2> QED BY <2>2, <2>3
<1>18. ASSUME NEW u \in Nodes, u # x
       PROVE  Cardinality(LinksTo(done.cur[u], x)) = Cardinality(Ahead(seq, k, u))
  <2>1. Cardinality(LinksTo(acc.cur[u], x)) = Cardinality(Ahead(seq, k - 1, u))
    BY <1>18 DEF BackOK, seq
  <2>2. CASE u # v
    <3>1. Ahead(seq, k, u) = Ahead(seq, k - 1, u)
      BY <2>2, <1>5
    <3> QED BY <3>1, <2>1, <2>2, <1>15
  <2>3. CASE u = v
    <3>1. LinksTo(rest, x) = LinksTo(acc.cur[v], x) \ {gone} /\ gone \in LinksTo(acc.cur[v], x)
      BY <1>14, <1>16 DEF LinksTo
    <3>2. Cardinality(LinksTo(rest, x)) = Cardinality(LinksTo(acc.cur[v], x)) - 1
      BY <3>1, <1>6, OneLess
    <3>3. Cardinality(Ahead(seq, k, v)) = Cardinality(Ahead(seq, k - 1, v)) - 1
      BY <1>3, <1>5, OneLess
    <3> QED BY <3>2, <3>3, <2>3, <1>7, <1>15
  <2> QED BY <2>2, <2>3
<1>19. ~done.crashed /\ done.cur[x] = cur0[x]
  BY <1>3, <1>4, <1>12, <1>15 DEF seq
<1>20. BackOK(cur0, x, done, k)
  BY <1>11, <1>17, <1>18, <1>19 DEF BackOK, seq
<1> QED BY <1>20 DEF done, v, seq

\* Before the loop: a node has as many edges to x as x has to the node.
LEMMA BackStart ==
  ASSUME NEW orig, EdgesOK(edges, orig), NEW acc \in RemoveRecord, ~acc.crashed,
         NEW A, CurrentOK(edges, acc.cur, A), NEW x \in Nodes, x \in A
  PROVE  BackOK(acc.cur, x, acc, 0)
<1> DEFINE cur == acc.cur  seq == acc.cur[x]
<1>1. cur \in [Nodes -> Seq(1..Len(edges))] /\ seq \in Seq(1..Len(edges))
  BY DEF RemoveRecord
<1>2. \A u \in Nodes : IsInjective(cur[u])
  BY DEF CurrentOK, IsInjective
<1>3. \A u \in Nodes : \A e : e \in ToSet(cur[u]) <=>
        e \in 1..Len(edges) /\ u \in A /\ edges[e].start = u /\ edges[e].dest \in A
  BY DEF CurrentOK
<1>4. edges \in Seq(EdgeRecord)
  BY DEF EdgesOK
<1>5. ASSUME NEW u \in Nodes
      PROVE  Cardinality(LinksTo(cur[u], x)) = Cardinality(Ahead(seq, 0, u))
  <2> DEFINE places == Ahead(seq, 0, u)
             F == [i \in places |-> seq[i]]
  <2>1. places = {i \in DOMAIN seq : edges[seq[i]].dest = u}
    <3>1. DOMAIN seq = (0 + 1)..Len(seq)
      BY <1>1
    <3> QED BY <3>1 DEF Ahead
  <2>2. Matches(F, places, LinksTo(seq, u))
    <3>1. \A i \in places : F[i] \in LinksTo(seq, u)
      BY <2>1 DEF LinksTo, ToSet
    <3>2. \A a, b \in places : F[a] = F[b] => a = b
      BY <2>1, <1>2 DEF IsInjective
    <3>3. \A c \in LinksTo(seq, u) : \E a \in places : F[a] = c
      BY <2>1 DEF LinksTo, ToSet
    <3> QED BY <3>1, <3>2, <3>3 DEF Matches
  <2>3. IsFiniteSet(places)
    BY <1>1, <1>4, BackFinite
  <2> HIDE DEF places, F
  <2>4. Cardinality(places) = Cardinality(LinksTo(seq, u))
    BY <2>2, <2>3, SameSize
  <2>5. CASE u \in A
    <3>1. LinksTo(seq, u) = Links(edges, x, u) /\ LinksTo(cur[u], x) = Links(edges, u, x)
      BY <2>5, <1>3 DEF LinksTo, Links
    <3>2. Cardinality(Links(edges, x, u)) = Cardinality(Links(edges, u, x))
      BY LinksBalanced
    <3> QED BY <3>1, <3>2, <2>4 DEF places
  <2>6. CASE u \notin A
    <3>1. LinksTo(seq, u) = {} /\ LinksTo(cur[u], x) = {}
      BY <2>6, <1>3 DEF LinksTo
    <3> QED BY <3>1, <2>4 DEF places
  <2> QED BY <2>5, <2>6
<1> QED BY <1>2, <1>5 DEF BackOK

\* removeNode takes a node of the remaining graph out, and with it exactly
\* its edges and the edges back.
LEMMA RemoveOne ==
  ASSUME NEW orig, EdgesOK(edges, orig), NEW acc \in RemoveRecord, ~acc.crashed,
         NEW A, CurrentOK(edges, acc.cur, A), NEW x \in Nodes, x \in A
  PROVE  /\ RemoveNode(acc, x) \in RemoveRecord /\ ~RemoveNode(acc, x).crashed
         /\ CurrentOK(edges, RemoveNode(acc, x).cur, A \ {x})
<1> DEFINE cur == acc.cur
           seq == acc.cur[x]
           n == Len(seq)
           T == 1..Len(edges)
           done == BackGone(acc, seq, x)
           after == RemoveNode(acc, x)
<1>1. edges \in Seq(EdgeRecord)
  BY DEF EdgesOK
<1>2. cur \in [Nodes -> Seq(1..Len(edges))] /\ seq \in Seq(T) /\ n \in Nat
  BY DEF RemoveRecord
<1>3. BackClosed(RemoveRecord, T, x)
  BY <1>1, BackType
<1>4. after \in RemoveRecord /\ after.cur = [done.cur EXCEPT ![x] = <<>>] /\ after.crashed = done.crashed
  BY <1>1, RemoveFields
<1>5. \A e \in ToSet(seq) : edges[e].dest # x
  BY LinkFacts
<1>6. BackOK(cur, x, acc, 0)
  BY BackStart
<1> HIDE DEF T
<1>7. PICK g : /\ g[0] = acc
               /\ \A k \in 1..Len(seq) : g[k] = RemoveBackwardsEdge(g[k - 1], x, edges[seq[k]].dest)
               /\ BackGone(acc, seq, x) = g[Len(seq)]
  <2> HIDE DEF seq
  <2> QED BY <1>2, <1>3, BackTurns
<1> DEFINE Good == {k \in 0..n : BackOK(cur, x, g[k], k)}
<1>8. 0 \in Good
  BY <1>2, <1>6, <1>7
<1>9. ASSUME NEW k \in 1..n, k - 1 \in Good PROVE k \in Good
  <2>1. BackOK(cur, x, g[k - 1], k - 1)
    BY <1>9
  <2>2. BackOK(cur, x, RemoveBackwardsEdge(g[k - 1], x, edges[seq[k]].dest), k)
    BY <2>1, <1>1, <1>2, <1>5, BackOne
  <2> QED BY <2>2, <1>2, <1>7
<1> HIDE DEF Good
<1>10. 0..n \subseteq Good
  BY <1>2, <1>8, <1>9, IntervalInduction
<1>11. BackOK(cur, x, done, n)
  BY <1>2, <1>7, <1>10 DEF Good
<1>12. ~done.crashed /\ done.cur \in [Nodes -> Seq(1..Len(edges))]
  BY <1>11 DEF BackOK, RemoveRecord
<1> HIDE DEF done, after, cur, seq, n
<1>13. after.cur[x] = <<>> /\ \A u \in Nodes : u # x => after.cur[u] = done.cur[u]
  BY <1>4, <1>12
<1>14. \A u \in Nodes : \A e : e \in ToSet(cur[u]) <=>
         e \in 1..Len(edges) /\ u \in A /\ edges[e].start = u /\ edges[e].dest \in A
  BY DEF CurrentOK, cur
<1>15. ASSUME NEW u \in Nodes, u # x
       PROVE  /\ \A i, j \in DOMAIN after.cur[u] : after.cur[u][i] = after.cur[u][j] => i = j
              /\ ToSet(after.cur[u]) = {e \in ToSet(cur[u]) : edges[e].dest # x}
  <2>1. after.cur[u] = done.cur[u] /\ IsInjective(done.cur[u])
    BY <1>11, <1>13, <1>15 DEF BackOK
  <2>2. LinksTo(done.cur[u], x) = {}
    <3>1. Ahead(cur[x], n, u) = {}
      BY <1>2 DEF Ahead, n, seq, cur
    <3>2. Cardinality(LinksTo(done.cur[u], x)) = 0
      BY <3>1, <1>11, <1>15, FS_EmptySet DEF BackOK
    <3>3. IsFiniteSet(LinksTo(done.cur[u], x))
      <4>1. done.cur[u] \in Seq(1..Len(edges))
        BY <1>12
      <4> QED BY <4>1, <1>1, BackFinite
    <3> QED BY <3>2, <3>3, FS_EmptySet
  <2>3. ToSet(done.cur[u]) = {e \in ToSet(cur[u]) : edges[e].dest # x}
    BY <2>2, <1>11 DEF BackOK, LinksTo
  <2> QED BY <2>1, <2>3 DEF IsInjective
<1>16. ASSUME NEW u \in Nodes
       PROVE  /\ \A i, j \in DOMAIN after.cur[u] : after.cur[u][i] = after.cur[u][j] => i = j
              /\ ToSet(after.cur[u]) = {e \in 1..Len(edges) : /\ u \in A \ {x} /\ edges[e].start = u
                                                              /\ edges[e].dest \in A \ {x}}
  <2>1. CASE u = x
    <3>1. ToSet(after.cur[u]) = {} /\ DOMAIN after.cur[u] = {}
      BY <2>1, <1>13 DEF ToSet
    <3> QED BY <3>1, <2>1
  <2>2. CASE u # x
    <3>1. /\ \A i, j \in DOMAIN after.cur[u] : after.cur[u][i] = after.cur[u][j] => i = j
          /\ ToSet(after.cur[u]) = {e \in ToSet(cur[u]) : edges[e].dest # x}
      BY <2>2, <1>15
    <3> QED BY <3>1, <2>2, <1>14
  <2> QED BY <2>1, <2>2
<1>17. after.cur \in [Nodes -> Seq(1..Len(edges))]
  BY <1>4 DEF RemoveRecord
<1>18. CurrentOK(edges, after.cur, A \ {x})
  BY <1>16, <1>17 DEF CurrentOK
<1> QED BY <1>4, <1>12, <1>18 DEF after

\* The loop over the level, last node first.
LEMMA AllRemoved ==
  ASSUME NEW orig, EdgesOK(edges, orig), CurrentOK(edges, currentEdges, Alive), LevelsOK
  PROVE  LET acc == Removed([cur |-> currentEdges, crashed |-> FALSE], Reverse(nodesToCalc))
         IN  ~acc.crashed /\ CurrentOK(edges, acc.cur, Alive \ Level)
<1> DEFINE base == [cur |-> currentEdges, crashed |-> FALSE]
           seq == Reverse(nodesToCalc)
           n == Len(seq)
<1>1. nodesToCalc \in Seq(Nodes) /\ \A i, j \in DOMAIN nodesToCalc : nodesToCalc[i] = nodesToCalc[j] => i = j
  BY DEF LevelsOK
<1>2. Level \subseteq Alive /\ Level \subseteq Nodes
  BY <1>1 DEF Alive, Level, ToSet
<1>3. /\ seq \in Seq(Nodes) /\ n \in Nat /\ n = Len(nodesToCalc)
      /\ \A i \in 1..n : seq[i] = nodesToCalc[(n - i) + 1]
  BY <1>1 DEF Reverse
<1>4. edges \in Seq(EdgeRecord) /\ currentEdges \in [Nodes -> Seq(1..Len(edges))]
  BY DEF EdgesOK, CurrentOK
<1>5. base \in RemoveRecord /\ ~base.crashed /\ base.cur = currentEdges
  BY <1>4 DEF RemoveRecord
<1>6. \A acc \in RemoveRecord, x \in Nodes : RemoveNode(acc, x) \in RemoveRecord
  BY <1>4, RemoveFields
<1> HIDE DEF base, seq
<1>7. PICK g : /\ g[0] = base
               /\ \A k \in 1..Len(seq) : g[k] = RemoveNode(g[k - 1], seq[k])
               /\ Removed(base, seq) = g[Len(seq)]
  <2>1. seq \in Seq(Nodes) /\ base \in RemoveRecord
    BY <1>3, <1>5
  <2> QED BY <2>1, <1>6, RemoveTurns, ZenonT(60)
<1> HIDE DEF n
<1>8. /\ \A i \in 1..n : seq[i] \in Level
      /\ \A x \in Level : \E i \in 1..n : seq[i] = x
      /\ \A i, j \in 1..n : seq[i] = seq[j] => i = j
  <2>1. DOMAIN nodesToCalc = 1..n
    BY <1>1, <1>3
  <2>2. \A i \in 1..n : (n - i) + 1 \in 1..n /\ (n - ((n - i) + 1)) + 1 = i
    BY <1>3
  <2>3. \A i \in 1..n : seq[i] \in Level
    BY <2>1, <2>2, <1>3 DEF Level, ToSet
  <2>4. ASSUME NEW x \in Level PROVE \E i \in 1..n : seq[i] = x
    <3>1. PICK j \in 1..n : nodesToCalc[j] = x
      BY <2>1 DEF Level, ToSet
    <3>2. (n - j) + 1 \in 1..n /\ seq[(n - j) + 1] = x
      BY <3>1, <2>2, <1>3
    <3> QED BY <3>2
  <2>5. ASSUME NEW i \in 1..n, NEW j \in 1..n, seq[i] = seq[j] PROVE i = j
    <3> DEFINE a == (n - i) + 1  b == (n - j) + 1
    <3>1. a \in 1..n /\ b \in 1..n /\ nodesToCalc[a] = nodesToCalc[b]
      BY <2>2, <2>5, <1>3
    <3> HIDE DEF a, b
    <3>2. a = b
      BY <3>1, <2>1, <1>1
    <3> QED BY <3>2, <1>3 DEF a, b
  <2> QED BY <2>3, <2>4, <2>5
<1> DEFINE Left(k) == Alive \ {seq[i] : i \in 1..k}
           Good == {k \in 0..n : /\ g[k] \in RemoveRecord /\ ~g[k].crashed
                                 /\ CurrentOK(edges, g[k].cur, Left(k))}
<1>9. 0 \in Good
  <2>1. 1..0 = {}
    OBVIOUS
  <2>2. Left(0) = Alive
    BY <2>1
  <2> HIDE DEF Left
  <2>3. 0 \in 0..n
    BY <1>3
  <2> QED BY <2>2, <2>3, <1>5, <1>7
<1>10. ASSUME NEW k \in 1..n, k - 1 \in Good PROVE k \in Good
  <2>1. g[k - 1] \in RemoveRecord /\ ~g[k - 1].crashed /\ CurrentOK(edges, g[k - 1].cur, Left(k - 1))
    BY <1>10
  <2>2. seq[k] \in Nodes /\ seq[k] \in Left(k - 1)
    <3>1. \A i \in 1..(k - 1) : i \in 1..n /\ i # k
      BY <1>3
    <3> QED BY <3>1, <1>2, <1>8
  <2>3. Left(k) = Left(k - 1) \ {seq[k]}
    <3>1. \A i : i \in 1..k <=> i \in 1..(k - 1) \/ i = k
      BY <1>3
    <3> QED BY <3>1
  <2> HIDE DEF Left
  <2>4. /\ RemoveNode(g[k - 1], seq[k]) \in RemoveRecord /\ ~RemoveNode(g[k - 1], seq[k]).crashed
        /\ CurrentOK(edges, RemoveNode(g[k - 1], seq[k]).cur, Left(k - 1) \ {seq[k]})
    BY <2>1, <2>2, RemoveOne
  <2>5. g[k] = RemoveNode(g[k - 1], seq[k])
    BY <1>7 DEF n
  <2>6. k \in 0..n
    BY <1>3
  <2> QED BY <2>3, <2>4, <2>5, <2>6
<1> HIDE DEF Good
<1>11. 0..n \subseteq Good
  BY <1>3, <1>9, <1>10, IntervalInduction
<1>12. n \in 0..n
  BY <1>3
<1>13. ~g[n].crashed /\ CurrentOK(edges, g[n].cur, Left(n))
  BY <1>11, <1>12 DEF Good
<1>14. Left(n) = Alive \ Level
  BY <1>8
<1> HIDE DEF Left
<1>15. Removed(base, seq) = g[n]
  BY <1>7 DEF n
<1> QED BY <1>13, <1>14, <1>15 DEF base, seq

\* RemoveLevel: no edge back is missing, and the graph without the level is
\* left.
LEMMA RemoveKeeps ==
  ASSUME CHInv, RemoveLevel
  PROVE  CHInv'
<1> DEFINE acc == Removed([cur |-> currentEdges, crashed |-> FALSE], Reverse(nodesToCalc))
<1>1. /\ phase = "remove" /\ currentEdges' = acc.cur
      /\ phase' = (IF acc.crashed THEN "crashed" ELSE "select")
      /\ nodesToCalc' = <<>>
      /\ edges' = edges /\ numOfOriginalEdges' = numOfOriginalEdges /\ levels' = levels
      /\ calcOrder' = calcOrder /\ todo' = todo /\ nbr' = nbr /\ search' = search
      /\ shortcuts' = shortcuts
  BY DEF RemoveLevel, Removed, threadVars
<1> HIDE DEF acc
<1>2. /\ EdgesOK(edges, numOfOriginalEdges) /\ CurrentOK(edges, currentEdges, Alive)
      /\ LevelsOK /\ LevelsAreIndependent /\ ShortcutsUnpack
      /\ calcOrder \in Orders /\ todo \in [Threads -> Seq(Nodes)]
      /\ nbr \in [Threads -> Nat \ {0}] /\ DOMAIN search = Threads /\ DOMAIN shortcuts = Threads
      /\ \A t \in Threads : todo[t] = <<>> /\ shortcuts[t] = <<>>
  BY <1>1 DEF CHInv
<1>3. ~acc.crashed /\ CurrentOK(edges, acc.cur, Alive \ Level)
  BY <1>2, AllRemoved DEF acc
<1>4. Level' = {} /\ Alive' = Alive \ Level
  <2>1. Level' = {}
    BY <1>1 DEF Level, ToSet
  <2>2. \A x \in Level : Contracted(x)
    BY <1>2 DEF LevelsOK
  <2>3. Alive' = {a \in Nodes : ~Contracted(a)}
    BY <2>1, <1>1 DEF Alive, Contracted
  <2> QED BY <2>1, <2>2, <2>3 DEF Alive, Contracted
<1>5. LevelsOK'
  <2>1. /\ levels \in [Nodes -> -1..Cardinality(Nodes)]
        /\ \A a \in Nodes : levels[a] < Cardinality({b \in Nodes : Contracted(b)})
    BY <1>2 DEF LevelsOK
  <2>2. {b \in Nodes : Contracted(b)}' = {b \in Nodes : Contracted(b)}
    BY <1>1 DEF Contracted
  <2>3. nodesToCalc' \in Seq(Nodes) /\ DOMAIN nodesToCalc' = {}
    BY <1>1
  <2> QED BY <2>1, <2>2, <2>3, <1>1, <1>4 DEF LevelsOK
<1>6. LevelsAreIndependent' /\ ShortcutsUnpack'
  BY <1>1, <1>2 DEF LevelsAreIndependent, ShortcutsUnpack, getFirstShortcut, getSecondShortcut, EdgeIds
<1>7. ASSUME NEW t \in Threads PROVE ThreadInv(t)'
  <2>1. nbr[t] = 1 /\ search[t] = NoSearch /\ todo[t] = <<>> /\ shortcuts[t] = <<>>
    BY <1>2 DEF CHInv, ThreadInv, ThreadOK
  <2>2. ThreadOK(edges', currentEdges', Level', <<>>, 1, NoSearch, <<>>)
    BY DEF ThreadOK
  <2> QED BY <2>1, <2>2, <1>1 DEF ThreadInv
<1>8. EdgesOK(edges, numOfOriginalEdges)' /\ CurrentOK(edges, currentEdges, Alive)'
  BY <1>1, <1>2, <1>3, <1>4
<1>9. phase' = "select"
  BY <1>1, <1>3
<1> QED BY <1>1, <1>2, <1>5, <1>6, <1>7, <1>8, <1>9 DEF CHInv
------------------------------------------------------------------------------
\* The imported graph.

\* The edges of g from u to v of length d, as places of g[u].
PlacesOf(g, u, v, d) == {k \in DOMAIN g[u] : g[u][k].dest = v /\ g[u][k].dist = d}

\* An undirected graph has as many edges of a length one way as the other.
LEMMA GridBalanced ==
  ASSUME NEW g \in Grids, NEW u \in Nodes, NEW v \in Nodes, NEW d \in Nat
  PROVE  /\ IsFiniteSet(PlacesOf(g, u, v, d))
         /\ Cardinality(PlacesOf(g, u, v, d)) = Cardinality(PlacesOf(g, v, u, d))
<1>1. \A a, b, c : Copies(g, a, b, c) = Cardinality(PlacesOf(g, a, b, c))
  BY DEF Copies, PlacesOf
<1>2. g \in [Nodes -> Seq([dest : Nodes, dist : Nat \ {0}])]
  BY GridAssumption
<1>3. \A a \in Nodes : \A k \in DOMAIN g[a] :
        Copies(g, a, g[a][k].dest, g[a][k].dist) = Copies(g, g[a][k].dest, a, g[a][k].dist)
  BY GridAssumption
<1>4. IsFiniteSet(PlacesOf(g, u, v, d))
  <2> DEFINE n == Len(g[u])
  <2>1. n \in Nat /\ DOMAIN g[u] = 1..n
    BY <1>2
  <2>2. PlacesOf(g, u, v, d) \in SUBSET (1..n)
    BY <2>1 DEF PlacesOf
  <2> HIDE DEF n
  <2>3. IsFiniteSet(1..n)
    BY <2>1, FS_Interval
  <2> QED BY <2>2, <2>3, FS_Subset
<1>5. CASE PlacesOf(g, u, v, d) # {}
  <2>1. PICK k \in DOMAIN g[u] : g[u][k].dest = v /\ g[u][k].dist = d
    BY <1>5 DEF PlacesOf
  <2> QED BY <2>1, <1>1, <1>3, <1>4
<1>6. CASE PlacesOf(g, v, u, d) # {}
  <2>1. PICK k \in DOMAIN g[v] : g[v][k].dest = u /\ g[v][k].dist = d
    BY <1>6 DEF PlacesOf
  <2> QED BY <2>1, <1>1, <1>3, <1>4
<1> QED BY <1>4, <1>5, <1>6

\* Every edge of the imported graph is an edge once.
LEMMA ImportedFacts ==
  ASSUME NEW g \in Grids
  PROVE  /\ ImportedEdges(g) \in Seq(EdgeRecord)
         /\ \A e \in 1..Len(ImportedEdges(g)) :
              /\ ImportedEdges(g)[e].start # ImportedEdges(g)[e].dest
              /\ Len(ImportedEdges(g)[e].parts) = 0
         /\ \A u, v \in Nodes, d \in Nat :
              Cardinality(Ids(ImportedEdges(g), u, v, d)) = Cardinality(PlacesOf(g, u, v, d))
<1> DEFINE N == Cardinality(Nodes)
           List(u) == [k \in DOMAIN g[u] |-> Original(u, g[u][k])]
           seqs == [i \in 1..N |-> List(i - 1)]
           flat == ImportedEdges(g)
<1>1. /\ g \in [Nodes -> Seq([dest : Nodes, dist : Nat \ {0}])]
      /\ \A u \in Nodes : \A k \in DOMAIN g[u] : g[u][k].dest # u
  BY GridAssumption
<1>2. N \in Nat \ {0} /\ \A i : i \in 1..N <=> i - 1 \in Nodes /\ i \in Int
  BY NodesFacts
<1>3. ASSUME NEW u \in Nodes
      PROVE  /\ Len(g[u]) \in Nat /\ DOMAIN g[u] = 1..Len(g[u])
             /\ List(u) \in Seq(EdgeRecord) /\ Len(List(u)) = Len(g[u])
             /\ \A k \in 1..Len(g[u]) : /\ List(u)[k].start = u /\ List(u)[k].dest = g[u][k].dest
                                        /\ List(u)[k].dist = g[u][k].dist
                                        /\ Len(List(u)[k].parts) = 0
  <2> DEFINE n == Len(g[u])
  <2>1. n \in Nat /\ DOMAIN g[u] = 1..n /\ \A k \in 1..n : g[u][k] \in [dest : Nodes, dist : Nat \ {0}]
    <3> DEFINE R == [dest : Nodes, dist : Nat \ {0}]
    <3>1. g[u] \in Seq(R)
      BY <1>1
    <3> HIDE DEF R
    <3>2. n \in Nat /\ DOMAIN g[u] = 1..n /\ \A k \in 1..n : g[u][k] \in R
      BY <3>1
    <3> QED BY <3>2 DEF R
  <2> HIDE DEF n
  <2>2. ASSUME NEW k \in 1..n
        PROVE  /\ List(u)[k] \in EdgeRecord
               /\ List(u)[k].start = u /\ List(u)[k].dest = g[u][k].dest
               /\ List(u)[k].dist = g[u][k].dist /\ Len(List(u)[k].parts) = 0
    <3>1. List(u)[k] = [start |-> u, dest |-> g[u][k].dest, dist |-> g[u][k].dist, parts |-> <<>>]
      BY <2>1 DEF Original
    <3>2. g[u][k].dest \in Nodes /\ g[u][k].dist \in Nat \ {0} /\ <<>> \in Seq(Nat) /\ Len(<<>>) = 0
      BY <2>1
    <3> DEFINE r == [start |-> u, dest |-> g[u][k].dest, dist |-> g[u][k].dist, parts |-> <<>>]
    <3>3. r \in EdgeRecord
      BY <3>2 DEF EdgeRecord
    <3>4. r.start = u /\ r.dest = g[u][k].dest /\ r.dist = g[u][k].dist /\ r.parts = <<>>
      OBVIOUS
    <3>5. List(u)[k] = r
      BY <3>1
    <3> HIDE DEF r, List
    <3> QED BY <3>2, <3>3, <3>4, <3>5
  <2>3. List(u) \in [1..n -> EdgeRecord]
    BY <2>1, <2>2
  <2>4. List(u) \in Seq(EdgeRecord) /\ Len(List(u)) = n
    BY <2>1, <2>3
  <2> QED BY <2>1, <2>2, <2>4 DEF n
<1>4. /\ seqs \in Seq(Seq(EdgeRecord)) /\ Len(seqs) = N /\ Len(seqs) # 0
      /\ \A i \in 1..N : seqs[i] = List(i - 1)
  <2>1. seqs \in [1..N -> Seq(EdgeRecord)] /\ \A i \in 1..N : seqs[i] = List(i - 1)
    BY <1>2, <1>3
  <2> HIDE DEF seqs, N
  <2>2. seqs \in Seq(Seq(EdgeRecord)) /\ Len(seqs) = N /\ Len(seqs) # 0
    <3> DEFINE T == Seq(EdgeRecord)
    <3> HIDE DEF T
    <3>1. seqs \in [1..N -> T]
      BY <2>1 DEF T
    <3>2. seqs \in Seq(T) /\ Len(seqs) = N /\ Len(seqs) # 0
      BY <3>1, <1>2
    <3> QED BY <3>2 DEF T
  <2> QED BY <2>1, <2>2
<1>5. flat = FlattenSeq(seqs)
  BY DEF ImportedEdges
<1> HIDE DEF seqs, List, flat, N
<1>6. flat \in Seq(EdgeRecord)
  BY <1>4, <1>5, FlattenFacts
<1>7. PICK off \in [0..Len(seqs) -> Nat] : Flattened(flat, seqs, off)
  BY <1>4, <1>5, FlattenFacts
<1> DEFINE m == Len(flat)
<1>8. /\ m \in Nat /\ \A u \in Nodes : off[u] \in Nat
      /\ \A u \in Nodes : \A k \in 1..Len(g[u]) : off[u] + k \in 1..m /\ flat[off[u] + k] = List(u)[k]
      /\ \A j \in 1..m : \E u \in Nodes : \E k \in 1..Len(g[u]) : j = off[u] + k
  <2>1. m \in Nat /\ m = off[N]
    BY <1>4, <1>6, <1>7 DEF Flattened
  <2>2. \A u \in Nodes : u \in 0..N /\ u + 1 \in 1..N /\ (u + 1) - 1 = u
    BY <1>2, NodesFacts DEF N
  <2>3. ASSUME NEW u \in Nodes, NEW k \in 1..Len(g[u])
        PROVE  off[u] + k \in 1..m /\ flat[off[u] + k] = List(u)[k]
    <3>1. seqs[u + 1] = List(u) /\ Len(seqs[u + 1]) = Len(g[u])
      BY <2>2, <1>3, <1>4
    <3>2. /\ off[(u + 1) - 1] + k \in 1..off[Len(seqs)]
          /\ flat[off[(u + 1) - 1] + k] = seqs[u + 1][k]
      BY <3>1, <2>2, <1>4, <1>7 DEF Flattened
    <3> QED BY <3>1, <3>2, <2>1, <2>2, <1>4
  <2>4. ASSUME NEW j \in 1..m PROVE \E u \in Nodes : \E k \in 1..Len(g[u]) : j = off[u] + k
    <3>1. j \in 1..off[Len(seqs)]
      BY <2>1, <1>4
    <3>2. PICK i \in 1..Len(seqs) : \E k \in 1..Len(seqs[i]) : j = off[i - 1] + k
      BY <3>1, <1>7 DEF Flattened
    <3>3. i \in 1..N
      BY <3>2, <1>4
    <3>4. i - 1 \in Nodes /\ Len(seqs[i]) = Len(g[i - 1])
      BY <3>3, <1>2, <1>3, <1>4
    <3> QED BY <3>2, <3>4
  <2>5. \A u \in Nodes : off[u] \in Nat
    BY <2>2, <1>4
  <2> QED BY <2>1, <2>3, <2>4, <2>5
<1>9. ASSUME NEW e \in 1..m PROVE flat[e].start # flat[e].dest /\ Len(flat[e].parts) = 0
  <2>1. PICK u \in Nodes : \E k \in 1..Len(g[u]) : e = off[u] + k
    BY <1>8
  <2>2. PICK k \in 1..Len(g[u]) : e = off[u] + k
    BY <2>1
  <2>3. flat[e] = List(u)[k]
    BY <2>2, <1>8
  <2>4. /\ List(u)[k].start = u /\ List(u)[k].dest = g[u][k].dest
        /\ Len(List(u)[k].parts) = 0 /\ k \in DOMAIN g[u]
    BY <1>3
  <2>5. g[u][k].dest # u
    BY <2>4, <1>1
  <2> QED BY <2>3, <2>4, <2>5
<1>10. ASSUME NEW u \in Nodes, NEW v \in Nodes, NEW d \in Nat
       PROVE  Cardinality(Ids(flat, u, v, d)) = Cardinality(PlacesOf(g, u, v, d))
  <2> DEFINE places == PlacesOf(g, u, v, d)
             F == [k \in places |-> off[u] + k]
  <2>1. \A k : k \in places <=> k \in 1..Len(g[u]) /\ List(u)[k].dest = v /\ List(u)[k].dist = d
    BY <1>3 DEF PlacesOf
  <2>2. \A k \in places : F[k] \in Ids(flat, u, v, d)
    <3>1. SUFFICES ASSUME NEW k \in places PROVE off[u] + k \in Ids(flat, u, v, d)
      OBVIOUS
    <3>2. k \in 1..Len(g[u]) /\ List(u)[k].dest = v /\ List(u)[k].dist = d /\ List(u)[k].start = u
      BY <2>1, <1>3
    <3>3. off[u] + k \in 1..m /\ flat[off[u] + k] = List(u)[k]
      BY <3>2, <1>8
    <3> QED BY <3>2, <3>3 DEF Ids
  <2>3. \A a, b \in places : F[a] = F[b] => a = b
    <3>1. \A a \in places : a \in Int
      BY <2>1, <1>3
    <3>2. off[u] \in Int
      BY <1>8
    <3> HIDE DEF places
    <3> QED BY <3>1, <3>2
  <2>4. ASSUME NEW c \in Ids(flat, u, v, d) PROVE \E a \in places : F[a] = c
    <3>1. c \in 1..m /\ flat[c].start = u /\ flat[c].dest = v /\ flat[c].dist = d
      BY DEF Ids
    <3>2. PICK w \in Nodes : \E k \in 1..Len(g[w]) : c = off[w] + k
      BY <3>1, <1>8
    <3>3. PICK k \in 1..Len(g[w]) : c = off[w] + k
      BY <3>2
    <3>4. flat[c] = List(w)[k]
      BY <3>3, <1>8
    <3>5. w = u
      BY <3>1, <3>4, <1>3
    <3>6. k \in places
      BY <3>1, <3>4, <3>5, <2>1
    <3> QED BY <3>3, <3>5, <3>6
  <2>5. Matches(F, places, Ids(flat, u, v, d))
    BY <2>2, <2>3, <2>4 DEF Matches
  <2>6. IsFiniteSet(places)
    BY GridBalanced
  <2> HIDE DEF F, places
  <2>7. Cardinality(places) = Cardinality(Ids(flat, u, v, d))
    BY <2>5, <2>6, SameSize
  <2> QED BY <2>7 DEF places
<1> QED BY <1>6, <1>9, <1>10 DEF flat

\* Every node has its edges in the imported graph.
LEMMA IdsFacts ==
  ASSUME NEW es \in Seq(EdgeRecord), NEW u \in Nodes
  PROVE  /\ IdsOf(es, u) \in Seq(1..Len(es))
         /\ \A i, j \in DOMAIN IdsOf(es, u) : IdsOf(es, u)[i] = IdsOf(es, u)[j] => i = j
         /\ ToSet(IdsOf(es, u)) = {e \in 1..Len(es) : es[e].start = u}
<1> DEFINE n == Len(es)
           S == {e \in 1..n : es[e].start = u}
           ids == IdsOf(es, u)
           m == Cardinality(S)
<1>1. n \in Nat /\ DOMAIN es = 1..n
  OBVIOUS
<1>2. ids = InOrder(S)
  BY <1>1 DEF IdsOf
<1> HIDE DEF n
<1>3. S \in SUBSET (1..n) /\ S \in SUBSET Nat
  BY <1>1
<1>4. IsFiniteSet(S)
  <2>1. IsFiniteSet(1..n)
    BY <1>1, FS_Interval
  <2> QED BY <2>1, <1>3, FS_Subset
<1> HIDE DEF S, ids
<1>5. /\ m \in Nat /\ ids \in [1..m -> S]
      /\ \A x \in S : \E k \in 1..m : ids[k] = x
      /\ \A k, l \in 1..m : k < l => ids[k] < ids[l]
  BY <1>2, <1>3, <1>4, InOrderFacts
<1> HIDE DEF m
<1>6. ids \in Seq(1..n) /\ DOMAIN ids = 1..m
  <2> DEFINE T == 1..n
  <2>1. ids \in [1..m -> T] /\ m \in Nat
    BY <1>3, <1>5
  <2> HIDE DEF T
  <2>2. ids \in Seq(T) /\ DOMAIN ids = 1..m
    BY <2>1
  <2> QED BY <2>2 DEF T
<1>7. ASSUME NEW i \in 1..m, NEW j \in 1..m, ids[i] = ids[j] PROVE i = j
  <2>1. ids[i] \in Nat /\ ids[j] \in Nat
    BY <1>3, <1>5
  <2>2. ~(i < j) /\ ~(j < i)
    BY <2>1, <1>5, <1>7
  <2> QED BY <2>2, <1>5
<1>8. ToSet(ids) = S
  BY <1>5, <1>6 DEF ToSet
<1> QED BY <1>6, <1>7, <1>8 DEF ids, S, n

\* The contraction begins with the invariant.
LEMMA InitOK ==
  ASSUME CHInit
  PROVE  CHInv
<1>1. /\ grid \in Grids /\ edges = ImportedEdges(grid) /\ numOfOriginalEdges = Len(edges)
      /\ currentEdges = [u \in Nodes |-> IdsOf(edges, u)]
      /\ levels = [u \in Nodes |-> -1] /\ calcOrder \in Orders /\ nodesToCalc = <<>>
      /\ phase = "select" /\ todo = [t \in Threads |-> <<>>] /\ nbr = [t \in Threads |-> 1]
      /\ search = [t \in Threads |-> NoSearch] /\ shortcuts = [t \in Threads |-> <<>>]
  BY DEF CHInit
<1>2. /\ edges \in Seq(EdgeRecord)
      /\ \A e \in 1..Len(edges) : edges[e].start # edges[e].dest /\ Len(edges[e].parts) = 0
      /\ \A u, v \in Nodes, d \in Nat :
           Cardinality(Ids(edges, u, v, d)) = Cardinality(PlacesOf(grid, u, v, d))
  BY <1>1, ImportedFacts
<1> DEFINE n == Len(edges)
<1>3. n \in Nat /\ \A e \in 1..n : edges[e].start \in Nodes /\ edges[e].dest \in Nodes
  BY <1>2, EdgeFields
<1> HIDE DEF n
<1>4. EdgesOK(edges, numOfOriginalEdges)
  <2>1. n \in 0..n /\ (n + 1)..n = {} /\ \A e \in 1..n : e <= n
    BY <1>3
  <2>2. \A u, v \in Nodes, d \in Nat : Cardinality(Ids(edges, u, v, d)) = Cardinality(Ids(edges, v, u, d))
    BY <1>1, <1>2, GridBalanced
  <2> QED BY <2>1, <2>2, <1>1, <1>2 DEF EdgesOK, n
<1>5. Level = {} /\ Alive = Nodes
  <2>1. Level = {}
    BY <1>1 DEF Level, ToSet
  <2> QED BY <2>1, <1>1 DEF Alive, Contracted
<1>6. CurrentOK(edges, currentEdges, Alive)
  <2>1. currentEdges \in [Nodes -> Seq(1..Len(edges))]
    BY <1>1, <1>2, IdsFacts
  <2>2. ASSUME NEW u \in Nodes
        PROVE  /\ \A i, j \in DOMAIN currentEdges[u] : currentEdges[u][i] = currentEdges[u][j] => i = j
               /\ ToSet(currentEdges[u]) = {e \in 1..Len(edges) : /\ u \in Nodes /\ edges[e].start = u
                                                                  /\ edges[e].dest \in Nodes}
    <3>1. currentEdges[u] = IdsOf(edges, u)
      BY <1>1
    <3>2. /\ \A i, j \in DOMAIN IdsOf(edges, u) : IdsOf(edges, u)[i] = IdsOf(edges, u)[j] => i = j
          /\ ToSet(IdsOf(edges, u)) = {e \in 1..Len(edges) : edges[e].start = u}
      BY <1>2, IdsFacts
    <3> QED BY <3>1, <3>2, <1>3 DEF n
  <2> QED BY <2>1, <2>2, <1>5 DEF CurrentOK
<1>7. LevelsOK
  <2>1. levels \in [Nodes -> -1..Cardinality(Nodes)]
    BY <1>1, NodesFacts
  <2>2. {m \in Nodes : Contracted(m)} = {}
    BY <1>1 DEF Contracted
  <2>3. \A u \in Nodes : levels[u] < Cardinality({m \in Nodes : Contracted(m)})
    <3>1. Cardinality({m \in Nodes : Contracted(m)}) = 0
      BY <2>2, FS_EmptySet
    <3>2. \A u \in Nodes : levels[u] = -1
      BY <1>1
    <3> QED BY <3>1, <3>2
  <2>4. nodesToCalc \in Seq(Nodes) /\ DOMAIN nodesToCalc = {}
    BY <1>1
  <2> QED BY <2>1, <2>3, <2>4, <1>5 DEF LevelsOK
<1>8. LevelsAreIndependent
  BY <1>1, <1>3 DEF LevelsAreIndependent, EdgeIds, n
<1>9. ShortcutsUnpack
  <2>1. \A e \in EdgeIds : ~(e > numOfOriginalEdges)
    BY <1>1, <1>3 DEF EdgeIds, n
  <2> QED BY <2>1 DEF ShortcutsUnpack, getFirstShortcut, getSecondShortcut
<1>10. ASSUME NEW t \in Threads PROVE ThreadInv(t)
  <2>1. todo[t] = <<>> /\ nbr[t] = 1 /\ search[t] = NoSearch /\ shortcuts[t] = <<>>
    BY <1>1
  <2>2. ThreadOK(edges, currentEdges, Level, <<>>, 1, NoSearch, <<>>)
    BY DEF ThreadOK
  <2> QED BY <2>1, <2>2 DEF ThreadInv
<1>11. /\ todo \in [Threads -> Seq(Nodes)] /\ nbr \in [Threads -> Nat \ {0}]
       /\ DOMAIN search = Threads /\ DOMAIN shortcuts = Threads
       /\ \A t \in Threads : todo[t] = <<>> /\ shortcuts[t] = <<>>
  BY <1>1
<1> QED BY <1>1, <1>4, <1>6, <1>7, <1>8, <1>9, <1>10, <1>11 DEF CHInv
------------------------------------------------------------------------------
\* The inductive invariant holds: no search misses a shortcut, none reports a
\* path that is not shortest, and no exception is met.
THEOREM ContractionInvariant == CHSpec => []CHInv
<1>1. CHInit => CHInv
  BY InitOK
<1>2. CHInv /\ [CHNext \/ CHFinished]_chVars => CHInv'
  <2>1. SUFFICES ASSUME CHInv, [CHNext \/ CHFinished]_chVars PROVE CHInv'
    OBVIOUS
  <2>2. CASE SelectLevel
    BY <2>1, <2>2, SelectKeeps
  <2>3. ASSUME NEW t \in Threads, ThreadStep(t) PROVE CHInv'
    <3>1. CASE SkipNode(t)
      BY <2>1, <3>1, SkipKeeps
    <3>2. CASE nextCalc(t)
      BY <2>1, <3>2, CalcKeeps
    <3>3. ASSUME NEW node \in Nodes, nextStep(t, node) PROVE CHInv'
      BY <2>1, <3>3, StepKeeps
    <3>4. CASE addShortcuts(t)
      BY <2>1, <3>4, ReportKeeps
    <3> QED BY <2>3, <3>1, <3>2, <3>3, <3>4 DEF ThreadStep
  <2>4. CASE AddAllShortcuts
    BY <2>1, <2>4, AddKeeps
  <2>5. CASE RemoveLevel
    BY <2>1, <2>5, RemoveKeeps
  <2>6. CASE UNCHANGED chVars
    BY <2>1, <2>6 DEF CHInv, chVars, gridVars, threadVars, LevelsOK, Level, Alive, Contracted,
                      LevelsAreIndependent, ShortcutsUnpack, getFirstShortcut,
                      getSecondShortcut, EdgeIds, ThreadInv, SearchComplete
  <2> QED BY <2>1, <2>2, <2>3, <2>4, <2>5, <2>6 DEF CHNext, CHFinished
<1> QED BY <1>1, <1>2, PTL DEF CHSpec

\* Type correctness of the contraction.
THEOREM ContractionType == CHSpec => []CHTypeOK
<1>1. CHInv => CHTypeOK
  <2>1. SUFFICES ASSUME CHInv PROVE CHTypeOK
    OBVIOUS
  <2>2. /\ EdgesOK(edges, numOfOriginalEdges) /\ CurrentOK(edges, currentEdges, Alive) /\ LevelsOK
        /\ phase \in {"select", "search", "remove"}
        /\ todo \in [Threads -> Seq(Nodes)] /\ nbr \in [Threads -> Nat \ {0}]
    BY <2>1 DEF CHInv
  <2>3. edges \in Seq(EdgeRecord)
    BY <2>2 DEF EdgesOK
  <2>4. \A e \in EdgeIds :
          /\ edges[e].start \in Nodes /\ edges[e].dest \in Nodes /\ edges[e].dist \in Nat
          /\ Len(edges[e].parts) = IF e <= numOfOriginalEdges THEN 0 ELSE 2
    BY <2>2, <2>3, EdgeFields DEF EdgesOK, EdgeIds
  <2>5. currentEdges \in [Nodes -> Seq(EdgeIds)]
    BY <2>2 DEF CurrentOK, EdgeIds
  <2>6. levels \in [Nodes -> -1..Cardinality(Nodes)] /\ nodesToCalc \in Seq(Nodes)
    BY <2>2 DEF LevelsOK
  <2> QED BY <2>2, <2>4, <2>5, <2>6 DEF CHTypeOK
<1> QED BY <1>1, ContractionInvariant, PTL

\* The remaining graph is undirected, and removeBackwardsEdge always finds
\* the edge it looks for: the two directions of every shortcut, found by two
\* searches of any two threads, are both added and equally long.
THEOREM ContractionUndirected == CHSpec => []RemainingIsUndirected
<1>1. CHInv => RemainingIsUndirected
  <2>1. SUFFICES ASSUME CHInv PROVE RemainingIsUndirected
    OBVIOUS
  <2>2. EdgesOK(edges, numOfOriginalEdges) /\ CurrentOK(edges, currentEdges, Alive)
    BY <2>1 DEF CHInv
  <2>3. edges \in Seq(EdgeRecord)
    BY <2>2 DEF EdgesOK
  <2>4. \A u \in Nodes : \A e : e \in ToSet(currentEdges[u]) <=>
          e \in 1..Len(edges) /\ u \in Alive /\ edges[e].start = u /\ edges[e].dest \in Alive
    BY <2>2 DEF CurrentOK
  <2> DEFINE Current(u, v, d) == {e \in ToSet(currentEdges[u]) : edges[e].dest = v /\ edges[e].dist = d}
  <2>5. ASSUME NEW u \in Nodes, NEW v \in Nodes, NEW d
        PROVE  Copies(Remaining, u, v, d) = Cardinality(Current(u, v, d))
    <3> DEFINE places == {k \in DOMAIN currentEdges[u] :
                            edges[currentEdges[u][k]].dest = v /\ edges[currentEdges[u][k]].dist = d}
               F == [k \in places |-> currentEdges[u][k]]
    <3>1. Copies(Remaining, u, v, d) = Cardinality(places)
      BY DEF Copies, Remaining
    <3>2. \A i, j \in DOMAIN currentEdges[u] : currentEdges[u][i] = currentEdges[u][j] => i = j
      BY <2>2 DEF CurrentOK
    <3>3. Matches(F, places, Current(u, v, d))
      <4>1. \A k \in places : F[k] \in Current(u, v, d)
        BY DEF ToSet
      <4>2. \A a, b \in places : F[a] = F[b] => a = b
        BY <3>2
      <4>3. \A c \in Current(u, v, d) : \E a \in places : F[a] = c
        BY DEF ToSet
      <4> QED BY <4>1, <4>2, <4>3 DEF Matches
    <3>4. IsFiniteSet(places)
      <4> DEFINE n == Len(currentEdges[u])
      <4>1. n \in Nat /\ DOMAIN currentEdges[u] = 1..n
        BY <2>2 DEF CurrentOK
      <4>2. places \in SUBSET (1..n)
        BY <4>1
      <4> HIDE DEF n, places
      <4>3. IsFiniteSet(1..n)
        BY <4>1, FS_Interval
      <4> QED BY <4>2, <4>3, FS_Subset
    <3> HIDE DEF places, F, Current
    <3> QED BY <3>1, <3>3, <3>4, SameSize
  <2>6. ASSUME NEW u \in Nodes, NEW v \in Nodes, NEW d \in Nat
        PROVE  Cardinality(Current(u, v, d)) = Cardinality(Current(v, u, d))
    <3>1. CASE u \in Alive /\ v \in Alive
      <4>1. Current(u, v, d) = Ids(edges, u, v, d) /\ Current(v, u, d) = Ids(edges, v, u, d)
        BY <3>1, <2>4 DEF Ids
      <4>2. Cardinality(Ids(edges, u, v, d)) = Cardinality(Ids(edges, v, u, d))
        BY <2>2 DEF EdgesOK
      <4> QED BY <4>1, <4>2
    <3>2. CASE ~(u \in Alive /\ v \in Alive)
      <4>1. Current(u, v, d) = {} /\ Current(v, u, d) = {}
        BY <3>2, <2>4
      <4> QED BY <4>1
    <3> QED BY <3>1, <3>2
  <2>7. {edges[e].dist : e \in EdgeIds} \subseteq Nat
    BY <2>3, EdgeFields DEF EdgeIds
  <2>8. phase # "crashed"
    BY <2>1 DEF CHInv
  <2> HIDE DEF Current
  <2> QED BY <2>5, <2>6, <2>7, <2>8 DEF RemainingIsUndirected
<1> QED BY <1>1, ContractionInvariant, PTL

\* No edge joins two nodes of a level.
THEOREM ContractionLevels == CHSpec => []LevelsAreIndependent
<1>1. CHInv => LevelsAreIndependent
  BY DEF CHInv
<1> QED BY <1>1, ContractionInvariant, PTL

\* Every shortcut can be unpacked into the two edges it stands for.
THEOREM ContractionUnpacks == CHSpec => []ShortcutsUnpack
<1>1. CHInv => ShortcutsUnpack
  BY DEF CHInv
<1> QED BY <1>1, ContractionInvariant, PTL
------------------------------------------------------------------------------
\* What the contraction uses of the distances of the imported graph.
IsMetric(D) ==
  /\ \A u, v \in Nodes : D[u][v] \in Nat /\ D[u][v] <= far
  /\ \A u \in Nodes : D[u][u] = 0
  /\ \A u, v \in Nodes : u # v => D[u][v] > 0
  /\ \A u, v, w \in Nodes : D[u][w] <= D[u][v] + D[v][w]
  /\ \A u, v \in Nodes : D[u][v] = D[v][u]

\* No edge is shorter than the distance of its ends, and a shortcut is as
\* long as that distance.
EdgesMeasured(es, orig, D) ==
  \A e \in 1..Len(es) :
    /\ D[es[e].start][es[e].dest] <= es[e].dist
    /\ e > orig /\ D[es[e].start][es[e].dest] < far => es[e].dist = D[es[e].start][es[e].dest]

\* An edge between nodes of A is the first of a shortest path from u to c.
Leads(es, D, A, u, c) ==
  \E e \in 1..Len(es) :
    es[e].start = u /\ es[e].dest \in A /\ es[e].dist + D[es[e].dest][c] = D[u][c]

\* Shortest paths between nodes of A need not leave A.
PathsWithin(es, D, A) ==
  \A u, c \in A : u # c /\ D[u][c] < far => Leads(es, D, A, u, c)

\* The nodes above u in the hierarchy, as far as it has been built.
Above(lv, u) == {n \in Nodes : lv[n] = -1 \/ lv[n] > lv[u]}

\* From a contracted node a shortest path to a node that is not below it
\* leads upwards.
PathsRise(es, D, lv) ==
  \A u, c \in Nodes :
    lv[u] # -1 /\ u # c /\ (lv[c] = -1 \/ lv[c] >= lv[u]) /\ D[u][c] < far =>
      Leads(es, D, Above(lv, u), u, c)

\* The nodes that are not replaced by shortcuts yet.
Standing == IF phase = "remove" THEN Alive \ Level ELSE Alive

\* The first edges are those of the imported graph.
FromGrid(g, es, orig) ==
  \A e \in 1..orig : \E i \in DOMAIN g[es[e].start] :
    g[es[e].start][i].dest = es[e].dest /\ g[es[e].start][i].dist = es[e].dist

\* No level is empty.
LevelsFilled(lv) == \A n \in Nodes : \A l \in 0..lv[n] : \E m \in Nodes : lv[m] = l

\* The inductive invariant about distances, on top of CHInv.
DistanceInv ==
  /\ grid \in Grids
  /\ FromGrid(grid, edges, numOfOriginalEdges)
  /\ LevelsFilled(levels)
  /\ EdgesMeasured(edges, numOfOriginalEdges, AllDistances[grid])
  /\ PathsWithin(edges, AllDistances[grid], Standing)
  /\ PathsRise(edges, AllDistances[grid], levels)
------------------------------------------------------------------------------
LEMMA GridGraph ==
  ASSUME NEW g \in Grids
  PROVE  /\ IsGraph(g, Nodes)
         /\ \A u \in Nodes : \A i \in DOMAIN g[u] : g[u][i].dist \in Nat /\ g[u][i].dist > 0 /\ g[u][i].dest \in Nodes
         /\ HasBackEdges(g, Nodes)
<1>1. g \in [Nodes -> Seq([dest : Nodes, dist : Nat \ {0}])]
  BY GridAssumption
<1>2. ASSUME NEW u \in Nodes, NEW i \in DOMAIN g[u]
      PROVE  g[u][i].dist \in Nat /\ g[u][i].dist > 0 /\ g[u][i].dest \in Nodes
  <2>1. g[u] \in Seq([dest : Nodes, dist : Nat \ {0}])
    BY <1>1
  <2> DEFINE R == [dest : Nodes, dist : Nat \ {0}]
  <2>2. g[u] \in Seq(R)
    BY <2>1
  <2> HIDE DEF R
  <2>3. g[u][i] \in R
    BY <2>2
  <2> QED BY <2>3 DEF R
<1>3. ASSUME NEW u \in Nodes, NEW i \in DOMAIN g[u]
      PROVE  \E j \in DOMAIN g[g[u][i].dest] :
               g[g[u][i].dest][j].dest = u /\ g[g[u][i].dest][j].dist = g[u][i].dist
  <2> DEFINE v == g[u][i].dest
             d == g[u][i].dist
  <2>1. v \in Nodes /\ d \in Nat
    BY <1>2
  <2>2. i \in PlacesOf(g, u, v, d)
    BY DEF PlacesOf
  <2> HIDE DEF v, d
  <2>3. /\ IsFiniteSet(PlacesOf(g, u, v, d)) /\ IsFiniteSet(PlacesOf(g, v, u, d))
        /\ Cardinality(PlacesOf(g, u, v, d)) = Cardinality(PlacesOf(g, v, u, d))
    BY <2>1, GridBalanced
  <2>4. PlacesOf(g, v, u, d) # {}
    BY <2>2, <2>3, FS_EmptySet
  <2> QED BY <2>4 DEF PlacesOf, v, d
<1> QED BY <1>1, <1>2, <1>3 DEF IsGraph, HasBackEdges

\* The distances of an imported graph are those of a metric.
LEMMA MetricOf ==
  ASSUME NEW g \in Grids, NEW D, AreDistances(g, Nodes, far, D)
  PROVE  IsMetric(D)
<1>1. far \in Nat /\ far > 0
  BY HierarchyAssumption
<1>2. /\ \A u, v \in Nodes : D[u][v] \in Nat /\ D[u][v] <= far
      /\ \A u \in Nodes : D[u][u] = 0
      /\ \A u, v, w \in Nodes : D[u][w] <= D[u][v] + D[v][w]
  <2>1. ASSUME NEW u \in Nodes, NEW v \in Nodes PROVE D[u][v] \in Nat /\ D[u][v] <= far
    BY <1>1, DistanceFields
  <2>2. ASSUME NEW u \in Nodes PROVE D[u][u] = 0
    BY DEF AreDistances
  <2>3. ASSUME NEW u \in Nodes, NEW v \in Nodes, NEW w \in Nodes
        PROVE  D[u][w] <= D[u][v] + D[v][w]
    BY <1>1, DistanceFields
  <2> QED BY <2>1, <2>2, <2>3
<1>3. /\ IsGraph(g, Nodes)
      /\ \A u \in Nodes : \A i \in DOMAIN g[u] : g[u][i].dist \in Nat /\ g[u][i].dist > 0 /\ g[u][i].dest \in Nodes
      /\ HasBackEdges(g, Nodes)
  BY GridGraph
<1>4. \A u, v \in Nodes : D[u][v] = D[v][u]
  <2>1. ASSUME NEW u \in Nodes, NEW v \in Nodes PROVE D[v][u] <= D[u][v]
    BY <1>1, <1>3, SymmetricDistances
  <2> QED BY <2>1, <1>2
<1>5. ASSUME NEW u \in Nodes, NEW v \in Nodes, u # v PROVE D[u][v] > 0
  <2>1. CASE D[u][v] = far
    BY <2>1, <1>1
  <2>2. CASE D[u][v] # far
    <3>1. D[u][v] < far
      BY <2>2, <1>1, <1>2
    <3>2. PICK i \in DOMAIN g[u] : g[u][i].dist + D[g[u][i].dest][v] = D[u][v]
      BY <3>1, <1>1, <1>3, <1>5, FirstEdge
    <3>3. g[u][i].dist \in Nat /\ g[u][i].dist > 0 /\ D[g[u][i].dest][v] \in Nat
      BY <1>2, <1>3
    <3> QED BY <3>2, <3>3
  <2> QED BY <2>1, <2>2
<1> QED BY <1>2, <1>4, <1>5 DEF IsMetric

LEMMA GridMetric ==
  ASSUME NEW g \in Grids
  PROVE  /\ AreDistances(g, Nodes, far, AllDistances[g])
         /\ IsMetric(AllDistances[g])
<1>1. AllDistances[g] = ShortestDistances(g, far)
  BY DEF AllDistances
<1>2. Nodes \in SUBSET Nat /\ IsFiniteSet(Nodes) /\ far \in Nat /\ IsGraph(g, Nodes)
  BY NodesFacts, HierarchyAssumption, GridGraph
<1>3. AreDistances(g, Nodes, far, AllDistances[g])
  BY <1>1, <1>2, ReferenceCorrect
<1> QED BY <1>3, MetricOf

\* At the beginning every edge of the imported graph is there.
LEMMA DistanceStart ==
  ASSUME CHInit
  PROVE  DistanceInv
<1> DEFINE D == AllDistances[grid]
<1>1. /\ grid \in Grids /\ edges = ImportedEdges(grid) /\ numOfOriginalEdges = Len(edges)
      /\ levels = [u \in Nodes |-> -1] /\ nodesToCalc = <<>> /\ phase = "select"
  BY DEF CHInit
<1>2. /\ edges \in Seq(EdgeRecord)
      /\ \A u, v \in Nodes, d \in Nat :
           Cardinality(Ids(edges, u, v, d)) = Cardinality(PlacesOf(grid, u, v, d))
  BY <1>1, ImportedFacts
<1>3. Len(edges) \in Nat /\ \A e \in 1..Len(edges) : edges[e].start \in Nodes /\ edges[e].dest \in Nodes /\ edges[e].dist \in Nat
  BY <1>2, EdgeFields
<1>4. ASSUME NEW u \in Nodes, NEW v \in Nodes, NEW d \in Nat
      PROVE  Ids(edges, u, v, d) = {} <=> PlacesOf(grid, u, v, d) = {}
  <2>1. IsFiniteSet(Ids(edges, u, v, d))
    BY <1>2, IdsFinite
  <2>2. IsFiniteSet(PlacesOf(grid, u, v, d))
    BY <1>1, GridBalanced
  <2>3. Cardinality(Ids(edges, u, v, d)) = Cardinality(PlacesOf(grid, u, v, d))
    BY <1>2
  <2> QED BY <2>1, <2>2, <2>3, FS_EmptySet
<1>5. /\ AreDistances(grid, Nodes, far, D)
      /\ IsGraph(grid, Nodes) /\ far \in Nat
  BY <1>1, GridMetric, GridGraph, HierarchyAssumption
<1>6. \A u \in Nodes : \A i \in DOMAIN grid[u] : D[u][grid[u][i].dest] <= grid[u][i].dist
  BY <1>5, DistanceFields
<1>7. EdgesMeasured(edges, numOfOriginalEdges, D) /\ FromGrid(grid, edges, numOfOriginalEdges)
  <2>1. ASSUME NEW e \in 1..Len(edges)
        PROVE  /\ D[edges[e].start][edges[e].dest] <= edges[e].dist
               /\ \E i \in DOMAIN grid[edges[e].start] : /\ grid[edges[e].start][i].dest = edges[e].dest
                                                         /\ grid[edges[e].start][i].dist = edges[e].dist
    <3> DEFINE u == edges[e].start
               v == edges[e].dest
               d == edges[e].dist
    <3>1. u \in Nodes /\ v \in Nodes /\ d \in Nat
      BY <1>3
    <3>2. e \in Ids(edges, u, v, d)
      BY DEF Ids
    <3> HIDE DEF u, v, d
    <3>3. PICK i : i \in PlacesOf(grid, u, v, d)
      BY <3>1, <3>2, <1>4
    <3>4. i \in DOMAIN grid[u] /\ grid[u][i].dest = v /\ grid[u][i].dist = d
      BY <3>3 DEF PlacesOf
    <3>5. D[u][v] <= d
      BY <3>1, <3>4, <1>6
    <3> QED BY <3>4, <3>5 DEF u, v, d
  <2>2. \A e \in 1..Len(edges) : ~(e > numOfOriginalEdges)
    BY <1>1, <1>3
  <2> QED BY <2>1, <2>2, <1>1 DEF EdgesMeasured, FromGrid
<1>8. Standing = Nodes
  <2>1. Level = {}
    BY <1>1 DEF Level, ToSet
  <2> QED BY <2>1, <1>1 DEF Standing, Alive, Contracted
<1>9. PathsWithin(edges, D, Nodes)
  <2>1. ASSUME NEW u \in Nodes, NEW c \in Nodes, u # c, D[u][c] < far
        PROVE  Leads(edges, D, Nodes, u, c)
    <3>1. PICK i \in DOMAIN grid[u] : grid[u][i].dist + D[grid[u][i].dest][c] = D[u][c]
      BY <1>5, <2>1, FirstEdge
    <3> DEFINE v == grid[u][i].dest
               d == grid[u][i].dist
    <3>2. v \in Nodes /\ d \in Nat /\ i \in PlacesOf(grid, u, v, d)
      BY <1>5 DEF IsGraph, PlacesOf
    <3> HIDE DEF v, d
    <3>3. PICK e : e \in Ids(edges, u, v, d)
      BY <3>2, <1>4
    <3>4. e \in 1..Len(edges) /\ edges[e].start = u /\ edges[e].dest = v /\ edges[e].dist = d
      BY <3>3 DEF Ids
    <3> QED BY <3>1, <3>2, <3>4 DEF Leads, v, d
  <2> QED BY <2>1 DEF PathsWithin
<1>10. PathsRise(edges, D, levels)
  <2>1. \A u \in Nodes : levels[u] = -1
    BY <1>1
  <2> QED BY <2>1 DEF PathsRise
<1>11. LevelsFilled(levels)
  BY <1>1 DEF LevelsFilled
<1> QED BY <1>1, <1>7, <1>8, <1>9, <1>10, <1>11 DEF DistanceInv

------------------------------------------------------------------------------
\* A function that grows along every current edge by at most its length
\* grows by at most the distance.
LEMMA PotentialBound ==
  ASSUME NEW D, IsMetric(D), NEW es \in Seq(EdgeRecord), NEW A \in SUBSET Nodes, PathsWithin(es, D, A),
         NEW p \in [Nodes -> Int],
         \A e \in 1..Len(es) : es[e].start \in A /\ es[e].dest \in A =>
                                 p[es[e].dest] <= p[es[e].start] + es[e].dist
  PROVE  \A u, c \in A : D[u][c] < far => p[c] - p[u] <= D[u][c]
<1>1. /\ \A u, v \in Nodes : D[u][v] \in Nat /\ D[u][v] <= far
      /\ \A u \in Nodes : D[u][u] = 0
  BY DEF IsMetric
<1>2. Len(es) \in Nat /\ \A e \in 1..Len(es) : es[e].dest \in Nodes /\ es[e].dist \in Nat /\ es[e].dist > 0
  BY EdgeFields
<1> DEFINE Bad == {n \in Nat : \E u, c \in A : D[u][c] = n /\ n < far /\ ~(p[c] - p[u] <= n)}
<1>3. SUFFICES Bad = {}
  BY <1>1
<1>4. SUFFICES ASSUME Bad # {} PROVE FALSE
  OBVIOUS
<1>5. PICK m \in Bad : \A k \in Bad : m <= k
  <2>1. Bad \in SUBSET Nat
    OBVIOUS
  <2> HIDE DEF Bad
  <2> QED BY <2>1, <1>4, LeastMember
<1>6. PICK u \in A, c \in A : D[u][c] = m /\ m < far /\ ~(p[c] - p[u] <= m)
  BY <1>5
<1>7. m \in Nat /\ p[u] \in Int /\ p[c] \in Int
  BY <1>5
<1>8. u # c
  BY <1>1, <1>6, <1>7
<1>9. PICK e \in 1..Len(es) : es[e].start = u /\ es[e].dest \in A /\ es[e].dist + D[es[e].dest][c] = D[u][c]
  BY <1>6, <1>8 DEF PathsWithin, Leads
<1> DEFINE v == es[e].dest
           w == es[e].dist
<1>10. /\ v \in A /\ v \in Nodes /\ w \in Nat /\ w > 0 /\ w + D[v][c] = m /\ D[v][c] \in Nat
       /\ p[v] <= p[u] + w /\ p[v] \in Int
  BY <1>1, <1>2, <1>6, <1>9
<1> HIDE DEF v, w
<1>11. D[v][c] < m /\ D[v][c] < far /\ ~(p[c] - p[v] <= D[v][c])
  <2> DEFINE k == D[v][c]  pu == p[u]  pc == p[c]  pv == p[v]
  <2>1. /\ w \in Nat /\ w > 0 /\ w + k = m /\ k \in Nat /\ m \in Nat /\ m < far
        /\ pv <= pu + w /\ ~(pc - pu <= m) /\ pu \in Int /\ pc \in Int /\ pv \in Int
    BY <1>6, <1>7, <1>10
  <2>2. far \in Nat
    BY HierarchyAssumption
  <2> HIDE DEF k, pu, pc, pv
  <2>3. k < m /\ k < far /\ ~(pc - pv <= k)
    BY <2>1, <2>2
  <2> QED BY <2>3 DEF k, pc, pv
<1>12. D[v][c] \in Bad
  BY <1>10, <1>11
<1>13. m <= D[v][c]
  BY <1>5, <1>12
<1> HIDE DEF Bad
<1> QED BY <1>7, <1>10, <1>11, <1>13

\* A path of two edges over x is replaced by a shortcut if it is shortest.
LEMMA ShortOfDistance ==
  ASSUME NEW D, IsMetric(D), NEW es, NEW orig, EdgesOK(es, orig), EdgesMeasured(es, orig, D),
         NEW cur, NEW A, CurrentOK(es, cur, A),
         NEW u \in A, u \in Nodes, NEW x \in A, x \in Nodes, NEW y \in A, y \in Nodes, u # y,
         NEW e \in 1..Len(es), es[e].start = u, es[e].dest = x,
         NEW f \in 1..Len(es), es[f].start = x, es[f].dest = y,
         es[e].dist + es[f].dist = D[u][y]
  PROVE  ShortOver(es, cur, u, x, y, D[u][y])
<1> DEFINE d == D[u][y]
           p == [z \in Nodes |-> IF D[u][z] <= d THEN D[u][z] ELSE d]
<1>1. /\ \A a, b \in Nodes : D[a][b] \in Nat
      /\ D[u][u] = 0
      /\ \A a, b, c \in Nodes : D[a][c] <= D[a][b] + D[b][c]
  BY DEF IsMetric
<1>2. d \in Nat /\ d = D[u][y]
  BY <1>1
<1> HIDE DEF d
<1>3. es \in Seq(EdgeRecord)
  BY DEF EdgesOK
<1>4. p \in [Nodes -> 0..d] /\ p[u] = 0 /\ p[y] = d
      /\ \A z \in Nodes : p[z] <= D[u][z] /\ (p[z] = D[u][z] \/ p[z] = d)
  <2> DEFINE q == D[u]
  <2>1. q[u] = 0 /\ q[y] = d /\ \A z \in Nodes : q[z] \in Nat
    BY <1>1, <1>2
  <2>2. p = [z \in Nodes |-> IF q[z] <= d THEN q[z] ELSE d]
    OBVIOUS
  <2> HIDE DEF p, q
  <2>3. p \in [Nodes -> 0..d] /\ p[u] = 0 /\ p[y] = d
        /\ \A z \in Nodes : p[z] <= q[z] /\ (p[z] = q[z] \/ p[z] = d)
    BY <2>1, <2>2, <1>2
  <2> QED BY <2>3 DEF q
<1>5. ASSUME NEW a \in Nodes, NEW k \in ToSet(cur[a]) PROVE p[es[k].dest] <= p[a] + es[k].dist
  <2> DEFINE b == es[k].dest
             w == es[k].dist
  <2>1. k \in 1..Len(es) /\ es[k].start = a /\ b \in Nodes /\ w \in Nat
    BY LinkFacts
  <2>2. D[a][b] <= w
    BY <2>1 DEF EdgesMeasured
  <2> HIDE DEF b, w, p
  <2>3. D[u][b] <= D[u][a] + D[a][b] /\ D[u][b] \in Nat /\ D[u][a] \in Nat /\ D[a][b] \in Nat
    BY <2>1, <1>1
  <2>4. p[a] \in 0..d /\ p[b] \in 0..d /\ p[b] <= D[u][b] /\ (p[a] = D[u][a] \/ p[a] = d)
    BY <2>1, <1>4
  <2>5. p[b] <= p[a] + w
    BY <1>2, <2>1, <2>2, <2>3, <2>4
  <2> QED BY <2>5 DEF b, w
<1>6. e \in ToSet(cur[u]) /\ f \in ToSet(cur[x])
  <2>1. \A n \in Nodes : ToSet(cur[n]) = {k \in 1..Len(es) : n \in A /\ es[k].start = n /\ es[k].dest \in A}
    BY DEF CurrentOK
  <2> QED BY <2>1
<1> HIDE DEF p
<1>7. Potential(es, cur, p, u, y, d)
  BY <1>4, <1>5 DEF Potential
<1> QED BY <1>2, <1>4, <1>6, <1>7 DEF ShortOver

\* The shortcuts that are added are as long as the distance of their ends.
LEMMA AddedMeasured ==
  ASSUME NEW D, IsMetric(D), NEW es, NEW orig, EdgesOK(es, orig), EdgesMeasured(es, orig, D),
         NEW cur, NEW A \in SUBSET Nodes, CurrentOK(es, cur, A), PathsWithin(es, D, A),
         NEW level \in SUBSET Nodes, NEW found, FoundAll(es, cur, level, found),
         NEW acc, AddOK(es, orig, cur, found, acc, Len(found))
  PROVE  EdgesMeasured(acc.edges, orig, D)
<1>1. /\ \A a, b \in Nodes : D[a][b] \in Nat
      /\ \A a, b, c \in Nodes : D[a][c] <= D[a][b] + D[b][c]
  BY DEF IsMetric
<1>2. es \in Seq(EdgeRecord) /\ Len(es) \in Nat /\ orig \in 0..Len(es)
  BY DEF EdgesOK
<1>3. ASSUME NEW s, FoundOK(es, cur, level, s)
      PROVE  D[s.start][s.dest] <= s.dist /\ (D[s.start][s.dest] < far => s.dist = D[s.start][s.dest])
  <2>1. /\ s.start \in Nodes /\ s.dest \in Nodes /\ s.dist \in Nat
        /\ s.start \in A /\ s.dest \in A
        /\ s.parts[1] \in 1..Len(es) /\ s.parts[2] \in 1..Len(es)
    BY <1>3, FoundLinks
  <2>2. PICK x \in level :
               /\ ShortOver(es, cur, s.start, x, s.dest, s.dist)
               /\ es[s.parts[2]].start = s.start /\ es[s.parts[2]].dest = x
               /\ es[s.parts[1]].start = x /\ es[s.parts[1]].dest = s.dest
               /\ es[s.parts[2]].dist + es[s.parts[1]].dist = s.dist
    BY <1>3, FoundLinks
  <2> DEFINE u == s.start  y == s.dest  d == s.dist
             a == es[s.parts[2]].dist  b == es[s.parts[1]].dist
  <2>3. a \in Nat /\ b \in Nat /\ D[u][x] <= a /\ D[x][y] <= b /\ x \in Nodes
    BY <2>1, <2>2, <1>2, EdgeFields DEF EdgesMeasured
  <2>4. u \in Nodes /\ y \in Nodes /\ u \in A /\ y \in A /\ a + b = d /\ d \in Nat
    BY <2>1, <2>2
  <2>5. PICK p \in [Nodes -> 0..d] : Potential(es, cur, p, u, y, d)
    BY <2>2 DEF ShortOver
  <2> HIDE DEF u, y, d, a, b
  <2>6. D[u][y] <= d
    <3>1. D[u][y] <= D[u][x] + D[x][y] /\ D[u][y] \in Nat /\ D[u][x] \in Nat /\ D[x][y] \in Nat
      BY <2>3, <2>4, <1>1
    <3> QED BY <3>1, <2>3, <2>4
  <2>7. D[u][y] < far => d <= D[u][y]
    <3>1. p \in [Nodes -> Int] /\ p[u] = 0 /\ p[y] = d
      BY <2>4, <2>5 DEF Potential
    <3>2. ASSUME NEW k \in 1..Len(es), es[k].start \in A, es[k].dest \in A
          PROVE  p[es[k].dest] <= p[es[k].start] + es[k].dist
      <4>1. es[k].start \in Nodes /\ k \in ToSet(cur[es[k].start])
        BY <3>2, <1>2, EdgeFields DEF CurrentOK
      <4> QED BY <4>1, <2>5 DEF Potential
    <3>3. D[u][y] < far => p[y] - p[u] <= D[u][y]
      BY <3>1, <3>2, <2>4, <1>2, PotentialBound
    <3> QED BY <3>1, <3>3, <2>4
  <2>8. D[u][y] \in Nat
    BY <2>4, <1>1
  <2>9. D[u][y] <= d /\ (D[u][y] < far => d = D[u][y])
    BY <2>4, <2>6, <2>7, <2>8
  <2> QED BY <2>9 DEF u, y, d
<1>4. ASSUME NEW e \in 1..Len(acc.edges)
      PROVE  /\ D[acc.edges[e].start][acc.edges[e].dest] <= acc.edges[e].dist
             /\ e > orig /\ D[acc.edges[e].start][acc.edges[e].dest] < far =>
                  acc.edges[e].dist = D[acc.edges[e].start][acc.edges[e].dest]
  <2>1. CASE e \in 1..Len(es)
    <3>1. acc.edges[e] = es[e]
      BY <2>1 DEF AddOK
    <3> QED BY <2>1, <3>1 DEF EdgesMeasured
  <2>2. CASE e \notin 1..Len(es)
    <3>1. e \in (Len(es) + 1)..Len(acc.edges)
      <4>1. Len(acc.edges) \in Nat
        BY DEF AddOK, AddRecord
      <4> QED BY <4>1, <2>2, <1>2
    <3>2. PICK j \in 1..Len(found) : acc.edges[e] = found[j]
      BY <3>1 DEF AddOK
    <3>3. FoundOK(es, cur, level, found[j])
      BY DEF FoundAll
    <3> QED BY <3>2, <3>3, <1>3
  <2> QED BY <2>1, <2>2
<1> QED BY <1>4 DEF EdgesMeasured

\* Once the shortcuts are there, no shortest path needs the level.
LEMMA AddedPaths ==
  ASSUME NEW D, IsMetric(D), NEW es, NEW orig, EdgesOK(es, orig), EdgesMeasured(es, orig, D),
         NEW cur, NEW A \in SUBSET Nodes, CurrentOK(es, cur, A), PathsWithin(es, D, A),
         NEW level \in SUBSET A, \A x \in level : Near(es, cur, x) \cap level = {},
         NEW found, FoundAll(es, cur, level, found),
         NEW acc, AddOK(es, orig, cur, found, acc, Len(found))
  PROVE  PathsWithin(acc.edges, D, A \ level)
<1>1. /\ \A a, b \in Nodes : D[a][b] \in Nat /\ D[a][b] <= far
      /\ \A a, b, c \in Nodes : D[a][c] <= D[a][b] + D[b][c]
  BY DEF IsMetric
<1>2. es \in Seq(EdgeRecord) /\ Len(es) \in Nat /\ orig \in 0..Len(es)
  BY DEF EdgesOK
<1>3. /\ Len(acc.edges) \in Nat /\ Len(es) <= Len(acc.edges)
      /\ \A e \in 1..Len(es) : e \in 1..Len(acc.edges) /\ acc.edges[e] = es[e]
  BY <1>2 DEF AddOK, AddRecord
<1>4. EdgesMeasured(acc.edges, orig, D)
  BY AddedMeasured
<1>5. ASSUME NEW u \in A \ level, NEW c \in A \ level, u # c, D[u][c] < far
      PROVE  Leads(acc.edges, D, A \ level, u, c)
  <2>1. PICK e \in 1..Len(es) : es[e].start = u /\ es[e].dest \in A /\ es[e].dist + D[es[e].dest][c] = D[u][c]
    BY <1>5 DEF PathsWithin, Leads
  <2>2. CASE es[e].dest \notin level
    BY <2>1, <2>2, <1>3 DEF Leads
  <2>3. CASE es[e].dest \in level
    <3> DEFINE x == es[e].dest
    <3>1. x \in A /\ x \in level /\ x # c /\ x \in Nodes /\ u \in Nodes /\ c \in Nodes
      BY <2>1, <2>3, <1>5
    <3>2. es[e].dist \in Nat /\ D[x][c] \in Nat /\ D[u][c] \in Nat /\ es[e].dist + D[x][c] = D[u][c]
      BY <2>1, <3>1, <1>1, <1>2, EdgeFields
    <3> HIDE DEF x
    <3>3. D[x][c] < far
      BY <3>2, <1>5, HierarchyAssumption
    <3>4. PICK f \in 1..Len(es) : es[f].start = x /\ es[f].dest \in A /\ es[f].dist + D[es[f].dest][c] = D[x][c]
      BY <3>1, <3>3 DEF PathsWithin, Leads
    <3> DEFINE y == es[f].dest
    <3>5. y \in A /\ y \in Nodes /\ es[f].dist \in Nat /\ es[f].dist > 0
          /\ D[y][c] \in Nat /\ D[u][y] \in Nat /\ es[f].dist + D[y][c] = D[x][c]
      BY <3>1, <3>4, <1>1, <1>2, EdgeFields
    <3>6. y \notin level
      <4>1. f \in ToSet(cur[x])
        BY <3>1, <3>4 DEF CurrentOK
      <4>2. y \in Near(es, cur, x)
        BY <4>1 DEF Near
      <4> QED BY <4>2, <3>1
    <3>7. D[u][x] <= es[e].dist /\ D[x][y] <= es[f].dist /\ D[u][x] \in Nat /\ D[x][y] \in Nat
      <4>1. D[u][x] <= es[e].dist
        BY <2>1 DEF EdgesMeasured, x
      <4>2. D[x][y] <= es[f].dist
        BY <3>4 DEF EdgesMeasured
      <4> QED BY <4>1, <4>2, <3>1, <3>5, <1>1
    <3>8. u # y
      BY <3>2, <3>5
    <3> HIDE DEF y
    <3>9. D[u][y] <= D[u][x] + D[x][y] /\ D[u][c] <= D[u][y] + D[y][c]
      BY <3>1, <3>5, <1>1
    <3>10. es[e].dist + es[f].dist = D[u][y] /\ D[u][y] + D[y][c] = D[u][c]
      <4> DEFINE a == es[e].dist  b == es[f].dist  xc == D[x][c]  uc == D[u][c]  yc == D[y][c]
                 ux == D[u][x]  xy == D[x][y]  uy == D[u][y]
      <4>1. /\ a \in Nat /\ b \in Nat /\ a + xc = uc /\ b + yc = xc /\ ux <= a /\ xy <= b
            /\ uy <= ux + xy /\ uc <= uy + yc
            /\ xc \in Nat /\ uc \in Nat /\ yc \in Nat /\ ux \in Nat /\ xy \in Nat /\ uy \in Nat
        BY <3>2, <3>5, <3>7, <3>9
      <4> HIDE DEF a, b, xc, uc, yc, ux, xy, uy
      <4>2. a + b = uy /\ uy + yc = uc
        BY <4>1
      <4> QED BY <4>2 DEF a, b, uy, uc, yc
    <3>11. D[u][y] < far
      BY <3>2, <3>5, <3>10, <1>5, HierarchyAssumption
    <3>12. es[e].start = u /\ es[e].dest = x /\ es[f].start = x /\ es[f].dest = y
      BY <2>1, <3>4 DEF x, y
    <3>13. ShortOver(es, cur, u, x, y, D[u][y])
      BY <3>1, <3>5, <3>8, <3>10, <3>12, ShortOfDistance
    <3>14. PICK j \in 1..Len(found) : found[j].start = u /\ found[j].dest = y
      BY <3>1, <3>5, <3>13 DEF FoundAll
    <3>15. PICK k \in (orig + 1)..Len(acc.edges) : acc.edges[k].start = u /\ acc.edges[k].dest = y
      BY <3>14 DEF AddOK
    <3>16. k \in 1..Len(acc.edges) /\ k > orig
      BY <1>2, <1>3
    <3>17. acc.edges[k].dist = D[u][y]
      BY <3>11, <3>15, <3>16, <1>4 DEF EdgesMeasured
    <3>18. acc.edges[k].dest \in A \ level /\ acc.edges[k].dist + D[acc.edges[k].dest][c] = D[u][c]
      BY <3>5, <3>6, <3>10, <3>15, <3>17
    <3> QED BY <3>15, <3>16, <3>18 DEF Leads
  <2> QED BY <2>2, <2>3
<1> QED BY <1>5 DEF PathsWithin

------------------------------------------------------------------------------
\* What the invariants say about the distances, with a name for them.
LEMMA DistanceFacts ==
  ASSUME CHInv, DistanceInv
  PROVE  \E D : /\ D = AllDistances[grid] /\ IsMetric(D)
                /\ EdgesMeasured(edges, numOfOriginalEdges, D)
                /\ PathsWithin(edges, D, Standing)
                /\ PathsRise(edges, D, levels)
<1>1. IsMetric(AllDistances[grid])
  BY GridMetric DEF DistanceInv
<1> QED BY <1>1 DEF DistanceInv

\* A level is chosen: from its nodes all paths lead upwards.
LEMMA SelectDistances ==
  ASSUME CHInv, DistanceInv, SelectLevel
  PROVE  DistanceInv'
<1> DEFINE L == ToSet(LevelOf)
<1>1. /\ phase = "select" /\ grid' = grid
      /\ levels' = [n \in Nodes |-> IF n \in L THEN NextLevel ELSE levels[n]]
      /\ edges' = edges /\ numOfOriginalEdges' = numOfOriginalEdges /\ phase' = "search"
  BY DEF SelectLevel, LevelOf, gridVars
<1>2. /\ EdgesOK(edges, numOfOriginalEdges) /\ CurrentOK(edges, currentEdges, Alive)
      /\ calcOrder \in Orders /\ nodesToCalc = <<>> /\ LevelsOK
  BY <1>1 DEF CHInv
<1>3. /\ \A x \in L : /\ x \in Nodes /\ ~Contracted(x)
                      /\ Near(edges, currentEdges, x) \cap L = {}
      /\ L # {}
  BY <1>1, <1>2, PickedFacts DEF SelectLevel
<1>4. levels \in [Nodes -> -1..Cardinality(Nodes)]
  BY <1>2 DEF LevelsOK
<1>5. /\ NextLevel \in Nat /\ \A n \in Nodes : levels[n] < NextLevel /\ levels[n] \in Int
      /\ \E m \in Nodes : NextLevel = 1 + levels[m]
  BY <1>4, NextLevelFacts
<1>6. Level = {} /\ Alive' = Alive /\ \A n \in Nodes : n \in Alive <=> levels[n] = -1
  <2>1. Level = {}
    BY <1>2 DEF Level, ToSet
  <2>2. Alive' = Alive
    BY SelectLevels
  <2> QED BY <2>1, <2>2 DEF Alive, Contracted
<1> HIDE DEF L
<1>7. /\ \A n \in Nodes : n \in L => levels'[n] = NextLevel /\ levels[n] = -1
      /\ \A n \in Nodes : n \notin L => levels'[n] = levels[n]
  BY <1>1, <1>3 DEF Contracted
<1>8. PICK D : /\ D = AllDistances[grid] /\ IsMetric(D)
               /\ PathsWithin(edges, D, Standing)
               /\ PathsRise(edges, D, levels)
  BY DistanceFacts
<1>9. Standing = Alive /\ Standing' = Alive
  BY <1>1, <1>6 DEF Standing
<1>10. ASSUME NEW u \in Nodes, NEW c \in Nodes, u # c, levels'[u] # -1,
              levels'[c] = -1 \/ levels'[c] >= levels'[u], D[u][c] < far
       PROVE  Leads(edges, D, Above(levels', u), u, c)
  <2>1. CASE u \in L
    <3>1. levels'[u] = NextLevel /\ u \in Alive
      BY <2>1, <1>6, <1>7
    <3>2. c \in Alive
      <4>1. CASE c \in L
        BY <4>1, <1>6, <1>7
      <4>2. CASE c \notin L
        BY <4>2, <3>1, <1>5, <1>6, <1>7, <1>10
      <4> QED BY <4>1, <4>2
    <3>3. PICK e \in 1..Len(edges) : /\ edges[e].start = u /\ edges[e].dest \in Alive
                                     /\ edges[e].dist + D[edges[e].dest][c] = D[u][c]
      BY <3>1, <3>2, <1>8, <1>9, <1>10 DEF PathsWithin, Leads
    <3>4. edges[e].dest \in Near(edges, currentEdges, u)
      <4>1. e \in ToSet(currentEdges[u])
        BY <3>1, <3>3, <1>2 DEF CurrentOK
      <4> QED BY <4>1 DEF Near
    <3>5. edges[e].dest \notin L /\ edges[e].dest \in Nodes
      BY <2>1, <3>3, <3>4, <1>3 DEF Alive
    <3>6. levels'[edges[e].dest] = -1
      BY <3>3, <3>5, <1>6, <1>7
    <3> QED BY <3>3, <3>5, <3>6 DEF Leads, Above
  <2>2. CASE u \notin L
    <3>1. levels'[u] = levels[u] /\ levels[u] # -1
      BY <2>2, <1>7, <1>10
    <3>2. levels[c] = -1 \/ levels[c] >= levels[u]
      BY <3>1, <1>7, <1>10
    <3>3. PICK e \in 1..Len(edges) : /\ edges[e].start = u /\ edges[e].dest \in Above(levels, u)
                                     /\ edges[e].dist + D[edges[e].dest][c] = D[u][c]
      BY <3>1, <3>2, <1>8, <1>10 DEF PathsRise, Leads
    <3>4. edges[e].dest \in Above(levels', u)
      <4>1. edges[e].dest \in Nodes /\ (levels[edges[e].dest] = -1 \/ levels[edges[e].dest] > levels[u])
        BY <3>3 DEF Above
      <4>2. CASE edges[e].dest \in L
        BY <4>1, <4>2, <3>1, <1>5, <1>7 DEF Above
      <4>3. CASE edges[e].dest \notin L
        BY <4>1, <4>3, <3>1, <1>7 DEF Above
      <4> QED BY <4>2, <4>3
    <3> QED BY <3>3, <3>4 DEF Leads
  <2> QED BY <2>1, <2>2
<1>11. PathsRise(edges, D, levels')
  BY <1>10 DEF PathsRise
<1>12. LevelsFilled(levels')
  <2>1. SUFFICES ASSUME NEW n \in Nodes, NEW l \in 0..levels'[n] PROVE \E m \in Nodes : levels'[m] = l
    BY DEF LevelsFilled
  <2>2. PICK x \in L : x \in Nodes /\ levels'[x] = NextLevel
    BY <1>3, <1>7
  <2>3. CASE l = NextLevel
    BY <2>2, <2>3
  <2>4. CASE l # NextLevel
    <3>1. \E k \in Nodes : l \in 0..levels[k]
      <4>1. CASE n \in L
        <5>1. PICK k \in Nodes : NextLevel = 1 + levels[k]
          BY <1>5
        <5>2. l \in 0..NextLevel /\ levels[k] \in Int
          BY <4>1, <1>5, <1>7
        <5> QED BY <5>1, <5>2, <2>4
      <4>2. CASE n \notin L
        BY <4>2, <1>7
      <4> QED BY <4>1, <4>2
    <3>2. PICK m \in Nodes : levels[m] = l
      BY <3>1 DEF DistanceInv, LevelsFilled
    <3>3. m \notin L
      BY <3>2, <1>7
    <3> QED BY <3>2, <3>3, <1>7
  <2> QED BY <2>3, <2>4
<1> QED BY <1>1, <1>8, <1>9, <1>11, <1>12 DEF DistanceInv

\* The shortcuts are added.
LEMMA AddDistances ==
  ASSUME CHInv, DistanceInv, AddAllShortcuts
  PROVE  DistanceInv'
<1> DEFINE acc == Added([edges |-> edges, current |-> currentEdges], FoundSeq)
           orig == numOfOriginalEdges
<1>1. /\ phase = "search" /\ \A t \in Threads : todo[t] = <<>>
      /\ edges' = acc.edges /\ phase' = "remove" /\ grid' = grid
      /\ orig' = orig /\ levels' = levels /\ nodesToCalc' = nodesToCalc
  BY DEF AddAllShortcuts, FoundSeq, Added
<1> HIDE DEF acc
<1>2. EdgesOK(edges, orig) /\ CurrentOK(edges, currentEdges, Alive) /\ LevelsOK
  BY DEF CHInv
<1>3. Level \in SUBSET Nodes /\ Level \in SUBSET Alive /\ Alive \in SUBSET Nodes
  BY <1>2 DEF LevelsOK, Level, ToSet, Alive
<1>4. FoundAll(edges, currentEdges, Level, FoundSeq)
  BY <1>1, FoundFacts
<1>5. FoundSeq \in Seq(EdgeRecord)
  BY <1>4 DEF FoundAll
<1>6. AddOK(edges, orig, currentEdges, FoundSeq, acc, Len(FoundSeq))
  BY <1>2, <1>5, AllAdded DEF acc
<1>7. PICK D : /\ D = AllDistances[grid] /\ IsMetric(D)
               /\ EdgesMeasured(edges, orig, D)
               /\ PathsWithin(edges, D, Standing)
               /\ PathsRise(edges, D, levels)
  BY DistanceFacts
<1>8. Standing = Alive /\ Standing' = Alive \ Level
  BY <1>1 DEF Standing, Alive, Level, Contracted
<1>9. EdgesMeasured(acc.edges, orig, D)
  BY <1>2, <1>3, <1>4, <1>6, <1>7, <1>8, AddedMeasured
<1>10. PathsWithin(acc.edges, D, Alive \ Level)
  <2>1. \A x \in Level : Near(edges, currentEdges, x) \cap Level = {}
    BY LevelApart
  <2> QED BY <2>1, <1>2, <1>3, <1>4, <1>6, <1>7, <1>8, AddedPaths
<1>11. PathsRise(acc.edges, D, levels)
  <2>1. /\ Len(edges) \in Nat /\ Len(acc.edges) \in Nat /\ Len(edges) <= Len(acc.edges)
        /\ \A e \in 1..Len(edges) : acc.edges[e] = edges[e]
    BY <1>2, <1>6 DEF AddOK, AddRecord, EdgesOK
  <2>2. \A e \in 1..Len(edges) : e \in 1..Len(acc.edges)
    BY <2>1
  <2>3. ASSUME NEW A, NEW u, NEW c, Leads(edges, D, A, u, c) PROVE Leads(acc.edges, D, A, u, c)
    BY <2>1, <2>2, <2>3 DEF Leads
  <2> QED BY <2>3, <1>7 DEF PathsRise
<1>12. FromGrid(grid, acc.edges, orig)
  <2>1. \A e \in 1..orig : acc.edges[e] = edges[e]
    <3>1. Len(edges) \in Nat /\ orig \in 0..Len(edges)
      BY <1>2 DEF EdgesOK
    <3>2. \A e \in 1..orig : e \in 1..Len(edges)
      BY <3>1
    <3> QED BY <3>2, <1>6 DEF AddOK
  <2> QED BY <2>1 DEF DistanceInv, FromGrid
<1> QED BY <1>1, <1>7, <1>8, <1>9, <1>10, <1>11, <1>12 DEF DistanceInv

\* The level is taken out of the graph.
LEMMA RemoveDistances ==
  ASSUME CHInv, DistanceInv, RemoveLevel
  PROVE  DistanceInv'
<1>1. /\ phase = "remove" /\ phase' \in {"select", "crashed"} /\ nodesToCalc' = <<>>
      /\ edges' = edges /\ numOfOriginalEdges' = numOfOriginalEdges /\ levels' = levels /\ grid' = grid
  BY DEF RemoveLevel
<1>2. \A x \in Level : Contracted(x)
  BY DEF CHInv, LevelsOK
<1>3. Standing' = Standing
  <2>1. Level' = {}
    BY <1>1 DEF Level, ToSet
  <2>2. Alive' = {a \in Nodes : ~Contracted(a)}
    BY <2>1, <1>1 DEF Alive, Contracted
  <2>3. Standing = Alive \ Level /\ Standing' = Alive'
    BY <1>1 DEF Standing
  <2> QED BY <2>2, <2>3, <1>2 DEF Alive, Contracted
<1> QED BY <1>1, <1>3 DEF DistanceInv

\* Steps of the threads, and steps that change nothing.
LEMMA FrameDistances ==
  ASSUME DistanceInv, UNCHANGED <<grid, gridVars, levels, nodesToCalc, phase>>
  PROVE  DistanceInv'
BY DEF DistanceInv, gridVars, Standing, Alive, Level, Contracted

\* The inductive invariant about distances.
THEOREM ContractionPaths == CHSpec => []DistanceInv
<1>1. CHInit => DistanceInv
  BY DistanceStart
<1>2. CHInv /\ DistanceInv /\ [CHNext \/ CHFinished]_chVars => DistanceInv'
  <2>1. SUFFICES ASSUME CHInv, DistanceInv, [CHNext \/ CHFinished]_chVars PROVE DistanceInv'
    OBVIOUS
  <2>2. CASE SelectLevel
    BY <2>1, <2>2, SelectDistances
  <2>3. ASSUME NEW t \in Threads, ThreadStep(t) PROVE DistanceInv'
    <3>1. UNCHANGED <<grid, gridVars, levels, nodesToCalc, phase>>
      BY <2>3 DEF ThreadStep, SkipNode, nextCalc, nextStep, addShortcuts
    <3> QED BY <2>1, <3>1, FrameDistances
  <2>4. CASE AddAllShortcuts
    BY <2>1, <2>4, AddDistances
  <2>5. CASE RemoveLevel
    BY <2>1, <2>5, RemoveDistances
  <2>6. CASE UNCHANGED chVars
    BY <2>1, <2>6, FrameDistances DEF chVars, gridVars
  <2> QED BY <2>1, <2>2, <2>3, <2>4, <2>5, <2>6 DEF CHNext, CHFinished
<1> QED BY <1>1, <1>2, ContractionInvariant, PTL DEF CHSpec

\* The graph that remains has the distances of the imported one.
THEOREM ContractionDistances == CHSpec => []DistancesArePreserved
<1>1. CHInv /\ DistanceInv => DistancesArePreserved
  <2>1. SUFFICES ASSUME CHInv, DistanceInv, phase = "select"
                 PROVE  \A u, v \in Nodes : ~Contracted(u) /\ ~Contracted(v) =>
                          ShortestDistances(Remaining, far)[u][v] = AllDistances[grid][u][v]
    BY DEF DistancesArePreserved
  <2>2. EdgesOK(edges, numOfOriginalEdges) /\ CurrentOK(edges, currentEdges, Alive)
    BY <2>1 DEF CHInv
  <2>3. edges \in Seq(EdgeRecord)
    BY <2>2 DEF EdgesOK
  <2>4. PICK D : /\ D = AllDistances[grid] /\ IsMetric(D)
                 /\ EdgesMeasured(edges, numOfOriginalEdges, D)
                 /\ PathsWithin(edges, D, Standing)
    BY <2>1, DistanceFacts
  <2>5. /\ \A u, v \in Nodes : D[u][v] \in Nat /\ D[u][v] <= far
        /\ \A u \in Nodes : D[u][u] = 0
        /\ \A u, v, w \in Nodes : D[u][w] <= D[u][v] + D[v][w]
    BY <2>4 DEF IsMetric
  <2>6. Standing = Alive /\ Alive \in SUBSET Nodes /\ \A u \in Nodes : ~Contracted(u) => u \in Alive
    BY <2>1 DEF Standing, Alive
  <2> DEFINE g == Remaining
  <2>7. /\ DOMAIN g = Nodes
        /\ \A u \in Nodes : \A i \in DOMAIN g[u] :
             /\ i \in DOMAIN currentEdges[u] /\ g[u][i] = edges[currentEdges[u][i]]
             /\ currentEdges[u][i] \in ToSet(currentEdges[u])
        /\ \A u \in Nodes : \A e \in ToSet(currentEdges[u]) : \E i \in DOMAIN g[u] : g[u][i] = edges[e]
    BY DEF Remaining, ToSet
  <2> HIDE DEF g
  <2>8. ASSUME NEW u \in Nodes, NEW i \in DOMAIN g[u]
        PROVE  /\ g[u][i].dest \in Nodes /\ g[u][i].dist \in Nat
               /\ D[u][g[u][i].dest] <= g[u][i].dist
    <3> DEFINE e == currentEdges[u][i]
    <3>1. e \in ToSet(currentEdges[u]) /\ g[u][i] = edges[e]
      BY <2>7
    <3> HIDE DEF e
    <3>2. e \in 1..Len(edges) /\ edges[e].start = u /\ edges[e].dest \in Nodes /\ edges[e].dist \in Nat
      BY <3>1, <2>2, LinkFacts
    <3>3. D[u][edges[e].dest] <= edges[e].dist
      BY <3>2, <2>4 DEF EdgesMeasured
    <3> QED BY <3>1, <3>2, <3>3
  <2>9. IsGraph(g, Nodes)
    BY <2>7, <2>8 DEF IsGraph
  <2>10. Nodes \in SUBSET Nat /\ IsFiniteSet(Nodes) /\ far \in Nat
    BY NodesFacts, HierarchyAssumption
  <2> DEFINE R == ShortestDistances(g, far)
  <2>11. AreDistances(g, Nodes, far, R)
    BY <2>9, <2>10, ReferenceCorrect
  <2> HIDE DEF R
  <2>12. ASSUME NEW u \in Alive, NEW v \in Alive PROVE R[u][v] = D[u][v]
    <3>1. u \in Nodes /\ v \in Nodes
      BY <2>6
    <3>2. \A x, y \in Nodes : R[x][y] \in Nat /\ R[x][y] <= far
      BY <2>10, <2>11, DistanceFields
    <3>3. \A x, y, z \in Nodes : R[x][z] <= R[x][y] + R[y][z]
      BY <2>11 DEF AreDistances
    <3>4. R[u][u] = 0
      BY <3>1, <2>11 DEF AreDistances
    <3>5. D[u][v] <= R[u][v]
      <4> DEFINE p == [x \in Nodes |-> D[u][x]]
      <4>1. p \in [Nodes -> Int] /\ \A x \in Nodes : p[x] = D[u][x] /\ p[x] \in Nat /\ p[x] <= far
        BY <3>1, <2>5
      <4> HIDE DEF p
      <4>2. \A x, y \in Nodes : p[y] - p[x] <= far
        BY <4>1, <2>10
      <4>3. ASSUME NEW x \in Nodes, NEW i \in DOMAIN g[x] PROVE p[g[x][i].dest] <= p[x] + g[x][i].dist
        <5> DEFINE y == g[x][i].dest  w == g[x][i].dist  k == D[x][y]
        <5>1. y \in Nodes /\ w \in Nat /\ k <= w
          BY <2>8
        <5>2. D[u][y] <= D[u][x] + k /\ k \in Nat
          BY <3>1, <5>1, <2>5
        <5> HIDE DEF y, w, k
        <5>3. p[y] <= p[x] + k /\ p[y] \in Nat /\ p[x] \in Nat
          BY <5>1, <5>2, <4>1
        <5>4. p[y] <= p[x] + w
          BY <5>1, <5>2, <5>3
        <5> QED BY <5>4 DEF y, w
      <4>4. GraphPotential(g, Nodes, far, p)
        BY <4>1, <4>2, <4>3 DEF GraphPotential
      <4>5. p[v] - p[u] <= R[u][v]
        BY <3>1, <4>4, <2>11 DEF AreDistances
      <4>6. p[u] = 0 /\ p[v] \in Nat /\ R[u][v] \in Nat /\ p[v] = D[u][v]
        BY <3>1, <3>2, <4>1, <2>5
      <4> QED BY <4>5, <4>6
    <3>6. R[u][v] <= D[u][v]
      <4>1. CASE D[u][v] < far
        <5> DEFINE p == [x \in Nodes |-> R[u][x]]
        <5>1. p \in [Nodes -> Int] /\ \A x \in Nodes : p[x] = R[u][x] /\ p[x] \in Nat
          BY <3>1, <3>2
        <5> HIDE DEF p
        <5>2. ASSUME NEW e \in 1..Len(edges), edges[e].start \in Alive, edges[e].dest \in Alive
              PROVE  p[edges[e].dest] <= p[edges[e].start] + edges[e].dist
          <6> DEFINE x == edges[e].start  y == edges[e].dest  w == edges[e].dist
          <6>1. x \in Nodes /\ y \in Nodes /\ w \in Nat /\ e \in ToSet(currentEdges[x])
            BY <5>2, <2>2, <2>3, EdgeFields DEF CurrentOK
          <6>2. PICK i \in DOMAIN g[x] : g[x][i] = edges[e]
            BY <6>1, <2>7
          <6>3. g[x][i].dest = y /\ g[x][i].dist = w
            BY <6>2
          <6> HIDE DEF x, y, w
          <6> DEFINE k == R[x][y]
          <6>4. k <= w
            BY <6>1, <6>3, <2>11 DEF AreDistances
          <6>5. R[u][y] <= R[u][x] + k /\ k \in Nat
            BY <6>1, <3>1, <3>2, <3>3
          <6> HIDE DEF k
          <6>6. p[y] <= p[x] + k /\ p[y] \in Nat /\ p[x] \in Nat
            BY <6>1, <6>5, <5>1
          <6>7. p[y] <= p[x] + w
            BY <6>1, <6>4, <6>5, <6>6
          <6> QED BY <6>7 DEF x, y, w
        <5>3. p[v] - p[u] <= D[u][v]
          <6>1. PathsWithin(edges, D, Alive) /\ IsMetric(D)
            BY <2>4, <2>6
          <6> QED BY <6>1, <5>1, <5>2, <4>1, <2>3, <2>6, PotentialBound
        <5>4. p[u] = 0 /\ p[v] = R[u][v] /\ R[u][v] \in Nat /\ D[u][v] \in Nat
          BY <3>1, <3>2, <3>4, <5>1, <2>5
        <5> QED BY <5>3, <5>4
      <4>2. CASE ~(D[u][v] < far)
        <5>1. D[u][v] \in Nat /\ D[u][v] <= far /\ R[u][v] \in Nat /\ R[u][v] <= far
          BY <3>1, <3>2, <2>5
        <5> QED BY <4>2, <5>1, <2>10
      <4> QED BY <4>1, <4>2
    <3>7. R[u][v] \in Nat /\ D[u][v] \in Nat
      BY <3>1, <3>2, <2>5
    <3> QED BY <3>5, <3>6, <3>7
  <2>13. R = ShortestDistances(Remaining, far)
    BY DEF R, g
  <2> QED BY <2>4, <2>6, <2>12, <2>13
<1> QED BY <1>1, ContractionInvariant, ContractionPaths, PTL
==============================================================================
