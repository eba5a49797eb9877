------------------------- MODULE ContractionHierarchy -------------------------
(***************************************************************************)
(* The first half of the preprocessing (hublablecreation): LabelCreator.   *)
(* calculateCH contracts the graph level by level.  A level is a set of    *)
(* nodes no two of which are neighbours; worker threads (CHDijkstra)       *)
(* search from every neighbour of every node of the level for shortest     *)
(* paths over that node, and the main thread adds a shortcut for each path *)
(* found and takes the level out of the graph.                             *)
(*                                                                         *)
(* An edge id is an index of the sequence edges, so ids start at 1; the    *)
(* ids up to numOfOriginalEdges are the edges of the imported graph.       *)
(***************************************************************************)
EXTENDS Integers, Sequences, FiniteSets, SequencesExt, Distances

CONSTANTS Nodes,                 \* node ids, 0 .. n - 1
          Grids,                 \* the graphs considered
          Orders,                \* the orders the shuffle may produce
          NUM_OF_THREADS,        \* number of worker threads
          MULTIPLE_STEP_NUMBER,  \* steps between two looks at the neighbours
          far                    \* the distance of nodes that no path joins

ASSUME HierarchyAssumption ==
  /\ IsFiniteSet(Nodes) /\ Nodes # {} /\ Nodes = 0..(Cardinality(Nodes) - 1)
  /\ NUM_OF_THREADS \in Nat \ {0}
  /\ MULTIPLE_STEP_NUMBER \in Nat \ {0}
  /\ far \in Nat \ {0}

\* How many edges of length d a graph has from u to v.
Copies(g, u, v, d) == Cardinality({k \in DOMAIN g[u] : g[u][k].dest = v /\ g[u][k].dist = d})

\* The imported graph is undirected and has no edge from a node to itself.
\* All edges have a positive length, which the grid has away from the poles.
ASSUME GridAssumption ==
  \A g \in Grids :
    /\ g \in [Nodes -> Seq([dest : Nodes, dist : Nat \ {0}])]
    /\ \A u \in Nodes : \A k \in DOMAIN g[u] :
         /\ g[u][k].dest # u
         /\ Copies(g, u, g[u][k].dest, g[u][k].dist) = Copies(g, g[u][k].dest, u, g[u][k].dist)

\* The shuffle permutes the nodes.
ASSUME OrderAssumption == \A order \in Orders : order \in Seq(Nodes) /\ ToSet(order) = Nodes

Threads == 0..(NUM_OF_THREADS - 1)

\* The distances of the imported graphs.
AllDistances == [g \in Grids |-> ShortestDistances(g, far)]

VARIABLES
  grid,                  \* the imported graph, kept for the properties
  edges,                 \* all edges: start, dest, dist, and parts of a shortcut
  numOfOriginalEdges,
  currentEdges,          \* the edge ids of every node in the remaining graph
  levels,                \* the level of every contracted node, else -1
  calcOrder,             \* the order in which nodes are considered
  nodesToCalc,           \* the nodes of the level being contracted
  phase,                 \* where calcNextLvl is
  todo,                  \* the nodes each thread has still to contract
  nbr,                   \* which neighbour of its node a thread is at
  search,                \* the state of a thread's search
  shortcuts              \* the shortcuts each thread found

gridVars == <<edges, numOfOriginalEdges, currentEdges>>
threadVars == <<todo, nbr, search, shortcuts>>
chVars == <<grid, gridVars, levels, calcOrder, nodesToCalc, phase, threadVars>>

Original(u, e) == [start |-> u, dest |-> e.dest, dist |-> e.dist, parts |-> <<>>]

\* The edge arrays of the imported graph, sorted by start node.
ImportedEdges(g) ==
  FlattenSeq([i \in 1..Cardinality(Nodes) |->
                [k \in DOMAIN g[i - 1] |-> Original(i - 1, g[i - 1][k])]])

\* The ids of the edges of es that start at n, in order.
IdsOf(es, n) == InOrder({i \in DOMAIN es : es[i].start = n})

NoSearch == [initial |-> -1, dist |-> <<>>, prev |-> <<>>, edge |-> <<>>,
             heap |-> {}, final |-> {}, steps |-> 0]

CHInit ==
  /\ grid \in Grids
  /\ edges = ImportedEdges(grid)
  /\ numOfOriginalEdges = Len(edges)
  /\ currentEdges = [n \in Nodes |-> IdsOf(edges, n)]
  /\ levels = [n \in Nodes |-> -1]
  /\ calcOrder \in Orders
  /\ nodesToCalc = <<>>
  /\ phase = "select"
  /\ todo = [t \in Threads |-> <<>>]
  /\ nbr = [t \in Threads |-> 1]
  /\ search = [t \in Threads |-> NoSearch]
  /\ shortcuts = [t \in Threads |-> <<>>]

Contracted(n) == levels[n] # -1
NextLevel == 1 + Max({levels[n] : n \in Nodes})

NeighboursOf(n) == [i \in DOMAIN currentEdges[n] |-> edges[currentEdges[n][i]].dest]
------------------------------------------------------------------------------
\* Mutant of PickNode: the neighbours of a node of the level are not marked.
PickAny(acc, n) ==
  IF Contracted(n) THEN acc
  ELSE [level |-> Append(acc.level, n), near |-> {}]

\* One turn of the loop that picks a level: n is taken unless it is
\* contracted or a neighbour of a node taken before it.
PickNode(acc, n) ==
  IF Contracted(n) \/ n \in acc.near THEN acc
  ELSE [level |-> Append(acc.level, n),
        near  |-> acc.near \cup {n} \cup ToSet(NeighboursOf(n))]

\* The share of thread t: every NUM_OF_THREADS-th node.
ShareOf(level, t) ==
  [i \in 1..((Len(level) - t + NUM_OF_THREADS - 1) \div NUM_OF_THREADS) |->
     level[(i - 1) * NUM_OF_THREADS + t + 1]]

\* calcNextLvl up to the start of the threads.
SelectLevel ==
  /\ phase = "select"
  /\ \E n \in Nodes : ~Contracted(n)
  /\ LET level == FoldLeft(PickNode, [level |-> <<>>, near |-> {}], calcOrder).level
     IN  /\ nodesToCalc' = level
         /\ levels' = [n \in Nodes |-> IF n \in ToSet(level) THEN NextLevel ELSE levels[n]]
         /\ todo' = [t \in Threads |-> ShareOf(level, t)]
  /\ shortcuts' = [t \in Threads |-> <<>>]
  /\ phase' = "search"
  /\ UNCHANGED <<grid, gridVars, calcOrder, nbr, search>>

\* A node with fewer than two edges needs no shortcut.
SkipNode(t) ==
  /\ phase = "search"
  /\ todo[t] # <<>>
  /\ Len(currentEdges[Head(todo[t])]) < 2
  /\ todo' = [todo EXCEPT ![t] = Tail(todo[t])]
  /\ UNCHANGED <<grid, gridVars, levels, calcOrder, nodesToCalc, phase, nbr, search, shortcuts>>

\* nextCalc up to its loop: a search from the next neighbour begins.  The
\* entry of finalDistance it starts with is left from an earlier search.
nextCalc(t) ==
  /\ phase = "search"
  /\ todo[t] # <<>>
  /\ search[t] = NoSearch
  /\ Len(currentEdges[Head(todo[t])]) >= 2
  /\ LET initialNode == NeighboursOf(Head(todo[t]))[nbr[t]]
     IN  \E stale \in SUBSET {initialNode} :
           search' = [search EXCEPT ![t] =
                        [initial |-> initialNode,
                         dist    |-> [n \in Nodes |-> IF n = initialNode THEN 0 ELSE -1],
                         prev    |-> [n \in Nodes |-> -1],
                         edge    |-> [n \in Nodes |-> -1],
                         heap    |-> {initialNode},
                         final   |-> stale,
                         steps   |-> 0]]
  /\ UNCHANGED <<grid, gridVars, levels, calcOrder, nodesToCalc, phase, todo, nbr, shortcuts>>

\* Mutant of Better: a path over the preferred node is not preferred.
ShorterOnly(old, new, preferred) == old = -1 \/ new < old

\* A new distance replaces an old one if there is none, if it is less, or if
\* it is the same over the node that is being contracted.
Better(old, new, preferred) == old = -1 \/ new < old \/ (preferred /\ new = old)

\* One edge of the node a search has arrived at.
RelaxEdge(s, node, e, preferredNode) ==
  LET v == edges[e].dest
      d == s.dist[node] + edges[e].dist
  IN  IF Better(s.dist[v], d, node = preferredNode)
      THEN [s EXCEPT !.dist[v] = d, !.prev[v] = node, !.edge[v] = e, !.heap = @ \cup {v}]
      ELSE s

\* Mutant of Expanded: the node stays on the heap.
ExpandedAgain(s, node, preferredNode) ==
  LET relax(acc, e) == RelaxEdge(acc, node, e, preferredNode)
  IN  FoldLeft(relax, [s EXCEPT !.final = @ \cup {node}], currentEdges[node])

\* nextStep on node: its distance is final once it has been looked at.
Expanded(s, node, preferredNode) ==
  LET taken == [s EXCEPT !.heap = @ \ {node},
                         !.final = IF currentEdges[node] = <<>> THEN @ ELSE @ \cup {node}]
      relax(acc, e) == RelaxEdge(acc, node, e, preferredNode)
  IN  FoldLeft(relax, taken, currentEdges[node])

\* allNodesFound is looked at after every MULTIPLE_STEP_NUMBER steps only.
SearchEnds(t) ==
  LET s == search[t]
  IN  \/ s.heap = {}
      \/ s.steps = 0 /\ ToSet(NeighboursOf(Head(todo[t]))) \subseteq s.final

nextStep(t, node) ==
  /\ phase = "search"
  /\ search[t] # NoSearch
  /\ ~SearchEnds(t)
  /\ node \in search[t].heap
  /\ \A other \in search[t].heap : search[t].dist[node] <= search[t].dist[other]
  /\ search' = [search EXCEPT ![t] =
                  [Expanded(search[t], node, Head(todo[t])) EXCEPT
                     !.steps = (@ + 1) % MULTIPLE_STEP_NUMBER]]
  /\ UNCHANGED <<grid, gridVars, levels, calcOrder, nodesToCalc, phase, todo, nbr, shortcuts>>

\* The neighbours of node, other than the initial one, that s reached from it.
EndsOver(s, node) ==
  LET near == NeighboursOf(node)
      places == InOrder({i \in DOMAIN near : near[i] # s.initial /\ s.prev[near[i]] = node})
  IN  [k \in DOMAIN places |-> near[places[k]]]

\* Mutant of ShortcutsOver: node need not be next to the initial node.
ShortcutsUnchecked(s, node) ==
  [i \in DOMAIN EndsOver(s, node) |->
     LET end == EndsOver(s, node)[i]
     IN  [start |-> s.initial, dest |-> end, dist |-> s.dist[end],
          parts |-> <<s.edge[end], s.edge[node]>>]]

\* The shortcuts of a search that ended: to every neighbour whose path ends
\* with the two edges over node.  The edge out of node comes first in parts.
ShortcutsOver(s, node) ==
  IF s.dist[node] = -1 \/ s.prev[node] # s.initial THEN <<>>
  ELSE [i \in DOMAIN EndsOver(s, node) |->
          LET end == EndsOver(s, node)[i]
          IN  [start |-> s.initial, dest |-> end, dist |-> s.dist[end],
               parts |-> <<s.edge[end], s.edge[node]>>]]

\* addShortcuts, and on to the next neighbour or node.
addShortcuts(t) ==
  /\ phase = "search"
  /\ search[t] # NoSearch
  /\ SearchEnds(t)
  /\ LET node == Head(todo[t])
         last == nbr[t] = Len(currentEdges[node])
     IN  /\ shortcuts' = [shortcuts EXCEPT ![t] = @ \o ShortcutsOver(search[t], node)]
         /\ nbr' = [nbr EXCEPT ![t] = IF last THEN 1 ELSE @ + 1]
         /\ todo' = [todo EXCEPT ![t] = IF last THEN Tail(@) ELSE @]
  /\ search' = [search EXCEPT ![t] = NoSearch]
  /\ UNCHANGED <<grid, gridVars, levels, calcOrder, nodesToCalc, phase>>
------------------------------------------------------------------------------
\* The edge ids a node ever had: new ids are appended and none is removed.
AllEdges(n) == IdsOf(edges, n)

\* Mutant of IsShortcut: edges of the imported graph count too.
IsAnyEdge(es, start, dest) ==
  \E e \in 1..Len(es) : es[e].start = start /\ es[e].dest = dest

\* alreadyShortcut[start].contains(dest): a shortcut joins the two nodes.
IsShortcut(es, start, dest) ==
  \E e \in (numOfOriginalEdges + 1)..Len(es) : es[e].start = start /\ es[e].dest = dest

\* Mutant of AddShortcut: the id is read after the counter was increased.
AddShortcutLate(acc, s) ==
  IF IsShortcut(acc.edges, s.start, s.dest) THEN acc
  ELSE [acc EXCEPT !.edges = Append(@, s),
                   !.current[s.start] = Append(@, Len(acc.edges) + 2)]

\* Edges.addShortcutEdge and DynamicGrid.addEdge, once for two nodes.
AddShortcut(acc, s) ==
  IF IsShortcut(acc.edges, s.start, s.dest) THEN acc
  ELSE [acc EXCEPT !.edges = Append(@, s),
                   !.current[s.start] = Append(@, Len(acc.edges) + 1)]

\* All threads are joined; their shortcuts are added, thread by thread.
AddAllShortcuts ==
  /\ phase = "search"
  /\ \A t \in Threads : todo[t] = <<>>
  /\ LET found == FlattenSeq([i \in 1..NUM_OF_THREADS |-> shortcuts[i - 1]])
         acc == FoldLeft(AddShortcut, [edges |-> edges, current |-> currentEdges], found)
     IN  edges' = acc.edges /\ currentEdges' = acc.current
  /\ shortcuts' = [t \in Threads |-> <<>>]
  /\ phase' = "remove"
  /\ UNCHANGED <<grid, numOfOriginalEdges, levels, calcOrder, nodesToCalc, todo, nbr, search>>

\* The sequence without its i-th element, whose place the last one takes.
DropAt(s, i) == Front([s EXCEPT ![i] = Last(s)])

\* The places of the edges from destId back to startId.
Backwards(cur, startId, destId) ==
  {i \in DOMAIN cur[destId] : edges[cur[destId][i]].dest = startId}

\* removeNode: the first edge back from every neighbour, then all edges of
\* the node.  A missing edge is an ArrayIndexOutOfBoundsException.
RemoveBackwardsEdge(acc, startId, destId) ==
  LET places == Backwards(acc.cur, startId, destId)
  IN  IF places = {} THEN [acc EXCEPT !.crashed = TRUE]
      ELSE [acc EXCEPT !.cur[destId] = DropAt(@, CHOOSE i \in places : \A j \in places : i <= j)]

RemoveNode(acc, node) ==
  LET back(a, e) == RemoveBackwardsEdge(a, node, edges[e].dest)
      done == FoldLeft(back, acc, acc.cur[node])
  IN  [done EXCEPT !.cur[node] = <<>>]

RemoveLevel ==
  /\ phase = "remove"
  /\ LET acc == FoldLeft(RemoveNode, [cur |-> currentEdges, crashed |-> FALSE],
                         Reverse(nodesToCalc))
     IN  /\ currentEdges' = acc.cur
         /\ phase' = IF acc.crashed THEN "crashed" ELSE "select"
  /\ nodesToCalc' = <<>>
  /\ UNCHANGED <<grid, edges, numOfOriginalEdges, levels, calcOrder, threadVars>>

ThreadStep(t) ==
  \/ SkipNode(t)
  \/ nextCalc(t)
  \/ \E node \in Nodes : nextStep(t, node)
  \/ addShortcuts(t)

CHNext ==
  \/ SelectLevel
  \/ \E t \in Threads : ThreadStep(t)
  \/ AddAllShortcuts
  \/ RemoveLevel

CHDone == phase = "select" /\ \A n \in Nodes : Contracted(n)

\* calculateCH has returned.
CHFinished == CHDone /\ UNCHANGED chVars

CHSpec == CHInit /\ [][CHNext \/ CHFinished]_chVars

\* The program keeps running as long as it has something to do: weak fairness
\* of CHNext, which is enabled until the contraction is done or has crashed.
FairCHSpec ==
  CHSpec /\ ([]<>(CHDone \/ phase = "crashed") \/ []<><<CHNext>>_chVars)
------------------------------------------------------------------------------
EdgeIds == 1..Len(edges)

\* HubLEdges: the parts of a shortcut, the second one being stored first.
getFirstShortcut(e) == edges[e].parts[2]
getSecondShortcut(e) == edges[e].parts[1]

\* Type invariant of the contraction.
CHTypeOK ==
  /\ \A e \in EdgeIds :
       /\ edges[e].start \in Nodes /\ edges[e].dest \in Nodes /\ edges[e].dist \in Nat
       /\ Len(edges[e].parts) = IF e <= numOfOriginalEdges THEN 0 ELSE 2
  /\ currentEdges \in [Nodes -> Seq(EdgeIds)]
  /\ levels \in [Nodes -> -1..Cardinality(Nodes)]
  /\ nodesToCalc \in Seq(Nodes)
  /\ phase \in {"select", "search", "remove", "crashed"}
  /\ todo \in [Threads -> Seq(Nodes)]
  /\ nbr \in [Threads -> Nat \ {0}]

\* The graph that remains, in the form of an imported one.
Remaining == [n \in Nodes |-> [i \in DOMAIN currentEdges[n] |-> edges[currentEdges[n][i]]]]

\* removeBackwardsEdge relies on it ("-1 so it crashes"): between two levels
\* every edge of the remaining graph has an edge back of the same length, as
\* many times as it occurs.  The two directions of a shortcut are found by
\* two searches, possibly of two threads, that know nothing of each other.
\* No level is removed by half: the exception is never met.
RemainingIsUndirected ==
  /\ phase # "crashed"
  /\ phase # "search" =>
       \A u, v \in Nodes, d \in {edges[e].dist : e \in EdgeIds} :
         Copies(Remaining, u, v, d) = Copies(Remaining, v, u, d)

\* HLDijkstra takes the labels of a neighbour that is not below a node for
\* granted: no edge, shortcuts included, joins two nodes of the same level.
LevelsAreIndependent ==
  \A e \in EdgeIds :
    levels[edges[e].start] # -1 => levels[edges[e].start] # levels[edges[e].dest]

\* A shortcut can be unpacked (HubLRouter.calculateRoute), and its parts are
\* what the Javadoc of HubLEdges.getFirstShortcut and getSecondShortcut says:
\* the first starts where the shortcut does, the second ends where it does.
\* They meet in a node of a lower level and are as long as the shortcut.
ShortcutsUnpack ==
  \A e \in EdgeIds : e > numOfOriginalEdges =>
    LET first  == edges[getFirstShortcut(e)]
        second == edges[getSecondShortcut(e)]
    IN  /\ \A i \in {1, 2} : edges[e].parts[i] \in 1..(e - 1)
        /\ first.start = edges[e].start /\ second.dest = edges[e].dest
        /\ first.dest = second.start
        /\ first.dist + second.dist = edges[e].dist
        /\ levels[first.dest] # -1
        /\ \A n \in {edges[e].start, edges[e].dest} :
             levels[n] = -1 \/ levels[n] > levels[first.dest]

\* Contracting a level changes no distance between the nodes that remain:
\* each shortest path over a removed node has been replaced by a shortcut.
DistancesArePreserved ==
  phase = "select" =>
    LET d == ShortestDistances(Remaining, far)
    IN  \A u, v \in Nodes : ~Contracted(u) /\ ~Contracted(v) =>
          d[u][v] = AllDistances[grid][u][v]

\* The contraction ends.
ContractionEnds == <>CHDone
==============================================================================
