---------------------------- MODULE DijkstraRouter ----------------------------
(***************************************************************************)
(* router/DijkstraRouter.java: one router object, created by the REST      *)
(* controller for the whole server, whose route() keeps the state of a     *)
(* search in fields of the object.                                         *)
(*                                                                         *)
(* Threads call route().  SerialSpec is the use by the test driver         *)
(* (SearouterApplication.test), which issues one request after the other;  *)
(* Spec lets requests overlap, as the threads of the web server do.  For   *)
(* one request the heap is the priority queue of PriorityQueue, which      *)
(* module DijkstraHeap implements.  Nothing synchronizes two requests:     *)
(* where they overlap, Race stands for what happens inside an operation.   *)
(***************************************************************************)
EXTENDS Integers, Sequences, FiniteSets, Distances

CONSTANTS Threads,     \* threads that handle requests
          Nodes,       \* node ids
          Grids,       \* the graphs considered
          Voyages(_),  \* the walks through a graph that routes are compared with
          MAX_VALUE,   \* Integer.MAX_VALUE
          MaxPathLength, \* length of a path list that exhausts the memory
          RacyFields   \* what a data race may leave in the fields of the router

\* A grid gives every node the sequence of its outgoing edges: the entries
\* offset[n] .. offset[n+1] - 1 of the edge arrays (dijkstragrid/Grid.java).
IsGrid(g) ==
  /\ DOMAIN g = Nodes
  /\ \A n \in Nodes :
       /\ DOMAIN g[n] = 1..Len(g[n]) /\ Len(g[n]) \in Nat
       /\ \A i \in 1..Len(g[n]) : g[n][i].dest \in Nodes /\ g[n][i].dist \in Nat

ASSUME RouterAssumption ==
  /\ Nodes \subseteq Nat
  /\ MAX_VALUE \in Nat \ {0}
  /\ MaxPathLength \in Nat
  /\ \A g \in Grids : IsGrid(g)

\* The memory that holds the graph holds a list of all its nodes.
ASSUME MemoryAssumption == IsFiniteSet(Nodes) /\ Cardinality(Nodes) <= MaxPathLength

\* The types of the Java fields are all that is known after a data race.
ASSUME RaceAssumption ==
  RacyFields \subseteq [currDistanceToNode : [Nodes -> Int],
                        previousNode : [Nodes -> Nodes \cup {-1}],
                        nodeTouched : [Nodes -> BOOLEAN],
                        queue : SUBSET Nodes, queued : SUBSET Nodes, underflow : BOOLEAN]

\* A walk is a sequence of nodes with an odometer: consecutive nodes are
\* joined by an edge and the odometer grows by the length of that edge.
WalkIn(g, nodes, odometer) ==
  /\ nodes \in Seq(Nodes) /\ nodes # <<>>
  /\ odometer \in Seq(Nat) /\ Len(odometer) = Len(nodes)
  /\ odometer[1] = 0
  /\ \A i \in 1..(Len(nodes) - 1) : \E k \in 1..Len(g[nodes[i]]) :
       /\ g[nodes[i]][k].dest = nodes[i + 1]
       /\ odometer[i + 1] = odometer[i] + g[nodes[i]][k].dist

\* No edge of g leaves the set area.
Closed(g, area) == \A n \in area : \A i \in 1..Len(g[n]) : g[n][i].dest \in area

\* Wherever a ship can go from s, a voyage leads that is so short that the
\* length of a further edge can be added to it.
ShortVoyages(g, s) ==
  \E area \in SUBSET Nodes :
    /\ s \in area /\ Closed(g, area)
    /\ \A n \in area : \E v \in Voyages(g) :
         /\ v.nodes[1] = s /\ v.nodes[Len(v.nodes)] = n
         /\ WalkIn(g, v.nodes, v.odometer)
         /\ \A i \in 1..Len(g[n]) : v.odometer[Len(v.odometer)] + g[n][i].dist < MAX_VALUE

\* The lengths are in metres: the way from one place of the sea to another is
\* some ten thousand kilometres long at most, Integer.MAX_VALUE two million.
\* Nothing is assumed of ways that are no shortest ones.
ASSUME VoyageAssumption == \A g \in Grids : \A s \in Nodes : ShortVoyages(g, s)

\* The distances of the graphs.
AllDistances == [g \in Grids |-> ShortestDistances(g, MAX_VALUE)]

VARIABLES
  grid,                \* the loaded graph, static for the life of the server
  currDistanceToNode, previousNode, nodeTouched,   \* fields of the router
  queue,               \* the ids on vertexHeap
  queued,              \* the ids with heapPosition # -1: on the heap or taken
  underflow,           \* currentSize of the heap is negative
  pc,                  \* where each thread is in route()
  start, dest,         \* arguments of the thread's call
  node, edge,          \* its nodeToHandleId and neighbourEdgeId
  path,                \* the nodes collected from the destination backwards
  result,              \* what its last call returned
  disturbed            \* history: the threads whose last call overlapped another

shared == <<currDistanceToNode, previousNode, nodeTouched, queue, queued, underflow>>
locals == <<start, dest, node, edge, path>>
vars == <<grid, shared, pc, locals, result, disturbed>>

\* A RoutingResult without a path.  odometer is no field of the Java class: it
\* records the distances along a returned path for the properties below.
EmptyResult(kind) == [kind |-> kind, path |-> <<>>, odometer |-> <<>>, distance |-> -1]
NoResult == EmptyResult("none")

Init ==
  /\ grid \in Grids
  /\ currDistanceToNode = [n \in Nodes |-> MAX_VALUE]
  /\ previousNode = [n \in Nodes |-> -1]
  /\ nodeTouched = [n \in Nodes |-> FALSE]
  /\ queue = {} /\ queued = {} /\ underflow = FALSE
  /\ pc = [t \in Threads |-> "idle"]
  /\ start = [t \in Threads |-> -1]
  /\ dest = [t \in Threads |-> -1]
  /\ node = [t \in Threads |-> -1]
  /\ edge = [t \in Threads |-> 1]
  /\ path = [t \in Threads |-> <<>>]
  /\ result = [t \in Threads |-> NoResult]
  /\ disturbed = {}

Goto(t, label) == pc' = [pc EXCEPT ![t] = label]

\* The thread leaves route() with r; its local variables cease to exist.
Leave(t, r) ==
  /\ result' = [result EXCEPT ![t] = r]
  /\ Goto(t, "idle")
  /\ node' = [node EXCEPT ![t] = -1]
  /\ edge' = [edge EXCEPT ![t] = 1]
  /\ path' = [path EXCEPT ![t] = <<>>]
  /\ UNCHANGED <<grid, disturbed, start, dest>>

\* It returns r, or throws without another change of the fields.
Return(t, r) == Leave(t, r) /\ UNCHANGED shared

\* 32-bit addition of non-negative ints.
IntAdd(a, b) == IF a + b > MAX_VALUE THEN a + b - 2 * (MAX_VALUE + 1) ELSE a + b

\* vertexHeap.add writes idHeapArray[currentSize], unless it only updates.
AddThrows(id) == underflow /\ id \notin queued

\* vertexHeap.add: an id that has a heap position is not added again.
HeapAdd(id) ==
  /\ ~AddThrows(id)
  /\ queue' = IF id \in queued THEN queue ELSE queue \cup {id}
  /\ queued' = queued \cup {id}
  /\ UNCHANGED underflow
------------------------------------------------------------------------------
Active(t) == pc[t] # "idle"
Others(t) == {u \in Threads \ {t} : Active(u)}

\* The controller has resolved two different nodes and calls route().
Call(t, s, d) ==
  /\ pc[t] = "idle"
  /\ s # d
  /\ start' = [start EXCEPT ![t] = s]
  /\ dest' = [dest EXCEPT ![t] = d]
  /\ result' = [result EXCEPT ![t] = NoResult]
  /\ Goto(t, "reset")
  /\ disturbed' = IF Others(t) = {} THEN disturbed \ {t}
                   ELSE disturbed \cup Others(t) \cup {t}
  /\ UNCHANGED <<grid, shared, node, edge, path>>

\* Mutant of resetState: one of the fields is not cleared.
ResetKeepsTouched(t) ==
  /\ pc[t] = "reset"
  /\ currDistanceToNode' = [n \in Nodes |-> MAX_VALUE]
  /\ previousNode' = [n \in Nodes |-> -1]
  /\ queue' = {} /\ queued' = {} /\ underflow' = FALSE
  /\ Goto(t, "start")
  /\ UNCHANGED <<grid, disturbed, nodeTouched, locals, result>>

\* Mutant of resetState: the heap keeps its size.
ResetKeepsSize(t) ==
  /\ pc[t] = "reset"
  /\ currDistanceToNode' = [n \in Nodes |-> MAX_VALUE]
  /\ previousNode' = [n \in Nodes |-> -1]
  /\ nodeTouched' = [n \in Nodes |-> FALSE]
  /\ queue' = {} /\ queued' = {}
  /\ Goto(t, "start")
  /\ UNCHANGED <<grid, disturbed, underflow, locals, result>>

resetState(t) ==
  /\ pc[t] = "reset"
  /\ currDistanceToNode' = [n \in Nodes |-> MAX_VALUE]
  /\ previousNode' = [n \in Nodes |-> -1]
  /\ nodeTouched' = [n \in Nodes |-> FALSE]
  /\ queue' = {} /\ queued' = {} /\ underflow' = FALSE
  /\ Goto(t, "start")
  /\ UNCHANGED <<grid, disturbed, locals, result>>

\* Mutant of ReachStart: the distance of the start is not set.
ReachStartLate(t) ==
  /\ previousNode' = [previousNode EXCEPT ![start[t]] = start[t]]
  /\ UNCHANGED currDistanceToNode

ReachStart(t) ==
  /\ currDistanceToNode' = [currDistanceToNode EXCEPT ![start[t]] = 0]
  /\ previousNode' = [previousNode EXCEPT ![start[t]] = start[t]]

AddStart(t) ==
  /\ pc[t] = "start"
  /\ ReachStart(t)
  /\ HeapAdd(start[t])
  /\ Goto(t, "loop")
  /\ UNCHANGED <<grid, disturbed, nodeTouched, locals, result>>

\* vertexHeap.isEmpty: the size is 0.
HeapIsEmpty == queue = {} /\ ~underflow

EnterLoop(t) ==
  /\ pc[t] = "loop"
  /\ ~HeapIsEmpty
  /\ Goto(t, "take")
  /\ UNCHANGED <<grid, disturbed, shared, locals, result>>

\* Mutant of IsClosest: any queued node will do.
IsQueued(id) == id \in queue

\* vertexHeap.getNext returns a queued node at the least distance.
IsClosest(id) ==
  \A other \in queue : currDistanceToNode[id] <= currDistanceToNode[other]

\* One turn of the main loop up to the early break at the destination.
TakeClosest(t, id) ==
  /\ pc[t] = "take"
  /\ ~underflow
  /\ IsClosest(id)
  /\ queue' = queue \ {id}
  /\ nodeTouched' = [nodeTouched EXCEPT ![id] = TRUE]
  /\ node' = [node EXCEPT ![t] = id]
  /\ edge' = [edge EXCEPT ![t] = 1]
  /\ IF id = dest[t]
     THEN Goto(t, "rebuild") /\ path' = [path EXCEPT ![t] = <<id>>]
     ELSE Goto(t, "relax") /\ UNCHANGED path
  /\ UNCHANGED <<grid, disturbed, currDistanceToNode, previousNode, queued, underflow, start, dest, result>>

\* Another thread has emptied the heap since isEmpty: getNext decrements the
\* size below 0 and reads idHeapArray[-1], an ArrayIndexOutOfBoundsException.
HeapUnderflow(t) ==
  /\ pc[t] = "take"
  /\ queue = {} \/ underflow
  /\ underflow' = TRUE
  /\ Leave(t, EmptyResult("exception"))
  /\ UNCHANGED <<currDistanceToNode, previousNode, nodeTouched, queue, queued>>

\* The edge whose turn it is, and the distance of its end over it.
CurrentEdge(t) == grid[node[t]][edge[t]]
NewDistance(t) == IntAdd(currDistanceToNode[node[t]], CurrentEdge(t).dist)

\* An edge is skipped if it leads to a touched node or is no improvement.
Improves(t) ==
  /\ ~nodeTouched[CurrentEdge(t).dest]
  /\ NewDistance(t) < currDistanceToNode[CurrentEdge(t).dest]

Improve(t) ==
  /\ currDistanceToNode' = [currDistanceToNode EXCEPT ![CurrentEdge(t).dest] = NewDistance(t)]
  /\ previousNode' = [previousNode EXCEPT ![CurrentEdge(t).dest] = node[t]]

RelaxEdge(t) ==
  /\ pc[t] = "relax"
  /\ edge[t] <= Len(grid[node[t]])
  /\ IF Improves(t)
     THEN Improve(t) /\ HeapAdd(CurrentEdge(t).dest)
     ELSE UNCHANGED <<currDistanceToNode, previousNode, queue, queued, underflow>>
  /\ edge' = [edge EXCEPT ![t] = edge[t] + 1]
  /\ UNCHANGED <<grid, disturbed, nodeTouched, pc, start, dest, node, path, result>>

\* Another thread has let the size of the heap fall below 0: the add of the
\* start or of the end of an edge is an ArrayIndexOutOfBoundsException.
AddOutOfBounds(t) ==
  /\ \/ /\ pc[t] = "start"
        /\ AddThrows(start[t])
        /\ ReachStart(t)
     \/ /\ pc[t] = "relax"
        /\ edge[t] <= Len(grid[node[t]])
        /\ Improves(t)
        /\ AddThrows(CurrentEdge(t).dest)
        /\ Improve(t)
  /\ Leave(t, EmptyResult("exception"))
  /\ UNCHANGED <<nodeTouched, queue, queued, underflow>>

\* Mutant of EdgesDone: the loop over the edges is not left.
EdgesNeverDone(t) ==
  /\ pc[t] = "relax"
  /\ edge[t] > Len(grid[node[t]])
  /\ UNCHANGED vars

EdgesDone(t) ==
  /\ pc[t] = "relax"
  /\ edge[t] > Len(grid[node[t]])
  /\ Goto(t, "loop")
  /\ UNCHANGED <<grid, disturbed, shared, locals, result>>

\* The loop ended without meeting the destination.
NoRoute(t) ==
  /\ pc[t] = "loop"
  /\ HeapIsEmpty
  /\ Return(t, EmptyResult("notFound"))

FollowPrevious(t) ==
  /\ pc[t] = "rebuild"
  /\ node[t] # start[t]
  /\ node[t] # -1
  /\ Len(path[t]) < MaxPathLength
  /\ path' = [path EXCEPT ![t] = Append(path[t], previousNode[node[t]])]
  /\ node' = [node EXCEPT ![t] = previousNode[node[t]]]
  /\ UNCHANGED <<grid, disturbed, shared, pc, start, dest, edge, result>>

\* previousNode[-1] is an ArrayIndexOutOfBoundsException.
IndexOutOfBounds(t) ==
  /\ pc[t] = "rebuild"
  /\ node[t] = -1
  /\ Return(t, EmptyResult("exception"))

\* A loop of previous nodes that misses the start fills the memory.
OutOfMemory(t) ==
  /\ pc[t] = "rebuild"
  /\ node[t] # start[t]
  /\ node[t] # -1
  /\ Len(path[t]) >= MaxPathLength
  /\ Return(t, EmptyResult("exception"))

\* Mutant of Reversed: the path stays in the order it was collected.
NotReversed(s) == s

\* Collections.reverse
Reversed(s) == [i \in 1..Len(s) |-> s[Len(s) + 1 - i]]

\* The RoutingResult of a found route.
ReturnRoute(t) ==
  /\ pc[t] = "rebuild"
  /\ node[t] = start[t]
  /\ Return(t,
       [kind |-> "found",
        path |-> Reversed(path[t]),
        odometer |-> [i \in 1..Len(path[t]) |-> currDistanceToNode[Reversed(path[t])[i]]],
        distance |-> currDistanceToNode[dest[t]]])

Step(t) ==
  \/ resetState(t)
  \/ AddStart(t)
  \/ EnterLoop(t)
  \/ \E id \in queue : TakeClosest(t, id)
  \/ HeapUnderflow(t)
  \/ RelaxEdge(t)
  \/ AddOutOfBounds(t)
  \/ EdgesDone(t)
  \/ NoRoute(t)
  \/ FollowPrevious(t)
  \/ IndexOutOfBounds(t)
  \/ OutOfMemory(t)
  \/ ReturnRoute(t)

\* The fills of resetState, the operations of the heap and the relaxations of
\* overlapping requests work on the same arrays at the same time: while such a
\* request runs, the fields may become anything, and it may throw.
Race(t) ==
  /\ Active(t) /\ t \in disturbed
  /\ \E fields \in RacyFields :
       /\ currDistanceToNode' = fields.currDistanceToNode
       /\ previousNode' = fields.previousNode
       /\ nodeTouched' = fields.nodeTouched
       /\ queue' = fields.queue
       /\ queued' = fields.queued
       /\ underflow' = fields.underflow
  /\ \/ UNCHANGED <<grid, disturbed, pc, locals, result>>
     \/ Leave(t, EmptyResult("exception"))

Next == \E t \in Threads : Step(t) \/ Race(t) \/ \E s, d \in Nodes : Call(t, s, d)

\* The web server: a request is handled by any free thread at any time.
Spec == Init /\ [][Next]_vars

\* The same, but threads are only switched between the operations of the heap,
\* the relaxations and resetState: some of the behaviours of the web server.
InterleavedNext == \E t \in Threads : Step(t) \/ \E s, d \in Nodes : Call(t, s, d)

InterleavedSpec == Init /\ [][InterleavedNext]_vars

\* The test driver: the next request is issued when the last one returned.
SerialCall(t, s, d) == (\A u \in Threads : pc[u] = "idle") /\ Call(t, s, d)

SerialNext == \E t \in Threads : Step(t) \/ \E s, d \in Nodes : SerialCall(t, s, d)

SerialSpec == Init /\ [][SerialNext]_vars

\* A started request keeps running: its thread is scheduled.
FairSerialSpec == SerialSpec /\ \A t \in Threads : WF_vars(Step(t))
------------------------------------------------------------------------------
\* A walk through the loaded graph.
IsWalk(nodes, odometer) == WalkIn(grid, nodes, odometer)

\* The walks from s to d among the voyages.
VoyagesBetween(s, d) ==
  {v \in Voyages(grid) : /\ IsWalk(v.nodes, v.odometer)
                         /\ v.nodes[1] = s /\ v.nodes[Len(v.nodes)] = d}

Searching(t) == pc[t] \in {"loop", "take", "relax", "rebuild"}

SharedTypes ==
  /\ IsGrid(grid)
  /\ currDistanceToNode \in [Nodes -> Int]
  /\ previousNode \in [Nodes -> Nodes \cup {-1}]
  /\ nodeTouched \in [Nodes -> BOOLEAN]
  /\ queue \subseteq Nodes /\ queued \subseteq Nodes /\ underflow \in BOOLEAN

Results == [kind : {"none", "found", "notFound", "exception"},
            path : Seq(Nodes \cup {-1}), odometer : Seq(Int), distance : Int]

ThreadTypes ==
  /\ pc \in [Threads -> {"idle", "reset", "start", "loop", "take", "relax", "rebuild"}]
  /\ start \in [Threads -> Nodes \cup {-1}]
  /\ dest \in [Threads -> Nodes \cup {-1}]
  /\ node \in [Threads -> Nodes \cup {-1}]
  /\ edge \in [Threads -> Nat \ {0}]
  /\ path \in [Threads -> Seq(Nodes \cup {-1})]
  /\ result \in [Threads -> Results]
  /\ disturbed \subseteq Threads

\* A -1 that previousNode held is met before it is used as an index: it can
\* only be the last entry of a path.
IndicesOK(t) ==
  /\ Active(t) => start[t] \in Nodes /\ dest[t] \in Nodes
  /\ pc[t] = "relax" => node[t] \in Nodes
  /\ pc[t] = "rebuild" => path[t] # <<>> /\ (node[t] # -1 => path[t] \in Seq(Nodes))

\* Type invariant.
TypeOK == SharedTypes /\ ThreadTypes /\ \A t \in Threads : IndicesOK(t)

\* A found route is a walk from start to dest whose length is the returned
\* distance, and no voyage between them is shorter.
FoundIsShortest(t) ==
  result[t].kind = "found" =>
    /\ IsWalk(result[t].path, result[t].odometer)
    /\ result[t].path[1] = start[t]
    /\ result[t].path[Len(result[t].path)] = dest[t]
    /\ result[t].odometer[Len(result[t].path)] = result[t].distance
    /\ \A v \in VoyagesBetween(start[t], dest[t]) :
         result[t].distance <= v.odometer[Len(v.odometer)]

\* "No route" is reported only if no voyage joins the two nodes.
NotFoundIsRight(t) ==
  result[t].kind = "notFound" => VoyagesBetween(start[t], dest[t]) = {}

\* Router.java promises "the shortest path from the start node to the
\* destination node" for every call of route().
RouteIsShortest == \A t \in Threads : FoundIsShortest(t) /\ NotFoundIsRight(t)

\* Overlapping requests leave nothing behind: whatever earlier calls did to
\* the fields of the router, a call that no other overlaps is answered with a
\* shortest route, because resetState clears every field.
AloneIsShortest == \A t \in Threads \ disturbed : FoundIsShortest(t) /\ NotFoundIsRight(t)

\* Such a call throws nothing: the heap it works on has the size its search
\* gives it, although overlapping calls may have left a negative one, and its
\* path can be rebuilt.
NeverThrows == \A t \in Threads \ disturbed : result[t].kind # "exception"

\* The answers agree with the reference distances: the length of a found
\* route is the shortest distance, and a route is found iff there is one.
\* Its path can always be rebuilt from previousNode: route() throws nothing.
MatchesReference ==
  \A t \in Threads :
    /\ result[t].kind # "exception"
    /\ result[t].kind = "found" =>
         result[t].distance = AllDistances[grid][start[t]][dest[t]]
    /\ result[t].kind = "notFound" =>
         AllDistances[grid][start[t]][dest[t]] = MAX_VALUE

\* No sum of such a call reaches Integer.MAX_VALUE, let alone wraps around.
NoOverflow ==
  \A t \in Threads \ disturbed : pc[t] = "relax" /\ edge[t] <= Len(grid[node[t]]) =>
    currDistanceToNode[node[t]] + CurrentEdge(t).dist < MAX_VALUE

\* Every request is answered.
RequestsReturn == \A t \in Threads : Active(t) ~> ~Active(t)
------------------------------------------------------------------------------
\* The inductive invariant.  It says nothing about a call that another one
\* overlaps, but a call that none overlaps owns the fields of the router.

Alone == \A t, u \in Threads : Active(t) /\ Active(u) /\ t \notin disturbed => t = u

\* The end of a relaxed edge is reached, and the edge cannot shorten its distance.
Relaxed(n, i) ==
  /\ currDistanceToNode[grid[n][i].dest] < MAX_VALUE
  /\ currDistanceToNode[grid[n][i].dest] <= currDistanceToNode[n] + grid[n][i].dist

\* The distance of v is that of u plus the length of an edge from u to v.
Tight(u, v) ==
  \E i \in 1..Len(grid[u]) :
    /\ grid[u][i].dest = v
    /\ currDistanceToNode[v] = currDistanceToNode[u] + grid[u][i].dist

StartInv(t) ==
  /\ currDistanceToNode[start[t]] = 0
  /\ previousNode[start[t]] = start[t]

\* The heap holds the reached nodes that have not been taken yet.
QueueInv ==
  /\ \A n \in Nodes : currDistanceToNode[n] \in 0..MAX_VALUE
  /\ queue = {n \in Nodes : ~nodeTouched[n] /\ currDistanceToNode[n] < MAX_VALUE}
  /\ queued = {n \in Nodes : currDistanceToNode[n] < MAX_VALUE}
  /\ ~underflow

\* A taken node is reached, and no node that was not taken is closer.
OrderInv ==
  \A n \in Nodes : nodeTouched[n] =>
    /\ currDistanceToNode[n] < MAX_VALUE
    /\ \A m \in Nodes : ~nodeTouched[m] => currDistanceToNode[n] <= currDistanceToNode[m]

\* The node taken last is the farthest of the taken ones; the destination is
\* taken exactly when the search is over.
LastInv(t) ==
  /\ pc[t] \in {"relax", "rebuild"} =>
       LET last == IF pc[t] = "relax" THEN node[t] ELSE dest[t]
       IN  /\ nodeTouched[last]
           /\ \A n \in Nodes : nodeTouched[n] => currDistanceToNode[n] <= currDistanceToNode[last]
  /\ nodeTouched[dest[t]] <=> pc[t] = "rebuild"

\* Every edge of a taken node is relaxed, except those of the node in hand
\* whose turn is still to come and those of the destination.
SettledInv(t) ==
  \A n \in Nodes \ {dest[t]} : nodeTouched[n] =>
    \A i \in 1..Len(grid[n]) :
      (pc[t] = "relax" /\ n = node[t] => i < edge[t]) => Relaxed(n, i)

\* Every reached node but the start has a taken and tight predecessor.
TreeInv(t) ==
  \A n \in Nodes \ {start[t]} : currDistanceToNode[n] < MAX_VALUE =>
    /\ previousNode[n] \in Nodes
    /\ nodeTouched[previousNode[n]]
    /\ Tight(previousNode[n], n)

SearchInv(t) ==
  StartInv(t) /\ QueueInv /\ OrderInv /\ LastInv(t) /\ SettledInv(t) /\ TreeInv(t)

\* The path collected so far leads from the destination backwards to node
\* over tight edges.
PathInv(t) ==
  /\ node[t] \in Nodes /\ currDistanceToNode[node[t]] < MAX_VALUE
  /\ path[t] \in Seq(Nodes) /\ Len(path[t]) > 0
  /\ path[t][1] = dest[t]
  /\ path[t][Len(path[t])] = node[t]
  /\ \A i \in 1..(Len(path[t]) - 1) : Tight(path[t][i + 1], path[t][i])

\* A node is reached only if it can be: it is in every area that holds the
\* start and that no edge leaves.
ReachInv(t) ==
  \A area \in SUBSET Nodes : start[t] \in area /\ Closed(grid, area) => queued \subseteq area

\* The predecessors form no circle, although edges of length 0 may: in every
\* set of reached nodes without the start, some predecessor leads out of it.
AcyclicInv(t) ==
  \A S \in SUBSET (queued \ {start[t]}) : S # {} => \E n \in S : previousNode[n] \notin S

\* The path follows the predecessors and meets no node twice.
ChainInv(t) ==
  /\ \A i \in 1..Len(path[t]) : path[t][i] \in queued
  /\ \A i \in 1..(Len(path[t]) - 1) :
       path[t][i] # start[t] /\ path[t][i + 1] = previousNode[path[t][i]]
  /\ \A i, j \in 1..Len(path[t]) : path[t][i] = path[t][j] => i = j

\* resetState left nothing of the previous request.
Cleared ==
  /\ currDistanceToNode = [n \in Nodes |-> MAX_VALUE]
  /\ nodeTouched = [n \in Nodes |-> FALSE]
  /\ queue = {} /\ queued = {} /\ ~underflow

ThreadInv(t) ==
  /\ pc[t] = "start" => Cleared
  /\ pc[t] = "take" => queue # {}
  /\ Searching(t) => SearchInv(t) /\ ReachInv(t) /\ AcyclicInv(t)
  /\ pc[t] = "rebuild" => PathInv(t) /\ ChainInv(t)

IInv ==
  /\ TypeOK /\ Alone /\ AloneIsShortest /\ NeverThrows
  /\ \A t \in Threads \ disturbed : ThreadInv(t)
==============================================================================
