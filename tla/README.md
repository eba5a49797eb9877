# A verification development for fapra-osm-routing

The program computes routes for ships. It builds a grid graph of the oceans
from OpenStreetMap coastlines, writes it to an *fmi file*, and serves shortest
routes over it with one of two routers: Dijkstra's algorithm on the grid, or a
lookup in hub labels that a long preprocessing run computes with contraction
hierarchies. A page with a map asks the server for routes. The modules here
model the routers, the preprocessing, its checkpoint files, the fmi files, and
the page together with the server's request handler; TLC checks them on small
instances, and the TLA+ proof system proves every safety property of
the passing runs for every instance: the heap, the Dijkstra router, the
contraction hierarchy, the hub labels and their router, the pipeline, the fmi
files and the page.

All paths below are relative to `src/main/java/de/fmi/searouter/` of the
repository unless they start with `vue-frontend/`.

## 1. Inventory

| Component | State it keeps | Operations | What is hard |
|---|---|---|---|
| Dijkstra heap `router/DijkstraHeap` | heap array that grows, position of each id, distances and touched flags shared with the router | `resetState`, `add`, `getNext`, sift up and down, `swap`, `grow` | two arrays that must stay inverse of each other across swaps; stale positions after `getNext`; the full array |
| Dijkstra router `router/DijkstraRouter` | distances, predecessors and touched flags in *fields of one object* | `route` (which calls `resetState` first) | overlapping requests; stale fields; early stop; path rebuilding; 32-bit sums |
| Contraction hierarchy `hublablecreation/LabelCreator.calculateCH`, `CHDijkstra`, `DynamicGrid`, `Edges`, `Nodes` | remaining graph, all edges with their shortcuts, levels | choose an independent set, search from every neighbour, add shortcuts, remove the level | worker threads; both directions of a shortcut are found by different searches; state of a worker left over from an earlier search; early stop in batches |
| Hub labels `LabelCreator.calcLabels`, `HLDijkstra`, `Labels` | labels (hub, distance, first edge) of every node | label one level after the other, remove redundant labels | threads read what others write; slices at boundaries; a redundant label may be needed by another node's path |
| Hub label router `router/HubLRouter`, `hublabeldata/*` | static arrays of labels and edges; stacks and heaps of one request | `route` with stored or temporary labels, unpacking of shortcuts | three parallel variants of the lookup; stacks used in both directions; stale heap keys |
| Preprocessing pipeline `LabelCreator.main`, `CHData`, `TmpLabelData`, `HubLStore`, `HubLNodes.init*` | static fields of seven classes, four files | resume, compute, store, move data between classes | killed runs, half-written files, replaced graphs |
| Graph files `dijkstragrid/Grid`, `DynamicGrid.importFmiFile` | edge arrays, offsets, rows of edge ids | import with completion to an undirected graph, export | a flag shared by the edges of a node; prefix sums; rows of fixed width |
| REST controller `rest/RoutingController`, `SearouterApplication` | the one router object, created on first use | `POST /route`: read the body, find the nearest nodes, refuse or route | unsynchronised lazy creation; threads that call one router at a time; a missing data file is not noticed |
| Grid creation `dijkstragrid/GridCreator`, `NodeCreateWorkerThread` | grid rows | point-in-water checks by worker threads, neighbours | wrap-around at the date line |
| Collections `utils/*` | heap, ordered list, stack of ints | used by preprocessing and `HubLRouter` | sorted insertion, growth |
| Coastline grid `coastlinegrid/*` | cells with coastline edges | point-in-polygon tests | floating-point geometry |
| OSM import `coastlinegrid/CoastlineWays`, `osmimport/*` | coastlines | reads a pbf file | none of its own |
| Routing window `vue-frontend/src/components/RoutingWindow.vue` | two text fields, which point is being chosen, markers, the drawn route | typing, choosing on the map, `calcRoute`, the handlers of its promise, the watchers of the fields | answers out of order, lost or given up; edits while a request is under way; markers that only one variable knows; longitudes on a map that repeats itself |
| Page frame `Navbar.vue`, `App.vue`, `main.js` | a time that nothing shows | put the components on the page | nothing |

How they interact: `GridCreator` exports an fmi file. The server
(`SearouterApplication.main`) imports it into `Grid` for `DijkstraRouter` and
for finding the nearest node, and, if it is to use hub labels, reads
`hub_label_data`, which `LabelCreator.main` produced from the same fmi file.
The page sends the two positions in its fields as JSON; `RoutingController`
resolves them to nodes and calls `route` on its one router from the web
server's threads; the answer's ends replace the texts in the fields. The hub label router
is only right if the hierarchy preserves distances, shortcuts name the edges
they stand for, the labels of any two nodes share a hub on a shortest path, and
first edges lead from label to label; these are the properties the modules
below are about, in this order.

The hazards, each with its line and the properties that would catch it, are
listed in `PROJECT.json`.

## 2. Modules

```
PriorityQueue   <--(refines)--  DijkstraHeap <- MCDijkstraHeap
                                     ^-- DijkstraHeapProofs (S)
DijkstraRouter  <- MCDijkstraRouter
      ^-- DijkstraRouterProofs (S)
ContractionHierarchy <- HubLabels <- HubLRouter
      ^-- MCContraction   ^-- MCHubLabels  ^-- MCHubLRouter
      ^-- ContractionProofs (S)            ^
                ^--------- HubLabelProofs -+
Preprocessing   <- PreprocessingProofs
GraphImport <- MCGraphImport
      ^-- GraphImportProofs (S)
RoutingApi <- RoutingWindow, RoutingController <- WebApplication <- MCWebApplication
RequestReply  <--(refines)--  WebApplication <- WebApplicationProofs (S)
Arrangements <- GraphImport, Distances
Distances (the reference) <- DijkstraRouter, ContractionHierarchy, SharedLemmas
(S): with SharedLemmas, the facts that several proofs use
```

**PriorityQueue** is the abstract specification of a heap: a set of queued
entries and what `getNext` may return.

**DijkstraHeap** has the arrays of the Java class as variables. `add` and
`getNext` only start an operation; every turn of the sift loops is an action of
its own, so the invariants are checked between any two swaps. The heap does not
own the distances: it shares `currDistanceToNode` and `nodeTouched` with the
router, so the environment may lower the distance of an id and must then call
`add`, as `route` does. `Init` is the state after the first `resetState`, which
`route` calls before any other use.

**DijkstraRouter** models `route` statement by statement: `resetState`,
`AddStart`, the condition of the main loop (`EnterLoop`, which calls `isEmpty`)
and its `getNext` (`TakeClosest`), one edge (`RelaxEdge`, `EdgesDone`), and the
path rebuilding (`FollowPrevious`, `ReturnRoute`, `NoRoute`, and the exceptions
`IndexOutOfBounds` and `OutOfMemory`). The
variables are the fields of the router object, shared by all threads, and the
locals of each thread. The heap appears as the set `queue`, the set `queued`
of ids that have a position, and `underflow`, a size below 0: two threads may
both pass `isEmpty` with one id on the heap, and the `getNext` of the second
throws and leaves the size negative (`HeapUnderflow`), after which `add` throws
as well (`AddOutOfBounds`).

An operation of the heap and `resetState` are one step each. Module DijkstraHeap
justifies that for a single thread. Overlapping requests mix in finer steps,
without synchronisation: `Race` stands for these. While a request overlaps
another, the fields may become anything of `RacyFields`, and the request may
throw; the proofs know nothing of that set but the types. `Spec` is any
overlap with races, `InterleavedSpec` any overlap in which threads are only
switched between whole steps, some of the behaviours of the code, in which
requests go wrong already. `SerialSpec` is one request after the other.
`disturbed` is a history variable: the threads whose current or last call
overlapped another one. The result carries an `odometer`
(distances along the path) that the Java class does not have, so that
properties can speak about walks without recursion.

**ContractionHierarchy** models `calculateCH` with its workers: `phase` is the
place of `calcNextLvl`, `search` the search of each thread. A search takes any
closest entry of its heap, so every way of breaking ties is considered. The
neighbours are looked at after every `MULTIPLE_STEP_NUMBER` steps only.
`finalDistance` of a worker is not reset between searches; whether the initial
node of a search has an entry left by an earlier one is left open
(`nextCalc`). The order of the shuffle is any of `Orders`.

**HubLabels** extends it with `calcLabels`: the levels from the highest down,
each cut into slices by integer division, one action per node and thread,
including the removal of redundant labels in the order of the code.

How many levels go without labels (`noLabelLvls`) is chosen from `LabelSettings`
when the order of the nodes is made.

**HubLRouter** extends that with requests, one after the other. For an end
without labels, `TempExpand` takes one unlabelled node from `heap` and
`TempMerge` merges the labels of one node of `labelHeap`; the lookup of the
best common hub and the unpacking of the path are one step (`Answer`). The
encoding of `addInfo` (the node itself, the node a hub was reached from, or the
node whose label it is) is that of the code, because the branches that read it
do different things.

**Preprocessing** is `LabelCreator.main` around those computations. A class or
a file holds the graph it was computed from, or nothing, or, for a file being
written, `partial`. A run may be killed before any step; the operator may delete
the intermediate files, and replaces the graph as the repository's README says, with the intermediate
files deleted. `StartServer` reads the result at any time.

**GraphImport** is the reading of an fmi file, the completion to an undirected
graph, edge by edge with its flag, the two ways of storing it, and the export.
Where the code iterates over a hash map of nodes the model goes in ascending
order, which affects only the order of the added edges.

**Arrangements** is how a finite set is laid out in a sequence by a number for
each member: the stable sorts and the loops that collect matching indices are
written with it, without recursion, so that the proofs can use them.

**RoutingApi** is what page and server share: the body of a request, the
answers, and the words of a text. A word is a number, missing or not a number;
numbers are halves of a degree, the coarsest unit in which the cast to a whole
degree still loses something. `parseFloat` turns what is not a number into NaN,
which JSON writes as null and the server reads as 0.0; a word that is sent
unparsed and is not a number makes the request a bad one. The page parses three
of the four words (the longitude of the start is sent as it was typed), and
`RequestBody` keeps this difference.

**RoutingWindow** is the component `RoutingWindow.vue`. The browser runs one
task at a time, and Vue runs the watchers of changed fields after it, so every
handler is an action that needs `pending = {}`, and `Watch` works `pending`
off. `markersOn` and `lines` are what is really on the map, `marker` and `route`
the variables of the component: that they agree is a property. `asked` and
`touched` are history variables.

**RoutingController** is `getRoute`, a thread per request: the look at the
field, the creation of the router, the refusals, the call and its return are
separate steps. The nearest node is searched as `Grid` does, by whole degrees
and the first least distance. `Path` is what `Router.route` promises, which the
modules of the routers are about; a call that another overlapped on the same
router may fail, find no route, or return any sequence of nodes (`Disturbances`,
with the sequences in `MixedPaths`), an empty one too, on which the page's
handler throws (`EmptyRoute`).

**WebApplication** composes the two with connections that break
(`ConnectionBreaks`), before or after the server has got the request.
**RequestReply** is its abstract specification: each request is answered once,
and only answers replace the route.

**Distances** is the reference: shortest distances by dynamic programming that
allows one node after the other as an intermediate stop (Floyd and Warshall),
unrelated to the code's algorithms. It is a fold, so that the proofs can say
what it computes.

## 3. Runs

Sizes are distinct states.

| Run | Instance | Shows |
|---|---|---|
| `heap` | 5 ids (three layers, one node with a single child), 3 distances so that ties occur, initial array of 2 that grows by 1; 1.0 M states | `PositionsAgree`, `HeapOrder` and `TypeOK` hold between any two swaps, and the heap refines `PriorityQueue` (`ImplementsQueue`) |
| `router_serial` | all undirected graphs over 4 nodes (up to renaming) with lengths 0, 1, 3; walks of up to 3 edges; 0.7 M | the inductive invariant `IInv` used by the proof; `MatchesReference` against `Distances`, with every path rebuilt; `RouteIsShortest`, `NoOverflow`; every request is answered (`RequestsReturn`) |
| `router_concurrent` | 2 threads, graphs over 3 nodes, four contents of the fields that races leave, with a heap that is empty or full, of negative size or not, and without predecessors; 1.4 M | a request that no other overlaps throws nothing (`NeverThrows`) and is right (`AloneIsShortest`), whatever overlapping requests left in the fields. Overlapping ones do throw, and nothing is claimed of their indices |
| `router_overlap` | the same graphs, without races (`InterleavedSpec`), so that the counterexample needs none | **violation**: an overlapped request gets a wrong route (finding 1) |
| `contraction` | 2 threads, graphs over 4 nodes with lengths 1, 3, every node order, batches of 2 steps; 0.6 M | the remaining graph stays undirected and keeps all distances, levels are independent sets, shortcuts name two adjoining edges of the right total length, removal never indexes -1, every level ends |
| `hub_router` | 2 threads, all graphs over 5 nodes, the length (4 to 7) fixed for each pair, 2 node orders, with all levels labelled (the value in `LabelCreator`) and with two levels without labels (the setting the repository's README suggests and the class comment asks for); 0.9 M | every node is labelled, labels are exact, two connected nodes share a hub on a shortest path after redundant labels are gone, first edges lead to their hub; each answer has the shortest distance; with all levels labelled no lookup fails and the answer is a shortest path, from graph to answer |
| `hub_router_unlabelled` | the same graphs, two levels without labels | **violation**: the path misses nodes (finding 2) |
| `preprocessing` | 2 graphs, 3 kills, 2 replacements; 10 k | data of different graphs is never mixed, a finished run leaves the data of its graph, no class is read empty, a run gives up only after an earlier kill, and always some run finishes again |
| `import` | all directed graphs over 4 nodes, lines in two orders, node ids not in the order of lines, rows of 2; 98 k | offsets and rows partition the edges by start, only missing edges are added, an undirected graph survives export and import |
| `import_undirected` | 3 nodes | **violation**: some missing edges back are not added (finding 3) |
| `web` | 2 requests, 3 inputs, 4 nodes, disturbed calls that return other routes, an empty one, none, or fail; 65 k | the invariant of the proof, and what the user sees: no mixture of two answers (`ViewIsConsistent`), nothing left on the map (`NothingLeaks`), markers where the fields say (`MarkersFollow`), a route near what was asked for (`RouteIsNear`), "No route found" only where there is none (`NoRouteIsTrue`), coordinates that are found again as their nodes (`RepeatIsStable`), a router for every call (`NoNullRouter`, a part of the invariant), the refinement of `RequestReply`, and that every request is reported (`RequestsAreReported`) |
| `web_wrapped` | clicks on the western copy of the map | **violation**: the route goes to the other side of the earth (finding 4) |

`CHECK_DEADLOCK FALSE` is used for the import and the web runs: an import ends,
and a user may stop asking.

### Bounds

For the router and the contraction, four nodes give competing paths, nodes that
are contracted in parallel and shortcuts of shortcuts; lengths 1 and 3 give
both ties (1 + 1 + 1) and edges longer than a path between their ends; the
search in batches of 2 steps meets both the early and the late look at the
neighbours. Graphs are taken up to a renaming (degrees that fall with the
number). The serial router run uses length 0 too, because the rows of the grid
next to a pole have it; the contraction uses positive lengths (section 6).

For the labels and the hub label router four nodes are too few: a hierarchy of four
levels over four nodes comes from a complete graph, in which every hub is a
neighbour, so that no label is redundant and merging labels changes nothing.
The runs take five nodes, every pair joined or not, with a fixed length for
each pair, and two orders of contraction; all labelled graphs being there, a
renaming plays the part of further orders. Lengths are 4 to 7, so that no edge
is longer than a path between its ends: lengths on a sphere obey the triangle
inequality.

Three kills and two
replacements let a kill hit each of the three files that are written, and a
new graph arrive both before and after a finished run. `MaxPathLength`
stands for the memory that a path in a cycle would fill.

In `web`, two requests are enough for answers that overtake each other, two
threads that create a router, a call that disturbs another, and a third state
of the fields between them. `MaxEdits` counts inputs, choices of a field and
clicks; three of them are a click and a typed text, or three texts. The texts
are empty, not a number, beyond the date line to the east, and beside a node;
the nodes lie at the origin, on both sides of the date line and 10 degrees east,
and one of them has no path to the others.

### Fairness

`FairSerialSpec`: a thread that handles a request is scheduled (weak fairness
of `Step`). `FairCHSpec`: the threads of `calcNextLvl` run until they are
joined. `FairSpec` of `Preprocessing`: a run goes on by itself; the operator
restarts a run that did not end normally, and eventually deletes a file that a
run could not read; without the last assumption the run fails for ever,
which is what the code does (`CHData` exits on an unreadable file). Kills are
bounded, so they stop eventually. `FairSpec` of `WebApplication`: the event loop
runs its watchers and the handlers of answers that came in; the server's
threads go on, and a call that had its router to itself returns (which
`RequestsReturn` shows of the Dijkstra router). Nothing is assumed of a call
that was disturbed, nor that connections break or hold.

## 4. Findings

1. `router_overlap`. All requests share one `DijkstraRouter`, whose search
   state is in fields. A request that starts during another one resets and
   overwrites it. `Router.java` promises the shortest path.
2. `hub_router_unlabelled`. With unlabelled levels the path forgets the edge
   into a hub that the temporary search itself reached, and does not reverse
   the collected edges although its comment says so. The distance is right.
3. `import_undirected`. `oppositeEdgeFound` is not set back between two edges
   of one node, so the import does not "assure that the graph is undirected".
4. `web_wrapped`. `sanitizeLongitude` takes the remainder by 180, not 360, and
   in JavaScript it keeps the sign. It is right from -180 up to 360 degrees; a
   click on the copy of the world to the west, at -350 for 10 degrees east, is
   sent as -170.

Observations without a run: an empty target field, or one that is not a
number, is sent as the position 0, 0; every failure of a request, a lost
connection too, is reported as a point that is not on the ocean; an answer
overwrites what the user has entered meanwhile, and with two requests under
way the older one's route may be the last drawn; `Edges.addShortcutEdge` documents its two parts in
the opposite order of how they are stored, and `HubLEdges`, whose documentation
`ShortcutsUnpack` states, makes up for it;
the comment on `heapPosition` ("-1 if not on the heap") does not hold after
`getNext`, which is harmless because touched nodes are never added again
(`PositionsAgree` says nothing of the position of such an id);
`SearouterApplication` ignores the result of `HubLStore.readData`, so a server
without data starts; `LabelCreator` line 131 throws for a graph of one node. With two levels
without labels a lookup may throw: the entry of a labelled node k that the
temporary search reached is overwritten by -j-2 when the label of another node
j for k is shorter (`HubLRouter` 692-697); if the two paths over k and j tie at
the best hub, that hub may still name k, and `addEdges` (573-577) takes -j-2 for
a node. It takes a graph of nine nodes, more than the runs have; the distance is
not affected.

## 5. Proofs

### The heap

`DijkstraHeapProofs` proves for any ids, distances, initial length and growth
(`HeapAssumption`) that `Spec` implies `[]TypeOK` (`HeapFits`),
`[]PositionsAgree` (`PositionsCorrect`), `[]HeapOrder` (`OrderCorrect`) and
`ImplementsQueue` (`HeapIsQueue`). The first three are inductive together.
`HeapOrder` allows one wrong place, that of the running sift, and says that the
place's parent and children are in order with each other: without the second
part a swap could not be shown to leave only one wrong place. `PositionsAgree`
makes the ids in the array distinct, so that a lowered distance touches one
place. For the refinement, the root is least (`RootIsLeast`): the first place
with a closer id would have a parent that is closer too.

### The Dijkstra router

`DijkstraRouterProofs` proves for every set of threads, every graph and every
set of walks (`RouterAssumption`: nodes are naturals, edges lead to nodes,
lengths are naturals):

* `RouterInvariant`: `Spec => []IInv`.
* `AloneCorrect`: `Spec => []AloneIsShortest`. A request that
  no other overlaps is answered with a shortest route, whatever races of
  overlapping requests left in the fields (`RaceAssumption`: data of the right
  types). A found route is a walk of the grid from start to
  destination, as long as the returned distance, and no walk in `Voyages`
  between the two is shorter; "no route" is answered only if `Voyages` has no
  walk between them. `Voyages` is arbitrary but for the assumption below, so this
  is about all walks.
* `RouteCorrect`: `SerialSpec => []RouteIsShortest`. If requests
  are issued one after the other, all answers are right.
* `SumsFit`: `Spec => []NoOverflow`. No sum of a distance and a length reaches
  `Integer.MAX_VALUE` in a request that no other overlaps.
* `PathIsRebuilt`: `Spec => []NeverThrows`. Such a request throws nothing: the
  heap has an id whenever `getNext` is called, although earlier requests may
  have left it with a negative size, and the way back along the predecessors
  meets neither the index -1 nor a circle, although edges of length 0 could
  form one.
* `ReferenceMatched`: `SerialSpec => []MatchesReference`. The returned distance
  is that of `Distances`, and "no route" means that the reference has none.

Two facts about the graph are assumed besides. `VoyageAssumption`: wherever a
ship can go from a node, some walk leads to which the length of a further edge
can be added without reaching `Integer.MAX_VALUE`. Lengths are metres on the
earth, so the shortest way has some ten thousand kilometres, while the limit is
two million; nothing is assumed of other ways, whose length the algorithm must
not depend on. `MemoryAssumption`: the list of a path may have as many entries
as there are nodes.

`AloneIsShortest` is not inductive. `IInv` adds: a request that is not
overlapped is the only active one (`Alone`), and for it: the heap holds exactly
the reached and untaken nodes (`QueueInv`); taken nodes are no farther than
others (`OrderInv`) and the one taken last is the farthest (`LastInv`), which is
why lowering the distance of a neighbour cannot undercut a taken node; every
edge out of a taken node is relaxed but those still to come (`SettledInv`); each
reached node has a taken predecessor over an edge that accounts for its
distance exactly (`TreeInv`); the path collected so far consists of such edges
(`PathInv`); and after the reset nothing is left (`Cleared`), no negative size either. Optimality then
follows along a walk: if some node of a walk were farther than its odometer,
take the first such node; the node before it is closer than the destination, so
its edge was relaxed (`WalkBound`). "The first such node" exists by lemma
`LeastMember` of `SharedLemmas`, which takes the place of an induction.

For the sums, `ReachInv` says that only nodes are reached that lie in every set
of nodes closed under edges that holds the start: the short walk of
`VoyageAssumption` leads to each of them, and by optimality the distance of a
taken node is no longer than that walk. For the path, `AcyclicInv` says that in every
set of reached nodes without the start some predecessor leads out of the set,
which is circle-freeness without a rank; the path follows predecessors and meets no node twice
(`ChainInv`), so it is no longer than there are nodes. There is
one lemma per action; `router_serial` checks `IInv` with TLC.

For the reference, `ReferenceCorrect` of `SharedLemmas` says of the fold, for
every graph, that its values are no longer than the edges, obey the triangle
inequality and are the largest with that: whatever function p of the nodes rises
along each edge by no more than its length (a *potential*, `GraphPotential`)
rises from u to v by no more than the reference distance. So a distance that
the search computed is at least the reference distance, edge by edge along the
predecessors, and at most that, because the search's distances, cut off at the
distance of the destination, are a potential.

### The fmi files

`GraphImportProofs` proves for every set of well-formed files (`FileAssumption`:
node ids are distinct and edges join nodes of the file) and every width of a row:

* `ImportInvariant`: `Spec => []ImportInv`;
* `ImportFindsEdges`, `ImportAddsMissing`: `[]EdgesAreFound`,
  `[]OnlyMissingAreAdded`;
* `ExportRoundTrip`: `[]RoundTrip`, with exports and imports in any number.

A stable sort is a numbering: the place of an edge is how many edges do not come
after it. `TotalOrderPlaces` shows that these numbers are a bijection with an
interval for every total order, `ArrangedInverts` that the layout is its
inverse, and so the sorted list has the edges of the file, each once and in
order. Then the edges that start at a node are those between two offsets,
because the edges before them are an initial segment (`InitialSegment`). For the
round trip, the numbers of a sequence that is sorted already increase, and an
increasing map of an interval to itself is the identity
(`IncreasingIsIdentity`): the stable sort returns what was exported.
`ImportInv` says where the data of each phase comes from: what was exported
(`ExportInv`), the list that was read and the edges added so far (`ReadInv`), and
the arrays (`FillInv`).

### The contraction hierarchy

`ContractionProofs` proves for every undirected graph with positive lengths
(`GridAssumption`), every order in which the nodes are considered
(`OrderAssumption`: a sequence in which every node occurs), any number of threads
and any number of steps between two looks at the neighbours:

* `ContractionInvariant`: `CHSpec => []CHInv`;
* `ContractionType`: `[]CHTypeOK`;
* `ContractionUndirected`: `[]RemainingIsUndirected`. The exception of
  `removeBackwardsEdge` is never met;
* `ContractionLevels`: `[]LevelsAreIndependent`;
* `ContractionUnpacks`: `[]ShortcutsUnpack`;
* `ContractionPaths`: `[]DistanceInv`;
* `ContractionDistances`: `[]DistancesArePreserved`. After every level the graph
  that remains has the shortest distances of the imported one.

The difficulty is `RemainingIsUndirected`. A shortcut from y to z and the one
back are found by two searches, which different threads may run, which break
ties differently and stop early. Both have to be found or none, with the same length.
`CHInv` therefore characterises what a search reports without reference to
any search: `ShortOver(s, x, y, d)` says that there are two edges of total length d
from s over x to y, and a *potential* that rises from 0 at s to d at y and along
each edge by no more than its length, so that no path is shorter. Turned round
(d minus the potential) it is a potential for the way back, because the graph is
undirected (`ShortBack`), and two potentials give the same length
(`ShortUnique`). What remains is that searches report exactly these paths:

* `SearchSound`: a path that is reported is `ShortOver`. When a search ends,
  the distances, cut off at d, are a potential: taken nodes are no farther than
  those on the heap, and their edges are all relaxed (`SearchOK`).
* `SearchFull`: each `ShortOver` path is reported. The potential bounds all
  distances from below, so the two edges over x are tight, and where several
  predecessors tie, `Better` has made x the predecessor. That needs positive
  lengths: otherwise the neighbour may have been taken before x was.
* `SearchComplete` counts what is still to do: a `ShortOver` path over a node of
  the level is already reported by a thread, or its search is ahead of one.

`EdgesOK` says that for every length there are as many edges from u to v as back.
A pair is joined by one shortcut each way at most, the first that was
reported; all that were reported are equally long, so this is kept when
shortcuts are added (`AddedOK`). When a node of the level is taken out, there are
as many edges back from a neighbour as turns of the loop that remove one
(`BackOK`, from a bijection per length, `LinksBalanced`), so none is missing and
none is left, and the neighbour lists have again exactly the edges between the
nodes that remain (`CurrentOK`). Levels grow with each round and stay below the
number of contracted nodes (`LevelsOK`).

The folds of the model (`FoldLeft` over the nodes, edges or shortcuts) are
unrolled by one lemma each, such as `PickTurns`: there is a sequence of
intermediate results, each computed from the one before. They rest on
`FoldExists` of `SharedLemmas`, which shows that the function by which a fold is
defined exists. Induction is then over the interval of turns (`IntervalInduction`).
`CHInv` was checked with TLC on graphs over four nodes before it was proved.

`DistanceInv` relates all edges, shortcuts included, to the reference distances
of the imported graph: an edge is never shorter than the distance of its ends,
and a shortcut is exactly as long (`EdgesMeasured`); between two nodes that remain there is
a shortest path over nodes that remain, one shortest edge after the other
(`PathsWithin`); and between any two nodes there is one that goes on from its lower
end to a higher node (`PathsRise`), which is what the labels need. When a
level is taken out, a path over one of its nodes x leads over two neighbours of
x, because the level is independent; the two edges are a shortest path in the
graph that remains, hence `ShortOver`, hence bridged by a shortcut of that
length.

### The hub labels

`HubLabelProofs` proves for every order of contraction, number of threads
and number of unlabelled levels, and for every undirected graph with positive
lengths that obeys the triangle inequality. These are the assumptions of the contraction and
two more, `TriangleAssumption` (an edge is no longer than any path between its ends,
as on a sphere) and `FarAssumption` (`far`, the model's infinity, lies beyond all
distances):

* `HubLabelInvariant`: `RouterSpec => [](CHInv /\ DistanceInv /\ HubInv)`;
* `ExactLabels`: `[]LabelsAreExact`;
* `LeadingEdges`: `[]FirstEdgesLead`;
* `CoveringLabels`: `[]LabelsCover`.

None of the three properties is inductive: which labels are removed as redundant
depends on the labels of higher nodes, and whether a chain of first edges stays
whole on what was removed there. `HubInv` therefore says which labels a node
has, without reference to the order of the work: c is a *hub* of n if c lies
above all other nodes of all shortest paths from n to c (`IsHub`), and the labels
of n are exactly its hubs, with exact distances and with a first edge to a node
that has the same hub (`LabelOK`). A hub survives the merging with its exact
distance, because a shortest path to it begins with an edge up to a node whose
hub it is as well, and the removal, because every other common label of the two
lies off their shortest paths. What is no hub, or has too long a distance, is
redundant: the highest node of the shortest paths between the two is a hub of
both (`CommonHub`). For the order of the work, `LevelsBefore` says that the
levels that are over are labelled, and `LevelAtHand` that a node of the current
one is labelled or in the slice of a thread, which is where the integer division
that cuts the slices comes in.

### The hub label router

* `ShortestDistance`: `RouterSpec => []DistanceIsShortest`, also with levels
  that have no labels. When a request has both its sides, the best common hub gives the
  shortest distance (`HubMeasured`), whether the path can then be put together
  or not; what is returned is that distance, or "no route" where there is none;
* `LabelledAnswers`: `RouterSpec => []LabelledAnswerIsShortest`. With all levels
  labelled, no lookup fails, and the path is one of the imported graph, from start to
  destination and as long as the distance.

A side of the lookup needs all hubs of its node with exact distances, and may
have more as long as no distance is too short (`SideOK`); then the common hub
of the two nodes gives the shortest sum. The temporary search has this at its end
because at any time each hub is found, or a node on a shortest path to it, at
its exact distance, is still to be expanded or merged (`TempOK`, `HubInSight`).
That covers entries that improve after they were merged once, and heap keys that
are stale. `RouteInv` says this of both sides at each point of a request.

For the path, `Trip` says of a list of edges that it leads from one node to
another and has a given total length. `getEdges` follows first edges to the hub
(`HubReached`): the recursion is over levels, which rise with every step;
`RankedRecursion` shows that it has a solution and `RankedInduction` that
what each level hands to the next holds of all. The unpacking of shortcuts is the same
over edge ids (`UnpackedTrip`): the parts of a shortcut are older than it, and
together as long. The half to the destination is followed from there and
turned round (`EdgeBothWays`), and the nodes of the joined halves have the length that the
distance says (`RouteMeasured`).

### The preprocessing pipeline

`PreprocessingProofs` proves for any set of graphs and any number of kills and
replacements (`PreprocessingAssumption`: "nothing" and "unfinished" are not
data):

* `PipelineInvariant`: `Spec => []IInv`;
* `ServedWhole`, `OutputCurrent`, `NothingIsMissing`, `ResumeSucceeds`: the
  safety properties that the run `preprocessing` checks.

The properties speak of ended runs and of the server, and say nothing of a run
under way. `IInv` adds which classes are filled at each point of a run
(`Held`), all of them with the graph of the fmi file (`MemoryInv`), that a
complete checkpoint holds that graph (`FilesInv`), and that an unfinished one is
being written or left by a kill (`PartialInv`).

### Page and server

`WebApplicationProofs` proves for any number of requests, any graph with any
paths and distances, and any texts and clicks:

* `WebInvariant`: `Spec => []IInv`, one lemma per action;
* `MapIsClean`, `MarkersAgree`, `RouterIsThere`, `ViewConsistent`,
  `RepeatStable`, `RouteNear`, `NoRouteTrue`: the invariants the run `web` checks;
* `Implements`: `Spec => ImplementsRequestReply`.

The assumptions are: nodes lie between -180 and 180 degrees (`ApiAssumption`),
null is none of the data (`NullAssumption`), what the user enters is a text or a
position (`WindowAssumption`), a path begins and ends at its nodes
(`PathAssumption`), a disturbed call returns nodes (`MixedAssumption`), distances are naturals, and 0 only from a node to itself
(`DistanceAssumption`, `RangeAssumption`).

What is on the screen says little about requests under way. `IInv` adds that a
drawn route is the answer of its request and, until the user changes a field,
stands in the fields (`DrawnInv`); how far each request has come in the browser
and on the server, and that what was posted was made from the fields when it was
asked for (`RequestInv`); and that an undisturbed answer is the promised one for
the nodes of that body (`ReplyInv`). `RouteNear` then follows the data: an
ordinary longitude is sent as it is or a whole turn further west
(`SanitizeOrdinary`), the node that is found has the same whole degrees
(`NearestType`, from a least pair of distance and id by `LeastMember`), and
equal whole degrees are less than two degrees apart (`TruncatedNear`).

### Only model-checked

Liveness (`RequestsReturn`, `ContractionEnds`, `EventuallyFinished`,
`RequestsAreReported`), which the prover does not handle. Every invariant and
every safety or refinement property of a passing run is stated by a theorem.
`AnswerIsShortest`, the path of an answer with unlabelled levels, is not a
theorem: it is violated (finding 2).

## 6. Not modelled

* Edges of length 0 in the contraction. `GridCreator` makes a row at latitude 90
  (lines 84 and 166) whose east-west edges are cast to length 0, so the grids of
  the repository have them. Whether both
  directions report a shortcut then depends on how `DistanceHeap` breaks ties,
  which the model leaves open. The theorems and runs on contraction, labels and
  hub label router say nothing about such graphs; those on the Dijkstra router
  include them.
* Graphs with an edge longer than a path between its ends: the labels are then
  too long (`HLDijkstra` prints "this code should not be reached"). `HubLabels`
  shows it with lengths 1 and 3; distances on a sphere obey the triangle inequality, so it is
  listed as a hazard and not as a finding.
* Overlapping requests on `HubLRouter`, whose fields are shared as those of
  `DijkstraRouter` are. For `DijkstraRouter` the interleavings inside one
  operation are covered by `Race`, which is no statement about what an
  overlapped request returns.
* The Java memory model: a write of a thread is seen by the others at once. The
  field `router` is written without synchronisation, so a thread might see the
  reference before the object's arrays.
* Coordinates finer than half a degree, the distance on a sphere (a parameter of
  `RoutingController`), the coastline geometry, the pbf import: floating-point
  computations and input.
* Texts with a numeric prefix such as "12abc", which `parseFloat` accepts and the
  unparsed longitude of the start does not, and texts of a single space.
* The time that `Navbar` writes every second and nothing shows.
* The formats of the files: a file is complete or unfinished.

## 7. Plan

Done: the heap, the Dijkstra router, the hierarchy, the labels, the hub label
router, the pipeline, the fmi files, the request handler and the page; the
proofs of section 5, from the imported graph to the answer of either router.

Next, in this order:

1. `HubLRouter` under overlapping requests.
2. Collections: `DistanceHeap` as a refinement of `PriorityQueue`,
   `OrderedIntSet` and `IntStack` against sets and sequences; then the
   contraction with the concrete order of equal entries and edges of length 0.
3. `GridCreator`: worker threads, the neighbour relation that wraps at the date
   line and ends at the poles, checked against a geometric definition.
