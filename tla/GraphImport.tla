----------------------------- MODULE GraphImport -----------------------------
(***************************************************************************)
(* The fmi files: Grid.importFmiFile for the Dijkstra router, DynamicGrid. *)
(* importFmiFile for the preprocessing, which reads a file the same way    *)
(* and only stores it differently, and Grid.exportToFmiFile.               *)
(*                                                                         *)
(* A file has a sequence of node lines, of which the id matters here, and  *)
(* a sequence of edge lines from a node id to a node id.  Inside the       *)
(* program a node is the place of its line.                                *)
(***************************************************************************)
EXTENDS Integers, Sequences, SequencesExt, FiniteSets, Arrangements

CONSTANTS InputFiles,    \* the files considered
          MaxDegree      \* length of a row of sortedEdges, 4 in the code

ASSUME ImportAssumption == MaxDegree \in Nat

\* A file of the program: its node ids are distinct and its edges join nodes
\* that it has.
WellFormed(f) ==
  /\ f \in [ids : Seq(Int), edges : Seq([start : Int, dest : Int, dist : Int])]
  /\ \A i, j \in DOMAIN f.ids : f.ids[i] = f.ids[j] => i = j
  /\ \A k \in DOMAIN f.edges :
       \E i, j \in DOMAIN f.ids : f.edges[k].start = f.ids[i] /\ f.edges[k].dest = f.ids[j]

ASSUME FileAssumption == \A f \in InputFiles : WellFormed(f)

VARIABLES
  file,                  \* the file that is imported
  original,              \* the graph before the last export, for the properties
  edgeList,              \* the edges read: start, dest, dist
  position,              \* which edge the completion of the graph is at
  oppositeEdgeFound,     \* its local flag
  additional,            \* additionalEdgesThatWereMissing
  edges, offset,         \* the arrays of Edge and Grid
  sortedEdges,           \* the rows of DynamicGrid
  pc

vars == <<file, original, edgeList, position, oppositeEdgeFound, additional, edges, offset,
          sortedEdges, pc>>

NoGraph == <<>>

Init ==
  /\ file \in InputFiles
  /\ original = NoGraph
  /\ edgeList = <<>> /\ position = 1 /\ oppositeEdgeFound = FALSE /\ additional = <<>>
  /\ edges = <<>> /\ offset = <<>> /\ sortedEdges = <<>>
  /\ pc = "read"

NodeCount == Len(file.ids)

\* fileNodeIdToInternalUsedId: the line of a node, 0 being the first.  The
\* nodes are sorted by that number afterwards, which changes nothing.
InternalId(id) == (CHOOSE i \in DOMAIN file.ids : file.ids[i] = id) - 1

\* Edge j of es is sorted no later than edge i: a smaller start node, or the
\* same one and not behind i in es.
NotAfter(es, j, i) == es[j].start < es[i].start \/ (es[j].start = es[i].start /\ j <= i)

\* A stable sort by start node.
SortByStart(es) ==
  LET place == [i \in DOMAIN es |-> Cardinality({j \in DOMAIN es : NotAfter(es, j, i)})]
  IN  [k \in DOMAIN es |-> es[Arranged(DOMAIN es, place)[k]]]

\* The edge lines of the file, between internal ids.
EdgesOfFile ==
  [i \in DOMAIN file.edges |->
     [start |-> InternalId(file.edges[i].start), dest |-> InternalId(file.edges[i].dest),
      dist  |-> file.edges[i].dist]]

ReadFile ==
  /\ pc = "read"
  /\ edgeList' = SortByStart(EdgesOfFile)
  /\ position' = 1 /\ oppositeEdgeFound' = FALSE /\ additional' = <<>>
  /\ pc' = "complete"
  /\ UNCHANGED <<file, original, edges, offset, sortedEdges>>

Back(e) == [start |-> e.dest, dest |-> e.start, dist |-> e.dist]

\* The edges that adjacenceMap has for a node.
From(n) == {e \in ToSet(edgeList) : e.start = n}

HasOpposite(e) == \E f \in From(e.dest) : f.dest = e.start

\* The flag that was left when the turn of this edge comes: it is cleared
\* for each start node, not for each edge.
FlagBefore ==
  /\ oppositeEdgeFound
  /\ position > 1
  /\ edgeList[position - 1].start = edgeList[position].start

\* Mutant of IsMissing: the flag is not looked at.
AlwaysMissing(e) == TRUE

\* An edge back is added.
IsMissing(e) == ~FlagBefore /\ ~HasOpposite(e)

\* One edge is checked for an edge back; adjacenceMap has no entry for a
\* node without edges, which is a NullPointerException.
CheckEdge ==
  /\ pc = "complete"
  /\ position <= Len(edgeList)
  /\ LET e == edgeList[position]
     IN  IF From(e.dest) = {}
         THEN pc' = "crashed" /\ UNCHANGED <<oppositeEdgeFound, additional, position>>
         ELSE /\ oppositeEdgeFound' = ~IsMissing(e)
              /\ additional' = IF IsMissing(e) THEN Append(additional, Back(e)) ELSE additional
              /\ position' = position + 1
              /\ UNCHANGED pc
  /\ UNCHANGED <<file, original, edgeList, edges, offset, sortedEdges>>

AllEdgesRead == SortByStart(edgeList \o additional)

\* Mutant of Offsets: the prefix sums start one node early.
OffsetsEarly(es) ==
  [n \in 0..NodeCount |-> Cardinality({i \in DOMAIN es : es[i].start <= n})]

\* The prefix sums of the numbers of edges: how many edges start before n.
Offsets(es) == [n \in 0..NodeCount |-> Cardinality({i \in DOMAIN es : es[i].start < n})]

\* Grid.importFmiFile
FillGrid ==
  /\ pc = "complete"
  /\ position > Len(edgeList)
  /\ edges' = AllEdgesRead
  /\ offset' = Offsets(AllEdgesRead)
  /\ pc' = "grid"
  /\ UNCHANGED <<file, original, edgeList, position, oppositeEdgeFound, additional, sortedEdges>>

\* The ids of the edges of es that start at n, in order.
RowOf(es, n) == InOrder({i \in DOMAIN es : es[i].start = n})

\* DynamicGrid.importFmiFile: one row of fixed length for each node.
FillDynamicGrid ==
  /\ pc = "complete"
  /\ position > Len(edgeList)
  /\ edges' = AllEdgesRead
  /\ IF \A n \in 0..(NodeCount - 1) : Len(RowOf(AllEdgesRead, n)) <= MaxDegree
     THEN sortedEdges' = [n \in 0..(NodeCount - 1) |-> RowOf(AllEdgesRead, n)] /\ pc' = "dynamic"
     ELSE pc' = "crashed" /\ UNCHANGED sortedEdges
  /\ UNCHANGED <<file, original, edgeList, position, oppositeEdgeFound, additional, offset>>

\* Mutant of Exported: the loop over the edges starts at the second one.
ExportedFromSecond ==
  [ids |-> [i \in 1..NodeCount |-> i - 1], edges |-> SubSeq(edges, 2, Len(edges))]

\* Grid.exportToFmiFile writes internal ids.
Exported == [ids |-> [i \in 1..NodeCount |-> i - 1], edges |-> edges]

\* The graph is exported, and the file imported in its turn.
ExportAndImport ==
  /\ pc = "grid"
  /\ original = NoGraph
  /\ original' = [edges |-> edges, offset |-> offset]
  /\ file' = Exported
  /\ pc' = "read"
  /\ UNCHANGED <<edgeList, position, oppositeEdgeFound, additional, edges, offset, sortedEdges>>

Next == ReadFile \/ CheckEdge \/ FillGrid \/ FillDynamicGrid \/ ExportAndImport

Spec == Init /\ [][Next]_vars
------------------------------------------------------------------------------
Filled == pc \in {"grid", "dynamic"}

\* The graph in the arrays, each node with the set of its edges' ids.
EdgesOf(n) ==
  IF pc = "grid" THEN (offset[n] + 1)..offset[n + 1] ELSE ToSet(sortedEdges[n])

\* Grid and DynamicGrid find every edge of a node and no other: the offsets
\* and the rows partition the edge array by start node.
EdgesAreFound ==
  Filled => \A n \in 0..(NodeCount - 1) :
    EdgesOf(n) = {i \in DOMAIN edges : edges[i].start = n}

\* Edges are only added back to an edge of the file that has none: an edge
\* is never doubled, and every edge of the file is kept.
OnlyMissingAreAdded ==
  Filled =>
    /\ \A i \in DOMAIN additional :
         Back(additional[i]) \in ToSet(edgeList) /\ ~HasOpposite(Back(additional[i]))
    /\ ToSet(edges) = ToSet(edgeList) \cup ToSet(additional)
    /\ Len(edges) = Len(edgeList) + Len(additional)

\* "Assure that the graph is undirected by adding missing unidirectional
\* edges" (both imports).
ImportIsUndirected ==
  Filled => \A e \in ToSet(edges) : \E f \in ToSet(edges) : f.start = e.dest /\ f.dest = e.start

\* The inductive invariant of the import.
ExportInv ==
  original # NoGraph =>
    /\ file = [ids |-> [i \in 1..NodeCount |-> i - 1], edges |-> original.edges]
    /\ \A i, j \in DOMAIN original.edges :
         i <= j => original.edges[i].start <= original.edges[j].start
    /\ original.offset = Offsets(original.edges)

ReadInv ==
  pc # "read" =>
    /\ edgeList = SortByStart(EdgesOfFile)
    /\ additional \in Seq([start : 0..(NodeCount - 1), dest : 0..(NodeCount - 1), dist : Int])
    /\ \A i \in DOMAIN additional :
         Back(additional[i]) \in ToSet(edgeList) /\ ~HasOpposite(Back(additional[i]))

FillInv ==
  /\ Filled => edges = AllEdgesRead
  /\ pc = "grid" => offset = Offsets(AllEdgesRead)
  /\ pc = "dynamic" => sortedEdges = [n \in 0..(NodeCount - 1) |-> RowOf(AllEdgesRead, n)]

ImportInv ==
  /\ pc \in {"read", "complete", "grid", "dynamic", "crashed"}
  /\ position \in Nat \ {0}
  /\ WellFormed(file)
  /\ ExportInv /\ ReadInv /\ FillInv

\* An undirected graph survives export and import: same edges, same order.
RoundTrip ==
  pc = "grid" /\ original # NoGraph
    /\ (\A e \in ToSet(original.edges) : Back(e) \in ToSet(original.edges)) =>
  edges = original.edges /\ offset = original.offset
==============================================================================
