------------------------------ MODULE HubLRouter ------------------------------
(***************************************************************************)
(* router/HubLRouter.java on the data of the preprocessing, one request    *)
(* after the other.  A node with labels brings them; for a node of the     *)
(* noLabelLvls lowest levels calcTempLabels first collects labels          *)
(* by a search over the edges to higher nodes.  The best common hub of the *)
(* two sides gives the distance, and the path is unpacked from the edges   *)
(* on both sides of the hub.                                               *)
(*                                                                         *)
(* A side is a function from hubs to dist, edge and info; info is kept in  *)
(* the encoding of the code: -1 for the node itself, a node the hub was    *)
(* reached from, or - node - 2 for the node whose label it is.             *)
(***************************************************************************)
EXTENDS HubLabels

VARIABLES
  rpc,          \* "idle", the side that is being collected, or "answer"
  from, to,     \* the request
  side,         \* labelLeft, distLeft, ... and their counterparts
  heap,         \* nodes without labels that are still to be expanded
  labelHeap,    \* nodes with labels still to be merged, with their heap key
  answer        \* the last RoutingResult

routeVars == <<rpc, from, to, side, heap, labelHeap, answer>>
routerVars == <<allVars, routeVars>>

Sides == {"left", "right"}
NoSide == [h \in {} |-> 0]
Failed(kind) == [kind |-> kind, path |-> <<>>, distance |-> -1]

RouterInit ==
  /\ HLInit
  /\ rpc = "idle" /\ from = -1 /\ to = -1
  /\ side = [s \in Sides |-> NoSide]
  /\ heap = {} /\ labelHeap = NoSide
  /\ answer = Failed("none")

\* HubLNodes.initEdgeInfo keeps the edges to higher nodes of unlabelled nodes.
StoredEdges(n) ==
  IF nodeHasLabels(n) THEN <<>>
  ELSE InOrder({e \in ToSet(AllEdges(n)) : levels[edges[e].dest] > levels[n]})

\* The stages of a request: a side is collected unless its node has labels.
AfterLeft(d) == IF nodeHasLabels(d) THEN "answer" ELSE "right"
FirstStage(s, d) == IF nodeHasLabels(s) THEN AfterLeft(d) ELSE "left"

Origin(s, d, stage) == IF stage = "left" THEN s ELSE d

\* What a stage starts with: the node itself, on the heap.
StageStart(s, d, stage) ==
  IF stage = "answer" THEN heap' = {} /\ UNCHANGED side
  ELSE /\ heap' = {Origin(s, d, stage)}
       /\ side' = [side EXCEPT ![stage] =
                     [h \in {Origin(s, d, stage)} |-> [dist |-> 0, edge |-> -1, info |-> -1]]]

\* route: the fields are reset and the stages begin.
route(s, d) ==
  /\ hlPhase = "done"
  /\ rpc = "idle"
  /\ s # d
  /\ from' = s /\ to' = d
  /\ rpc' = FirstStage(s, d)
  /\ StageStart(s, d, FirstStage(s, d))
  /\ labelHeap' = NoSide
  /\ answer' = Failed("none")
  /\ UNCHANGED allVars

\* Mutant of TempRelax: a node with labels is found, but not kept for merging.
TempRelaxUnmerged(acc, node, e) ==
  LET v     == edges[e].dest
      d     == acc.found[node].dist + edges[e].dist
      found == Updated(acc.found, {v}, LAMBDA h : [dist |-> d, edge |-> e, info |-> node])
  IN  IF v \in DOMAIN acc.found /\ acc.found[v].dist <= d THEN acc
      ELSE [acc EXCEPT !.found = found,
                       !.heap = IF nodeHasLabels(v) THEN @ ELSE @ \cup {v}]

\* One edge out of node: its end is new or has become closer.
TempRelax(acc, node, e) ==
  LET v     == edges[e].dest
      d     == acc.found[node].dist + edges[e].dist
      found == Updated(acc.found, {v}, LAMBDA h : [dist |-> d, edge |-> e, info |-> node])
  IN  IF v \in DOMAIN acc.found /\ acc.found[v].dist <= d THEN acc
      ELSE IF nodeHasLabels(v)
           THEN [acc EXCEPT !.found = found, !.labelHeap = Updated(@, {v}, LAMBDA h : d)]
           ELSE [acc EXCEPT !.found = found, !.heap = @ \cup {v}]

TempExpand(node) ==
  /\ rpc \in Sides
  /\ \A other \in heap : side[rpc][node].dist <= side[rpc][other].dist
  /\ LET relax(a, e) == TempRelax(a, node, e)
         acc == FoldLeft(relax, [found |-> side[rpc], heap |-> heap \ {node},
                                 labelHeap |-> labelHeap], StoredEdges(node))
     IN  /\ side' = [side EXCEPT ![rpc] = acc.found]
         /\ heap' = acc.heap
         /\ labelHeap' = acc.labelHeap
  /\ UNCHANGED <<allVars, rpc, from, to, answer>>

\* found with the labels of node, where they are new or closer.
TempMerged(found, node) ==
  LET new(h) == [dist |-> found[node].dist + labels[node][h].dist,
                 edge |-> labels[node][h].edge, info |-> -node - 2]
      closer == {h \in DOMAIN labels[node] :
                   h \notin DOMAIN found \/ found[h].dist > new(h).dist}
  IN  Updated(found, closer, new)

\* The labels of a node on the label heap are merged.
TempMerge(node) ==
  /\ rpc \in Sides
  /\ heap = {}
  /\ \A other \in DOMAIN labelHeap : labelHeap[node] <= labelHeap[other]
  /\ side' = [side EXCEPT ![rpc] = TempMerged(side[rpc], node)]
  /\ labelHeap' = [n \in DOMAIN labelHeap \ {node} |-> labelHeap[n]]
  /\ UNCHANGED <<allVars, rpc, from, to, heap, answer>>

\* calcTempLabels returns.
SideDone ==
  /\ rpc \in Sides
  /\ heap = {}
  /\ DOMAIN labelHeap = {}
  /\ rpc' = IF rpc = "left" THEN AfterLeft(to) ELSE "answer"
  /\ StageStart(from, to, IF rpc = "left" THEN AfterLeft(to) ELSE "answer")
  /\ UNCHANGED <<allVars, from, to, labelHeap, answer>>
------------------------------------------------------------------------------
SideOf(n, s) == IF nodeHasLabels(n) THEN labels[n] ELSE side[s]

\* The first of the common hubs with the least total distance.
BestHub(left, right) ==
  LET common == DOMAIN left \cap DOMAIN right
      total(h) == left[h].dist + right[h].dist
  IN  CHOOSE h \in common :
        \A g \in common : total(h) < total(g) \/ (total(h) = total(g) /\ h <= g)

OutOfBounds == <<-1>>   \* an ArrayIndexOutOfBoundsException

\* getEdges: the first edges from node to hub.
getEdges(node, hub) ==
  LET f[n \in Nodes] ==
        IF n = hub THEN <<>>
        ELSE IF hub \notin DOMAIN labels[n] THEN OutOfBounds
        ELSE <<labels[n][hub].edge>> \o f[edges[labels[n][hub].edge].dest]
  IN  f[node]

\* addEdges: back from node to stop over the collected edges; the order is
\* that of the collection.
addEdges(found, node, stop) ==
  LET f[n \in Int] ==
        IF n = stop THEN <<>>
        ELSE IF n \notin DOMAIN found THEN OutOfBounds
        ELSE <<found[n].edge>> \o f[found[n].info]
  IN  f[node]

\* The edges the router puts on the stack of one side.
EdgesTo(hub, node, found) ==
  IF nodeHasLabels(node) THEN getEdges(node, hub)
  ELSE IF found[hub].info < -1
       THEN addEdges(found, (found[hub].info + 2) * (-1), node)
              \o <<found[hub].edge>> \o getEdges(edges[found[hub].edge].dest, hub)
  ELSE IF found[hub].info # -1 THEN addEdges(found, found[hub].info, node)
  ELSE <<>>

\* Mutant of Unpacked: the parts are taken in the order they are stored.
UnpackedAsStored(es) ==
  LET f[e \in 1..Len(edges)] ==
        IF e > numOfOriginalEdges THEN f[getSecondShortcut(e)] \o f[getFirstShortcut(e)] ELSE <<e>>
  IN  FlattenSeq([i \in DOMAIN es |-> f[es[i]]])

\* The edges of the graph that a sequence of edges and shortcuts stands for.
Unpacked(es) ==
  LET f[e \in 1..Len(edges)] ==
        IF e > numOfOriginalEdges THEN f[getFirstShortcut(e)] \o f[getSecondShortcut(e)] ELSE <<e>>
  IN  FlattenSeq([i \in DOMAIN es |-> f[es[i]]])

Ends(es) == [i \in DOMAIN es |-> edges[es[i]].dest]

\* calculateRoute: up from start to the hub, which is left out, and down
\* from the hub, the edges of the right side being walked backwards.
calculateRoute(start, dest, left, right) ==
  Front(<<start>> \o Ends(Unpacked(left))) \o Ends(Reverse(Unpacked(right))) \o <<dest>>

Answer ==
  /\ rpc = "answer"
  /\ LET left  == SideOf(from, "left")
         right == SideOf(to, "right")
         hub   == BestHub(left, right)
         up    == EdgesTo(hub, from, left)
         down  == EdgesTo(hub, to, right)
     IN  answer' =
           IF DOMAIN left \cap DOMAIN right = {} THEN Failed("notFound")
           ELSE IF -1 \in ToSet(up) \cup ToSet(down) THEN Failed("exception")
           ELSE [kind |-> "found", path |-> calculateRoute(from, to, up, down),
                 distance |-> left[hub].dist + right[hub].dist]
  /\ rpc' = "idle"
  /\ side' = [s \in Sides |-> NoSide]
  /\ UNCHANGED <<allVars, from, to, heap, labelHeap>>

RouteNext ==
  \/ \E s, d \in Nodes : route(s, d)
  \/ \E node \in heap : TempExpand(node)
  \/ \E node \in DOMAIN labelHeap : TempMerge(node)
  \/ SideDone
  \/ Answer

RouterNext ==
  \/ CHNext /\ UNCHANGED <<hlVars, routeVars>>
  \/ HLNext /\ UNCHANGED routeVars
  \/ RouteNext

RouterSpec == RouterInit /\ [][RouterNext]_routerVars
------------------------------------------------------------------------------
\* The length of a path of nodes, far or more if two of them are not joined.
PathLength(p) ==
  FoldLeft(+, 0, [i \in 1..(Len(p) - 1) |-> EdgeLength(grid, p[i], p[i + 1], far)])

\* The least total distance of a common hub, far if there is none.
HubDistance(left, right) ==
  IF DOMAIN left \cap DOMAIN right = {} THEN far
  ELSE left[BestHub(left, right)].dist + right[BestHub(left, right)].dist

\* What the router promises of the distance alone.  When the sides have been
\* collected, their best common hub gives the distance of the two nodes, even
\* if the path to it cannot be put together, and they have no common hub only
\* if there is no route; so does the answer.  It makes no difference whether
\* labels were stored or collected by calcTempLabels, from labels whose
\* distances were still to improve.
DistanceIsShortest ==
  /\ rpc = "answer" =>
       HubDistance(SideOf(from, "left"), SideOf(to, "right")) = AllDistances[grid][from][to]
  /\ answer.kind = "found" => answer.distance = AllDistances[grid][from][to]
  /\ answer.kind = "notFound" => AllDistances[grid][from][to] = far

\* "@return a shortest route between start and destination node": an answer
\* is returned, the chains of edges that getEdges and addEdges follow to the
\* hub never break.
AnswerIsReturned == answer.kind # "exception"

\* And of the answer itself: the path joins the two nodes along edges, is as
\* long as the answer says, and that is their distance; "no route" is only
\* answered if there is none.
AnswerIsShortest ==
  /\ answer.kind = "found" =>
       /\ answer.path[1] = from /\ answer.path[Len(answer.path)] = to
       /\ answer.distance = AllDistances[grid][from][to]
       /\ PathLength(answer.path) = answer.distance
  /\ answer.kind = "notFound" => AllDistances[grid][from][to] = far

\* The same of a router with labels on all levels, the setting LabelCreator
\* has: it returns an answer, and the whole path is right.
LabelledAnswerIsShortest == noLabelLvls = 0 => AnswerIsReturned /\ AnswerIsShortest
==============================================================================
