------------------------------ MODULE HubLabels ------------------------------
(***************************************************************************)
(* The second half of the preprocessing: LabelCreator.calcLabels gives     *)
(* every node of the contraction hierarchy its hub labels, from the        *)
(* highest level down.  Worker threads (HLDijkstra) each take a slice of   *)
(* the nodes of a level; they read the labels of higher levels, which are  *)
(* complete, and write the labels of their own nodes.                      *)
(*                                                                         *)
(* The labels of a node are a function from hubs to the distance of the    *)
(* hub and the first edge on the way to it: the three parallel arrays of   *)
(* class Labels, sorted by hub.                                            *)
(***************************************************************************)
EXTENDS ContractionHierarchy

CONSTANT LabelSettings   \* values NUM_OF_NO_LABEL_LVLS may be set to

ASSUME LabelsAssumption == LabelSettings \subseteq Nat

\* Lengths on the earth obey the triangle inequality: no edge is longer than a
\* path between its ends.
ASSUME TriangleAssumption ==
  \A g \in Grids : \A u \in Nodes : \A k \in DOMAIN g[u] :
    g[u][k].dist = AllDistances[g][u][g[u][k].dest]

\* far is beyond all distances: where one can go from a place that is nearer
\* is nearer too.
ASSUME FarAssumption ==
  \A g \in Grids : \A u, v \in Nodes : \A k \in DOMAIN g[v] :
    AllDistances[g][u][v] < far => AllDistances[g][u][g[v][k].dest] < far

VARIABLES
  noLabelLvls, \* NUM_OF_NO_LABEL_LVLS: the number of lowest levels without labels
  labels,      \* the labels of every node, NoLabels = null
  order,       \* calcOrder after createHLCalcOrder: by falling level
  groups,      \* changeIndices: where the levels begin in order, and its end
  group,       \* the level calcLabels is at
  slices,      \* the indices of order each thread has still to process
  hlPhase      \* "wait", "start", "run" or "done"

hlVars == <<noLabelLvls, labels, order, groups, group, slices, hlPhase>>
allVars == <<chVars, hlVars>>

NoLabels == [h \in {} |-> 0]

HLInit ==
  /\ CHInit
  /\ noLabelLvls = 0
  /\ labels = [n \in Nodes |-> NoLabels]
  /\ order = <<>> /\ groups = <<>> /\ group = 1
  /\ slices = <<>>
  /\ hlPhase = "wait"

\* createHLCalcOrder: a stable sort of the ids by falling level, and the
\* indices at which a level is lower than the one before.
ByLevel ==
  LET upTo(n) == {m \in Nodes : levels[m] > levels[n] \/ (levels[m] = levels[n] /\ m <= n)}
  IN  Arranged(Nodes, [n \in Nodes |-> Cardinality(upTo(n))])

ChangeIndices(ord) ==
  InOrder({1, Len(ord) + 1} \cup {i \in 2..Len(ord) : levels[ord[i]] < levels[ord[i - 1]]})

\* The first step for which the setting matters: it is chosen here.
createHLCalcOrder ==
  /\ hlPhase = "wait"
  /\ CHDone
  /\ noLabelLvls' \in LabelSettings
  /\ order' = ByLevel
  /\ groups' = ChangeIndices(ByLevel)
  /\ hlPhase' = "start"
  /\ UNCHANGED <<chVars, labels, group, slices>>

\* The number of levels that get labels.
MaxGroup == Len(groups) - (noLabelLvls + 1)

\* The indices of thread t: an equal share, the last thread takes the rest,
\* or one index for each thread if there are not more than threads.
SliceOf(first, last, t) ==
  LET count == last - first
      share == count \div NUM_OF_THREADS
      from  == first + (t - 1) * share
      to    == IF t = NUM_OF_THREADS THEN last ELSE from + share
  IN  IF count > NUM_OF_THREADS THEN [i \in 1..(to - from) |-> from + i - 1]
      ELSE IF t <= count THEN <<first + t - 1>> ELSE <<>>

StartLevel ==
  /\ hlPhase = "start"
  /\ group <= MaxGroup
  /\ slices' = [t \in 1..NUM_OF_THREADS |-> SliceOf(groups[group], groups[group + 1], t)]
  /\ hlPhase' = "run"
  /\ UNCHANGED <<chVars, noLabelLvls, labels, order, groups, group>>
------------------------------------------------------------------------------
\* The edges of n that do not lead to a lower level, in order.
UpwardEdges(n) == InOrder({e \in ToSet(AllEdges(n)) : levels[edges[e].dest] >= levels[n]})

\* found with the labels new(h) of the hubs h in hubs, new or replaced.
Updated(found, hubs, new(_)) ==
  [h \in DOMAIN found \cup hubs |-> IF h \in hubs THEN new(h) ELSE found[h]]

\* An edge to a neighbour; a second one to the same neighbour is ignored
\* ("this code should not be reached").
AddNeighbour(found, e) ==
  Updated(found, {edges[e].dest} \ DOMAIN found, LAMBDA h : [dist |-> edges[e].dist, edge |-> e])

\* The hub itself and its direct neighbours.
DirectLabels(n) ==
  FoldLeft(AddNeighbour, [h \in {n} |-> [dist |-> 0, edge |-> -1]], UpwardEdges(n))

\* Mutant of MergeLabels: the first edge of the neighbour's own label is kept.
MergeOwnEdges(found, base) ==
  LET new(h) == [dist |-> found[base].dist + labels[base][h].dist, edge |-> labels[base][h].edge]
      closer == {h \in DOMAIN labels[base] :
                   h \notin DOMAIN found \/ found[h].dist > new(h).dist}
  IN  Updated(found, closer, new)

\* The labels of the neighbour base, reached over base, are taken over where
\* they are new or closer.
MergeLabels(found, base) ==
  LET new(h) == [dist |-> found[base].dist + labels[base][h].dist, edge |-> found[base].edge]
      closer == {h \in DOMAIN labels[base] :
                   h \notin DOMAIN found \/ found[h].dist > new(h).dist}
  IN  Updated(found, closer, new)

\* Mutant of isRedundant: the hub itself counts as a detour.
RedundantByItself(found, h) ==
  \E c \in DOMAIN labels[h] \cap DOMAIN found :
    found[c].dist + labels[h][c].dist <= found[h].dist

\* Labels.isRedundant: another common hub is no detour.
isRedundant(found, h) ==
  \E c \in DOMAIN labels[h] \cap DOMAIN found :
    c # h /\ found[c].dist + labels[h][c].dist <= found[h].dist

\* Mutant of WithoutRedundancies: no label is removed.
WithRedundancies(found, n) == found

\* removeRedundancies: one hub after the other, against what is still there.
WithoutRedundancies(found, n) ==
  LET drop(f, h) == IF h # n /\ isRedundant(f, h)
                    THEN [g \in DOMAIN f \ {h} |-> f[g]] ELSE f
  IN  FoldLeft(drop, found, InOrder(DOMAIN found))

LabelsOf(n) ==
  LET ups == UpwardEdges(n)
  IN  WithoutRedundancies(
        FoldLeft(MergeLabels, DirectLabels(n), [i \in DOMAIN ups |-> edges[ups[i]].dest]), n)

Ready(n) ==
  \A i \in DOMAIN UpwardEdges(n) : labels[edges[UpwardEdges(n)[i]].dest] # NoLabels

\* HLDijkstra.calcLabels for the next node of a thread.  Missing labels of a
\* neighbour are a NullPointerException, which ends the thread and only it.
calcLabels(t) ==
  /\ hlPhase = "run"
  /\ slices[t] # <<>>
  /\ LET n == order[Head(slices[t])]
     IN  /\ labels' = IF Ready(n) THEN [labels EXCEPT ![n] = LabelsOf(n)] ELSE labels
         /\ slices' = [slices EXCEPT ![t] = IF Ready(n) THEN Tail(@) ELSE <<>>]
  /\ UNCHANGED <<chVars, noLabelLvls, order, groups, group, hlPhase>>

\* All threads are joined.
JoinLevel ==
  /\ hlPhase = "run"
  /\ \A t \in DOMAIN slices : slices[t] = <<>>
  /\ group' = group + 1
  /\ hlPhase' = "start"
  /\ UNCHANGED <<chVars, noLabelLvls, labels, order, groups, slices>>

LabelsComplete ==
  /\ hlPhase = "start"
  /\ group > MaxGroup
  /\ hlPhase' = "done"
  /\ UNCHANGED <<chVars, noLabelLvls, labels, order, groups, group, slices>>

HLNext ==
  \/ createHLCalcOrder
  \/ StartLevel
  \/ \E t \in DOMAIN slices : calcLabels(t)
  \/ JoinLevel
  \/ LabelsComplete
------------------------------------------------------------------------------
\* HubLNodes.nodeHasLabels
nodeHasLabels(n) == levels[n] >= noLabelLvls

\* The last level has been labelled.
AllLabelled == hlPhase = "start" /\ group > MaxGroup

\* HubLRouter.getEdges follows first edges: after every level, the end of the
\* first edge to a hub is a higher node that has the same hub, closer by that
\* edge.
FirstEdgesLead ==
  hlPhase = "start" =>
    \A n \in Nodes : \A h \in DOMAIN labels[n] \ {n} :
      LET e == edges[labels[n][h].edge]
      IN  /\ e.start = n
          /\ levels[e.dest] > levels[n]
          /\ h \in DOMAIN labels[e.dest]
          /\ labels[n][h].dist = e.dist + labels[e.dest][h].dist

\* Hub labels promise it: for any two nodes that the router expects to have
\* labels, the best common hub gives their distance, and there is none iff no
\* path joins them.  So (of a node and itself) no slice left a node out and no
\* thread failed before its end.
LabelsCover ==
  AllLabelled =>
    \A u, v \in Nodes : nodeHasLabels(u) /\ nodeHasLabels(v) =>
      AllDistances[grid][u][v] =
        Min({labels[u][h].dist + labels[v][h].dist :
               h \in DOMAIN labels[u] \cap DOMAIN labels[v]} \cup {far})

\* No label overestimates: after every level removeRedundancies has left
\* exact distances only.
LabelsAreExact ==
  hlPhase = "start" => \A n \in Nodes : \A h \in DOMAIN labels[n] :
    labels[n][h].dist = AllDistances[grid][n][h]
==============================================================================
