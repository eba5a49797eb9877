----------------------------- MODULE MCHubLabels -----------------------------
(***************************************************************************)
(* Labels for graphs over MCSize nodes: every pair of nodes is joined or   *)
(* not, which takes five nodes for a label to be redundant, and the length *)
(* of an edge depends on its ends.  Every length is less than the sum of   *)
(* two lengths, so that an edge is the only shortest path between its ends *)
(* as in the exported grid away from the poles.                            *)
(***************************************************************************)
EXTENDS HubLabels

CONSTANT MCSize    \* number of nodes

MCNodes == 0..(MCSize - 1)
none == -1

Pairs == {{u, v} : u \in MCNodes, v \in MCNodes} \ {{u} : u \in MCNodes}

MCLength(p) == LET u == Min(p) v == Max(p) IN 4 + ((u * v + u + v) % 4)

MCGrids ==
  {Undirected(MCNodes, [p \in Pairs |-> IF p \in joined THEN MCLength(p) ELSE none], none)
     : joined \in SUBSET Pairs}

\* A renaming of the nodes of a graph is another graph, so that few orders
\* of the contraction stand for all.
MCOrders ==
  LET ascending == SetToSortSeq(MCNodes, <)
  IN  {ascending, Reverse(ascending)}
==============================================================================
