------------------------------ MODULE Distances ------------------------------
(***************************************************************************)
(* The reference the routers are checked against: the lengths of shortest  *)
(* walks in a graph, by dynamic programming over the nodes a walk may pass *)
(* through.  A graph is a function from nodes, which are numbers, to       *)
(* sequences of outgoing edges, each a record with a dest and a dist.      *)
(***************************************************************************)
EXTENDS Integers, Sequences, FiniteSetsExt, SequencesExt, Arrangements

\* The least length of an edge from u to v, far if there is none.
EdgeLength(graph, u, v, far) ==
  Min({graph[u][i].dist : i \in {j \in DOMAIN graph[u] : graph[u][j].dest = v}}
        \cup {far})

\* Walks of at most one edge.
DirectLengths(graph, far) ==
  [u \in DOMAIN graph |-> [v \in DOMAIN graph |->
     IF u = v THEN 0 ELSE EdgeLength(graph, u, v, far)]]

\* The lengths d, where a walk may also pass through k.
Through(d, k) ==
  [u \in DOMAIN d |-> [v \in DOMAIN d |-> Min({d[u][v], d[u][k] + d[k][v]})]]

\* Lengths of shortest walks between all pairs of nodes, far if there is none
\* that is shorter than far.
ShortestDistances(graph, far) ==
  FoldLeft(Through, DirectLengths(graph, far), InOrder(DOMAIN graph))

\* The graph over nodes whose undirected edges are the pairs {u, v} with
\* length[{u, v}] # none, the edges of a node sorted by destination.
Undirected(nodes, length, none) ==
  [n \in nodes |->
     LET ns == InOrder({m \in nodes \ {n} : length[{m, n}] # none})
     IN  [i \in DOMAIN ns |-> [dest |-> ns[i], dist |-> length[{n, ns[i]}]]]]
==============================================================================
