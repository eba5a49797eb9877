----------------------------- MODULE MCContraction -----------------------------
(***************************************************************************)
(* All undirected graphs over MCSize nodes (up to a renaming), contracted  *)
(* in every order of the nodes.                                            *)
(***************************************************************************)
EXTENDS ContractionHierarchy

CONSTANTS MCSize,      \* number of nodes
          MCLengths    \* the lengths an edge may have

MCNodes == 0..(MCSize - 1)
none == -1

Pairs == {{u, v} : u \in MCNodes, v \in MCNodes} \ {{u} : u \in MCNodes}

MCGrids ==
  {g \in {Undirected(MCNodes, length, none) : length \in [Pairs -> MCLengths \cup {none}]} :
     \A n \in MCNodes \ {0} : Len(g[n]) <= Len(g[n - 1])}

\* The shuffle of calculateCH produces some permutation.
MCOrders == SetToSeqs(MCNodes)
==============================================================================
