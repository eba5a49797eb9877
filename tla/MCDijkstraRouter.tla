--------------------------- MODULE MCDijkstraRouter ---------------------------
(***************************************************************************)
(* All undirected graphs over MCNodes whose edges have a length of         *)
(* MCLengths or are absent.  Length 0 occurs in the real grid: the nodes   *)
(* of the row at a pole are at distance 0 of each other.                   *)
(***************************************************************************)
EXTENDS DijkstraRouter, TLC

CONSTANTS MCSize,      \* number of nodes
          MCLengths,   \* the lengths an edge may have
          MCHops       \* number of edges of the longest voyage

MCNodes == 0..(MCSize - 1)

none == -1

Pairs == {{u, v} : u \in MCNodes, v \in MCNodes} \ {{u} : u \in MCNodes}

\* Up to a renaming of the nodes: every graph has a copy in which a node has
\* at most as many edges as the node before it.
MCGrids ==
  {g \in {Undirected(MCNodes, length, none) : length \in [Pairs -> MCLengths \cup {none}]} :
     \A n \in MCNodes \ {0} : Len(g[n]) <= Len(g[n - 1])}

\* All walks of a graph with at most MCHops edges.
WalksOf(g) ==
  LET Extend(w) == {[nodes |-> Append(w.nodes, g[w.nodes[Len(w.nodes)]][i].dest),
                     odometer |-> Append(w.odometer, w.odometer[Len(w.odometer)]
                                           + g[w.nodes[Len(w.nodes)]][i].dist)]
                    : i \in DOMAIN g[w.nodes[Len(w.nodes)]]}
      Upto[h \in 0..MCHops] ==
        IF h = 0 THEN {[nodes |-> <<n>>, odometer |-> <<0>>] : n \in MCNodes}
        ELSE Upto[h - 1] \cup UNION {Extend(w) : w \in Upto[h - 1]}
  IN  Upto[MCHops]

\* Nothing, or the fields in which two requests have mixed: one search has
\* reached all nodes, the other has no predecessors, and the heap, full or
\* empty, has a size that need not fit.
NoRaces == {}
MCRacyFields ==
  [currDistanceToNode : {[n \in MCNodes |-> 0]}, previousNode : {[n \in MCNodes |-> -1]},
   nodeTouched : {[n \in MCNodes |-> n = 0]},
   queue : {{}, MCNodes}, queued : {MCNodes}, underflow : BOOLEAN]

MCSymmetry == Permutations(Threads)

AllWalks == [g \in MCGrids |-> WalksOf(g)]
MCVoyages(g) == AllWalks[g]
==============================================================================
