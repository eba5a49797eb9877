---------------------------- MODULE MCDijkstraHeap ----------------------------
(***************************************************************************)
(* Five ids, so that the heap has three layers and a node with one child   *)
(* only; few distances, so that ties occur; an array that has to grow.     *)
(***************************************************************************)
EXTENDS DijkstraHeap

MCIds == 0..4
MCDistances == 0..2
==============================================================================
