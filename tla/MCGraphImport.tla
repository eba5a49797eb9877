---------------------------- MODULE MCGraphImport ----------------------------
(***************************************************************************)
(* All directed graphs over MCSize nodes, in files whose edge lines come   *)
(* in two orders and whose node ids are not in the order of their lines.   *)
(* The length of an edge tells which two nodes it joins.                   *)
(***************************************************************************)
EXTENDS GraphImport

CONSTANT MCSize    \* number of nodes

MCIds == [i \in 1..MCSize |-> (3 * i) % (MCSize + 1)]

\* A line for every pair of nodes, sorted.
AllLines ==
  LET line(i) == [start |-> 1 + (i \div MCSize), dest |-> 1 + (i % MCSize),
                  dist |-> (1 + (i \div MCSize)) * (1 + (i % MCSize))]
  IN  SelectSeq([i \in 1..(MCSize * MCSize) |-> line(i - 1)], LAMBDA e : e.start # e.dest)

EdgeLines == {SelectSeq(AllLines, LAMBDA e : e \in lines) : lines \in SUBSET ToSet(AllLines)}

MCFiles == {[ids |-> MCIds, edges |-> es] : es \in EdgeLines \cup {Reverse(es) : es \in EdgeLines}}
==============================================================================
