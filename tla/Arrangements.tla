----------------------------- MODULE Arrangements -----------------------------
(***************************************************************************)
(* Finite sets laid out in sequences by the place each member has.  The    *)
(* stable sorts of the code and its loops that collect the matching        *)
(* indices of an array are such layouts; the place of a member is how many *)
(* members do not come after it.                                           *)
(***************************************************************************)
EXTENDS Naturals, FiniteSets

\* The members of S in the order of their places, a numbering of S.
Arranged(S, place) == [k \in 1..Cardinality(S) |-> CHOOSE x \in S : place[x] = k]

\* The members of a set of numbers, the least first.
InOrder(S) == Arranged(S, [x \in S |-> Cardinality({y \in S : y <= x})])
==============================================================================
