--------------------------- MODULE MCWebApplication ---------------------------
(***************************************************************************)
(* Four nodes: at the origin, on both sides of the date line, and at 10    *)
(* degrees east.  No path leads to the second one.                         *)
(***************************************************************************)
EXTENDS WebApplication, TLC

CONSTANT MCRequests    \* number of requests

At(lat, lon) == [lat |-> lat, lon |-> lon]

MCNodes == 0..3
MCNumbers == 1..MCRequests
MCCoord == 0 :> At(0, 0) @@ 1 :> At(0, 340) @@ 2 :> At(0, -340) @@ 3 :> At(0, 20)

Abs(x) == IF x < 0 THEN -x ELSE x
MCDistance(p, q) == Abs(p.lat - q.lat) + Abs(p.lon - q.lon)

MCPath == [s \in MCNodes |-> [d \in MCNodes |->
             IF s = d THEN <<s>> ELSE IF 1 \in {s, d} THEN <<>> ELSE <<s, d>>]]

\* Neither paths of the graph nor always between the nodes of a request.
MCMixedPaths == {<<>>, <<1>>, <<2, 0, 1>>, <<0, 3>>}

\* Beside node 1.
MCClicked == {At(0, 341)}

\* Nothing, a word that is not a number, and node 2 further east.
MCTyped == {EmptyText, At(0, Garbage), At(0, 380)}

\* Node 3 on the western copy of the map, and node 0.
MCWrapped == {At(0, -700), At(0, 0)}
==============================================================================
