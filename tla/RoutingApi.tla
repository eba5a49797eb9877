------------------------------ MODULE RoutingApi ------------------------------
(***************************************************************************)
(* What the front end and the server say to each other over POST /route:   *)
(* the body of a request (RoutingRequest, LatLong), the answers            *)
(* (RoutingResult), and the words that a text with coordinates splits      *)
(* into.  Coordinates are in halves of a degree, the coarsest unit in      *)
(* which the cast to a whole degree still loses something.                 *)
(***************************************************************************)
EXTENDS Integers, Sequences

CONSTANTS
  Requests,   \* numbers of the requests, in the order in which they are sent
  Nodes,      \* ids of the nodes of the graph
  Coord,      \* latitude and longitude of every node
  null,       \* null of JavaScript and Java
  Missing,    \* a word that is not there or is empty
  Garbage     \* a word that is not a number

Degree   == 2
HalfTurn == 180 * Degree
FullTurn == 2 * HalfTurn

Position == [lat : Int, lon : Int]

ASSUME ApiAssumption ==
  /\ Requests \subseteq Nat
  /\ Nodes \subseteq Nat
  /\ Coord \in [Nodes -> Position]
  /\ \A n \in Nodes : -HalfTurn <= Coord[n].lon /\ Coord[n].lon <= HalfTurn
  /\ Missing \notin Int /\ Garbage \notin Int /\ Missing # Garbage

VARIABLES
  posted,     \* the body of each request that is on its way or was received
  replies     \* the answer that the server gave to each request

apiVars == <<posted, replies>>

Word == Int \cup {Missing, Garbage}

\* The content of an input field: its words.
Text == [lat : Word, lon : Word]
EmptyText == [lat |-> Missing, lon |-> Missing]

Ends == {"start", "target"}

Body == [Ends -> Text]

\* found: 200 with routeFound; notFound: 200 without; refused: any other status.
Reply == [kind : {"found", "notFound", "refused"}, path : Seq(Position)]

ASSUME NullAssumption == null \notin Int \cup Text \cup Body \cup Reply

Refused  == [kind |-> "refused", path |-> <<>>]
NotFound == [kind |-> "notFound", path |-> <<>>]

\* Mutant of Found: longitude and latitude in the order of GeoJSON.
FoundLonLat(path) ==
  [kind |-> "found",
   path |-> [k \in DOMAIN path |-> [lat |-> Coord[path[k]].lon, lon |-> Coord[path[k]].lat]]]

\* RoutingResult.setPath: the coordinates of the nodes of a path.
Found(path) == [kind |-> "found", path |-> [k \in DOMAIN path |-> Coord[path[k]]]]

\* End of a path with coordinates.
EndOf(path, e) == IF e = "start" THEN path[1] ELSE path[Len(path)]

\* parseFloat; NaN becomes null in JSON, as if the word were missing.
parseFloat(w) == IF w \in Int THEN w ELSE Missing

\* Jackson fills a LatLong: what is missing or null keeps the 0.0 of the
\* field, and a string that is not a number makes the request a bad one.
Decoded(p) ==
  LET number(w) == IF w = Missing THEN 0 ELSE w
  IN  IF Garbage \in {p.lat, p.lon} THEN null
      ELSE [lat |-> number(p.lat), lon |-> number(p.lon)]
==============================================================================
