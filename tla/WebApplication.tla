---------------------------- MODULE WebApplication ----------------------------
(***************************************************************************)
(* The front end and the server together.  Connections are independent, so *)
(* that answers overtake each other, and any connection may break before   *)
(* or after the server has got the request.                                *)
(***************************************************************************)
EXTENDS RoutingWindow, RoutingController

vars == <<apiVars, windowVars, serverVars>>

\* What can stand in a field: what the user enters and what an answer brings.
Texts == Typed \cup Clicked \cup {Coord[n] : n \in Nodes}

\* Wherever a request asks for a route from or to, distances are numbers.
ASSUME RangeAssumption ==
  \A s, t \in Texts, e \in Ends, n \in Nodes :
    LET p == Decoded(RequestBody([f \in Ends |-> IF f = "start" THEN s ELSE t])[e])
    IN  p # null => getDistance(p, Coord[n]) \in Nat

Init ==
  /\ posted = [i \in Requests |-> null]
  /\ replies = [i \in Requests |-> null]
  /\ WindowInit
  /\ ServerInit

\* The connection breaks and the promise of axios is rejected; a request
\* that the server has not received yet never comes to it.
ConnectionBreaks(i) ==
  /\ Idle
  /\ outcome[i] = "waiting"
  /\ Catch(i)
  /\ posted' = IF stage[i] = "none" THEN [posted EXCEPT ![i] = null] ELSE posted
  /\ UNCHANGED <<replies, serverVars>>

Next ==
  \/ WindowNext /\ UNCHANGED serverVars
  \/ \E i \in Requests : Serve(i) /\ UNCHANGED windowVars
  \/ \E i \in Requests : ConnectionBreaks(i)

Spec == Init /\ [][Next]_vars

\* The handler of an answer that has come in.
Receive(i) ==
  /\ RouteFound(i) \/ NoRouteFound(i) \/ ErrorStatus(i) \/ EmptyRoute(i)
  /\ UNCHANGED serverVars

\* A call that had its router for itself returns (DijkstraRouter shows it);
\* nothing is known of one that was disturbed.
ServeAlone(i) == Serve(i) /\ (stage[i] = "route" => ~disturbed[i]) /\ UNCHANGED windowVars

\* The event loop goes on with its watchers and with the answers that have
\* come in, the server with its threads.
FairSpec ==
  /\ Spec
  /\ WF_vars((\E e \in Ends : Watch(e)) /\ UNCHANGED serverVars)
  /\ WF_vars(\E i \in Requests : Receive(i))
  /\ WF_vars(\E i \in Requests : ServeAlone(i))
------------------------------------------------------------------------------
TypeOK == WindowTypeOK /\ ServerTypeOK

\* The fields hold the ends of the route that is drawn, which is the answer
\* to a request.
DrawnInv ==
  route # null =>
    /\ route.path # <<>>
    /\ outcome[route.request] = "distance"
    /\ replies[route.request] = [kind |-> "found", path |-> route.path]
    /\ ~touched => point = [e \in Ends |-> EndOf(route.path, e)]

\* Nothing else comes into the fields and into the requests.
FieldsInv ==
  /\ \A e \in Ends : point[e] \in Texts \cup {null}
  /\ \A i \in Requests : asked[i] # null => \A e \in Ends : asked[i][e] \in Texts

\* How far a request has come in the browser, on the way and on the server.
RequestInv ==
  \A i \in Requests :
    /\ asked[i] = null <=> outcome[i] = "unsent"
    /\ posted[i] # null => asked[i] # null /\ posted[i] = RequestBody(asked[i])
    /\ stage[i] # "none" => posted[i] # null
    /\ stage[i] \in {"create", "nodes", "route"} => ~BadBody(posted[i])
    /\ stage[i] = "route" => ~Unroutable(posted[i])
    /\ replies[i] # null <=> stage[i] = "done"
    /\ outcome[i] = "noRoute" => replies[i] # null /\ replies[i].kind = "notFound"

\* Every position is that of a node.
ThroughNodes(path) == \A k \in DOMAIN path : \E n \in Nodes : path[k] = Coord[n]

\* An answer with a route goes through nodes of the graph, and that of a call
\* which had the router to itself is the promised one.
ReplyInv ==
  \A i \in Requests : replies[i] # null =>
    /\ replies[i].kind = "found" => ThroughNodes(replies[i].path)
    /\ replies[i].kind # "refused" /\ ~disturbed[i] =>
         /\ ~BadBody(posted[i])
         /\ ~Unroutable(posted[i])
         /\ replies[i] = Promised(NodeOf(posted[i], "start"), NodeOf(posted[i], "target"))

\* The inductive invariant of the proofs.
IInv ==
  /\ TypeOK
  /\ OneChoice
  /\ NothingLeaks
  /\ MarkersFollow
  /\ NoNullRouter
  /\ DrawnInv
  /\ FieldsInv
  /\ RequestInv
  /\ ReplyInv

\* A position the front end sends as it is or a turn further west: within
\* the world the map opens with or its copy to the east.
Ordinary(text) ==
  IsPosition(text) /\ -HalfTurn <= text.lon /\ text.lon < FullTurn

\* Less than two degrees from each other, with the world being round: the
\* whole degrees -0 and 0 are one plane of two degrees.
Near(p, q) ==
  /\ p.lat - q.lat \in (-2 * Degree + 1)..(2 * Degree - 1)
  /\ \E turns \in -2..2 :
       p.lon - q.lon + turns * FullTurn \in (-2 * Degree + 1)..(2 * Degree - 1)

\* From the text of a field to the end of the line on the map: a route that
\* is drawn begins and ends near the positions in the fields when it was
\* asked for, if its call was not disturbed, however late it comes.
RouteIsNear ==
  route # null /\ ~disturbed[route.request] =>
    \A e \in Ends : Ordinary(asked[route.request][e]) =>
      Near(asked[route.request][e], EndOf(route.path, e))

\* "No route found" is only said of positions that are near two nodes with
\* no path between them.
NoRouteIsTrue ==
  \A i \in Requests :
    outcome[i] = "noRoute" /\ ~disturbed[i] /\ (\A e \in Ends : Ordinary(asked[i][e])) =>
      \E s, d \in Nodes : /\ s # d /\ Path[s][d] = <<>>
                          /\ Near(asked[i]["start"], Coord[s])
                          /\ Near(asked[i]["target"], Coord[d])

\* The coordinates of an answer, put back into the fields, mean the nodes
\* they came from: to press the button again asks for the same route.
RepeatIsStable ==
  pending = {} /\ ~touched /\ route # null =>
    \A e \in Ends :
      LET node == NodeOf(RequestBody(point), e)
      IN  node \in Nodes /\ Coord[node] = EndOf(route.path, e)

\* Every request that is sent is answered by an alert, unless its call on
\* the server was disturbed by another.
RequestsAreReported ==
  \A i \in Requests : outcome[i] = "waiting" ~> outcome[i] # "waiting" \/ disturbed[i]

\* "Let the user choose a point on the map by clicking on it": the route
\* that is drawn goes to the positions that were chosen, wherever on the
\* repeated map they were clicked.
RouteGoesWhereChosen ==
  route # null /\ ~disturbed[route.request] =>
    \A e \in Ends : IsPosition(asked[route.request][e]) =>
      Near(asked[route.request][e], EndOf(route.path, e))
------------------------------------------------------------------------------
Status(o) == IF o \in {"unsent", "waiting"} THEN o ELSE "answered"

RR == INSTANCE RequestReply WITH
        status <- [i \in Requests |-> Status(outcome[i])],
        drawn  <- IF route = null THEN null ELSE route.request

\* Requests and answers pair up: no answer is used twice or for a request
\* that was given up, and the route is replaced by answers only.
ImplementsRequestReply == RR!Spec
==============================================================================
