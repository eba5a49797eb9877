-------------------------- MODULE RoutingController --------------------------
(***************************************************************************)
(* RoutingController.getRoute: every request has a thread of the web       *)
(* server.  The router is created by the first request that finds none,    *)
(* without a lock, and all threads then call the same object.  What a call *)
(* returns that had the router to itself is the promise of Router.route,   *)
(* which DijkstraRouter and HubLRouter are about; a call that shared it    *)
(* may return anything (see the run router_overlap).                       *)
(***************************************************************************)
EXTENDS RoutingApi

CONSTANTS
  getDistance(_, _),  \* IntersectionHelper.getDistance of two positions
  Path,               \* the path between two nodes, empty if there is none
  MixedPaths          \* paths that come out of arrays which two calls write

ASSUME PathAssumption ==
  /\ Path \in [Nodes -> [Nodes -> Seq(Nodes)]]
  /\ \A s, d \in Nodes : Path[s][d] # <<>> =>
       Path[s][d][1] = s /\ Path[s][d][Len(Path[s][d])] = d

\* They need not be paths of the graph, and have any nodes or none.
ASSUME MixedAssumption == MixedPaths \subseteq Seq(Nodes)

\* A distance is 0 between a node and itself only.
ASSUME DistanceAssumption ==
  \A n, m \in Nodes : /\ getDistance(Coord[n], Coord[m]) \in Nat
                      /\ getDistance(Coord[n], Coord[m]) = 0 <=> n = m

VARIABLES
  stage,      \* where the thread of each request is
  router,     \* the field: the request that created the router
  calling,    \* the router each request has called
  disturbed   \* history: another call ran on the same router meanwhile

serverVars == <<stage, router, calling, disturbed>>

Stages == {"none", "create", "nodes", "route", "done"}

ServerInit ==
  /\ stage = [i \in Requests |-> "none"]
  /\ router = null
  /\ calling = [i \in Requests |-> null]
  /\ disturbed = [i \in Requests |-> FALSE]

\* The cast to int goes towards zero.
Truncated(x) == IF x >= 0 THEN x \div Degree ELSE -((-x) \div Degree)

SamePlane(p, q) ==
  /\ Truncated(p.lat) = Truncated(q.lat)
  /\ Truncated(p.lon) = Truncated(q.lon)

\* The nodes in the same whole degrees as p, the nearest first found of them.
getNearestGridNodeByCoordinates(p) ==
  LET candidates == {n \in Nodes : SamePlane(p, Coord[n])}
      dist(n) == getDistance(p, Coord[n])
  IN  IF candidates = {} THEN -1
      ELSE CHOOSE n \in candidates : \A m \in candidates :
             dist(n) < dist(m) \/ (dist(n) = dist(m) /\ n <= m)

\* The node a request means with one of its ends.
NodeOf(body, e) == getNearestGridNodeByCoordinates(Decoded(body[e]))

BadBody(body) == \E e \in Ends : Decoded(body[e]) = null

\* The answer is on its way back.
Send(i, reply) ==
  /\ replies' = [replies EXCEPT ![i] = reply]
  /\ stage' = [stage EXCEPT ![i] = "done"]

\* Mutant of getRoute: the creation is left to the thread that is at it.
getRouteUnlessCreating(i) ==
  /\ stage[i] = "none"
  /\ posted[i] # null
  /\ ~BadBody(posted[i])
  /\ stage' = [stage EXCEPT ![i] =
       IF router = null /\ (\A j \in Requests : stage[j] # "create") THEN "create" ELSE "nodes"]
  /\ UNCHANGED <<router, calling, disturbed, apiVars>>

\* The request arrives, and getRoute looks for a router.
getRoute(i) ==
  /\ stage[i] = "none"
  /\ posted[i] # null
  /\ ~BadBody(posted[i])
  /\ stage' = [stage EXCEPT ![i] = IF router = null THEN "create" ELSE "nodes"]
  /\ UNCHANGED <<router, calling, disturbed, apiVars>>

\* The body cannot be read: the status is 400 and getRoute is not called.
Unreadable(i) ==
  /\ stage[i] = "none"
  /\ posted[i] # null
  /\ BadBody(posted[i])
  /\ Send(i, Refused)
  /\ UNCHANGED <<router, calling, disturbed, posted>>

\* The assignment to the field, whatever it holds by now.
CreateRouter(i) ==
  /\ stage[i] = "create"
  /\ router' = i
  /\ stage' = [stage EXCEPT ![i] = "nodes"]
  /\ UNCHANGED <<calling, disturbed, apiVars>>

\* A point off the graph, or one node for both points.
Unroutable(body) ==
  \/ \E e \in Ends : NodeOf(body, e) < 0
  \/ NodeOf(body, "start") = NodeOf(body, "target")

\* Mutant of BadRequest: the thread ends without an answer.
BadRequestUnanswered(i) ==
  /\ stage[i] = "nodes"
  /\ Unroutable(posted[i])
  /\ stage' = [stage EXCEPT ![i] = "done"]
  /\ UNCHANGED <<router, calling, disturbed, apiVars>>

\* The three answers with status 400.
BadRequest(i) ==
  /\ stage[i] = "nodes"
  /\ Unroutable(posted[i])
  /\ Send(i, Refused)
  /\ UNCHANGED <<router, calling, disturbed, posted>>

Running(r) == {j \in Requests : stage[j] = "route" /\ calling[j] = r}

\* router.route is called.
CallRoute(i) ==
  /\ stage[i] = "nodes"
  /\ ~Unroutable(posted[i])
  /\ stage' = [stage EXCEPT ![i] = "route"]
  /\ calling' = [calling EXCEPT ![i] = router]
  /\ disturbed' = [j \in Requests |->
       \/ disturbed[j]
       \/ Running(router) # {} /\ j \in Running(router) \cup {i}]
  /\ UNCHANGED <<router, apiVars>>

\* What route promises.
Promised(s, d) == IF Path[s][d] = <<>> THEN NotFound ELSE Found(Path[s][d])

\* Whatever the arrays give that two calls write: an exception, no route, or
\* any sequence of nodes.
Disturbances == {Refused, NotFound} \cup {Found(path) : path \in MixedPaths}

\* The call returns and the answer is sent.
ReturnRoute(i) ==
  /\ stage[i] = "route"
  /\ \/ ~disturbed[i] /\ Send(i, Promised(NodeOf(posted[i], "start"), NodeOf(posted[i], "target")))
     \/ disturbed[i] /\ \E reply \in Disturbances : Send(i, reply)
  /\ UNCHANGED <<router, calling, disturbed, posted>>

Serve(i) ==
  \/ getRoute(i)
  \/ Unreadable(i)
  \/ CreateRouter(i)
  \/ BadRequest(i)
  \/ CallRoute(i)
  \/ ReturnRoute(i)

ServerTypeOK ==
  /\ stage \in [Requests -> Stages]
  /\ router \in Requests \cup {null}
  /\ calling \in [Requests -> Requests \cup {null}]
  /\ disturbed \in [Requests -> BOOLEAN]

\* The field is never null when its route method is called, although
\* several threads may create a router and overwrite that of another.
NoNullRouter == \A i \in Requests : stage[i] \in {"nodes", "route"} =>
  router # null /\ (stage[i] = "route" => calling[i] # null)
==============================================================================
