---------------------------- MODULE RoutingWindow ----------------------------
(***************************************************************************)
(* The component RoutingWindow.vue of the front end: two input fields with *)
(* coordinates, the choice of a point on the map, the request for a route  *)
(* and the handlers of its answer, and the watchers that keep the markers  *)
(* in step with the fields.                                                *)
(*                                                                         *)
(* The event loop runs one task at a time (an input, a click, an answer;   *)
(* alert() blocks it), and the watchers a task has triggered are run       *)
(* before the next task.  Any number of requests may be under way, and     *)
(* their answers come in any order.                                        *)
(***************************************************************************)
EXTENDS RoutingApi

CONSTANTS
  Typed,      \* texts the user types into a field
  Clicked,    \* positions on the map the user clicks; the map repeats itself
              \* to the left and right, so that longitudes are any numbers
  MaxEdits    \* bound on the user's inputs, choices and clicks

\* A route that is drawn, and the request whose answer it is.
Drawing == [request : Requests, path : Seq(Position)]

ASSUME WindowAssumption ==
  /\ Typed \subseteq Text
  /\ Clicked \subseteq Position
  /\ MaxEdits \in Nat
  /\ null \notin Drawing

VARIABLES
  map,        \* the Leaflet map has been set up
  active,     \* chooseStartPointActive, chooseTargetPointActive
  point,      \* startPoint, targetPoint
  marker,     \* startMarker, targetMarker: the position of the marker
  route,      \* the polyline and the request whose answer it draws
  markersOn,  \* where markers for each end are on the map
  lines,      \* the polylines on the map
  pending,    \* the watchers still to run in this task
  outcome,    \* what became of each request
  asked,      \* history: the texts in the fields when a request was sent
  touched,    \* history: the user has changed a field since a route was drawn
  edits       \* number of inputs, choices and clicks so far

viewVars    == <<marker, route, markersOn, lines>>
fieldVars   == <<map, active, point, pending, touched, edits>>
requestVars == <<outcome, asked>>
windowVars  == <<viewVars, fieldVars, requestVars>>

Outcomes == {"unsent", "waiting", "distance", "noRoute", "ocean"}

WindowInit ==
  /\ map = FALSE
  /\ active = [e \in Ends |-> FALSE]
  /\ point = [e \in Ends |-> null]
  /\ marker = [e \in Ends |-> null]
  /\ route = null
  /\ markersOn = [e \in Ends |-> {}]
  /\ lines = {}
  /\ pending = {}
  /\ outcome = [i \in Requests |-> "unsent"]
  /\ asked = [i \in Requests |-> null]
  /\ touched = FALSE
  /\ edits = 0

\* The map is created; its click handler is Click below.
setupLeafletMap == map' = TRUE

\* The component is in the page.
Mounted ==
  /\ ~map
  /\ setupLeafletMap
  /\ UNCHANGED <<active, point, pending, touched, edits, viewVars, requestVars, apiVars>>

\* A new task may begin.
Idle == map /\ pending = {}

\* Assignment to the fields: Vue queues the watchers of those that change.
SetPoints(new) ==
  /\ point' = new
  /\ pending' = {e \in Ends : new[e] # point[e]}

Edit == edits < MaxEdits /\ edits' = edits + 1

\* v-model: the user changes the text of a field.
Type(e, text) ==
  /\ Idle
  /\ Edit
  /\ text # point[e]
  /\ SetPoints([point EXCEPT ![e] = text])
  /\ touched' = TRUE
  /\ UNCHANGED <<map, active, viewVars, requestVars, apiVars>>

\* The button "Select on map" of a field, disabled while its choice is active.
choosePointOnMap(e) ==
  /\ Idle
  /\ ~active[e]
  /\ Edit
  /\ active' = [f \in Ends |-> f = e]
  /\ UNCHANGED <<map, point, pending, touched, viewVars, requestVars, apiVars>>

\* The click handler of the map: the position becomes the text of the field
\* that is being chosen.
Click(position) ==
  /\ Idle
  /\ \E e \in Ends : active[e]
  /\ Edit
  /\ SetPoints([e \in Ends |-> IF active[e] THEN position ELSE point[e]])
  /\ active' = [e \in Ends |-> FALSE]
  /\ touched' = TRUE
  /\ UNCHANGED <<map, viewVars, requestVars, apiVars>>
------------------------------------------------------------------------------
\* % of JavaScript: the result has the sign of the dividend.
Remainder(a, b) == IF a >= 0 THEN a % b ELSE -((-a) % b)

\* Mutant of sanitizeLongitude: a whole turn is not taken off to the east.
sanitizeLongitudeWestOnly(longitude) ==
  IF longitude \notin Int THEN longitude
  ELSE IF longitude < -HalfTurn \/ longitude > HalfTurn THEN Remainder(longitude, HalfTurn)
  ELSE longitude

\* Comparisons with what is not a number are false.
sanitizeLongitude(longitude) ==
  IF longitude \notin Int THEN longitude
  ELSE IF longitude < -HalfTurn THEN Remainder(longitude, HalfTurn)
  ELSE IF longitude > HalfTurn THEN -HalfTurn + Remainder(longitude, HalfTurn)
  ELSE longitude

\* reqObj: the longitude of the start is not parsed, that of the target is.
RequestBody(fields) ==
  [e \in Ends |->
     [lat |-> parseFloat(fields[e].lat),
      lon |-> sanitizeLongitude(IF e = "start" THEN fields[e].lon
                                ELSE parseFloat(fields[e].lon))]]

\* The button "Calculate route".  With a field that was never filled the
\* handler throws at null.split before anything is sent.
calcRoute(i) ==
  /\ Idle
  /\ outcome[i] = "unsent"
  /\ \A j \in Requests : j < i => outcome[j] # "unsent"
  /\ \A e \in Ends : point[e] # null
  /\ posted' = [posted EXCEPT ![i] = RequestBody(point)]
  /\ outcome' = [outcome EXCEPT ![i] = "waiting"]
  /\ asked' = [asked EXCEPT ![i] = point]
  /\ UNCHANGED <<replies, viewVars, fieldVars>>

\* Mutant of addRoute: the old polyline is not taken off the map.
addRouteOver(i, path) ==
  /\ lines' = lines \cup {path}
  /\ route' = [request |-> i, path |-> path]

\* The old polyline is taken off the map and the new one put on it.
addRoute(i, path) ==
  /\ lines' = (IF route = null THEN lines ELSE lines \ {route.path}) \cup {path}
  /\ route' = [request |-> i, path |-> path]

\* Mutant of Answered: the handler of a request that was given up runs too.
AnsweredAfterAll(i) ==
  /\ Idle
  /\ outcome[i] \in {"waiting", "ocean"}
  /\ replies[i] # null

\* The answer of request i is there, and its promise is not settled yet.
Answered(i) ==
  /\ Idle
  /\ outcome[i] = "waiting"
  /\ replies[i] # null

\* Mutant of RouteFound: the target field keeps what the user entered.
RouteFoundStartOnly(i) ==
  /\ Answered(i)
  /\ replies[i].kind = "found" /\ replies[i].path # <<>>
  /\ outcome' = [outcome EXCEPT ![i] = "distance"]
  /\ SetPoints([point EXCEPT !["start"] = EndOf(replies[i].path, "start")])
  /\ addRoute(i, replies[i].path)
  /\ touched' = FALSE
  /\ UNCHANGED <<asked, map, active, edits, marker, markersOn, apiVars>>

\* then, with a route: the distance is shown, the ends of the route replace
\* what is in the fields, and the route is drawn.
RouteFound(i) ==
  /\ Answered(i)
  /\ replies[i].kind = "found" /\ replies[i].path # <<>>
  /\ outcome' = [outcome EXCEPT ![i] = "distance"]
  /\ SetPoints([e \in Ends |-> EndOf(replies[i].path, e)])
  /\ addRoute(i, replies[i].path)
  /\ touched' = FALSE
  /\ UNCHANGED <<asked, map, active, edits, marker, markersOn, apiVars>>

\* Mutant of NoRouteFound: it handles the refusals of the server as well.
NoRouteFoundOrRefused(i) ==
  /\ Answered(i)
  /\ replies[i].kind # "found"
  /\ outcome' = [outcome EXCEPT ![i] = "noRoute"]
  /\ UNCHANGED <<asked, fieldVars, viewVars, apiVars>>

\* then, without a route: "No route found", everything else stays.
NoRouteFound(i) ==
  /\ Answered(i)
  /\ replies[i].kind = "notFound"
  /\ outcome' = [outcome EXCEPT ![i] = "noRoute"]
  /\ UNCHANGED <<asked, fieldVars, viewVars, apiVars>>

\* catch: whatever went wrong, the user is asked for points on the ocean.
Catch(i) ==
  /\ outcome' = [outcome EXCEPT ![i] = "ocean"]
  /\ UNCHANGED <<asked, fieldVars, viewVars>>

\* catch, because the server answered with an error status.
ErrorStatus(i) ==
  /\ Answered(i)
  /\ replies[i].kind = "refused"
  /\ Catch(i)
  /\ UNCHANGED apiVars

\* then, with a route of no nodes: after the distance has been shown,
\* pathCoordinates[0][0] throws and catch has the last word.
EmptyRoute(i) ==
  /\ Answered(i)
  /\ replies[i].kind = "found" /\ replies[i].path = <<>>
  /\ Catch(i)
  /\ UNCHANGED apiVars
------------------------------------------------------------------------------
IsPosition(text) == text.lat \in Int /\ text.lon \in Int

\* Mutant of Watch: a text that is no position is returned from as well.
WatchReturningEarly(e) ==
  /\ e \in pending
  /\ e = "target" => "start" \notin pending
  /\ pending' = pending \ {e}
  /\ IF IsPosition(point[e])
     THEN /\ marker' = [marker EXCEPT ![e] = point[e]]
          /\ markersOn' = [markersOn EXCEPT ![e] = (@ \ {marker[e]}) \cup {point[e]}]
     ELSE UNCHANGED <<marker, markersOn>>
  /\ UNCHANGED <<route, lines, map, active, point, touched, edits, requestVars, apiVars>>

\* The watcher of a field.  An empty text leaves the marker where it is; a
\* text that is no position takes it off the map and L.marker throws.
Watch(e) ==
  /\ e \in pending
  /\ e = "target" => "start" \notin pending
  /\ pending' = pending \ {e}
  /\ \/ /\ point[e] \in {null, EmptyText}
        /\ UNCHANGED <<marker, markersOn>>
     \/ /\ point[e] \notin {null, EmptyText}
        /\ IsPosition(point[e])
        /\ marker' = [marker EXCEPT ![e] = point[e]]
        /\ markersOn' = [markersOn EXCEPT ![e] = (@ \ {marker[e]}) \cup {point[e]}]
     \/ /\ point[e] \notin {null, EmptyText}
        /\ ~IsPosition(point[e])
        /\ markersOn' = [markersOn EXCEPT ![e] = @ \ {marker[e]}]
        /\ UNCHANGED marker
  /\ UNCHANGED <<route, lines, map, active, point, touched, edits, requestVars, apiVars>>

WindowNext ==
  \/ Mounted
  \/ \E e \in Ends, text \in Typed : Type(e, text)
  \/ \E e \in Ends : choosePointOnMap(e)
  \/ \E position \in Clicked : Click(position)
  \/ \E i \in Requests : calcRoute(i)
  \/ \E i \in Requests : RouteFound(i)
  \/ \E i \in Requests : NoRouteFound(i)
  \/ \E i \in Requests : ErrorStatus(i)
  \/ \E i \in Requests : EmptyRoute(i)
  \/ \E e \in Ends : Watch(e)
------------------------------------------------------------------------------
WindowTypeOK ==
  /\ posted \in [Requests -> Body \cup {null}]
  /\ replies \in [Requests -> Reply \cup {null}]
  /\ map \in BOOLEAN
  /\ active \in [Ends -> BOOLEAN]
  /\ point \in [Ends -> Text \cup {null}]
  /\ marker \in [Ends -> Position \cup {null}]
  /\ route \in Drawing \cup {null}
  /\ markersOn \in [Ends -> SUBSET Position]
  /\ lines \in SUBSET Seq(Position)
  /\ pending \in SUBSET Ends
  /\ outcome \in [Requests -> Outcomes]
  /\ asked \in [Requests -> Body \cup {null}]
  /\ touched \in BOOLEAN
  /\ edits \in 0..MaxEdits

\* Nothing is left behind on the map: remove() is only ever called on the
\* marker or polyline a variable refers to, so that one without a variable
\* would stay for ever.
NothingLeaks ==
  /\ \A e \in Ends : markersOn[e] \subseteq {marker[e]}
  /\ lines = IF route = null THEN {} ELSE {route.path}

\* Between tasks the marker of a field is where its text says, and there is
\* none while the text is no position, however the text came to be there: by
\* the user, by a click, or by answers one after another.
MarkersFollow ==
  \A e \in Ends \ pending : point[e] \notin {null, EmptyText} =>
    markersOn[e] = IF IsPosition(point[e]) THEN {point[e]} ELSE {}

\* A click sets one field: the choice of one end ends the choice of the other.
OneChoice == ~ (active["start"] /\ active["target"])

\* The window never shows a mixture of two answers, in whatever order they
\* came: unless the user changed a field since, the fields and the markers
\* are at the two ends of the one route drawn.
ViewIsConsistent ==
  pending = {} /\ ~touched /\ route # null =>
    \A e \in Ends : /\ point[e] = EndOf(route.path, e)
                    /\ markersOn[e] = {EndOf(route.path, e)}
==============================================================================
