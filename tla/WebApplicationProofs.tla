------------------------- MODULE WebApplicationProofs -------------------------
(***************************************************************************)
(* Proofs about WebApplication, for any number of requests, any graph with *)
(* any paths and distances, and whatever the user types and clicks.        *)
(***************************************************************************)
EXTENDS WebApplication, SharedLemmas, SequenceTheorems

\* Among numbers of distances there is a least pair of distance and node, so
\* that the nearest node that is found first exists.
LEMMA NearestExists ==
  ASSUME NEW p, NEW S \in SUBSET Nodes, S # {},
         \A n \in S : getDistance(p, Coord[n]) \in Nat
  PROVE  \E n \in S : \A m \in S :
           \/ getDistance(p, Coord[n]) < getDistance(p, Coord[m])
           \/ getDistance(p, Coord[n]) = getDistance(p, Coord[m]) /\ n <= m
<1> DEFINE d(n) == getDistance(p, Coord[n])
           D == {d(n) : n \in S}
<1>1. D \in SUBSET Nat /\ D # {}
  OBVIOUS
<1>2. PICK least \in D : \A k \in D : least <= k
  <2> HIDE DEF D
  <2> QED BY <1>1, LeastMember
<1> DEFINE N == {n \in S : d(n) = least}
<1>3. N \in SUBSET Nat /\ N # {}
  BY ApiAssumption
<1>4. PICK n \in N : \A k \in N : n <= k
  <2> HIDE DEF N
  <2> QED BY <1>3, LeastMember
<1>5. ASSUME NEW m \in S PROVE d(n) < d(m) \/ (d(n) = d(m) /\ n <= m)
  <2>1. d(n) = least /\ least <= d(m) /\ d(m) \in Nat /\ least \in Nat
    BY <1>1, <1>2, <1>4
  <2>2. d(m) = least => n <= m
    BY <1>4
  <2> QED BY <2>1, <2>2
<1> QED BY <1>4, <1>5

\* The search gives -1 or a node in the same whole degrees.
LEMMA NearestType ==
  ASSUME NEW p, \A n \in Nodes : getDistance(p, Coord[n]) \in Nat
  PROVE  \/ getNearestGridNodeByCoordinates(p) = -1
         \/ /\ getNearestGridNodeByCoordinates(p) \in Nodes
            /\ SamePlane(p, Coord[getNearestGridNodeByCoordinates(p)])
<1> DEFINE S == {n \in Nodes : SamePlane(p, Coord[n])}
<1>1. CASE S = {}
  BY <1>1 DEF getNearestGridNodeByCoordinates
<1>2. CASE S # {}
  <2>1. \E n \in S : \A m \in S :
          \/ getDistance(p, Coord[n]) < getDistance(p, Coord[m])
          \/ getDistance(p, Coord[n]) = getDistance(p, Coord[m]) /\ n <= m
    BY <1>2, NearestExists
  <2>2. getNearestGridNodeByCoordinates(p) \in S
    BY <1>2, <2>1 DEF getNearestGridNodeByCoordinates
  <2> QED BY <2>2
<1> QED BY <1>1, <1>2

\* The coordinates of a node are found again as that node.
LEMMA NodeIsFound ==
  ASSUME NEW n \in Nodes
  PROVE  getNearestGridNodeByCoordinates(Coord[n]) = n
<1> DEFINE S == {m \in Nodes : SamePlane(Coord[n], Coord[m])}
           d(m) == getDistance(Coord[n], Coord[m])
           Best(c) == \A m \in S : d(c) < d(m) \/ (d(c) = d(m) /\ c <= m)
<1>1. n \in S /\ n \in Nat
  BY ApiAssumption DEF SamePlane
<1>2. \A m \in S : d(m) \in Nat /\ (d(m) = 0 <=> m = n)
  BY DistanceAssumption
<1>3. Best(n)
  BY <1>1, <1>2
<1>4. ASSUME NEW c \in S, Best(c) PROVE c = n
  <2>1. d(c) < d(n) \/ d(c) = d(n)
    BY <1>1, <1>4
  <2>2. d(n) = 0 /\ d(c) \in Nat
    BY <1>1, <1>2
  <2> QED BY <1>2, <2>1, <2>2
<1>5. getNearestGridNodeByCoordinates(Coord[n]) = CHOOSE c \in S : Best(c)
  BY <1>1 DEF getNearestGridNodeByCoordinates
<1> HIDE DEF S, Best
<1> QED BY <1>1, <1>3, <1>4, <1>5

\* The node that a request means with one of its ends is none, or one in the
\* whole degrees that were asked for.
LEMMA NodeOfType ==
  ASSUME NEW fields \in [Ends -> Texts], NEW e \in Ends, ~BadBody(RequestBody(fields))
  PROVE  \/ NodeOf(RequestBody(fields), e) = -1
         \/ /\ NodeOf(RequestBody(fields), e) \in Nodes
            /\ SamePlane(Decoded(RequestBody(fields)[e]), Coord[NodeOf(RequestBody(fields), e)])
<1>1. fields = [f \in Ends |-> IF f = "start" THEN fields["start"] ELSE fields["target"]]
  BY DEF Ends
<1>2. fields["start"] \in Texts /\ fields["target"] \in Texts
  BY DEF Ends
<1>3. Decoded(RequestBody(fields)[e]) # null
  BY DEF BadBody
<1>4. \A n \in Nodes : getDistance(Decoded(RequestBody(fields)[e]), Coord[n]) \in Nat
  BY <1>1, <1>2, <1>3, RangeAssumption
<1> QED BY <1>4, NearestType DEF NodeOf

\* A request that the server can route means two nodes.
LEMMA RoutableNodes ==
  ASSUME NEW fields \in [Ends -> Texts],
         ~BadBody(RequestBody(fields)), ~Unroutable(RequestBody(fields))
  PROVE  /\ \A e \in Ends : NodeOf(RequestBody(fields), e) \in Nodes
         /\ NodeOf(RequestBody(fields), "start") # NodeOf(RequestBody(fields), "target")
<1>1. ASSUME NEW e \in Ends PROVE NodeOf(RequestBody(fields), e) \in Nodes
  <2>1. ~(NodeOf(RequestBody(fields), e) < 0)
    BY DEF Unroutable
  <2> QED BY <2>1, NodeOfType
<1> QED BY <1>1 DEF Unroutable

\* Two numbers with the same whole degrees are less than two degrees apart.
LEMMA TruncatedNear ==
  ASSUME NEW x \in Int, NEW y \in Int, Truncated(x) = Truncated(y)
  PROVE  x - y \in -3..3
BY DEF Truncated, Degree

\* An ordinary longitude is sent as it is or a whole turn further west.
LEMMA SanitizeOrdinary ==
  ASSUME NEW x \in Int, -HalfTurn <= x, x < FullTurn
  PROVE  sanitizeLongitude(x) = x \/ sanitizeLongitude(x) = x - FullTurn
BY DEF sanitizeLongitude, Remainder, HalfTurn, FullTurn, Degree

\* What the server reads of an ordinary text: its position, perhaps a turn
\* further west.
LEMMA OrdinaryDecoded ==
  ASSUME NEW fields \in [Ends -> Text], NEW e \in Ends, Ordinary(fields[e])
  PROVE  LET p == Decoded(RequestBody(fields)[e])
         IN  /\ p.lat = fields[e].lat
             /\ p.lon = fields[e].lon \/ p.lon = fields[e].lon - FullTurn
<1>1. /\ fields[e].lat \in Int /\ fields[e].lon \in Int
      /\ -HalfTurn <= fields[e].lon /\ fields[e].lon < FullTurn
  BY DEF Ordinary, IsPosition
<1> DEFINE lon == sanitizeLongitude(fields[e].lon)
<1>2. lon = fields[e].lon \/ lon = fields[e].lon - FullTurn
  BY <1>1, SanitizeOrdinary
<1>3. lon \in Int
  BY <1>1, <1>2 DEF FullTurn, HalfTurn, Degree
<1>4. RequestBody(fields)[e] = [lat |-> fields[e].lat, lon |-> lon]
  BY <1>1 DEF RequestBody, parseFloat
<1> HIDE DEF lon
<1>5. Decoded(RequestBody(fields)[e]) = [lat |-> fields[e].lat, lon |-> lon]
  BY <1>1, <1>3, <1>4, ApiAssumption DEF Decoded
<1> QED BY <1>2, <1>5

\* An ordinary text is near the node that the server finds for it.
LEMMA OrdinaryIsNear ==
  ASSUME NEW fields \in [Ends -> Text], NEW e \in Ends, Ordinary(fields[e]),
         NEW n \in Nodes, SamePlane(Decoded(RequestBody(fields)[e]), Coord[n])
  PROVE  Near(fields[e], Coord[n])
<1> DEFINE p == Decoded(RequestBody(fields)[e])
           q == Coord[n]
           t == fields[e]
<1>1. /\ p.lat = t.lat
      /\ p.lon = t.lon \/ p.lon = t.lon - FullTurn
  BY OrdinaryDecoded
<1>2. t.lat \in Int /\ t.lon \in Int /\ q.lat \in Int /\ q.lon \in Int /\ FullTurn = 720
  BY ApiAssumption DEF Ordinary, IsPosition, Position, FullTurn, HalfTurn, Degree
<1>3. Truncated(p.lat) = Truncated(q.lat) /\ Truncated(p.lon) = Truncated(q.lon)
  BY DEF SamePlane
<1> HIDE DEF p, q, t
<1>4. p.lat \in Int /\ p.lon \in Int
  BY <1>1, <1>2
<1>5. p.lat - q.lat \in -3..3 /\ p.lon - q.lon \in -3..3
  BY <1>2, <1>3, <1>4, TruncatedNear
<1>6. t.lat - q.lat \in -3..3
  BY <1>1, <1>5
<1>7. \E turns \in {0, -1} : t.lon - q.lon + turns * 720 \in -3..3
  <2>1. CASE p.lon = t.lon
    <3>1. t.lon - q.lon + 0 * 720 \in -3..3
      BY <1>2, <1>5, <2>1
    <3> QED BY <3>1
  <2>2. CASE p.lon = t.lon - 720
    <3>1. t.lon - q.lon + (-1) * 720 \in -3..3
      BY <1>2, <1>5, <2>2
    <3> QED BY <3>1
  <2> QED BY <1>1, <1>2, <2>1, <2>2
<1>8. Near(t, q)
  <2>1. PICK turns \in {0, -1} : t.lon - q.lon + turns * 720 \in -3..3
    BY <1>7
  <2>2. turns \in -2..2
    BY <2>1
  <2>3. -2 * Degree + 1 = -3 /\ 2 * Degree - 1 = 3
    BY DEF Degree
  <2> QED BY <1>2, <1>6, <2>1, <2>2, <2>3 DEF Near
<1> QED BY <1>8 DEF t, q

\* A node's own coordinates, in a field, mean that node.
LEMMA CoordIsItsNode ==
  ASSUME NEW fields \in [Ends -> Text], NEW e \in Ends, NEW n \in Nodes, fields[e] = Coord[n]
  PROVE  NodeOf(RequestBody(fields), e) = n
<1>1. /\ Coord[n] \in Position
      /\ -HalfTurn <= Coord[n].lon /\ Coord[n].lon <= HalfTurn
  BY ApiAssumption
<1>2. Coord[n] = [lat |-> Coord[n].lat, lon |-> Coord[n].lon]
      /\ Coord[n].lat \in Int /\ Coord[n].lon \in Int
  BY <1>1 DEF Position
<1>3. sanitizeLongitude(Coord[n].lon) = Coord[n].lon
  BY <1>1, <1>2 DEF sanitizeLongitude, HalfTurn, Degree
<1>4. RequestBody(fields)[e] = Coord[n]
  BY <1>2, <1>3 DEF RequestBody, parseFloat
<1>5. Decoded(RequestBody(fields)[e]) = Coord[n]
  BY <1>2, <1>4, ApiAssumption DEF Decoded
<1> QED BY <1>5, NodeIsFound DEF NodeOf
------------------------------------------------------------------------------
\* What is sent is a body.
LEMMA BodyType ==
  ASSUME NEW fields \in Body
  PROVE  RequestBody(fields) \in Body
<1>1. ASSUME NEW x \in Int PROVE sanitizeLongitude(x) \in Int
  BY DEF sanitizeLongitude, Remainder, HalfTurn, Degree
<1>2. \A w \in Word : parseFloat(w) \in Word /\ sanitizeLongitude(w) \in Word
  <2>1. \A w \in Word : parseFloat(w) \in Word
    BY DEF parseFloat, Word
  <2>2. \A w \in Word \ Int : sanitizeLongitude(w) = w
    BY DEF sanitizeLongitude
  <2> QED BY <1>1, <2>1, <2>2 DEF Word
<1>3. \A e \in Ends : fields[e].lat \in Word /\ fields[e].lon \in Word
  BY DEF Body, Text
<1>4. ASSUME NEW e \in Ends PROVE RequestBody(fields)[e] \in Text
  <2>1. sanitizeLongitude(IF e = "start" THEN fields[e].lon
                          ELSE parseFloat(fields[e].lon)) \in Word
    BY <1>2, <1>3
  <2>2. parseFloat(fields[e].lat) \in Word
    BY <1>2, <1>3
  <2> HIDE DEF Word
  <2> QED BY <2>1, <2>2 DEF RequestBody, Text
<1>5. RequestBody(fields) = [e \in Ends |-> RequestBody(fields)[e]]
  BY DEF RequestBody
<1> QED BY <1>4, <1>5 DEF Body

\* An answer with the coordinates of a path.
LEMMA FoundType ==
  ASSUME NEW path \in Seq(Nodes)
  PROVE  /\ Found(path) \in Reply
         /\ Len(Found(path).path) = Len(path)
         /\ \A k \in 1..Len(path) : Found(path).path[k] = Coord[path[k]]
<1>1. Len(path) \in Nat /\ DOMAIN path = 1..Len(path) /\ \A k \in 1..Len(path) : path[k] \in Nodes
  OBVIOUS
<1> DEFINE c == [k \in 1..Len(path) |-> Coord[path[k]]]
<1>2. c \in Seq(Position) /\ Len(c) = Len(path)
  <2>1. c \in [1..Len(path) -> Position]
    BY <1>1, ApiAssumption
  <2> HIDE DEF c
  <2>2. c \in Seq(Position)
    BY <1>1, <2>1, SeqDef
  <2>3. DOMAIN c = 1..Len(path) /\ DOMAIN c = 1..Len(c) /\ Len(c) \in Nat
    BY <2>1, <2>2, LenProperties
  <2> QED BY <1>1, <2>2, <2>3
<1>3. Found(path) = [kind |-> "found", path |-> c]
  BY <1>1 DEF Found
<1> HIDE DEF c
<1>4. Found(path) \in Reply /\ Found(path).path = c
  BY <1>2, <1>3 DEF Reply
<1> QED BY <1>2, <1>4 DEF c

\* The ends of an answer with a route are those of its path.
LEMMA FoundEnds ==
  ASSUME NEW s \in Nodes, NEW d \in Nodes, Path[s][d] # <<>>
  PROVE  /\ Found(Path[s][d]).path # <<>>
         /\ EndOf(Found(Path[s][d]).path, "start") = Coord[s]
         /\ EndOf(Found(Path[s][d]).path, "target") = Coord[d]
<1> DEFINE p == Path[s][d]
<1>1. p \in Seq(Nodes) /\ p[1] = s /\ p[Len(p)] = d
  BY PathAssumption
<1>2. Len(p) \in Nat /\ Len(p) # 0
  BY <1>1
<1> HIDE DEF p
<1>3. /\ Len(Found(p).path) = Len(p)
      /\ Found(p).path[1] = Coord[s] /\ Found(p).path[Len(p)] = Coord[d]
  BY <1>1, <1>2, FoundType
<1>4. Found(p).path # <<>>
  BY <1>2, <1>3
<1> QED BY <1>3, <1>4 DEF EndOf, p

\* What the server answers is an answer, and one with a route has one of the graph.
LEMMA PromisedType ==
  ASSUME NEW s \in Nodes, NEW d \in Nodes
  PROVE  /\ Promised(s, d) \in Reply
         /\ Promised(s, d).kind = "found" => Path[s][d] # <<>> /\ Promised(s, d) = Found(Path[s][d])
         /\ Promised(s, d).kind # "found" => Path[s][d] = <<>>
         /\ Promised(s, d).kind # "refused"
<1>1. Path[s][d] \in Seq(Nodes)
  BY PathAssumption
<1>2. Found(Path[s][d]) \in Reply /\ Found(Path[s][d]).kind = "found"
  BY <1>1, FoundType DEF Found
<1>3. NotFound \in Reply /\ NotFound.kind = "notFound"
  BY DEF NotFound, Reply
<1> QED BY <1>2, <1>3 DEF Promised

\* An answer with a path of the server goes through nodes.
LEMMA FoundThrough ==
  ASSUME NEW path \in Seq(Nodes)
  PROVE  ThroughNodes(Found(path).path)
<1>1. DOMAIN Found(path).path = 1..Len(path)
  BY DEF Found
<1>2. \A k \in 1..Len(path) : path[k] \in Nodes /\ Found(path).path[k] = Coord[path[k]]
  BY FoundType
<1> QED BY <1>1, <1>2 DEF ThroughNodes

\* Both ends of a path through nodes are nodes.
LEMMA ThroughEnds ==
  ASSUME NEW path \in Seq(Position), path # <<>>, ThroughNodes(path), NEW e \in Ends
  PROVE  \E n \in Nodes : EndOf(path, e) = Coord[n]
<1>1. 1 \in DOMAIN path /\ Len(path) \in DOMAIN path
  OBVIOUS
<1> QED BY <1>1 DEF ThroughNodes, EndOf

LEMMA RefusedType == Refused \in Reply /\ Refused.kind = "refused"
BY DEF Refused, Reply

LEMMA NotFoundType == NotFound \in Reply /\ NotFound.kind = "notFound"
BY DEF NotFound, Reply

\* Everything that comes into a field is a text, and none of it is null.
LEMMA TextsType == Texts \subseteq Text /\ null \notin Texts
BY ApiAssumption, NullAssumption, WindowAssumption DEF Texts, Text, Position, Word
------------------------------------------------------------------------------
\* A step that leaves requests, answers and the server alone.
LEMMA RequestsKept ==
  ASSUME IInv, UNCHANGED <<apiVars, requestVars, serverVars>>
  PROVE  NoNullRouter' /\ RequestInv' /\ ReplyInv' /\ ServerTypeOK'
BY DEF IInv, TypeOK, ServerTypeOK, NoNullRouter, RequestInv, ReplyInv, apiVars, requestVars,
       serverVars, BadBody, Unroutable, Send

\* A step of the server: it leaves the window alone, and keeps the answers
\* it has given.
LEMMA WindowKept ==
  ASSUME IInv, UNCHANGED windowVars,
         \A i \in Requests : replies[i] # null => replies'[i] = replies[i]
  PROVE  OneChoice' /\ NothingLeaks' /\ MarkersFollow' /\ DrawnInv' /\ FieldsInv'
<1> USE DEF windowVars, viewVars, fieldVars, requestVars
<1>1. OneChoice' /\ NothingLeaks' /\ MarkersFollow' /\ FieldsInv'
  BY DEF IInv, OneChoice, NothingLeaks, MarkersFollow, FieldsInv
<1>2. DrawnInv'
  <2> SUFFICES ASSUME route # null PROVE DrawnInv'
    BY DEF DrawnInv
  <2>1. route \in Drawing
    BY DEF IInv, TypeOK, WindowTypeOK
  <2>2. route.request \in Requests
    BY <2>1 DEF Drawing
  <2>3. replies[route.request] = [kind |-> "found", path |-> route.path]
    BY DEF IInv, DrawnInv
  <2>4. replies[route.request] # null
    <3>1. route.path \in Seq(Position)
      BY <2>1 DEF Drawing
    <3>2. replies[route.request] \in Reply
      BY <2>3, <3>1 DEF Reply
    <3> QED BY <3>2, NullAssumption
  <2> QED BY <2>2, <2>3, <2>4 DEF IInv, DrawnInv
<1> QED BY <1>1, <1>2

LEMMA InitInv == Init => IInv
<1> SUFFICES ASSUME Init PROVE IInv
  OBVIOUS
<1> USE DEF Init, WindowInit, ServerInit
<1>1. TypeOK
  <2>1. edits \in 0..MaxEdits
    BY WindowAssumption
  <2>2. WindowTypeOK
    BY <2>1 DEF WindowTypeOK, Outcomes
  <2>3. ServerTypeOK
    BY DEF ServerTypeOK, Stages
  <2> QED BY <2>2, <2>3 DEF TypeOK
<1>2. OneChoice /\ NothingLeaks /\ MarkersFollow /\ NoNullRouter /\ DrawnInv /\ FieldsInv
  BY DEF OneChoice, NothingLeaks, MarkersFollow, NoNullRouter, DrawnInv, FieldsInv, Ends
<1>3. RequestInv /\ ReplyInv
  BY DEF RequestInv, ReplyInv
<1> QED BY <1>1, <1>2, <1>3 DEF IInv

LEMMA MountedInv == IInv /\ Mounted /\ UNCHANGED serverVars => IInv'
<1> SUFFICES ASSUME IInv, Mounted, UNCHANGED serverVars PROVE IInv'
  OBVIOUS
<1> USE DEF Mounted, setupLeafletMap
<1>1. NoNullRouter' /\ RequestInv' /\ ReplyInv' /\ ServerTypeOK'
  BY RequestsKept
<1>2. WindowTypeOK'
  BY DEF IInv, TypeOK, WindowTypeOK, viewVars, requestVars, apiVars
<1>3. OneChoice' /\ NothingLeaks' /\ MarkersFollow' /\ DrawnInv' /\ FieldsInv'
  BY DEF IInv, OneChoice, NothingLeaks, MarkersFollow, DrawnInv, FieldsInv, viewVars,
         requestVars, apiVars
<1> QED BY <1>1, <1>2, <1>3 DEF IInv, TypeOK

LEMMA TypeInv ==
  ASSUME IInv, NEW e \in Ends, NEW text \in Typed, Type(e, text), UNCHANGED serverVars
  PROVE  IInv'
<1> USE DEF Type, Idle, SetPoints, Edit
<1>1. NoNullRouter' /\ RequestInv' /\ ReplyInv' /\ ServerTypeOK'
  BY RequestsKept
<1>2. text \in Text /\ text \in Texts
  BY WindowAssumption DEF Texts
<1>3. WindowTypeOK'
  BY <1>2, WindowAssumption DEF IInv, TypeOK, WindowTypeOK, viewVars, requestVars, apiVars
<1>4. OneChoice' /\ NothingLeaks' /\ DrawnInv'
  BY DEF IInv, OneChoice, NothingLeaks, DrawnInv, viewVars, requestVars, apiVars
<1>5. MarkersFollow' /\ FieldsInv'
  BY <1>2 DEF IInv, TypeOK, WindowTypeOK, MarkersFollow, FieldsInv, viewVars, requestVars
<1> QED BY <1>1, <1>3, <1>4, <1>5 DEF IInv, TypeOK

LEMMA ChooseInv ==
  ASSUME IInv, NEW e \in Ends, choosePointOnMap(e), UNCHANGED serverVars
  PROVE  IInv'
<1> USE DEF choosePointOnMap, Edit
<1>1. NoNullRouter' /\ RequestInv' /\ ReplyInv' /\ ServerTypeOK'
  BY RequestsKept
<1>2. WindowTypeOK'
  BY WindowAssumption DEF IInv, TypeOK, WindowTypeOK, viewVars, requestVars, apiVars
<1>3. OneChoice'
  BY DEF OneChoice, Ends
<1>4. NothingLeaks' /\ MarkersFollow' /\ DrawnInv' /\ FieldsInv'
  BY DEF IInv, NothingLeaks, MarkersFollow, DrawnInv, FieldsInv, viewVars, requestVars, apiVars
<1> QED BY <1>1, <1>2, <1>3, <1>4 DEF IInv, TypeOK

LEMMA ClickInv ==
  ASSUME IInv, NEW position \in Clicked, Click(position), UNCHANGED serverVars
  PROVE  IInv'
<1> USE DEF Click, Idle, SetPoints, Edit
<1>1. NoNullRouter' /\ RequestInv' /\ ReplyInv' /\ ServerTypeOK'
  BY RequestsKept
<1>2. position \in Text /\ position \in Texts
  BY TextsType DEF Texts
<1>3. WindowTypeOK'
  BY <1>2, WindowAssumption DEF IInv, TypeOK, WindowTypeOK, viewVars, requestVars, apiVars
<1>4. OneChoice' /\ NothingLeaks' /\ DrawnInv'
  BY DEF IInv, OneChoice, NothingLeaks, DrawnInv, viewVars, requestVars, apiVars, Ends
<1>5. MarkersFollow' /\ FieldsInv'
  BY <1>2 DEF IInv, TypeOK, WindowTypeOK, MarkersFollow, FieldsInv, viewVars, requestVars
<1> QED BY <1>1, <1>3, <1>4, <1>5 DEF IInv, TypeOK

LEMMA WatchInv ==
  ASSUME IInv, NEW e \in Ends, Watch(e), UNCHANGED serverVars
  PROVE  IInv'
<1> USE DEF Watch
<1>1. NoNullRouter' /\ RequestInv' /\ ReplyInv' /\ ServerTypeOK'
  BY RequestsKept
<1>2. point[e] \in Text \cup {null}
  BY DEF IInv, TypeOK, WindowTypeOK
<1>3. point[e] \in Text /\ IsPosition(point[e]) => point[e] \in Position
  BY DEF Text, IsPosition, Position
<1>4. WindowTypeOK'
  <2>1. marker' \in [Ends -> Position \cup {null}]
    BY <1>2, <1>3 DEF IInv, TypeOK, WindowTypeOK
  <2>2. markersOn' \in [Ends -> SUBSET Position]
    BY <1>2, <1>3 DEF IInv, TypeOK, WindowTypeOK
  <2>3. pending' \in SUBSET Ends
    BY DEF IInv, TypeOK, WindowTypeOK
  <2> QED BY <2>1, <2>2, <2>3 DEF IInv, TypeOK, WindowTypeOK, requestVars, apiVars
<1>5. OneChoice' /\ DrawnInv' /\ FieldsInv'
  BY DEF IInv, OneChoice, DrawnInv, FieldsInv, requestVars, apiVars
<1>6. NothingLeaks'
  BY DEF IInv, NothingLeaks, TypeOK, WindowTypeOK
<1>7. MarkersFollow'
  <2> SUFFICES ASSUME NEW f \in Ends, f \notin pending', point[f] \notin {null, EmptyText}
               PROVE  markersOn'[f] = IF IsPosition(point[f]) THEN {point[f]} ELSE {}
    BY DEF MarkersFollow
  <2>1. CASE f # e
    <3>1. f \notin pending /\ markersOn'[f] = markersOn[f]
      BY <2>1 DEF IInv, TypeOK, WindowTypeOK
    <3> QED BY <3>1 DEF IInv, MarkersFollow
  <2>2. CASE f = e
    <3>1. markersOn[e] \subseteq {marker[e]} /\ markersOn \in [Ends -> SUBSET Position]
      BY DEF IInv, NothingLeaks, TypeOK, WindowTypeOK
    <3>2. markersOn[e] \ {marker[e]} = {}
      BY <3>1
    <3>3. markersOn'[e] = IF IsPosition(point[e]) THEN (markersOn[e] \ {marker[e]}) \cup {point[e]}
                          ELSE markersOn[e] \ {marker[e]}
      BY <2>2, <3>1
    <3> QED BY <2>2, <3>2, <3>3
  <2> QED BY <2>1, <2>2
<1> QED BY <1>1, <1>4, <1>5, <1>6, <1>7 DEF IInv, TypeOK

\* What the server reads is made of texts.
LEMMA PostedFields ==
  ASSUME IInv, NEW i \in Requests, posted[i] # null
  PROVE  asked[i] \in [Ends -> Texts] /\ posted[i] = RequestBody(asked[i])
<1>1. asked[i] # null /\ posted[i] = RequestBody(asked[i])
  BY DEF IInv, RequestInv
<1>2. asked[i] \in Body
  BY <1>1 DEF IInv, TypeOK, WindowTypeOK
<1>3. \A e \in Ends : asked[i][e] \in Texts
  BY <1>1 DEF IInv, FieldsInv
<1> QED BY <1>1, <1>2, <1>3 DEF Body

LEMMA CalcRouteInv ==
  ASSUME IInv, NEW i \in Requests, calcRoute(i), UNCHANGED serverVars
  PROVE  IInv'
<1> USE DEF calcRoute
<1>1. point \in Body /\ point # null /\ \A e \in Ends : point[e] \in Texts
  BY NullAssumption DEF IInv, TypeOK, WindowTypeOK, FieldsInv, Body
<1>2. RequestBody(point) \in Body
  BY <1>1, BodyType
<1>3. asked[i] = null /\ posted[i] = null /\ stage[i] = "none" /\ replies[i] = null
  BY DEF IInv, RequestInv
<1>4. TypeOK'
  BY <1>1, <1>2 DEF IInv, TypeOK, WindowTypeOK, ServerTypeOK, serverVars, viewVars, fieldVars,
                    Outcomes
<1>5. OneChoice' /\ NothingLeaks' /\ MarkersFollow' /\ NoNullRouter'
  BY DEF IInv, OneChoice, NothingLeaks, MarkersFollow, NoNullRouter, serverVars, viewVars, fieldVars
<1>6. DrawnInv'
  <2> SUFFICES ASSUME route # null PROVE DrawnInv'
    BY DEF DrawnInv, viewVars
  <2>1. route.request \in Requests /\ outcome[route.request] = "distance"
    BY DEF IInv, TypeOK, WindowTypeOK, Drawing, DrawnInv
  <2>2. outcome'[route.request] = "distance"
    BY <2>1 DEF IInv, TypeOK, WindowTypeOK
  <2> QED BY <2>2 DEF IInv, DrawnInv, viewVars, fieldVars
<1>7. FieldsInv'
  BY <1>1 DEF IInv, TypeOK, WindowTypeOK, FieldsInv, viewVars, fieldVars
<1>8. RequestInv'
  <2> SUFFICES ASSUME NEW j \in Requests
               PROVE  /\ asked'[j] = null <=> outcome'[j] = "unsent"
                      /\ posted'[j] # null => asked'[j] # null /\ posted'[j] = RequestBody(asked'[j])
                      /\ stage[j] # "none" => posted'[j] # null
                      /\ stage[j] \in {"create", "nodes", "route"} => ~BadBody(posted'[j])
                      /\ stage[j] = "route" => ~Unroutable(posted'[j])
                      /\ replies[j] # null <=> stage[j] = "done"
                      /\ outcome'[j] = "noRoute" => replies[j] # null /\ replies[j].kind = "notFound"
    BY DEF RequestInv, serverVars, BadBody, Unroutable
  <2>1. CASE j = i
    BY <1>1, <1>3, <2>1 DEF IInv, TypeOK, WindowTypeOK
  <2>2. CASE j # i
    <3>1. asked'[j] = asked[j] /\ outcome'[j] = outcome[j] /\ posted'[j] = posted[j]
      BY <2>2 DEF IInv, TypeOK, WindowTypeOK
    <3> QED BY <3>1 DEF IInv, RequestInv
  <2> QED BY <2>1, <2>2
<1>9. ReplyInv'
  <2>1. \A j \in Requests : replies[j] # null => posted'[j] = posted[j]
    BY <1>3 DEF IInv, TypeOK, WindowTypeOK
  <2> QED BY <2>1 DEF IInv, ReplyInv, serverVars, BadBody, Unroutable
<1> QED BY <1>4, <1>5, <1>6, <1>7, <1>8, <1>9 DEF IInv

\* An answer that settles a request without a route.
LEMMA SettledInv ==
  ASSUME IInv, NEW i \in Requests, outcome[i] = "waiting", NEW o \in {"noRoute", "ocean"},
         o = "noRoute" => replies[i] # null /\ replies[i].kind = "notFound",
         outcome' = [outcome EXCEPT ![i] = o],
         UNCHANGED <<asked, fieldVars, viewVars, replies, serverVars>>,
         \A j \in Requests : posted'[j] = posted[j] \/ (posted'[j] = null /\ stage[j] = "none"),
         posted' \in [Requests -> Body \cup {null}]
  PROVE  IInv'
<1>1. TypeOK'
  BY DEF IInv, TypeOK, WindowTypeOK, ServerTypeOK, serverVars, viewVars, fieldVars, Outcomes
<1>2. OneChoice' /\ NothingLeaks' /\ MarkersFollow' /\ NoNullRouter' /\ FieldsInv'
  BY DEF IInv, OneChoice, NothingLeaks, MarkersFollow, NoNullRouter, FieldsInv, serverVars,
         viewVars, fieldVars
<1>3. DrawnInv'
  <2> SUFFICES ASSUME route # null PROVE DrawnInv'
    BY DEF DrawnInv, viewVars
  <2>1. route.request \in Requests /\ outcome[route.request] = "distance"
    BY DEF IInv, TypeOK, WindowTypeOK, Drawing, DrawnInv
  <2>2. outcome'[route.request] = "distance"
    BY <2>1 DEF IInv, TypeOK, WindowTypeOK
  <2> QED BY <2>2 DEF IInv, DrawnInv, viewVars, fieldVars
<1>4. RequestInv'
  <2> SUFFICES ASSUME NEW j \in Requests
               PROVE  /\ asked[j] = null <=> outcome'[j] = "unsent"
                      /\ posted'[j] # null => asked[j] # null /\ posted'[j] = RequestBody(asked[j])
                      /\ stage[j] # "none" => posted'[j] # null
                      /\ stage[j] \in {"create", "nodes", "route"} => ~BadBody(posted'[j])
                      /\ stage[j] = "route" => ~Unroutable(posted'[j])
                      /\ replies[j] # null <=> stage[j] = "done"
                      /\ outcome'[j] = "noRoute" => replies[j] # null /\ replies[j].kind = "notFound"
    BY DEF RequestInv, serverVars, BadBody, Unroutable
  <2>1. /\ outcome'[j] = outcome[j] \/ (j = i /\ outcome'[j] = o)
    BY DEF IInv, TypeOK, WindowTypeOK
  <2> QED BY <2>1 DEF IInv, RequestInv
<1>5. ReplyInv'
  <2>1. \A j \in Requests : replies[j] # null => posted'[j] = posted[j]
    BY DEF IInv, RequestInv
  <2> QED BY <2>1 DEF IInv, ReplyInv, serverVars, BadBody, Unroutable
<1> QED BY <1>1, <1>2, <1>3, <1>4, <1>5 DEF IInv

LEMMA NoRouteFoundInv ==
  ASSUME IInv, NEW i \in Requests, NoRouteFound(i), UNCHANGED serverVars
  PROVE  IInv'
BY SettledInv DEF NoRouteFound, Answered, apiVars, IInv, TypeOK, WindowTypeOK

LEMMA ErrorStatusInv ==
  ASSUME IInv, NEW i \in Requests, ErrorStatus(i) \/ EmptyRoute(i), UNCHANGED serverVars
  PROVE  IInv'
BY SettledInv DEF ErrorStatus, EmptyRoute, Catch, Answered, apiVars, IInv, TypeOK, WindowTypeOK

LEMMA ConnectionBreaksInv ==
  ASSUME IInv, NEW i \in Requests, ConnectionBreaks(i)
  PROVE  IInv'
<1>1. \A j \in Requests : posted'[j] = posted[j] \/ (posted'[j] = null /\ stage[j] = "none")
  BY DEF ConnectionBreaks, IInv, TypeOK, WindowTypeOK
<1>2. posted' \in [Requests -> Body \cup {null}]
  BY DEF ConnectionBreaks, IInv, TypeOK, WindowTypeOK
<1> QED BY <1>1, <1>2, SettledInv DEF ConnectionBreaks, Catch

LEMMA RouteFoundInv ==
  ASSUME IInv, NEW i \in Requests, RouteFound(i), UNCHANGED serverVars
  PROVE  IInv'
<1> USE DEF RouteFound
<1>1. /\ outcome[i] = "waiting" /\ replies[i] # null /\ replies[i] \in Reply
      /\ pending = {} /\ replies' = replies /\ posted' = posted
  BY DEF Answered, Idle, apiVars, IInv, TypeOK, WindowTypeOK
<1> DEFINE p == replies[i].path
           new == [e \in Ends |-> EndOf(p, e)]
<1>2. p # <<>> /\ ThroughNodes(p)
  BY <1>1 DEF IInv, ReplyInv
<1>3. p \in Seq(Position)
  BY <1>1 DEF Reply
<1>4. p \in Seq(Position) /\ replies[i] = [kind |-> "found", path |-> p]
  BY <1>1 DEF Reply
<1>5. \A e \in Ends : new[e] \in Texts
  BY <1>2, <1>3, ThroughEnds DEF Texts
<1>6. new \in Body
  BY <1>5, TextsType DEF Body
<1>7. /\ point' = new /\ pending' = {e \in Ends : new[e] # point[e]} /\ touched' = FALSE
      /\ route' = [request |-> i, path |-> p]
      /\ lines' = (IF route = null THEN lines ELSE lines \ {route.path}) \cup {p}
      /\ UNCHANGED <<marker, markersOn, active, map, edits, asked>>
  BY DEF SetPoints, addRoute
<1> HIDE DEF p, new
<1>8. route' \in Drawing
  BY <1>4, <1>7 DEF Drawing
<1>9. /\ \A j \in Requests : outcome'[j] = outcome[j] \/ (j = i /\ outcome'[j] = "distance")
      /\ outcome'[i] = "distance"
      /\ outcome' \in [Requests -> Outcomes]
  BY DEF IInv, TypeOK, WindowTypeOK, Outcomes
<1>10. lines' = {p}
  BY <1>7 DEF IInv, NothingLeaks
<1>11. TypeOK'
  <2>1. WindowTypeOK'
    BY <1>1, <1>4, <1>6, <1>7, <1>8, <1>9, <1>10 DEF IInv, TypeOK, WindowTypeOK, Body
  <2> QED BY <2>1 DEF IInv, TypeOK, ServerTypeOK, serverVars
<1>12. NothingLeaks'
  BY <1>7, <1>8, <1>10, WindowAssumption DEF IInv, NothingLeaks
<1>13. MarkersFollow'
  BY <1>1, <1>7 DEF IInv, MarkersFollow
<1>14. DrawnInv'
  BY <1>1, <1>2, <1>4, <1>7, <1>9 DEF DrawnInv, new
<1>15. OneChoice' /\ FieldsInv' /\ NoNullRouter'
  BY <1>5, <1>7 DEF IInv, OneChoice, FieldsInv, NoNullRouter, serverVars
<1>16. RequestInv'
  BY <1>1, <1>7, <1>9 DEF IInv, RequestInv, serverVars, BadBody, Unroutable
<1>17. ReplyInv'
  BY <1>1 DEF IInv, ReplyInv, serverVars, BadBody, Unroutable
<1> QED BY <1>11, <1>12, <1>13, <1>14, <1>15, <1>16, <1>17 DEF IInv
------------------------------------------------------------------------------
\* A thread goes on, without an answer.
LEMMA GetRouteInv ==
  ASSUME IInv, NEW i \in Requests, getRoute(i), UNCHANGED windowVars
  PROVE  IInv'
<1> USE DEF getRoute
<1>1. OneChoice' /\ NothingLeaks' /\ MarkersFollow' /\ DrawnInv' /\ FieldsInv'
  BY WindowKept DEF apiVars
<1>2. /\ stage' \in [Requests -> Stages]
      /\ stage'[i] \in {"create", "nodes"} /\ (stage'[i] = "nodes" => router # null)
      /\ \A j \in Requests : j # i => stage'[j] = stage[j]
  BY DEF IInv, TypeOK, ServerTypeOK, Stages
<1>3. TypeOK'
  BY <1>2 DEF IInv, TypeOK, WindowTypeOK, ServerTypeOK, apiVars, windowVars, viewVars, fieldVars,
              requestVars
<1>4. NoNullRouter'
  BY <1>2 DEF IInv, NoNullRouter
<1>5. RequestInv'
  <2>1. replies[i] = null
    BY DEF IInv, RequestInv
  <2> QED BY <1>2, <2>1 DEF IInv, RequestInv, apiVars, windowVars, requestVars, BadBody, Unroutable
<1>6. ReplyInv'
  BY DEF IInv, ReplyInv, apiVars, BadBody, Unroutable
<1> QED BY <1>1, <1>3, <1>4, <1>5, <1>6 DEF IInv

LEMMA CreateRouterInv ==
  ASSUME IInv, NEW i \in Requests, CreateRouter(i), UNCHANGED windowVars
  PROVE  IInv'
<1> USE DEF CreateRouter
<1>1. OneChoice' /\ NothingLeaks' /\ MarkersFollow' /\ DrawnInv' /\ FieldsInv'
  BY WindowKept DEF apiVars
<1>2. /\ stage' \in [Requests -> Stages] /\ stage'[i] = "nodes"
      /\ \A j \in Requests : j # i => stage'[j] = stage[j]
  BY DEF IInv, TypeOK, ServerTypeOK, Stages
<1>3. TypeOK'
  BY <1>2 DEF IInv, TypeOK, WindowTypeOK, ServerTypeOK, apiVars, windowVars, viewVars, fieldVars,
              requestVars
<1>4. router' # null
  BY ApiAssumption, NullAssumption
<1>5. NoNullRouter'
  BY <1>2, <1>4 DEF IInv, NoNullRouter
<1>6. RequestInv'
  BY <1>2 DEF IInv, RequestInv, apiVars, windowVars, requestVars, BadBody, Unroutable
<1>7. ReplyInv'
  BY DEF IInv, ReplyInv, apiVars, BadBody, Unroutable
<1> QED BY <1>1, <1>3, <1>5, <1>6, <1>7 DEF IInv

\* A call begins and may disturb others, but none that has returned.
LEMMA CallRouteInv ==
  ASSUME IInv, NEW i \in Requests, CallRoute(i), UNCHANGED windowVars
  PROVE  IInv'
<1> USE DEF CallRoute
<1>1. OneChoice' /\ NothingLeaks' /\ MarkersFollow' /\ DrawnInv' /\ FieldsInv'
  BY WindowKept DEF apiVars
<1>2. /\ stage' \in [Requests -> Stages] /\ stage'[i] = "route"
      /\ \A j \in Requests : j # i => stage'[j] = stage[j]
  BY DEF IInv, TypeOK, ServerTypeOK, Stages
<1>3. /\ calling' \in [Requests -> Requests \cup {null}] /\ calling'[i] = router
      /\ \A j \in Requests : j # i => calling'[j] = calling[j]
  BY DEF IInv, TypeOK, ServerTypeOK
<1>4. disturbed' \in [Requests -> BOOLEAN]
  OBVIOUS
<1>5. TypeOK'
  <2>1. WindowTypeOK'
    BY DEF IInv, TypeOK, WindowTypeOK, apiVars, windowVars, viewVars, fieldVars, requestVars
  <2> QED BY <1>2, <1>3, <1>4, <2>1 DEF IInv, TypeOK, ServerTypeOK
<1>6. NoNullRouter'
  BY <1>2, <1>3 DEF IInv, NoNullRouter
<1>7. RequestInv'
  BY <1>2 DEF IInv, RequestInv, apiVars, windowVars, requestVars, BadBody, Unroutable
<1>8. \A j \in Requests : replies[j] # null => disturbed'[j] = disturbed[j]
  <2> SUFFICES ASSUME NEW j \in Requests, replies[j] # null PROVE disturbed'[j] = disturbed[j]
    OBVIOUS
  <2>1. stage[j] = "done"
    BY DEF IInv, RequestInv
  <2>2. j \notin Running(router) \cup {i}
    BY <2>1 DEF Running
  <2>3. disturbed[j] \in BOOLEAN
    BY DEF IInv, TypeOK, ServerTypeOK
  <2>4. disturbed'[j] = (disturbed[j] \/ (Running(router) # {} /\ j \in Running(router) \cup {i}))
    OBVIOUS
  <2> QED BY <2>2, <2>3, <2>4
<1>9. ReplyInv'
  BY <1>8 DEF IInv, ReplyInv, apiVars, BadBody, Unroutable
<1> QED BY <1>1, <1>5, <1>6, <1>7, <1>9 DEF IInv

\* An answer is sent: one that is refused, or one that a call may give.
LEMMA SendInv ==
  ASSUME IInv, NEW i \in Requests, NEW reply \in Reply, Send(i, reply),
         UNCHANGED <<router, calling, disturbed, posted>>, UNCHANGED windowVars,
         posted[i] # null, replies[i] = null,
         reply.kind = "found" => ThroughNodes(reply.path),
         reply.kind # "refused" /\ ~disturbed[i] =>
           /\ ~BadBody(posted[i])
           /\ ~Unroutable(posted[i])
           /\ reply = Promised(NodeOf(posted[i], "start"), NodeOf(posted[i], "target"))
  PROVE  IInv'
<1> USE DEF Send
<1>1. /\ stage' \in [Requests -> Stages] /\ stage'[i] = "done"
      /\ \A j \in Requests : j # i => stage'[j] = stage[j]
  BY DEF IInv, TypeOK, ServerTypeOK, Stages
<1>2. /\ replies' \in [Requests -> Reply \cup {null}] /\ replies'[i] = reply
      /\ \A j \in Requests : j # i => replies'[j] = replies[j]
  BY DEF IInv, TypeOK, WindowTypeOK
<1>3. reply # null
  BY NullAssumption
<1>4. OneChoice' /\ NothingLeaks' /\ MarkersFollow' /\ DrawnInv' /\ FieldsInv'
  BY <1>2, WindowKept
<1>5. TypeOK'
  <2>1. WindowTypeOK'
    BY <1>2 DEF IInv, TypeOK, WindowTypeOK, windowVars, viewVars, fieldVars, requestVars
  <2> QED BY <1>1, <2>1 DEF IInv, TypeOK, ServerTypeOK
<1>6. NoNullRouter'
  BY <1>1 DEF IInv, NoNullRouter
<1>7. RequestInv'
  <2> SUFFICES ASSUME NEW j \in Requests
               PROVE  /\ asked[j] = null <=> outcome[j] = "unsent"
                      /\ posted[j] # null => asked[j] # null /\ posted[j] = RequestBody(asked[j])
                      /\ stage'[j] # "none" => posted[j] # null
                      /\ stage'[j] \in {"create", "nodes", "route"} => ~BadBody(posted[j])
                      /\ stage'[j] = "route" => ~Unroutable(posted[j])
                      /\ replies'[j] # null <=> stage'[j] = "done"
                      /\ outcome[j] = "noRoute" => replies'[j] # null /\ replies'[j].kind = "notFound"
    BY DEF RequestInv, windowVars, requestVars, BadBody, Unroutable
  <2>1. CASE j = i
    BY <1>1, <1>2, <1>3, <2>1 DEF IInv, RequestInv
  <2>2. CASE j # i
    BY <1>1, <1>2, <2>2 DEF IInv, RequestInv
  <2> QED BY <2>1, <2>2
<1>8. ReplyInv'
  <2> SUFFICES ASSUME NEW j \in Requests, replies'[j] # null
               PROVE  /\ replies'[j].kind = "found" => ThroughNodes(replies'[j].path)
                      /\ replies'[j].kind # "refused" /\ ~disturbed[j] =>
                           /\ ~BadBody(posted[j])
                           /\ ~Unroutable(posted[j])
                           /\ replies'[j] = Promised(NodeOf(posted[j], "start"),
                                                     NodeOf(posted[j], "target"))
    BY DEF ReplyInv, ThroughNodes, BadBody, Unroutable
  <2>1. CASE j = i
    BY <1>2, <2>1
  <2>2. CASE j # i
    BY <1>2, <2>2 DEF IInv, ReplyInv
  <2> QED BY <2>1, <2>2
<1> QED BY <1>4, <1>5, <1>6, <1>7, <1>8 DEF IInv

LEMMA RefusedInv ==
  ASSUME IInv, NEW i \in Requests, Unreadable(i) \/ BadRequest(i), UNCHANGED windowVars
  PROVE  IInv'
<1>1. posted[i] # null /\ replies[i] = null /\ Send(i, Refused)
  BY DEF Unreadable, BadRequest, IInv, RequestInv
<1>2. UNCHANGED <<router, calling, disturbed, posted>>
  BY DEF Unreadable, BadRequest
<1> QED BY <1>1, <1>2, RefusedType, SendInv

LEMMA ReturnRouteInv ==
  ASSUME IInv, NEW i \in Requests, ReturnRoute(i), UNCHANGED windowVars
  PROVE  IInv'
<1> USE DEF ReturnRoute
<1>1. /\ posted[i] # null /\ replies[i] = null
      /\ ~BadBody(posted[i]) /\ ~Unroutable(posted[i])
  BY DEF IInv, RequestInv
<1> DEFINE s == NodeOf(posted[i], "start")
           d == NodeOf(posted[i], "target")
<1>2. CASE ~disturbed[i] /\ Send(i, Promised(s, d))
  <2>1. asked[i] \in [Ends -> Texts] /\ posted[i] = RequestBody(asked[i])
    BY <1>1, PostedFields
  <2>2. s \in Nodes /\ d \in Nodes
    BY <1>1, <2>1, RoutableNodes DEF Ends
  <2>3. /\ Promised(s, d) \in Reply
        /\ Promised(s, d).kind = "found" => Path[s][d] # <<>> /\ Promised(s, d) = Found(Path[s][d])
    BY <2>2, PromisedType
  <2> HIDE DEF s, d
  <2>4. Promised(s, d).kind = "found" => ThroughNodes(Promised(s, d).path)
    BY <2>2, <2>3, PathAssumption, FoundThrough
  <2>5. Promised(s, d) = Promised(NodeOf(posted[i], "start"), NodeOf(posted[i], "target"))
    BY DEF s, d
  <2> QED BY <1>1, <1>2, <2>3, <2>4, <2>5, SendInv
<1>3. CASE disturbed[i] /\ \E reply \in Disturbances : Send(i, reply)
  <2>1. PICK reply \in Disturbances : Send(i, reply)
    BY <1>3
  <2>2. /\ reply \in Reply
        /\ reply.kind = "found" => ThroughNodes(reply.path)
    <3>1. CASE reply = Refused \/ reply = NotFound
      BY <3>1, RefusedType, NotFoundType
    <3>2. CASE \E path \in MixedPaths : reply = Found(path)
      BY <3>2, MixedAssumption, FoundType, FoundThrough
    <3> QED BY <3>1, <3>2 DEF Disturbances
  <2> QED BY <1>1, <1>3, <2>1, <2>2, SendInv
<1> QED BY <1>2, <1>3
------------------------------------------------------------------------------
LEMMA StutterInv == IInv /\ UNCHANGED vars => IInv'
<1> SUFFICES ASSUME IInv, UNCHANGED vars PROVE IInv'
  OBVIOUS
<1>1. UNCHANGED <<apiVars, requestVars, serverVars>> /\ UNCHANGED windowVars /\ replies' = replies
  BY DEF vars, apiVars, windowVars
<1>2. NoNullRouter' /\ RequestInv' /\ ReplyInv' /\ ServerTypeOK'
  BY <1>1, RequestsKept
<1>3. OneChoice' /\ NothingLeaks' /\ MarkersFollow' /\ DrawnInv' /\ FieldsInv'
  BY <1>1, WindowKept
<1>4. WindowTypeOK'
  BY <1>1 DEF IInv, TypeOK, WindowTypeOK, apiVars, windowVars, viewVars, fieldVars, requestVars
<1> QED BY <1>2, <1>3, <1>4 DEF IInv, TypeOK

\* Every step of the window, the server or the network keeps the invariant.
LEMMA NextInv == IInv /\ [Next]_vars => IInv'
<1> SUFFICES ASSUME IInv, [Next]_vars PROVE IInv'
  OBVIOUS
<1>1. CASE WindowNext /\ UNCHANGED serverVars
  <2>1. CASE Mounted
    BY <1>1, <2>1, MountedInv
  <2>2. CASE \E e \in Ends, text \in Typed : Type(e, text)
    BY <1>1, <2>2, TypeInv
  <2>3. CASE \E e \in Ends : choosePointOnMap(e)
    BY <1>1, <2>3, ChooseInv
  <2>4. CASE \E position \in Clicked : Click(position)
    BY <1>1, <2>4, ClickInv
  <2>5. CASE \E i \in Requests : calcRoute(i)
    BY <1>1, <2>5, CalcRouteInv
  <2>6. CASE \E i \in Requests : RouteFound(i)
    BY <1>1, <2>6, RouteFoundInv
  <2>7. CASE \E i \in Requests : NoRouteFound(i)
    BY <1>1, <2>7, NoRouteFoundInv
  <2>8. CASE \E i \in Requests : ErrorStatus(i)
    BY <1>1, <2>8, ErrorStatusInv
  <2>9. CASE \E i \in Requests : EmptyRoute(i)
    BY <1>1, <2>9, ErrorStatusInv
  <2>10. CASE \E e \in Ends : Watch(e)
    BY <1>1, <2>10, WatchInv
  <2> QED BY <1>1, <2>1, <2>2, <2>3, <2>4, <2>5, <2>6, <2>7, <2>8, <2>9, <2>10 DEF WindowNext
<1>2. ASSUME NEW i \in Requests, Serve(i), UNCHANGED windowVars PROVE IInv'
  BY <1>2, GetRouteInv, RefusedInv, CreateRouterInv, CallRouteInv, ReturnRouteInv DEF Serve
<1>3. ASSUME NEW i \in Requests, ConnectionBreaks(i) PROVE IInv'
  BY <1>3, ConnectionBreaksInv
<1> QED BY <1>1, <1>2, <1>3, StutterInv DEF Next

\* The invariant of fields, map, requests and answers, which is inductive:
\* at every moment each request is as far in the browser as on the server,
\* and what is drawn is what the server answered.
THEOREM WebInvariant == Spec => []IInv
<1>1. Init => IInv
  BY InitInv
<1>2. IInv /\ [Next]_vars => IInv'
  BY NextInv
<1> QED BY <1>1, <1>2, PTL DEF Spec

\* Nothing is left behind on the map by addRoute and the watchers, however
\* inputs, clicks and answers follow each other.
THEOREM MapIsClean == Spec => []NothingLeaks
<1>1. IInv => NothingLeaks
  BY DEF IInv
<1> QED BY <1>1, WebInvariant, PTL

\* When the watchers have run, markers and fields agree.
THEOREM MarkersAgree == Spec => []MarkersFollow
<1>1. IInv => MarkersFollow
  BY DEF IInv
<1> QED BY <1>1, WebInvariant, PTL

\* getRoute never calls route of a router that is null, however many
\* threads create one.
THEOREM RouterIsThere == Spec => []NoNullRouter
<1>1. IInv => NoNullRouter
  BY DEF IInv
<1> QED BY <1>1, WebInvariant, PTL

\* A drawn route ends at two nodes.
LEMMA DrawnEnds ==
  ASSUME IInv, route # null, NEW e \in Ends
  PROVE  \E n \in Nodes : EndOf(route.path, e) = Coord[n]
<1>1. route.request \in Requests
  BY DEF IInv, TypeOK, WindowTypeOK, Drawing
<1>2. replies[route.request] = [kind |-> "found", path |-> route.path]
  BY DEF IInv, DrawnInv
<1>3. replies[route.request] # null
  <2>1. route.path \in Seq(Position)
    BY DEF IInv, TypeOK, WindowTypeOK, Drawing
  <2>2. replies[route.request] \in Reply
    BY <1>2, <2>1 DEF Reply
  <2> QED BY <2>2, NullAssumption
<1>4. ThroughNodes(route.path)
  BY <1>1, <1>2, <1>3 DEF IInv, ReplyInv
<1>5. route.path \in Seq(Position) /\ route.path # <<>>
  BY DEF IInv, TypeOK, WindowTypeOK, Drawing, DrawnInv
<1> QED BY <1>4, <1>5, ThroughEnds

\* The window never shows a mixture of two answers, in whatever order the
\* answers of axios come.
THEOREM ViewConsistent == Spec => []ViewIsConsistent
<1>1. IInv => ViewIsConsistent
  <2> SUFFICES ASSUME IInv, pending = {}, ~touched, route # null, NEW e \in Ends
               PROVE  /\ point[e] = EndOf(route.path, e)
                      /\ markersOn[e] = {EndOf(route.path, e)}
    BY DEF ViewIsConsistent
  <2>1. point[e] = EndOf(route.path, e)
    BY DEF IInv, DrawnInv
  <2>2. PICK n \in Nodes : point[e] = Coord[n]
    BY <2>1, DrawnEnds
  <2>3. Coord[n] \in Position /\ Coord[n].lat \in Int /\ Coord[n].lon \in Int
    BY ApiAssumption DEF Position
  <2>4. IsPosition(point[e])
    BY <2>2, <2>3 DEF IsPosition
  <2>5. point[e] # null /\ point[e] # EmptyText
    BY <2>2, <2>3, TextsType, ApiAssumption DEF Texts, EmptyText
  <2> QED BY <2>1, <2>4, <2>5 DEF IInv, MarkersFollow
<1> QED BY <1>1, WebInvariant, PTL

\* The coordinates that an answer puts into the fields are sent, read and
\* found again as the nodes they came from.
THEOREM RepeatStable == Spec => []RepeatIsStable
<1>1. IInv => RepeatIsStable
  <2> SUFFICES ASSUME IInv, pending = {}, ~touched, route # null, NEW e \in Ends
               PROVE  /\ NodeOf(RequestBody(point), e) \in Nodes
                      /\ Coord[NodeOf(RequestBody(point), e)] = EndOf(route.path, e)
    BY DEF RepeatIsStable
  <2>1. point = [f \in Ends |-> EndOf(route.path, f)]
    BY DEF IInv, DrawnInv
  <2>2. \A f \in Ends : point[f] \in Texts
    BY <2>1, DrawnEnds DEF Texts
  <2>3. point \in [Ends -> Text]
    BY <2>1, <2>2, TextsType
  <2>4. PICK n \in Nodes : EndOf(route.path, e) = Coord[n]
    BY DrawnEnds
  <2>5. NodeOf(RequestBody(point), e) = n
    BY <2>1, <2>3, <2>4, CoordIsItsNode
  <2> QED BY <2>4, <2>5
<1> QED BY <1>1, WebInvariant, PTL

\* What an undisturbed answer that is no refusal says of the request.
LEMMA UndisturbedAnswer ==
  ASSUME IInv, NEW i \in Requests, replies[i] # null, replies[i].kind # "refused", ~disturbed[i]
  PROVE  \E s, d \in Nodes :
           /\ s # d
           /\ replies[i] = Promised(s, d)
           /\ Ordinary(asked[i]["start"]) => Near(asked[i]["start"], Coord[s])
           /\ Ordinary(asked[i]["target"]) => Near(asked[i]["target"], Coord[d])
<1>1. /\ ~BadBody(posted[i]) /\ ~Unroutable(posted[i])
      /\ replies[i] = Promised(NodeOf(posted[i], "start"), NodeOf(posted[i], "target"))
  BY DEF IInv, ReplyInv
<1>2. posted[i] # null
  BY DEF IInv, RequestInv
<1>3. asked[i] \in [Ends -> Texts] /\ posted[i] = RequestBody(asked[i])
  BY <1>2, PostedFields
<1>4. asked[i] \in [Ends -> Text]
  BY <1>3, TextsType
<1>5. ASSUME NEW e \in Ends
      PROVE  /\ NodeOf(posted[i], e) \in Nodes
             /\ Ordinary(asked[i][e]) => Near(asked[i][e], Coord[NodeOf(posted[i], e)])
  <2>1. NodeOf(posted[i], e) \in Nodes
    BY <1>1, <1>3, RoutableNodes
  <2>2. NodeOf(posted[i], e) # -1
    BY <2>1, ApiAssumption
  <2>3. SamePlane(Decoded(posted[i][e]), Coord[NodeOf(posted[i], e)])
    BY <1>1, <1>3, <2>2, NodeOfType
  <2> QED BY <1>3, <1>4, <2>1, <2>3, OrdinaryIsNear
<1>6. NodeOf(posted[i], "start") # NodeOf(posted[i], "target")
  BY <1>1, <1>3, RoutableNodes
<1> QED BY <1>1, <1>5, <1>6 DEF Ends

\* From the text of a field through sanitizeLongitude, JSON and the search
\* for the nearest node to the line on the map: a route begins and ends near
\* what was asked for, whatever the user did while it was computed.
THEOREM RouteNear == Spec => []RouteIsNear
<1>1. IInv => RouteIsNear
  <2> SUFFICES ASSUME IInv, route # null, ~disturbed[route.request], NEW e \in Ends,
                      Ordinary(asked[route.request][e])
               PROVE  Near(asked[route.request][e], EndOf(route.path, e))
    BY DEF RouteIsNear
  <2> DEFINE i == route.request
  <2>1. i \in Requests /\ route.path \in Seq(Position)
    BY DEF IInv, TypeOK, WindowTypeOK, Drawing
  <2>2. replies[i] = [kind |-> "found", path |-> route.path]
    BY DEF IInv, DrawnInv
  <2>3. replies[i] # null /\ replies[i].kind # "refused"
    <3>1. replies[i] \in Reply
      BY <2>1, <2>2 DEF Reply
    <3> QED BY <2>2, <3>1, NullAssumption
  <2> HIDE DEF i
  <2>4. PICK s, d \in Nodes :
          /\ replies[i] = Promised(s, d)
          /\ Ordinary(asked[i]["start"]) => Near(asked[i]["start"], Coord[s])
          /\ Ordinary(asked[i]["target"]) => Near(asked[i]["target"], Coord[d])
    BY <2>1, <2>3, UndisturbedAnswer DEF i
  <2>5. Path[s][d] # <<>> /\ replies[i] = Found(Path[s][d])
    BY <2>2, <2>4, PromisedType
  <2>6. route.path = Found(Path[s][d]).path
    BY <2>2, <2>5
  <2>7. EndOf(route.path, "start") = Coord[s] /\ EndOf(route.path, "target") = Coord[d]
    BY <2>5, <2>6, FoundEnds
  <2>8. Ordinary(asked[i][e])
    BY DEF i
  <2>9. Near(asked[i][e], EndOf(route.path, e))
    BY <2>4, <2>7, <2>8 DEF Ends
  <2> QED BY <2>9 DEF i
<1> QED BY <1>1, WebInvariant, PTL

\* "No route found" is only said where the graph has no path between the
\* two nodes that were asked for.
THEOREM NoRouteTrue == Spec => []NoRouteIsTrue
<1>1. IInv => NoRouteIsTrue
  <2> SUFFICES ASSUME IInv, NEW i \in Requests, outcome[i] = "noRoute", ~disturbed[i],
                      \A e \in Ends : Ordinary(asked[i][e])
               PROVE  \E s, d \in Nodes : /\ s # d /\ Path[s][d] = <<>>
                                          /\ Near(asked[i]["start"], Coord[s])
                                          /\ Near(asked[i]["target"], Coord[d])
    BY DEF NoRouteIsTrue
  <2>1. replies[i] # null /\ replies[i].kind = "notFound"
    BY DEF IInv, RequestInv
  <2>2. PICK s, d \in Nodes :
          /\ s # d
          /\ replies[i] = Promised(s, d)
          /\ Ordinary(asked[i]["start"]) => Near(asked[i]["start"], Coord[s])
          /\ Ordinary(asked[i]["target"]) => Near(asked[i]["target"], Coord[d])
    BY <2>1, UndisturbedAnswer
  <2>3. Path[s][d] = <<>>
    BY <2>1, <2>2, PromisedType
  <2> QED BY <2>2, <2>3 DEF Ends
<1> QED BY <1>1, WebInvariant, PTL
------------------------------------------------------------------------------
\* A step that settles a request is an answer of the abstract specification.
LEMMA SettledIsAnswer ==
  ASSUME IInv, NEW i \in Requests, outcome[i] = "waiting",
         NEW o \in {"distance", "noRoute", "ocean"},
         outcome' = [outcome EXCEPT ![i] = o],
         route' = route \/ (route' # null /\ route'.request = i)
  PROVE  RR!Answer(i)
<1> DEFINE st == [j \in Requests |-> Status(outcome[j])]
<1>1. \A j \in Requests : outcome'[j] = IF j = i THEN o ELSE outcome[j]
  BY DEF IInv, TypeOK, WindowTypeOK
<1>2. Status(outcome[i]) = "waiting" /\ Status(o) = "answered"
  BY DEF Status
<1>3. [j \in Requests |-> Status(outcome'[j])] = [st EXCEPT ![i] = "answered"]
  <2>1. \A j \in Requests : Status(outcome'[j]) = IF j = i THEN "answered" ELSE Status(outcome[j])
    BY <1>1, <1>2
  <2> QED BY <2>1
<1>4. st[i] = "waiting"
  BY <1>2
<1>5. (IF route' = null THEN null ELSE route'.request)
        \in {IF route = null THEN null ELSE route.request, i}
  OBVIOUS
<1> QED BY <1>3, <1>4, <1>5 DEF RR!Answer, Status

\* A step that leaves the outcomes and the route alone is a stutter.
LEMMA KeptIsStutter ==
  ASSUME UNCHANGED <<outcome, route>>
  PROVE  UNCHANGED <<[i \in Requests |-> Status(outcome[i])],
                     IF route = null THEN null ELSE route.request>>
BY DEF Status

\* A request that is sent is one of the abstract specification.
LEMMA CalcRouteIsAsk ==
  ASSUME IInv, NEW i \in Requests, calcRoute(i)
  PROVE  RR!Ask(i)
<1> DEFINE st == [j \in Requests |-> Status(outcome[j])]
<1>1. \A j \in Requests : outcome'[j] = IF j = i THEN "waiting" ELSE outcome[j]
  BY DEF IInv, TypeOK, WindowTypeOK, calcRoute
<1>2. [j \in Requests |-> Status(outcome'[j])] = [st EXCEPT ![i] = "waiting"]
  <2>1. \A j \in Requests : Status(outcome'[j]) = IF j = i THEN "waiting" ELSE Status(outcome[j])
    BY <1>1 DEF Status
  <2> QED BY <2>1
<1>3. st[i] = "unsent"
  BY DEF calcRoute, Status
<1>4. route' = route
  BY DEF calcRoute, viewVars
<1> QED BY <1>2, <1>3, <1>4 DEF RR!Ask, Status

\* Every step of the application is one of the abstract specification.
LEMMA StepRefines ==
  ASSUME IInv, [Next]_vars
  PROVE  [RR!Next]_<<[i \in Requests |-> Status(outcome[i])],
                     IF route = null THEN null ELSE route.request>>
<1>1. CASE \E i \in Requests : calcRoute(i)
  BY <1>1, CalcRouteIsAsk DEF RR!Next
<1>2. ASSUME NEW i \in Requests,
             \/ RouteFound(i) \/ NoRouteFound(i) \/ ErrorStatus(i) \/ EmptyRoute(i)
             \/ ConnectionBreaks(i)
      PROVE  RR!Answer(i)
  <2>1. outcome[i] = "waiting"
    BY <1>2 DEF RouteFound, NoRouteFound, ErrorStatus, EmptyRoute, ConnectionBreaks, Answered
  <2>2. CASE RouteFound(i)
    <3>1. route' = [request |-> i, path |-> replies[i].path]
      BY <2>2 DEF RouteFound, addRoute
    <3>2. replies[i].path \in Seq(Position)
      BY <2>2 DEF RouteFound, Answered, IInv, TypeOK, WindowTypeOK, Reply
    <3>3. route' # null /\ route'.request = i
      BY <3>1, <3>2, WindowAssumption DEF Drawing
    <3> QED BY <2>1, <2>2, <3>3, SettledIsAnswer DEF RouteFound
  <2>3. CASE NoRouteFound(i)
    BY <2>1, <2>3, SettledIsAnswer DEF NoRouteFound, viewVars
  <2>4. CASE ErrorStatus(i) \/ EmptyRoute(i)
    BY <2>1, <2>4, SettledIsAnswer DEF ErrorStatus, EmptyRoute, Catch, viewVars
  <2>5. CASE ConnectionBreaks(i)
    BY <2>1, <2>5, SettledIsAnswer DEF ConnectionBreaks, Catch, viewVars
  <2> QED BY <1>2, <2>2, <2>3, <2>4, <2>5
<1>3. CASE \E i \in Requests :
             \/ RouteFound(i) \/ NoRouteFound(i) \/ ErrorStatus(i) \/ EmptyRoute(i)
             \/ ConnectionBreaks(i)
  BY <1>2, <1>3 DEF RR!Next
<1>4. CASE UNCHANGED <<outcome, route>>
  BY <1>4, KeptIsStutter
<1> QED
  BY <1>1, <1>3, <1>4
     DEF Next, WindowNext, Serve, vars, windowVars, viewVars, requestVars, Mounted, Type,
         choosePointOnMap, Click, Watch

\* No answer is used twice or for a request that was given up, and only an
\* answer replaces the route: the application implements RequestReply.
THEOREM Implements == Spec => ImplementsRequestReply
<1>1. Init => RR!Init
  BY DEF Init, WindowInit, RR!Init, Status
<1>2. IInv /\ [Next]_vars =>
        [RR!Next]_<<[i \in Requests |-> Status(outcome[i])],
                    IF route = null THEN null ELSE route.request>>
  BY StepRefines
<1> QED BY <1>1, <1>2, WebInvariant, PTL DEF Spec, ImplementsRequestReply, RR!Spec
==============================================================================
