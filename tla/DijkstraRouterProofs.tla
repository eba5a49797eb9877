------------------------- MODULE DijkstraRouterProofs -------------------------
(***************************************************************************)
(* Proofs about DijkstraRouter, for every set of threads, nodes and grids  *)
(* and for every collection of voyages.                                    *)
(***************************************************************************)
EXTENDS DijkstraRouter, SharedLemmas

\* The parts of a step that concern other threads: only entries of t change.
OnlyThread(t) ==
  \A u \in Threads \ {t} :
    /\ pc'[u] = pc[u] /\ start'[u] = start[u] /\ dest'[u] = dest[u]
    /\ node'[u] = node[u] /\ edge'[u] = edge[u] /\ path'[u] = path[u]
    /\ result'[u] = result[u]

\* The edge a relaxing thread looks at is an edge of the grid.
LEMMA CurrentEdgeType ==
  ASSUME TypeOK, NEW t \in Threads, pc[t] = "relax", edge[t] <= Len(grid[node[t]])
  PROVE  /\ node[t] \in Nodes /\ edge[t] \in 1..Len(grid[node[t]])
         /\ CurrentEdge(t).dest \in Nodes /\ CurrentEdge(t).dist \in Nat
<1>1. node[t] \in Nodes /\ edge[t] \in Nat \ {0} /\ IsGrid(grid)
  BY DEF TypeOK, SharedTypes, ThreadTypes, IndicesOK
<1>2. Len(grid[node[t]]) \in Nat
  BY <1>1 DEF IsGrid
<1>3. edge[t] \in 1..Len(grid[node[t]])
  BY <1>1, <1>2
<1> QED BY <1>1, <1>3 DEF IsGrid, CurrentEdge

\* Only an active thread makes a step.
LEMMA StepIsActive ==
  ASSUME NEW t \in Threads, Step(t) PROVE Active(t)
BY DEF Step, Active, resetState, AddStart, EnterLoop, TakeClosest, HeapUnderflow, RelaxEdge,
       AddOutOfBounds, EdgesDone, NoRoute, FollowPrevious, IndexOutOfBounds, OutOfMemory,
       ReturnRoute

\* The types of the shared fields survive every step of a thread.
LEMMA SharedStep ==
  ASSUME TypeOK, NEW t \in Threads, Step(t)
  PROVE  SharedTypes'
<1> USE RouterAssumption
<1>1. start[t] \in Nodes
  BY StepIsActive DEF TypeOK, IndicesOK
<1>2. CASE resetState(t)
  <2>1. underflow' \in BOOLEAN
    BY <1>2, Zenon DEF resetState
  <2>2. /\ currDistanceToNode' \in [Nodes -> Int] /\ nodeTouched' \in [Nodes -> BOOLEAN]
        /\ previousNode' \in [Nodes -> Nodes \cup {-1}]
        /\ queue' \subseteq Nodes /\ queued' \subseteq Nodes /\ grid' = grid
    BY <1>2 DEF resetState
  <2> QED BY <2>1, <2>2 DEF TypeOK, SharedTypes
<1>3. CASE AddStart(t)
  <2>1. queue' \subseteq Nodes /\ queued' \subseteq Nodes /\ underflow' \in BOOLEAN
    BY <1>1, <1>3 DEF AddStart, HeapAdd, TypeOK, SharedTypes
  <2>2. /\ currDistanceToNode' \in [Nodes -> Int]
        /\ previousNode' \in [Nodes -> Nodes \cup {-1}]
    BY <1>1, <1>3 DEF AddStart, ReachStart, TypeOK, SharedTypes
  <2>3. grid' = grid /\ nodeTouched' = nodeTouched
    BY <1>3 DEF AddStart
  <2> QED BY <2>1, <2>2, <2>3 DEF TypeOK, SharedTypes
<1>4. CASE \E id \in queue : TakeClosest(t, id)
  BY <1>4 DEF TakeClosest, TypeOK, SharedTypes
<1>5. ASSUME pc[t] = "relax", edge[t] <= Len(grid[node[t]])
      PROVE  /\ CurrentEdge(t).dest \in Nodes /\ node[t] \in Nodes
             /\ NewDistance(t) \in Int
  <2>1. CurrentEdge(t).dest \in Nodes /\ CurrentEdge(t).dist \in Nat /\ node[t] \in Nodes
    BY <1>5, CurrentEdgeType
  <2>2. currDistanceToNode[node[t]] \in Int
    BY <2>1 DEF TypeOK, SharedTypes
  <2> QED BY <2>1, <2>2 DEF NewDistance, IntAdd
<1>6. CASE RelaxEdge(t)
  BY <1>5, <1>6 DEF RelaxEdge, Improve, HeapAdd, TypeOK, SharedTypes
<1>7. CASE HeapUnderflow(t)
  BY <1>7 DEF HeapUnderflow, Leave, TypeOK, SharedTypes
<1>8. CASE AddOutOfBounds(t)
  <2>1. /\ currDistanceToNode' \in [Nodes -> Int]
        /\ previousNode' \in [Nodes -> Nodes \cup {-1}]
    BY <1>1, <1>5, <1>8 DEF AddOutOfBounds, ReachStart, Improve, TypeOK, SharedTypes
  <2> QED BY <1>8, <2>1 DEF AddOutOfBounds, Leave, TypeOK, SharedTypes
<1>9. CASE UNCHANGED <<grid, shared>>
  BY <1>9 DEF shared, TypeOK, SharedTypes
<1> QED
  BY <1>2, <1>3, <1>4, <1>6, <1>7, <1>8, <1>9
     DEF Step, EnterLoop, EdgesDone, NoRoute, FollowPrevious, IndexOutOfBounds, OutOfMemory,
         ReturnRoute, Return, Leave

\* A found route is a well-typed result.
LEMMA FoundResultType ==
  ASSUME TypeOK, NEW t \in Threads, pc[t] = "rebuild", node[t] = start[t]
  PROVE  [kind |-> "found",
          path |-> Reversed(path[t]),
          odometer |-> [i \in 1..Len(path[t]) |-> currDistanceToNode[Reversed(path[t])[i]]],
          distance |-> currDistanceToNode[dest[t]]] \in Results
<1> DEFINE odo == [i \in 1..Len(path[t]) |-> currDistanceToNode[Reversed(path[t])[i]]]
<1>1. start[t] \in Nodes /\ dest[t] \in Nodes /\ Nodes \subseteq Nat
  BY RouterAssumption DEF TypeOK, IndicesOK, Active
<1>2. path[t] \in Seq(Nodes)
  BY <1>1 DEF TypeOK, IndicesOK
<1>3. currDistanceToNode \in [Nodes -> Int]
  BY DEF TypeOK, SharedTypes
<1>4. Reversed(path[t]) \in Seq(Nodes) /\ Reversed(path[t]) \in Seq(Nodes \cup {-1})
  BY <1>2 DEF Reversed
<1>5. \A i \in 1..Len(path[t]) : Reversed(path[t])[i] \in Nodes
  BY <1>2 DEF Reversed
<1>6. Len(path[t]) \in Nat
  BY <1>2
<1>7. odo \in Seq(Int)
  BY <1>3, <1>5, <1>6
<1>8. currDistanceToNode[dest[t]] \in Int
  BY <1>1, <1>3
<1> HIDE DEF odo
<1>9. [kind |-> "found", path |-> Reversed(path[t]), odometer |-> odo,
       distance |-> currDistanceToNode[dest[t]]] \in Results
  BY <1>4, <1>7, <1>8 DEF Results
<1> QED BY <1>9 DEF odo

\* A thread that leaves route() changes nothing of another thread.
LEMMA LeaveStep ==
  ASSUME TypeOK, NEW t \in Threads, NEW r \in Results, Leave(t, r)
  PROVE  ThreadTypes' /\ OnlyThread(t) /\ IndicesOK(t)'
BY RouterAssumption DEF Leave, TypeOK, ThreadTypes, IndicesOK, OnlyThread, Active, Goto

\* Every step of a thread keeps the types of the threads' own state and
\* changes nothing of another thread.
LEMMA ThreadStep ==
  ASSUME TypeOK, NEW t \in Threads, Step(t)
  PROVE  ThreadTypes' /\ OnlyThread(t) /\ IndicesOK(t)'
<1> USE RouterAssumption
<1>1. CASE resetState(t)
  BY <1>1 DEF resetState, TypeOK, ThreadTypes, IndicesOK, OnlyThread, Active, Goto, locals
<1>2. CASE AddStart(t)
  BY <1>2 DEF AddStart, TypeOK, ThreadTypes, IndicesOK, OnlyThread, Active, Goto, locals
<1>3. CASE \E id \in queue : TakeClosest(t, id)
  <2>1. PICK id \in queue : TakeClosest(t, id)
    BY <1>3
  <2>2. id \in Nodes /\ id # -1
    BY DEF TypeOK, SharedTypes
  <2>3. <<id>> \in Seq(Nodes) /\ <<id>> \in Seq(Nodes \cup {-1}) /\ <<id>> # <<>>
    BY <2>2
  <2>4. /\ pc' \in [Threads -> {"idle", "reset", "start", "loop", "take", "relax", "rebuild"}]
        /\ path' \in [Threads -> Seq(Nodes \cup {-1})]
        /\ pc'[t] \in {"relax", "rebuild"} /\ pc'[t] = "rebuild" => path'[t] = <<id>>
        /\ \A u \in Threads \ {t} : pc'[u] = pc[u] /\ path'[u] = path[u]
    BY <2>1, <2>3 DEF TakeClosest, Goto, TypeOK, ThreadTypes
  <2>5. /\ node' = [node EXCEPT ![t] = id] /\ edge' = [edge EXCEPT ![t] = 1]
        /\ start' = start /\ dest' = dest /\ result' = result /\ Active(t)
        /\ disturbed' = disturbed
    BY <2>1 DEF TakeClosest, Active
  <2>6. ThreadTypes' /\ OnlyThread(t)
    BY <2>2, <2>4, <2>5 DEF TypeOK, ThreadTypes, OnlyThread
  <2>7. IndicesOK(t)'
    BY <2>2, <2>3, <2>4, <2>5 DEF TypeOK, ThreadTypes, IndicesOK, Active
  <2> QED BY <2>6, <2>7
<1>4. CASE RelaxEdge(t)
  BY <1>4 DEF RelaxEdge, TypeOK, ThreadTypes, IndicesOK, OnlyThread, Active
<1>5. CASE EdgesDone(t)
  BY <1>5 DEF EdgesDone, TypeOK, ThreadTypes, IndicesOK, OnlyThread, Active, Goto, locals
<1>6. CASE FollowPrevious(t)
  <2>1. /\ node[t] \in Nodes /\ path[t] \in Seq(Nodes)
        /\ previousNode[node[t]] \in Nodes \cup {-1}
    BY <1>6 DEF FollowPrevious, TypeOK, IndicesOK, SharedTypes, ThreadTypes
  <2>2. /\ Append(path[t], previousNode[node[t]]) \in Seq(Nodes \cup {-1})
        /\ Append(path[t], previousNode[node[t]]) # <<>>
        /\ previousNode[node[t]] # -1 => Append(path[t], previousNode[node[t]]) \in Seq(Nodes)
    BY <2>1
  <2> QED BY <1>6, <2>1, <2>2 DEF FollowPrevious, TypeOK, ThreadTypes, IndicesOK,
            OnlyThread, Active
<1>7. CASE EnterLoop(t)
  BY <1>7 DEF EnterLoop, TypeOK, ThreadTypes, IndicesOK, OnlyThread, Active, Goto, locals
<1>8. EmptyResult("notFound") \in Results /\ EmptyResult("exception") \in Results
  BY DEF EmptyResult, Results
<1> QED
  BY <1>1, <1>2, <1>3, <1>4, <1>5, <1>6, <1>7, <1>8, FoundResultType, LeaveStep
     DEF Step, HeapUnderflow, AddOutOfBounds, NoRoute, IndexOutOfBounds, OutOfMemory,
         ReturnRoute, Return

\* Every step keeps the types, whether or not requests overlap.
LEMMA TypeStep == TypeOK /\ [Next]_vars => TypeOK'
<1> SUFFICES ASSUME TypeOK, [Next]_vars PROVE TypeOK'
  OBVIOUS
<1>1. ASSUME NEW t \in Threads, NEW s \in Nodes, NEW d \in Nodes, Call(t, s, d)
      PROVE  TypeOK'
  <2>1. NoResult \in Results
    BY DEF NoResult, EmptyResult, Results
  <2>2. SharedTypes'
    BY <1>1 DEF Call, shared, TypeOK, SharedTypes
  <2>3. disturbed' \subseteq Threads
    BY <1>1 DEF Call, Others, TypeOK, ThreadTypes
  <2>4. /\ pc' = [pc EXCEPT ![t] = "reset"]
        /\ start' = [start EXCEPT ![t] = s] /\ dest' = [dest EXCEPT ![t] = d]
        /\ result' = [result EXCEPT ![t] = NoResult] /\ UNCHANGED <<node, edge, path>>
    BY <1>1 DEF Call, Goto
  <2>5. ThreadTypes'
    BY <2>1, <2>3, <2>4 DEF TypeOK, ThreadTypes
  <2>6. \A u \in Threads : IndicesOK(u)'
    BY <2>4 DEF TypeOK, ThreadTypes, IndicesOK, Active
  <2> QED BY <2>2, <2>5, <2>6 DEF TypeOK
<1>2. ASSUME NEW t \in Threads, Step(t) PROVE TypeOK'
  <2>1. SharedTypes' /\ ThreadTypes' /\ OnlyThread(t) /\ IndicesOK(t)'
    BY <1>2, SharedStep, ThreadStep
  <2>2. \A u \in Threads : u # t => IndicesOK(u)'
    BY <2>1 DEF TypeOK, OnlyThread, IndicesOK, Active
  <2> QED BY <2>1, <2>2 DEF TypeOK
<1>3. CASE UNCHANGED vars
  BY <1>3 DEF vars, shared, locals, TypeOK, SharedTypes, ThreadTypes, IndicesOK, Active
<1>4. ASSUME NEW t \in Threads, Race(t) PROVE TypeOK'
  <2>1. grid' = grid
    BY <1>4 DEF Race, Leave
  <2>2. SharedTypes'
    <3>1. PICK f \in RacyFields :
            /\ currDistanceToNode' = f.currDistanceToNode /\ previousNode' = f.previousNode
            /\ nodeTouched' = f.nodeTouched /\ queue' = f.queue /\ queued' = f.queued
            /\ underflow' = f.underflow
      BY <1>4 DEF Race
    <3>2. /\ f.currDistanceToNode \in [Nodes -> Int]
          /\ f.previousNode \in [Nodes -> Nodes \cup {-1}]
          /\ f.nodeTouched \in [Nodes -> BOOLEAN]
          /\ f.queue \subseteq Nodes /\ f.queued \subseteq Nodes /\ f.underflow \in BOOLEAN
      BY RaceAssumption
    <3>3. IsGrid(grid)
      BY DEF TypeOK, SharedTypes
    <3> QED BY <2>1, <3>1, <3>2, <3>3 DEF SharedTypes
  <2>3. CASE UNCHANGED <<grid, disturbed, pc, locals, result>>
    BY <2>2, <2>3 DEF locals, TypeOK, ThreadTypes, IndicesOK, Active
  <2>4. CASE Leave(t, EmptyResult("exception"))
    <3>1. EmptyResult("exception") \in Results
      BY DEF EmptyResult, Results
    <3>2. ThreadTypes' /\ OnlyThread(t) /\ IndicesOK(t)'
      BY <2>4, <3>1, LeaveStep
    <3>3. \A u \in Threads : u # t => IndicesOK(u)'
      BY <3>2 DEF TypeOK, OnlyThread, IndicesOK, Active
    <3> QED BY <2>2, <3>2, <3>3 DEF TypeOK
  <2> QED BY <1>4, <2>3, <2>4 DEF Race
<1> QED BY <1>1, <1>2, <1>3, <1>4 DEF Next

\* The initial state is well typed.
LEMMA TypeInit == Init => TypeOK
<1>1. NoResult \in Results
  BY DEF NoResult, EmptyResult, Results
<1>2. Init => underflow \in BOOLEAN
  BY Zenon DEF Init
<1> QED BY <1>1, <1>2, RouterAssumption
        DEF Init, TypeOK, SharedTypes, ThreadTypes, IndicesOK, Active

\* The fields of the router and the variables of its threads keep their
\* types, whatever data races do to the fields within their Java types.
LEMMA TypeCorrect == Spec => []TypeOK
<1> QED BY TypeInit, TypeStep, PTL DEF Spec
------------------------------------------------------------------------------
\* Facts about walks.

\* A property of the first node of a walk that every edge of the walk hands
\* on holds of all its nodes: A is the set of indices where it fails.
LEMMA WalkInduction ==
  ASSUME NEW n \in Nat, NEW A \in SUBSET (1..n), 1 \notin A,
         \A i \in 1..(n - 1) : i + 1 \in A => i \in A
  PROVE  A = {}
<1> SUFFICES ASSUME A # {} PROVE FALSE
  OBVIOUS
<1>1. A \in SUBSET Nat
  OBVIOUS
<1>2. PICK m \in A : \A k \in A : m <= k
  BY <1>1, LeastMember
<1>3. m \in 1..n /\ m # 1
  OBVIOUS
<1>4. m - 1 \in 1..(n - 1) /\ (m - 1) + 1 = m
  BY <1>3
<1>5. m - 1 \in A
  BY <1>4
<1> QED BY <1>2, <1>3, <1>5

\* If the edges of all nodes closer than D are relaxed, then every node of a
\* walk from the start is at most as far as the odometer, or D is.
LEMMA WalkBound ==
  ASSUME TypeOK, NEW t \in Threads, start[t] \in Nodes,
         currDistanceToNode[start[t]] = 0,
         NEW D \in Nat,
         \A n \in Nodes : currDistanceToNode[n] < D =>
           \A i \in 1..Len(grid[n]) : Relaxed(n, i),
         NEW nodes, NEW odo, IsWalk(nodes, odo), nodes[1] = start[t]
  PROVE  \A i \in 1..Len(nodes) : currDistanceToNode[nodes[i]] <= odo[i] \/ D <= odo[i]
<1> DEFINE Holds(i) == currDistanceToNode[nodes[i]] <= odo[i] \/ D <= odo[i]
           A == {i \in 1..Len(nodes) : ~Holds(i)}
<1>1. /\ nodes \in Seq(Nodes) /\ Len(nodes) \in Nat /\ Len(nodes) > 0
      /\ odo \in Seq(Nat) /\ Len(odo) = Len(nodes) /\ odo[1] = 0
  BY DEF IsWalk, WalkIn
<1>2. currDistanceToNode \in [Nodes -> Int] /\ IsGrid(grid)
  BY DEF TypeOK, SharedTypes
<1>3. Holds(1)
  BY <1>1
<1>4. ASSUME NEW i \in 1..(Len(nodes) - 1), Holds(i) PROVE Holds(i + 1)
  <2>1. i \in 1..Len(nodes) /\ i + 1 \in 1..Len(nodes)
    BY <1>1
  <2>2. /\ nodes[i] \in Nodes /\ nodes[i + 1] \in Nodes
        /\ odo[i] \in Nat /\ odo[i + 1] \in Nat
    BY <1>1, <2>1
  <2>3. PICK k \in 1..Len(grid[nodes[i]]) :
          /\ grid[nodes[i]][k].dest = nodes[i + 1]
          /\ odo[i + 1] = odo[i] + grid[nodes[i]][k].dist
    BY DEF IsWalk, WalkIn
  <2>4. grid[nodes[i]][k].dist \in Nat
    BY <1>2, <2>2 DEF IsGrid
  <2>5. currDistanceToNode[nodes[i]] \in Int /\ currDistanceToNode[nodes[i + 1]] \in Int
    BY <1>2, <2>2
  <2>6. CASE D <= odo[i]
    BY <2>2, <2>3, <2>4, <2>6
  <2>7. CASE ~(D <= odo[i])
    <3>1. currDistanceToNode[nodes[i]] <= odo[i]
      BY <1>4, <2>7
    <3>2. currDistanceToNode[nodes[i]] < D
      BY <2>2, <2>5, <2>7, <3>1
    <3>3. currDistanceToNode[nodes[i + 1]] <= currDistanceToNode[nodes[i]] + grid[nodes[i]][k].dist
      BY <2>2, <2>3, <3>2 DEF Relaxed
    <3>4. ASSUME NEW a \in Int, NEW b \in Int, NEW w \in Nat, NEW o \in Nat, NEW p,
                 a <= o, b <= a + w, p = o + w
          PROVE  b <= p
      BY <3>4
    <3>5. currDistanceToNode[nodes[i + 1]] <= odo[i + 1]
      BY <2>2, <2>3, <2>4, <2>5, <3>1, <3>3, <3>4
    <3> QED BY <3>5
  <2> QED BY <2>6, <2>7
<1>5. A \in SUBSET (1..Len(nodes)) /\ 1 \notin A
  BY <1>3
<1>6. \A i \in 1..(Len(nodes) - 1) : i + 1 \in A => i \in A
  BY <1>4, <1>1
<1> HIDE DEF A
<1>7. A = {}
  BY <1>1, <1>5, <1>6, WalkInduction
<1> QED BY <1>7 DEF A

\* If the edges of all reached nodes are relaxed, a walk from the start
\* passes through reached nodes only.
LEMMA WalkReached ==
  ASSUME TypeOK, NEW t \in Threads, currDistanceToNode[start[t]] < MAX_VALUE,
         \A n \in Nodes : currDistanceToNode[n] < MAX_VALUE =>
           \A i \in 1..Len(grid[n]) : Relaxed(n, i),
         NEW nodes, NEW odo, IsWalk(nodes, odo), nodes[1] = start[t]
  PROVE  \A i \in 1..Len(nodes) : currDistanceToNode[nodes[i]] < MAX_VALUE
<1> DEFINE A == {i \in 1..Len(nodes) : ~(currDistanceToNode[nodes[i]] < MAX_VALUE)}
<1>1. nodes \in Seq(Nodes) /\ Len(nodes) \in Nat /\ Len(nodes) > 0
  BY DEF IsWalk, WalkIn
<1>2. ASSUME NEW i \in 1..(Len(nodes) - 1), currDistanceToNode[nodes[i]] < MAX_VALUE
      PROVE  currDistanceToNode[nodes[i + 1]] < MAX_VALUE
  <2>1. nodes[i] \in Nodes
    BY <1>1
  <2>2. PICK k \in 1..Len(grid[nodes[i]]) : grid[nodes[i]][k].dest = nodes[i + 1]
    BY DEF IsWalk, WalkIn
  <2> QED BY <1>2, <2>1, <2>2 DEF Relaxed
<1>3. A \in SUBSET (1..Len(nodes)) /\ 1 \notin A
  OBVIOUS
<1>4. \A i \in 1..(Len(nodes) - 1) : i + 1 \in A => i \in A
  BY <1>1, <1>2
<1> HIDE DEF A
<1>5. A = {}
  BY <1>1, <1>3, <1>4, WalkInduction
<1> QED BY <1>5 DEF A
------------------------------------------------------------------------------
\* One lemma for each step of the search: it keeps SearchInv.

LEMMA AddStartInv ==
  ASSUME TypeOK, NEW t \in Threads, AddStart(t),
         currDistanceToNode = [n \in Nodes |-> MAX_VALUE],
         nodeTouched = [n \in Nodes |-> FALSE],
         queue = {} /\ queued = {} /\ ~underflow
  PROVE  SearchInv(t)'
<1> USE RouterAssumption
<1>1. /\ start[t] \in Nodes /\ dest[t] \in Nodes /\ pc'[t] = "loop"
      /\ start' = start /\ dest' = dest /\ grid' = grid /\ nodeTouched' = nodeTouched
      /\ currDistanceToNode' = [currDistanceToNode EXCEPT ![start[t]] = 0]
      /\ previousNode' = [previousNode EXCEPT ![start[t]] = start[t]]
      /\ queue' = {start[t]} /\ queued' = {start[t]} /\ ~underflow'
  BY DEF AddStart, ReachStart, HeapAdd, Goto, locals, TypeOK, ThreadTypes, IndicesOK, Active
<1>2. StartInv(t)'
  BY <1>1 DEF StartInv, TypeOK, SharedTypes
<1>d. \A n \in Nodes : currDistanceToNode'[n] = IF n = start[t] THEN 0 ELSE MAX_VALUE
  BY <1>1
<1>3. QueueInv'
  <2>1. \A n \in Nodes : currDistanceToNode'[n] \in 0..MAX_VALUE
    BY <1>d
  <2>2. \A n \in Nodes : currDistanceToNode'[n] < MAX_VALUE <=> n = start[t]
    BY <1>d
  <2>3. \A n \in Nodes : ~nodeTouched'[n]
    BY <1>1
  <2> QED BY <1>1, <2>1, <2>2, <2>3 DEF QueueInv
<1>4. OrderInv' /\ LastInv(t)' /\ SettledInv(t)'
  BY <1>1 DEF OrderInv, LastInv, SettledInv
<1>5. TreeInv(t)'
  <2>1. \A n \in Nodes \ {start'[t]} : ~(currDistanceToNode'[n] < MAX_VALUE)
    BY <1>1, <1>d
  <2> QED BY <2>1 DEF TreeInv
<1> QED BY <1>2, <1>3, <1>4, <1>5 DEF SearchInv

LEMMA TakeClosestInv ==
  ASSUME TypeOK, NEW t \in Threads, SearchInv(t), NEW id \in queue, TakeClosest(t, id)
  PROVE  SearchInv(t)'
<1> USE RouterAssumption
<1>1. /\ start[t] \in Nodes /\ dest[t] \in Nodes /\ id \in Nodes
      /\ start' = start /\ dest' = dest /\ grid' = grid
      /\ currDistanceToNode' = currDistanceToNode /\ previousNode' = previousNode
      /\ queue' = queue \ {id} /\ queued' = queued /\ underflow' = underflow
      /\ nodeTouched' = [nodeTouched EXCEPT ![id] = TRUE]
      /\ node'[t] = id /\ edge'[t] = 1 /\ pc[t] = "take"
      /\ pc'[t] = IF id = dest[t] THEN "rebuild" ELSE "relax"
      /\ nodeTouched \in [Nodes -> BOOLEAN] /\ currDistanceToNode \in [Nodes -> Int]
  BY DEF TakeClosest, Goto, TypeOK, SharedTypes, ThreadTypes, IndicesOK, Active
<1>2. ~nodeTouched[id] /\ currDistanceToNode[id] < MAX_VALUE
  BY DEF SearchInv, QueueInv
<1>3. \A m \in Nodes : ~nodeTouched[m] => currDistanceToNode[id] <= currDistanceToNode[m]
  <2>1. SUFFICES ASSUME NEW m \in Nodes, ~nodeTouched[m]
                 PROVE  currDistanceToNode[id] <= currDistanceToNode[m]
    OBVIOUS
  <2>2. CASE m \in queue
    BY <2>2 DEF TakeClosest, IsClosest
  <2>3. CASE m \notin queue
    <3>1. ~(currDistanceToNode[m] < MAX_VALUE)
      BY <2>1, <2>3 DEF SearchInv, QueueInv
    <3> QED BY <1>1, <1>2, <3>1
  <2> QED BY <2>2, <2>3
<1>4. StartInv(t)' /\ QueueInv'
  BY <1>1 DEF SearchInv, StartInv, QueueInv
<1>5. OrderInv'
  BY <1>1, <1>2, <1>3 DEF SearchInv, OrderInv
<1>6. LastInv(t)'
  <2>1. \A n \in Nodes : nodeTouched[n] => currDistanceToNode[n] <= currDistanceToNode[id]
    BY <1>1, <1>2 DEF SearchInv, OrderInv
  <2>2. ~nodeTouched[dest[t]]
    BY <1>1 DEF SearchInv, LastInv
  <2> QED BY <1>1, <2>1, <2>2 DEF LastInv
<1>7. SettledInv(t)'
  BY <1>1 DEF SearchInv, SettledInv, Relaxed
<1>8. TreeInv(t)'
  <2>1. SUFFICES ASSUME NEW n \in Nodes \ {start[t]}, currDistanceToNode[n] < MAX_VALUE
                 PROVE  (/\ previousNode[n] \in Nodes
                         /\ nodeTouched[previousNode[n]]
                         /\ Tight(previousNode[n], n))'
    BY <1>1 DEF TreeInv
  <2>2. previousNode[n] \in Nodes /\ nodeTouched[previousNode[n]] /\ Tight(previousNode[n], n)
    BY <2>1 DEF SearchInv, TreeInv
  <2>3. Tight(previousNode[n], n)'
    BY <1>1, <2>2 DEF Tight
  <2> QED BY <1>1, <2>2, <2>3
<1> QED BY <1>4, <1>5, <1>6, <1>7, <1>8 DEF SearchInv

LEMMA EnterLoopInv ==
  ASSUME TypeOK, NEW t \in Threads, SearchInv(t), EnterLoop(t)
  PROVE  SearchInv(t)' /\ pc'[t] = "take" /\ queue' # {}
<1>1. /\ pc[t] = "loop" /\ pc'[t] = "take" /\ UNCHANGED <<grid, shared, locals>>
      /\ ~HeapIsEmpty
  BY DEF EnterLoop, Goto, TypeOK, ThreadTypes
<1>2. StartInv(t)' /\ QueueInv' /\ OrderInv' /\ LastInv(t)' /\ SettledInv(t)' /\ TreeInv(t)'
  BY <1>1 DEF SearchInv, StartInv, QueueInv, OrderInv, LastInv, SettledInv, TreeInv, Relaxed,
              Tight, shared, locals
<1>3. queue' # {}
  BY <1>1 DEF HeapIsEmpty, SearchInv, QueueInv, shared
<1> QED BY <1>1, <1>2, <1>3 DEF SearchInv

LEMMA EdgesDoneInv ==
  ASSUME TypeOK, NEW t \in Threads, SearchInv(t), EdgesDone(t)
  PROVE  SearchInv(t)'
<1>1. /\ pc[t] = "relax" /\ pc'[t] = "loop" /\ UNCHANGED <<grid, shared, locals>>
      /\ edge[t] > Len(grid[node[t]])
  BY DEF EdgesDone, Goto, TypeOK, ThreadTypes
<1>2. node[t] \in Nodes /\ Len(grid[node[t]]) \in Nat /\ edge[t] \in Nat
  BY <1>1 DEF TypeOK, SharedTypes, ThreadTypes, IndicesOK, IsGrid
<1>3. \A i \in 1..Len(grid[node[t]]) : i < edge[t]
  BY <1>1, <1>2
<1>4. SettledInv(t)'
  BY <1>1, <1>3 DEF SearchInv, SettledInv, Relaxed, shared, locals
<1>5. StartInv(t)' /\ QueueInv' /\ OrderInv' /\ LastInv(t)' /\ TreeInv(t)'
  BY <1>1 DEF SearchInv, StartInv, QueueInv, OrderInv, LastInv, TreeInv, Tight, shared, locals
<1> QED BY <1>4, <1>5 DEF SearchInv

LEMMA FollowPreviousInv ==
  ASSUME TypeOK, NEW t \in Threads, SearchInv(t), FollowPrevious(t)
  PROVE  SearchInv(t)'
<1>1. /\ pc[t] = "rebuild" /\ UNCHANGED <<grid, shared, pc, start, dest, edge>>
  BY DEF FollowPrevious
<1> QED BY <1>1 DEF SearchInv, StartInv, QueueInv, OrderInv, LastInv, SettledInv, TreeInv,
            Relaxed, Tight, shared

LEMMA RelaxEdgeInv ==
  ASSUME TypeOK, NoOverflow, NEW t \in Threads \ disturbed, SearchInv(t), RelaxEdge(t)
  PROVE  SearchInv(t)'
<1> USE RouterAssumption
<1> DEFINE u == node[t]
           v == CurrentEdge(t).dest
           w == CurrentEdge(t).dist
           dist == currDistanceToNode
<1>1. /\ u \in Nodes /\ edge[t] \in 1..Len(grid[u]) /\ v \in Nodes /\ w \in Nat
      /\ CurrentEdge(t) = grid[u][edge[t]]
  BY CurrentEdgeType DEF RelaxEdge, CurrentEdge
<1>2. /\ start[t] \in Nodes /\ dest[t] \in Nodes /\ pc[t] = "relax"
      /\ UNCHANGED <<grid, nodeTouched, pc, start, dest, node>>
      /\ edge'[t] = edge[t] + 1 /\ edge[t] \in Nat
      /\ nodeTouched \in [Nodes -> BOOLEAN] /\ dist \in [Nodes -> Int]
      /\ previousNode \in [Nodes -> Nodes \cup {-1}]
  BY DEF RelaxEdge, TypeOK, SharedTypes, ThreadTypes, IndicesOK, Active
<1>3. /\ \A n \in Nodes : dist[n] \in 0..MAX_VALUE
      /\ dist[u] \in 0..MAX_VALUE /\ dist[v] \in 0..MAX_VALUE
      /\ dist[u] + w \in 0..(MAX_VALUE - 1) /\ NewDistance(t) = dist[u] + w
      /\ nodeTouched[u] /\ ~nodeTouched[dest[t]] /\ u # dest[t]
      /\ \A n \in Nodes : nodeTouched[n] => dist[n] <= dist[u]
  <2>1. \A n \in Nodes : dist[n] \in 0..MAX_VALUE
    BY DEF SearchInv, QueueInv
  <2>2. dist[u] + w < MAX_VALUE
    BY DEF NoOverflow, RelaxEdge
  <2>a. dist[u] \in 0..MAX_VALUE /\ dist[v] \in 0..MAX_VALUE
    BY <1>1, <2>1
  <2>b. dist[u] + w \in 0..(MAX_VALUE - 1) /\ ~(dist[u] + w > MAX_VALUE)
    BY <1>1, <2>a, <2>2
  <2>3. NewDistance(t) = dist[u] + w
    BY <2>b DEF NewDistance, IntAdd
  <2>4. /\ nodeTouched[u] /\ ~nodeTouched[dest[t]]
        /\ \A n \in Nodes : nodeTouched[n] => dist[n] <= dist[u]
    BY <1>2 DEF SearchInv, LastInv
  <2> QED BY <2>a, <2>b, <2>1, <2>3, <2>4
<1> HIDE DEF u, v, w
<1>4. CASE ~Improves(t)
  <2>1. UNCHANGED <<currDistanceToNode, previousNode, queue, queued, underflow>>
    BY <1>4 DEF RelaxEdge
  <2>2. dist[v] < MAX_VALUE /\ dist[v] <= dist[u] + w
    <3>1. CASE nodeTouched[v]
      BY <1>1, <1>3, <3>1 DEF SearchInv, OrderInv
    <3>2. CASE ~nodeTouched[v]
      <4>1. ~(dist[u] + w < dist[v])
        BY <1>3, <1>4, <3>2 DEF Improves, v
      <4>2. dist[v] \in Int /\ dist[u] + w \in 0..(MAX_VALUE - 1)
        BY <1>3
      <4> QED BY <4>1, <4>2
    <3> QED BY <3>1, <3>2
  <2>3. Relaxed(u, edge[t])
    BY <1>1, <2>2 DEF Relaxed, v, w
  <2>4. SettledInv(t)'
    <3>1. SUFFICES ASSUME NEW n \in Nodes \ {dest[t]}, nodeTouched[n], NEW i \in 1..Len(grid[n]),
                          n = node[t] => i < edge[t] + 1
                   PROVE  Relaxed(n, i)'
      BY <1>2 DEF SettledInv
    <3>2. CASE n = node[t] /\ i = edge[t]
      BY <1>2, <2>1, <2>3, <3>2 DEF Relaxed, u
    <3>3. CASE ~(n = node[t] /\ i = edge[t])
      <4>1. n = node[t] => i < edge[t]
        BY <1>2, <3>1, <3>3
      <4>2. Relaxed(n, i)
        BY <3>1, <4>1 DEF SearchInv, SettledInv
      <4> QED BY <1>2, <2>1, <4>2 DEF Relaxed
    <3> QED BY <3>2, <3>3
  <2>5. StartInv(t)' /\ QueueInv' /\ OrderInv' /\ LastInv(t)' /\ TreeInv(t)'
    BY <1>2, <2>1 DEF SearchInv, StartInv, QueueInv, OrderInv, LastInv, TreeInv, Tight
  <2> QED BY <2>4, <2>5 DEF SearchInv
<1>5. CASE Improves(t)
  <2>1. ~nodeTouched[v] /\ dist[u] + w < dist[v]
    BY <1>3, <1>5 DEF Improves, v
  <2>2. /\ currDistanceToNode' = [dist EXCEPT ![v] = dist[u] + w]
        /\ previousNode' = [previousNode EXCEPT ![v] = u]
        /\ queue' = IF v \in queued THEN queue ELSE queue \cup {v}
        /\ queued' = queued \cup {v} /\ underflow' = underflow
    BY <1>3, <1>5 DEF RelaxEdge, Improve, HeapAdd, v, u
  <2>3. /\ \A n \in Nodes : dist'[n] = IF n = v THEN dist[u] + w ELSE dist[n]
        /\ \A n \in Nodes : previousNode'[n] = IF n = v THEN u ELSE previousNode[n]
        /\ \A n \in Nodes : nodeTouched[n] => n # v /\ dist'[n] = dist[n]
        /\ \A n \in Nodes : dist'[n] <= dist[n]
    BY <1>1, <1>2, <1>3, <2>1, <2>2
  <2>4. StartInv(t)'
    <3>1. dist[start[t]] = 0 /\ previousNode[start[t]] = start[t]
      BY DEF SearchInv, StartInv
    <3>2. start[t] # v
      BY <1>1, <1>3, <2>1, <3>1
    <3> QED BY <1>2, <2>3, <3>1, <3>2 DEF StartInv
  <2>5. QueueInv'
    <3>1. \A n \in Nodes : dist'[n] \in 0..MAX_VALUE
      <4>1. dist[u] + w \in 0..MAX_VALUE
        BY <1>3
      <4> QED BY <1>3, <2>3, <4>1
    <3>2. \A n \in Nodes : dist'[n] < MAX_VALUE <=> n = v \/ dist[n] < MAX_VALUE
      BY <1>1, <1>3, <2>3
    <3>3. /\ queue = {n \in Nodes : ~nodeTouched[n] /\ dist[n] < MAX_VALUE}
          /\ queued = {n \in Nodes : dist[n] < MAX_VALUE}
      BY DEF SearchInv, QueueInv
    <3>4. queue' = queue \cup {v}
      BY <1>1, <2>1, <2>2, <3>3
    <3>5. queue' = {n \in Nodes : ~nodeTouched[n] /\ dist'[n] < MAX_VALUE}
      BY <1>1, <2>1, <3>2, <3>3, <3>4
    <3>6. queued' = {n \in Nodes : dist'[n] < MAX_VALUE}
      BY <1>1, <2>2, <3>2, <3>3
    <3>7. ~underflow'
      BY <2>2 DEF SearchInv, QueueInv
    <3> QED BY <1>2, <3>1, <3>5, <3>6, <3>7 DEF QueueInv
  <2>6. OrderInv'
    <3>1. SUFFICES ASSUME NEW n \in Nodes, nodeTouched[n]
                   PROVE  /\ dist'[n] < MAX_VALUE
                          /\ \A m \in Nodes : ~nodeTouched[m] => dist'[n] <= dist'[m]
      BY <1>2 DEF OrderInv
    <3>2. dist[n] < MAX_VALUE /\ \A m \in Nodes : ~nodeTouched[m] => dist[n] <= dist[m]
      BY <3>1 DEF SearchInv, OrderInv
    <3>3. dist'[n] = dist[n] /\ dist[n] <= dist[u]
      BY <1>3, <2>3, <3>1
    <3>4. ASSUME NEW m \in Nodes, ~nodeTouched[m] PROVE dist[n] <= dist'[m]
      <4>1. dist[n] \in Int /\ dist[u] \in Int /\ dist[u] <= dist[u] + w
        BY <1>1, <1>3
      <4>2. CASE m = v
        <5>1. dist'[m] = dist[u] + w
          BY <2>3, <4>2
        <5> QED BY <1>1, <1>3, <3>3, <4>1, <5>1
      <4>3. CASE m # v
        BY <2>3, <3>2, <3>4, <4>3
      <4> QED BY <4>2, <4>3
    <3> QED BY <3>2, <3>3, <3>4
  <2>7. LastInv(t)'
    BY <1>1, <1>2, <1>3, <2>3 DEF LastInv, u
  <2>8. SettledInv(t)'
    <3>1. SUFFICES ASSUME NEW n \in Nodes \ {dest[t]}, nodeTouched[n], NEW i \in 1..Len(grid[n]),
                          n = node[t] => i < edge[t] + 1
                   PROVE  Relaxed(n, i)'
      BY <1>2 DEF SettledInv
    <3>2. grid[n][i].dest \in Nodes /\ grid[n][i].dist \in Nat /\ dist'[n] = dist[n]
      BY <2>3, <3>1 DEF TypeOK, SharedTypes, IsGrid
    <3>3. CASE n = node[t] /\ i = edge[t]
      <4>1. grid[n][i].dest = v /\ grid[n][i].dist = w /\ n = u
        BY <1>1, <3>3 DEF u, v, w
      <4>2. dist'[v] = dist[u] + w /\ dist'[u] = dist[u]
        BY <1>1, <1>3, <2>3
      <4>3. dist'[v] < MAX_VALUE /\ dist'[v] <= dist'[u] + w
        <5>1. dist[u] + w \in 0..(MAX_VALUE - 1)
          BY <1>3
        <5> QED BY <4>2, <5>1
      <4> QED BY <1>2, <4>1, <4>3 DEF Relaxed
    <3>4. CASE ~(n = node[t] /\ i = edge[t])
      <4>1. n = node[t] => i < edge[t]
        BY <1>2, <3>1, <3>4
      <4>2. dist[grid[n][i].dest] < MAX_VALUE /\ dist[grid[n][i].dest] <= dist[n] + grid[n][i].dist
        BY <1>2, <3>1, <4>1 DEF SearchInv, SettledInv, Relaxed
      <4>3. dist'[grid[n][i].dest] <= dist[grid[n][i].dest]
        BY <2>3, <3>2
      <4>4. dist'[grid[n][i].dest] \in Int /\ dist[grid[n][i].dest] \in Int /\ dist[n] \in Int
        <5>1. dist[u] + w \in Int
          BY <1>3
        <5> QED BY <1>2, <2>3, <3>2, <5>1
      <4> QED BY <1>2, <3>2, <4>2, <4>3, <4>4 DEF Relaxed
    <3> QED BY <3>3, <3>4
  <2>9. TreeInv(t)'
    <3>1. SUFFICES ASSUME NEW n \in Nodes \ {start[t]}, dist'[n] < MAX_VALUE
                   PROVE  /\ previousNode'[n] \in Nodes
                          /\ nodeTouched[previousNode'[n]]
                          /\ Tight(previousNode[n], n)'
      BY <1>2 DEF TreeInv
    <3>2. CASE n = v
      <4>1. previousNode'[n] = u /\ dist'[n] = dist[u] + w /\ dist'[u] = dist[u]
        BY <1>1, <1>3, <2>3, <3>2
      <4>2. Tight(previousNode[n], n)'
        BY <1>1, <1>2, <3>2, <4>1 DEF Tight, v, w
      <4> QED BY <1>1, <1>3, <4>1, <4>2
    <3>3. CASE n # v
      <4>1. dist'[n] = dist[n] /\ previousNode'[n] = previousNode[n]
        BY <2>3, <3>3
      <4>2. /\ previousNode[n] \in Nodes /\ nodeTouched[previousNode[n]]
            /\ Tight(previousNode[n], n)
        BY <3>1, <4>1 DEF SearchInv, TreeInv
      <4>3. dist'[previousNode[n]] = dist[previousNode[n]]
        BY <2>3, <4>2
      <4>4. Tight(previousNode[n], n)'
        BY <1>2, <4>1, <4>2, <4>3 DEF Tight
      <4> QED BY <4>1, <4>2, <4>4
    <3> QED BY <3>2, <3>3
  <2> QED BY <2>4, <2>5, <2>6, <2>7, <2>8, <2>9 DEF SearchInv
<1> QED BY <1>4, <1>5
------------------------------------------------------------------------------
\* The rebuilt path.

LEMMA PathStart ==
  ASSUME TypeOK, NEW t \in Threads, SearchInv(t), NEW id \in queue, TakeClosest(t, id),
         pc'[t] = "rebuild"
  PROVE  PathInv(t)'
<1>1. id \in Nodes /\ currDistanceToNode[id] < MAX_VALUE
  BY DEF SearchInv, QueueInv
<1>2. id = dest[t] /\ node'[t] = id /\ path'[t] = <<id>> /\ UNCHANGED <<currDistanceToNode, dest>>
  BY DEF TakeClosest, Goto, TypeOK, ThreadTypes
<1> QED BY <1>1, <1>2 DEF PathInv

LEMMA PathStep ==
  ASSUME TypeOK, NEW t \in Threads, SearchInv(t), PathInv(t), FollowPrevious(t)
  PROVE  PathInv(t)'
<1> DEFINE p == previousNode[node[t]]
           q == path[t]
<1>1. /\ node[t] \in Nodes \ {start[t]} /\ currDistanceToNode[node[t]] < MAX_VALUE
      /\ q \in Seq(Nodes) /\ Len(q) \in Nat /\ Len(q) > 0 /\ q[1] = dest[t] /\ q[Len(q)] = node[t]
      /\ \A i \in 1..(Len(q) - 1) : Tight(q[i + 1], q[i])
  BY DEF PathInv, FollowPrevious
<1>2. p \in Nodes /\ nodeTouched[p] /\ Tight(p, node[t]) /\ currDistanceToNode[p] < MAX_VALUE
  BY <1>1 DEF SearchInv, TreeInv, OrderInv
<1>3. /\ path'[t] = Append(q, p) /\ node'[t] = p
      /\ UNCHANGED <<grid, currDistanceToNode, dest>>
  BY DEF FollowPrevious, TypeOK, ThreadTypes, shared
<1> HIDE DEF p, q
<1>4. /\ path'[t] \in Seq(Nodes) /\ Len(path'[t]) = Len(q) + 1
      /\ path'[t][Len(q) + 1] = p /\ \A i \in 1..Len(q) : path'[t][i] = q[i]
  BY <1>1, <1>2, <1>3
<1>5. \A i \in 1..Len(q) : Tight(path'[t][i + 1], path'[t][i])
  <2>1. SUFFICES ASSUME NEW i \in 1..Len(q) PROVE Tight(path'[t][i + 1], path'[t][i])
    OBVIOUS
  <2>2. CASE i = Len(q)
    BY <1>1, <1>2, <1>4, <2>2
  <2>3. CASE i # Len(q)
    <3>1. i \in 1..(Len(q) - 1) /\ i + 1 \in 1..Len(q)
      BY <1>1, <2>3
    <3> QED BY <1>1, <1>4, <3>1
  <2> QED BY <2>2, <2>3
<1>6. \A i \in 1..(Len(path'[t]) - 1) : Tight(path[t][i + 1], path[t][i])'
  <2>1. Len(path'[t]) - 1 = Len(q)
    BY <1>1, <1>4
  <2>2. SUFFICES ASSUME NEW i \in 1..Len(q) PROVE Tight(path[t][i + 1], path[t][i])'
    BY <2>1
  <2>3. Tight(path'[t][i + 1], path'[t][i])
    BY <1>5
  <2> QED BY <1>3, <2>3 DEF Tight
<1>7. path'[t][1] = dest'[t]
  BY <1>1, <1>3, <1>4
<1> QED BY <1>1, <1>2, <1>3, <1>4, <1>6, <1>7 DEF PathInv

\* The reversed path is a walk whose odometer shows the distances of its nodes.
LEMMA PathIsWalk ==
  ASSUME TypeOK, NEW t \in Threads, SearchInv(t), PathInv(t), node[t] = start[t],
         NEW q, q = Reversed(path[t]),
         NEW odo, odo = [i \in 1..Len(path[t]) |-> currDistanceToNode[q[i]]]
  PROVE  /\ IsWalk(q, odo)
         /\ q[1] = start[t] /\ q[Len(q)] = dest[t]
         /\ odo[Len(q)] = currDistanceToNode[dest[t]]
<1> DEFINE n == Len(path[t])
<1>1. /\ path[t] \in Seq(Nodes) /\ n \in Nat /\ n > 0
      /\ path[t][1] = dest[t] /\ path[t][n] = start[t]
      /\ \A i \in 1..(n - 1) : Tight(path[t][i + 1], path[t][i])
  <2>1. path[t] \in Seq(Nodes) /\ n > 0 /\ path[t][1] = dest[t] /\ path[t][n] = node[t]
    BY Zenon DEF PathInv
  <2>2. \A i \in 1..(n - 1) : Tight(path[t][i + 1], path[t][i])
    BY Zenon DEF PathInv
  <2>3. n \in Nat
    BY <2>1
  <2> QED BY <2>1, <2>2, <2>3, Zenon
<1> HIDE DEF n
<1>2. /\ q = [i \in 1..n |-> path[t][n + 1 - i]]
      /\ odo = [i \in 1..n |-> currDistanceToNode[q[i]]]
  BY DEF Reversed, n
<1>3. \A i \in 1..n : n + 1 - i \in 1..n /\ q[i] = path[t][n + 1 - i] /\ q[i] \in Nodes
                     /\ odo[i] = currDistanceToNode[q[i]]
  BY <1>1, <1>2 DEF n
<1>4. q \in Seq(Nodes) /\ Len(q) = n /\ q # <<>>
  <2>1. q \in [1..n -> Nodes]
    BY <1>2, <1>3
  <2>2. q \in Seq(Nodes) /\ Len(q) = n
    BY <1>1, <2>1
  <2> QED BY <1>1, <2>2
<1>5. \A i \in 1..n : odo[i] \in Nat
  <2>1. \A m \in Nodes : currDistanceToNode[m] \in Nat
    BY RouterAssumption DEF SearchInv, QueueInv
  <2> QED BY <1>3, <2>1
<1>6. odo \in Seq(Nat) /\ Len(odo) = n
  <2>1. odo \in [1..n -> Nat]
    BY <1>2, <1>5
  <2> QED BY <1>1, <2>1
<1>7. q[1] = start[t] /\ q[n] = dest[t]
  <2>1. 1 \in 1..n /\ n \in 1..n /\ n + 1 - 1 = n /\ n + 1 - n = 1
    BY <1>1
  <2> QED BY <1>1, <1>3, <2>1
<1>8. odo[1] = 0 /\ odo[n] = currDistanceToNode[dest[t]]
  BY <1>1, <1>3, <1>7 DEF SearchInv, StartInv
<1>9. \A i \in 1..(n - 1) : Tight(q[i], q[i + 1])
  <2>1. SUFFICES ASSUME NEW i \in 1..(n - 1) PROVE Tight(q[i], q[i + 1])
    OBVIOUS
  <2>2. i \in 1..n /\ i + 1 \in 1..n /\ n - i \in 1..(n - 1)
        /\ n + 1 - i = (n - i) + 1 /\ n + 1 - (i + 1) = n - i
    BY <1>1
  <2>3. q[i] = path[t][(n - i) + 1] /\ q[i + 1] = path[t][n - i]
    BY <1>3, <2>2
  <2> QED BY <1>1, <2>2, <2>3
<1>10. \A i \in 1..(n - 1) : \E k \in 1..Len(grid[q[i]]) :
         /\ grid[q[i]][k].dest = q[i + 1]
         /\ odo[i + 1] = odo[i] + grid[q[i]][k].dist
  <2>1. SUFFICES ASSUME NEW i \in 1..(n - 1)
                 PROVE  \E k \in 1..Len(grid[q[i]]) :
                          /\ grid[q[i]][k].dest = q[i + 1]
                          /\ odo[i + 1] = odo[i] + grid[q[i]][k].dist
    OBVIOUS
  <2>2. i \in 1..n /\ i + 1 \in 1..n
    BY <1>1
  <2>3. odo[i] = currDistanceToNode[q[i]] /\ odo[i + 1] = currDistanceToNode[q[i + 1]]
    BY <1>3, <2>2
  <2> QED BY <1>9, <2>3 DEF Tight
<1> QED BY <1>4, <1>6, <1>7, <1>8, <1>10 DEF IsWalk, WalkIn

\* When the destination is taken, no voyage to it is shorter.
LEMMA DestinationIsOptimal ==
  ASSUME TypeOK, NEW t \in Threads, SearchInv(t), pc[t] = "rebuild",
         NEW x \in VoyagesBetween(start[t], dest[t])
  PROVE  currDistanceToNode[dest[t]] <= x.odometer[Len(x.odometer)]
<1>1. /\ start[t] \in Nodes /\ dest[t] \in Nodes
      /\ currDistanceToNode[dest[t]] \in Nat /\ currDistanceToNode[start[t]] = 0
  <2>1. start[t] \in Nodes /\ dest[t] \in Nodes
    BY DEF TypeOK, IndicesOK, Active
  <2>2. currDistanceToNode[dest[t]] \in 0..MAX_VALUE
    BY <2>1 DEF SearchInv, QueueInv
  <2> QED BY <2>1, <2>2 DEF SearchInv, StartInv
<1>2. \A n \in Nodes : currDistanceToNode[n] < currDistanceToNode[dest[t]] =>
        \A i \in 1..Len(grid[n]) : Relaxed(n, i)
  <2>1. SUFFICES ASSUME NEW n \in Nodes, currDistanceToNode[n] < currDistanceToNode[dest[t]]
                 PROVE  \A i \in 1..Len(grid[n]) : Relaxed(n, i)
    OBVIOUS
  <2>2. nodeTouched[dest[t]] /\ currDistanceToNode[n] \in Int
    BY DEF SearchInv, LastInv, TypeOK, SharedTypes
  <2>3. nodeTouched[n]
    BY <1>1, <2>1, <2>2 DEF SearchInv, OrderInv
  <2>4. n # dest[t]
    BY <1>1, <2>1
  <2> QED BY <2>3, <2>4 DEF SearchInv, SettledInv
<1>3. /\ IsWalk(x.nodes, x.odometer) /\ x.nodes[1] = start[t]
      /\ x.nodes[Len(x.nodes)] = dest[t]
  BY DEF VoyagesBetween
<1>4. Len(x.odometer) = Len(x.nodes) /\ Len(x.nodes) \in 1..Len(x.nodes)
  BY <1>3 DEF IsWalk, WalkIn
<1>5. \A i \in 1..Len(x.nodes) :
        \/ currDistanceToNode[x.nodes[i]] <= x.odometer[i]
        \/ currDistanceToNode[dest[t]] <= x.odometer[i]
  BY <1>1, <1>2, <1>3, WalkBound
<1> QED BY <1>3, <1>4, <1>5

\* When the heap runs empty, no voyage leads to the destination.
LEMMA EmptyHeapIsRight ==
  ASSUME TypeOK, NEW t \in Threads, SearchInv(t), pc[t] = "loop", queue = {}
  PROVE  VoyagesBetween(start[t], dest[t]) = {}
<1>1. SUFFICES ASSUME NEW x \in VoyagesBetween(start[t], dest[t]) PROVE FALSE
  OBVIOUS
<1>2. dest[t] \in Nodes /\ ~nodeTouched[dest[t]]
  BY DEF TypeOK, IndicesOK, Active, SearchInv, LastInv
<1>3. \A n \in Nodes : currDistanceToNode[n] < MAX_VALUE => nodeTouched[n]
  BY DEF SearchInv, QueueInv
<1>4. \A n \in Nodes : currDistanceToNode[n] < MAX_VALUE =>
        \A i \in 1..Len(grid[n]) : Relaxed(n, i)
  BY <1>2, <1>3 DEF SearchInv, SettledInv
<1>5. currDistanceToNode[start[t]] < MAX_VALUE
  BY RouterAssumption DEF SearchInv, StartInv
<1>6. /\ IsWalk(x.nodes, x.odometer) /\ x.nodes[1] = start[t]
      /\ x.nodes[Len(x.nodes)] = dest[t]
  BY DEF VoyagesBetween
<1>7. Len(x.nodes) \in 1..Len(x.nodes)
  BY <1>6 DEF IsWalk, WalkIn
<1>8. currDistanceToNode[dest[t]] < MAX_VALUE
  BY <1>4, <1>5, <1>6, <1>7, WalkReached
<1> QED BY <1>2, <1>3, <1>8
\* No voyage to the node in hand is shorter than its distance.
LEMMA TakenIsOptimal ==
  ASSUME TypeOK, NEW t \in Threads, SearchInv(t), pc[t] = "relax",
         NEW x \in VoyagesBetween(start[t], node[t])
  PROVE  currDistanceToNode[node[t]] <= x.odometer[Len(x.odometer)]
<1>1. /\ start[t] \in Nodes /\ node[t] \in Nodes
      /\ currDistanceToNode[node[t]] \in Nat /\ currDistanceToNode[start[t]] = 0
  <2>1. start[t] \in Nodes /\ node[t] \in Nodes
    BY DEF TypeOK, IndicesOK, Active
  <2>2. currDistanceToNode[node[t]] \in 0..MAX_VALUE
    BY <2>1 DEF SearchInv, QueueInv
  <2> QED BY <2>1, <2>2 DEF SearchInv, StartInv
<1>2. \A n \in Nodes : currDistanceToNode[n] < currDistanceToNode[node[t]] =>
        \A i \in 1..Len(grid[n]) : Relaxed(n, i)
  <2>1. SUFFICES ASSUME NEW n \in Nodes, currDistanceToNode[n] < currDistanceToNode[node[t]]
                 PROVE  \A i \in 1..Len(grid[n]) : Relaxed(n, i)
    OBVIOUS
  <2>2. nodeTouched[node[t]] /\ ~nodeTouched[dest[t]] /\ currDistanceToNode[n] \in Int
    BY DEF SearchInv, LastInv, TypeOK, SharedTypes
  <2>3. nodeTouched[n]
    BY <1>1, <2>1, <2>2 DEF SearchInv, OrderInv
  <2>4. n # node[t] /\ n # dest[t]
    BY <1>1, <2>1, <2>2, <2>3
  <2> QED BY <2>3, <2>4 DEF SearchInv, SettledInv
<1>3. /\ IsWalk(x.nodes, x.odometer) /\ x.nodes[1] = start[t]
      /\ x.nodes[Len(x.nodes)] = node[t]
  BY DEF VoyagesBetween
<1>4. Len(x.odometer) = Len(x.nodes) /\ Len(x.nodes) \in 1..Len(x.nodes)
  BY <1>3 DEF IsWalk, WalkIn
<1>5. \A i \in 1..Len(x.nodes) :
        \/ currDistanceToNode[x.nodes[i]] <= x.odometer[i]
        \/ currDistanceToNode[node[t]] <= x.odometer[i]
  BY <1>1, <1>2, <1>3, WalkBound
<1> QED BY <1>3, <1>4, <1>5

\* The sums of a search fit into an int: the node in hand is reachable, hence
\* at the end of a short voyage, and it is at most as far as that voyage.
LEMMA SumFits ==
  ASSUME TypeOK, grid \in Grids, NEW t \in Threads, SearchInv(t), ReachInv(t),
         pc[t] = "relax", edge[t] <= Len(grid[node[t]])
  PROVE  currDistanceToNode[node[t]] + CurrentEdge(t).dist < MAX_VALUE
<1>1. /\ node[t] \in Nodes /\ edge[t] \in 1..Len(grid[node[t]])
      /\ CurrentEdge(t).dist \in Nat /\ CurrentEdge(t) = grid[node[t]][edge[t]]
  BY CurrentEdgeType DEF CurrentEdge
<1>2. start[t] \in Nodes
  BY DEF TypeOK, IndicesOK, Active
<1>3. PICK area \in SUBSET Nodes :
        /\ start[t] \in area /\ Closed(grid, area)
        /\ \A n \in area : \E v \in Voyages(grid) :
             /\ v.nodes[1] = start[t] /\ v.nodes[Len(v.nodes)] = n
             /\ WalkIn(grid, v.nodes, v.odometer)
             /\ \A i \in 1..Len(grid[n]) :
                  v.odometer[Len(v.odometer)] + grid[n][i].dist < MAX_VALUE
  <2>1. ShortVoyages(grid, start[t])
    BY <1>2, VoyageAssumption
  <2> QED BY <2>1 DEF ShortVoyages
<1>4. node[t] \in area
  <2>1. nodeTouched[node[t]] /\ currDistanceToNode[node[t]] < MAX_VALUE
    BY <1>1 DEF SearchInv, LastInv, OrderInv
  <2>2. node[t] \in queued
    BY <1>1, <2>1 DEF SearchInv, QueueInv
  <2> QED BY <1>3, <2>2 DEF ReachInv
<1>5. PICK v \in Voyages(grid) :
        /\ v.nodes[1] = start[t] /\ v.nodes[Len(v.nodes)] = node[t]
        /\ WalkIn(grid, v.nodes, v.odometer)
        /\ \A i \in 1..Len(grid[node[t]]) :
             v.odometer[Len(v.odometer)] + grid[node[t]][i].dist < MAX_VALUE
  BY <1>3, <1>4
<1>6. v \in VoyagesBetween(start[t], node[t])
  BY <1>5 DEF VoyagesBetween, IsWalk
<1>7. currDistanceToNode[node[t]] <= v.odometer[Len(v.odometer)]
  BY <1>6, TakenIsOptimal
<1>8. v.odometer[Len(v.odometer)] + CurrentEdge(t).dist < MAX_VALUE
  BY <1>1, <1>5
<1>9. v.odometer[Len(v.odometer)] \in Nat
  <2>1. v.odometer \in Seq(Nat) /\ Len(v.odometer) = Len(v.nodes) /\ Len(v.nodes) > 0
    BY <1>5 DEF WalkIn
  <2> QED BY <2>1
<1>10. currDistanceToNode[node[t]] \in Int /\ MAX_VALUE \in Int
  <2>1. MAX_VALUE \in Int
    BY RouterAssumption
  <2> QED BY <1>1, <2>1 DEF TypeOK, SharedTypes
<1> QED BY <1>1, <1>7, <1>8, <1>9, <1>10

\* The inductive invariant, and that the loaded graph never changes.
RouterInv == grid \in Grids /\ IInv

\* The invariant implies that nothing overflows.
LEMMA NoSumOverflows == RouterInv => NoOverflow
<1> SUFFICES ASSUME RouterInv, NEW t \in Threads \ disturbed, pc[t] = "relax",
                    edge[t] <= Len(grid[node[t]])
             PROVE  currDistanceToNode[node[t]] + CurrentEdge(t).dist < MAX_VALUE
  BY DEF NoOverflow
<1>1. TypeOK /\ SearchInv(t) /\ ReachInv(t)
  BY DEF RouterInv, IInv, ThreadInv, Searching
<1>2. grid \in Grids
  BY DEF RouterInv, IInv
<1> QED BY <1>1, <1>2, SumFits
------------------------------------------------------------------------------
\* Reached nodes can be reached, and their predecessors form no circle.

LEMMA AddStartReach ==
  ASSUME NEW t \in Threads, AddStart(t), queued = {}
  PROVE  ReachInv(t)' /\ AcyclicInv(t)'
<1>1. queued' = {start[t]} /\ start' = start /\ grid' = grid
  BY DEF AddStart, HeapAdd, locals
<1>2. ReachInv(t)'
  BY <1>1 DEF ReachInv
<1>3. AcyclicInv(t)'
  BY <1>1 DEF AcyclicInv
<1> QED BY <1>2, <1>3

LEMMA RelaxReach ==
  ASSUME TypeOK, NEW t \in Threads, RelaxEdge(t), SearchInv(t), ReachInv(t), AcyclicInv(t)
  PROVE  ReachInv(t)' /\ AcyclicInv(t)'
<1> DEFINE u == node[t]
           v == CurrentEdge(t).dest
<1>1. u \in Nodes /\ edge[t] \in 1..Len(grid[u]) /\ v = grid[u][edge[t]].dest /\ v \in Nodes
  BY CurrentEdgeType DEF RelaxEdge, CurrentEdge
<1>2. start' = start /\ grid' = grid /\ pc[t] = "relax"
  BY DEF RelaxEdge
<1>3. nodeTouched[u] /\ u \in queued
  <2>1. nodeTouched[u] /\ currDistanceToNode[u] < MAX_VALUE
    BY <1>1, <1>2 DEF SearchInv, LastInv, OrderInv
  <2> QED BY <1>1, <2>1 DEF SearchInv, QueueInv
<1>4. CASE ~Improves(t)
  <2>1. queued' = queued /\ previousNode' = previousNode
    BY <1>4 DEF RelaxEdge
  <2> QED BY <1>2, <2>1 DEF ReachInv, AcyclicInv
<1>5. CASE Improves(t)
  <2>1. /\ queued' = queued \cup {v} /\ previousNode' = [previousNode EXCEPT ![v] = u]
        /\ ~nodeTouched[v]
    BY <1>5 DEF RelaxEdge, Improve, HeapAdd, Improves
  <2>2. ReachInv(t)'
    <3> SUFFICES ASSUME NEW area \in SUBSET Nodes, start[t] \in area, Closed(grid, area)
                 PROVE  queued \cup {v} \subseteq area
      BY <1>2, <2>1 DEF ReachInv
    <3>1. queued \subseteq area
      BY DEF ReachInv
    <3>2. v \in area
      BY <1>1, <1>3, <3>1 DEF Closed
    <3> QED BY <3>1, <3>2
  <2>3. AcyclicInv(t)'
    <3> SUFFICES ASSUME NEW S \in SUBSET ((queued \cup {v}) \ {start[t]}), S # {}
                 PROVE  \E n \in S : previousNode'[n] \notin S
      BY <1>2, <2>1 DEF AcyclicInv
    <3>1. /\ queued \subseteq Nodes /\ previousNode \in [Nodes -> Nodes \cup {-1}]
          /\ \A n \in Nodes \ {v} : previousNode'[n] = previousNode[n]
          /\ previousNode'[v] = u /\ u # v
      BY <1>1, <1>3, <2>1 DEF TypeOK, SharedTypes
    <3>2. CASE S \ {v} = {}
      BY <3>1, <3>2
    <3>3. CASE S \ {v} # {}
      <4>1. S \ {v} \in SUBSET (queued \ {start[t]})
        OBVIOUS
      <4>2. PICK n \in S \ {v} : previousNode[n] \notin S \ {v}
        BY <3>3, <4>1 DEF AcyclicInv
      <4>3. n \in Nodes \ {start[t]} /\ n \in queued
        BY <3>1, <4>1
      <4>4. nodeTouched[previousNode[n]]
        BY <4>3 DEF SearchInv, TreeInv, QueueInv
      <4>5. previousNode[n] # v
        BY <2>1, <4>4
      <4> QED BY <3>1, <4>2, <4>3, <4>5
    <3> QED BY <3>2, <3>3
  <2> QED BY <2>2, <2>3
<1> QED BY <1>4, <1>5

\* A step that leaves the reached nodes alone.
LEMMA SameReach ==
  ASSUME NEW t \in Threads, ReachInv(t), AcyclicInv(t),
         UNCHANGED <<grid, start, queued, previousNode>>
  PROVE  ReachInv(t)' /\ AcyclicInv(t)'
BY DEF ReachInv, AcyclicInv

\* The path begins with the destination alone.
LEMMA PathIsSingle ==
  ASSUME TypeOK, NEW t \in Threads, SearchInv(t), NEW id \in queue, TakeClosest(t, id), pc'[t] = "rebuild"
  PROVE  ChainInv(t)'
<1>1. path'[t] = <<id>> /\ queued' = queued /\ id \in queued
  BY DEF TakeClosest, Goto, TypeOK, ThreadTypes, SearchInv, QueueInv
<1> QED BY <1>1 DEF ChainInv

\* Following a predecessor leads to a node that is not on the path yet.
LEMMA ChainStep ==
  ASSUME TypeOK, NEW t \in Threads, SearchInv(t), AcyclicInv(t), PathInv(t), ChainInv(t),
         FollowPrevious(t)
  PROVE  ChainInv(t)'
<1> DEFINE p == previousNode[node[t]]
           q == path[t]
           n == Len(q)
<1>1. /\ q \in Seq(Nodes) /\ n \in Nat /\ n > 0 /\ q[n] = node[t]
      /\ node[t] \in Nodes \ {start[t]} /\ currDistanceToNode[node[t]] < MAX_VALUE
  BY DEF PathInv, FollowPrevious
<1>2. p \in Nodes /\ p \in queued /\ node[t] \in queued
  <2>1. p \in Nodes /\ nodeTouched[p]
    BY <1>1 DEF SearchInv, TreeInv
  <2> QED BY <1>1, <2>1 DEF SearchInv, OrderInv, QueueInv
<1>3. path'[t] = Append(q, p) /\ UNCHANGED <<start, previousNode, queued>>
  BY DEF FollowPrevious, TypeOK, ThreadTypes, shared
<1>4. /\ \A i \in 1..(n - 1) : q[i] # start[t] /\ q[i + 1] = previousNode[q[i]]
      /\ \A i, j \in 1..n : q[i] = q[j] => i = j
      /\ \A i \in 1..n : q[i] \in queued
  BY DEF ChainInv
<1>5. ASSUME NEW k \in 1..n, q[k] = p PROVE FALSE
  <2> DEFINE S == {q[i] : i \in k..n}
  <2>1. S \in SUBSET (queued \ {start[t]})
    <3> SUFFICES ASSUME NEW i \in k..n PROVE q[i] \in queued /\ q[i] # start[t]
      OBVIOUS
    <3>1. i \in 1..n /\ (i = n \/ i \in 1..(n - 1))
      BY <1>1
    <3> QED BY <1>1, <1>4, <3>1
  <2>2. S # {}
    BY <1>1
  <2>3. PICK x \in S : previousNode[x] \notin S
    BY <2>1, <2>2 DEF AcyclicInv
  <2>4. PICK i \in k..n : x = q[i]
    OBVIOUS
  <2>5. CASE i = n
    <3>1. previousNode[x] = q[k] /\ k \in k..n
      BY <1>1, <1>5, <2>4, <2>5
    <3> QED BY <2>3, <3>1
  <2>6. CASE i # n
    <3>1. i \in 1..(n - 1) /\ i + 1 \in k..n
      BY <1>1, <2>6
    <3>2. previousNode[x] = q[i + 1]
      BY <1>4, <2>4, <3>1
    <3> QED BY <2>3, <3>1, <3>2
  <2> QED BY <2>5, <2>6
<1> HIDE DEF p, q
<1>6. /\ Len(path'[t]) = n + 1 /\ path'[t][n + 1] = p
      /\ \A i \in 1..n : path'[t][i] = q[i]
  BY <1>1, <1>2, <1>3
<1>7. \A i \in 1..(n + 1) : path'[t][i] \in queued
  BY <1>1, <1>2, <1>4, <1>6
<1>8. \A i \in 1..n : path'[t][i] # start[t] /\ path'[t][i + 1] = previousNode[path'[t][i]]
  <2> SUFFICES ASSUME NEW i \in 1..n
               PROVE  path'[t][i] # start[t] /\ path'[t][i + 1] = previousNode[path'[t][i]]
    OBVIOUS
  <2>1. CASE i = n
    BY <1>1, <1>6, <2>1 DEF p, q
  <2>2. CASE i # n
    <3>1. i \in 1..(n - 1) /\ i + 1 \in 1..n
      BY <1>1, <2>2
    <3> QED BY <1>4, <1>6, <3>1
  <2> QED BY <2>1, <2>2
<1>9. \A i, j \in 1..(n + 1) : path'[t][i] = path'[t][j] => i = j
  <2> SUFFICES ASSUME NEW i \in 1..(n + 1), NEW j \in 1..(n + 1), path'[t][i] = path'[t][j]
               PROVE  i = j
    OBVIOUS
  <2>1. (i = n + 1 \/ i \in 1..n) /\ (j = n + 1 \/ j \in 1..n)
    BY <1>1
  <2> QED BY <1>4, <1>5, <1>6, <2>1
<1>10. (n + 1) - 1 = n
  BY <1>1
<1> HIDE DEF n
<1> QED BY <1>3, <1>6, <1>7, <1>8, <1>9, <1>10 DEF ChainInv

\* A path of distinct nodes that has not met the start is shorter than the
\* number of nodes, and so fits into the memory.
LEMMA PathFits ==
  ASSUME TypeOK, NEW t \in Threads, Active(t), PathInv(t), ChainInv(t), node[t] # start[t]
  PROVE  Len(path[t]) < MaxPathLength
<1> DEFINE q == path[t]
           n == Len(q)
           S == Nodes \ {start[t]}
<1>1. /\ q \in Seq(Nodes) /\ n \in Nat /\ n > 0 /\ q[n] = node[t] /\ start[t] \in Nodes
      /\ \A i \in 1..n : q[i] \in S
      /\ \A i, j \in 1..n : q[i] = q[j] => i = j
  <2>1. q \in Seq(Nodes) /\ n \in Nat /\ n > 0 /\ q[n] = node[t] /\ start[t] \in Nodes
    BY DEF PathInv, TypeOK, IndicesOK
  <2>2. ASSUME NEW i \in 1..n PROVE q[i] \in S
    <3>1. i = n \/ i \in 1..(n - 1)
      BY <2>1
    <3> QED BY <2>1, <3>1 DEF ChainInv
  <2> QED BY <2>1, <2>2 DEF ChainInv
<1>2. IsFiniteSet(S) /\ Cardinality(S) = Cardinality(Nodes) - 1
  BY <1>1, FS_RemoveElement, MemoryAssumption
<1>3. IsFiniteSet(1..n) /\ Cardinality(1..n) = n
  <2>1. n \in Int /\ 1 \in Int /\ ~(1 > n) /\ n - 1 + 1 = n
    BY <1>1
  <2> HIDE DEF n
  <2> QED BY <2>1, FS_Interval
<1>4. \E f \in [1..n -> S] : \A i, j \in 1..n : f[i] = f[j] => i = j
  <2>1. [i \in 1..n |-> q[i]] \in [1..n -> S]
    BY <1>1
  <2> QED BY <1>1, <2>1
<1>5. n <= Cardinality(S)
  <2>1. PICK f \in [1..n -> S] : \A i, j \in 1..n : f[i] = f[j] => i = j
    BY <1>4
  <2>2. f \in Injection(1..n, S)
    BY <2>1 DEF Injection, IsInjective
  <2> QED BY <1>2, <1>3, <2>2, FS_Injection
<1>6. Cardinality(Nodes) \in Nat
  BY FS_CardinalityType, MemoryAssumption
<1> QED BY <1>1, <1>2, <1>5, <1>6, MemoryAssumption, RouterAssumption

------------------------------------------------------------------------------
\* The inductive step.

\* A step of a thread that no other overlaps re-establishes its invariant.
LEMMA ThreadInvStep ==
  ASSUME TypeOK, NoOverflow, NEW t \in Threads \ disturbed, ThreadInv(t), Step(t)
  PROVE  ThreadInv(t)'
<1>1. CASE resetState(t)
  BY <1>1 DEF resetState, Goto, ThreadInv, Searching, Cleared, TypeOK, ThreadTypes
<1>2. CASE AddStart(t)
  <2>1. SearchInv(t)' /\ pc'[t] = "loop"
    BY <1>2, AddStartInv DEF ThreadInv, Cleared, AddStart, Goto, TypeOK, ThreadTypes
  <2>2. ReachInv(t)' /\ AcyclicInv(t)'
    BY <1>2, AddStartReach DEF ThreadInv, Cleared, AddStart
  <2> QED BY <2>1, <2>2 DEF ThreadInv
<1>3. CASE \E id \in queue : TakeClosest(t, id)
  <2>1. PICK id \in queue : TakeClosest(t, id)
    BY <1>3
  <2>2. SearchInv(t) /\ ReachInv(t) /\ AcyclicInv(t) /\ pc'[t] \in {"relax", "rebuild"}
    BY <2>1 DEF TakeClosest, ThreadInv, Searching, Goto, TypeOK, ThreadTypes
  <2>3. SearchInv(t)' /\ (pc'[t] = "rebuild" => PathInv(t)')
    BY <2>1, <2>2, TakeClosestInv, PathStart
  <2>4. ReachInv(t)' /\ AcyclicInv(t)'
    BY <2>1, <2>2, SameReach DEF TakeClosest
  <2>5. pc'[t] = "rebuild" => ChainInv(t)'
    BY <2>1, <2>2, PathIsSingle
  <2> QED BY <2>2, <2>3, <2>4, <2>5 DEF ThreadInv
<1>4. CASE RelaxEdge(t)
  <2>1. SearchInv(t) /\ ReachInv(t) /\ AcyclicInv(t) /\ pc'[t] = "relax"
    BY <1>4 DEF RelaxEdge, ThreadInv, Searching
  <2> QED BY <1>4, <2>1, RelaxEdgeInv, RelaxReach DEF ThreadInv
<1>5. CASE EdgesDone(t)
  <2>1. SearchInv(t) /\ ReachInv(t) /\ AcyclicInv(t) /\ pc'[t] = "loop"
    BY <1>5 DEF EdgesDone, ThreadInv, Searching, Goto, TypeOK, ThreadTypes
  <2>2. ReachInv(t)' /\ AcyclicInv(t)'
    BY <1>5, <2>1, SameReach DEF EdgesDone, shared, locals
  <2> QED BY <1>5, <2>1, <2>2, EdgesDoneInv DEF ThreadInv
<1>6. CASE FollowPrevious(t)
  <2>1. /\ SearchInv(t) /\ ReachInv(t) /\ AcyclicInv(t) /\ PathInv(t) /\ ChainInv(t)
        /\ pc'[t] = "rebuild"
    BY <1>6 DEF FollowPrevious, ThreadInv, Searching
  <2>2. ReachInv(t)' /\ AcyclicInv(t)'
    BY <1>6, <2>1, SameReach DEF FollowPrevious, shared
  <2> QED BY <1>6, <2>1, <2>2, FollowPreviousInv, PathStep, ChainStep DEF ThreadInv
<1>7. ASSUME NEW r, Leave(t, r) PROVE ThreadInv(t)'
  <2>1. pc'[t] = "idle"
    BY <1>7 DEF Leave, Goto, TypeOK, ThreadTypes
  <2> QED BY <2>1 DEF ThreadInv, Searching
<1>8. CASE EnterLoop(t)
  <2>1. SearchInv(t) /\ ReachInv(t) /\ AcyclicInv(t)
    BY <1>8 DEF EnterLoop, ThreadInv, Searching
  <2>2. ReachInv(t)' /\ AcyclicInv(t)'
    BY <1>8, <2>1, SameReach DEF EnterLoop, shared, locals
  <2> QED BY <1>8, <2>1, <2>2, EnterLoopInv DEF ThreadInv
<1> QED BY <1>1, <1>2, <1>3, <1>4, <1>5, <1>6, <1>7, <1>8
        DEF Step, HeapUnderflow, AddOutOfBounds, NoRoute, IndexOutOfBounds, OutOfMemory,
            ReturnRoute, Return

\* An answer stays correct as long as it and the arguments of its call stay.
LEMMA AnswerStays ==
  ASSUME NEW u \in Threads, FoundIsShortest(u), NotFoundIsRight(u), grid' = grid,
         result'[u] = result[u], start'[u] = start[u], dest'[u] = dest[u]
  PROVE  FoundIsShortest(u)' /\ NotFoundIsRight(u)'
<1>1. VoyagesBetween(start[u], dest[u])' = VoyagesBetween(start[u], dest[u])
  BY DEF VoyagesBetween, IsWalk, WalkIn
<1>2. IsWalk(result[u].path, result[u].odometer)' <=> IsWalk(result[u].path, result[u].odometer)
  BY DEF IsWalk, WalkIn
<1>3. NotFoundIsRight(u)'
  BY <1>1 DEF NotFoundIsRight
<1>4. ASSUME result[u].kind = "found"
      PROVE  /\ IsWalk(result[u].path, result[u].odometer)'
             /\ (result[u].path[1] = start[u])'
             /\ (result[u].path[Len(result[u].path)] = dest[u])'
             /\ (result[u].odometer[Len(result[u].path)] = result[u].distance)'
  BY <1>2, <1>4 DEF FoundIsShortest
<1>5. ASSUME result[u].kind = "found"
      PROVE  (\A v \in VoyagesBetween(start[u], dest[u]) :
               result[u].distance <= v.odometer[Len(v.odometer)])'
  BY <1>1, <1>5 DEF FoundIsShortest
<1>6. FoundIsShortest(u)'
  BY <1>4, <1>5 DEF FoundIsShortest
<1> QED BY <1>3, <1>6

\* A thread that returns leaves the results of the others alone.
LEMMA ReturnResult ==
  ASSUME TypeOK, NEW t \in Threads, NEW r, Leave(t, r)
  PROVE  result'[t] = r /\ \A u \in Threads \ {t} : result'[u] = result[u]
BY DEF Leave, TypeOK, ThreadTypes

\* A step changes neither the grid nor the arguments of a call.
LEMMA StepFrame ==
  ASSUME NEW t \in Threads, Step(t)
  PROVE  UNCHANGED <<grid, start, dest, disturbed>>
BY DEF Step, resetState, AddStart, EnterLoop, TakeClosest, HeapUnderflow, RelaxEdge,
       AddOutOfBounds, EdgesDone, NoRoute, FollowPrevious, IndexOutOfBounds, OutOfMemory,
       ReturnRoute, Return, Leave, locals

\* What a thread that no other overlaps returns is correct.
LEMMA AnswerIsRight ==
  ASSUME TypeOK, NEW t \in Threads, ThreadInv(t), Step(t), result' # result
  PROVE  FoundIsShortest(t)' /\ NotFoundIsRight(t)'
<1>1. UNCHANGED <<grid, start, dest>>
  BY StepFrame
<1>2. \A s, d : VoyagesBetween(s, d)' = VoyagesBetween(s, d)
  BY <1>1 DEF VoyagesBetween, IsWalk, WalkIn
<1>3. CASE NoRoute(t)
  <2>1. result'[t] = EmptyResult("notFound")
    BY <1>3, ReturnResult DEF NoRoute, Return
  <2>2. VoyagesBetween(start[t], dest[t]) = {}
    BY <1>3, EmptyHeapIsRight DEF NoRoute, HeapIsEmpty, ThreadInv, Searching
  <2> QED BY <1>1, <1>2, <2>1, <2>2 DEF FoundIsShortest, NotFoundIsRight, EmptyResult
<1>4. CASE Leave(t, EmptyResult("exception"))
  <2>1. result'[t] = EmptyResult("exception")
    BY <1>4, ReturnResult
  <2> QED BY <2>1 DEF FoundIsShortest, NotFoundIsRight, EmptyResult
<1>5. CASE ReturnRoute(t)
  <2> DEFINE q == Reversed(path[t])
             odo == [i \in 1..Len(path[t]) |-> currDistanceToNode[q[i]]]
             r == [kind |-> "found", path |-> q, odometer |-> odo,
                   distance |-> currDistanceToNode[dest[t]]]
  <2>1. pc[t] = "rebuild" /\ node[t] = start[t] /\ Return(t, r) /\ SearchInv(t) /\ PathInv(t)
    BY <1>5 DEF ReturnRoute, ThreadInv, Searching
  <2>2. /\ IsWalk(q, odo) /\ q[1] = start[t] /\ q[Len(q)] = dest[t]
        /\ odo[Len(q)] = currDistanceToNode[dest[t]]
    BY <2>1, PathIsWalk
  <2>3. \A x \in VoyagesBetween(start[t], dest[t]) :
          currDistanceToNode[dest[t]] <= x.odometer[Len(x.odometer)]
    BY <2>1, DestinationIsOptimal
  <2>4. result'[t] = r
    BY <2>1, ReturnResult DEF Return
  <2> HIDE DEF q, odo
  <2>5. /\ result'[t].kind = "found" /\ result'[t].path = q /\ result'[t].odometer = odo
        /\ result'[t].distance = currDistanceToNode[dest[t]]
    BY <2>4
  <2> QED BY <1>1, <1>2, <2>2, <2>3, <2>5 DEF FoundIsShortest, NotFoundIsRight, IsWalk, WalkIn
<1> QED BY <1>3, <1>4, <1>5
        DEF Step, resetState, AddStart, EnterLoop, TakeClosest, HeapUnderflow, RelaxEdge,
            AddOutOfBounds, EdgesDone, FollowPrevious, IndexOutOfBounds, OutOfMemory, Return

\* A step leaves the answer to every call that no other overlaps correct.
LEMMA ResultStep ==
  ASSUME TypeOK, AloneIsShortest, NEW t \in Threads, t \notin disturbed => ThreadInv(t), Step(t)
  PROVE  AloneIsShortest'
<1>1. UNCHANGED <<grid, start, dest, disturbed>>
  BY StepFrame
<1>2. ASSUME NEW u \in Threads \ disturbed, result'[u] = result[u]
      PROVE  (FoundIsShortest(u) /\ NotFoundIsRight(u))'
  BY <1>1, <1>2, AnswerStays DEF AloneIsShortest
<1>3. \A u \in Threads \ {t} : result'[u] = result[u]
  BY ThreadStep DEF OnlyThread
<1>4. t \notin disturbed => (FoundIsShortest(t) /\ NotFoundIsRight(t))'
  BY <1>2, AnswerIsRight
<1> QED BY <1>1, <1>2, <1>3, <1>4 DEF AloneIsShortest

\* A step of a thread that no other overlaps throws nothing: its heap is not
\* empty when it takes a node, the size of the heap is not negative, its path
\* never meets -1 and is never too long.
LEMMA ThrowStep ==
  ASSUME TypeOK, NeverThrows, NEW t \in Threads, t \notin disturbed => ThreadInv(t), Step(t)
  PROVE  NeverThrows'
<1>1. disturbed' = disturbed /\ \A u \in Threads \ {t} : result'[u] = result[u]
  BY StepFrame, ThreadStep DEF OnlyThread
<1>2. SUFFICES ASSUME t \notin disturbed PROVE result'[t].kind # "exception"
  BY <1>1 DEF NeverThrows
<1>3. ~IndexOutOfBounds(t)
  BY <1>2, RouterAssumption DEF IndexOutOfBounds, ThreadInv, PathInv
<1>4. ~OutOfMemory(t)
  <2> SUFFICES ASSUME OutOfMemory(t) PROVE FALSE
    OBVIOUS
  <2>1. PathInv(t) /\ ChainInv(t) /\ Active(t) /\ node[t] # start[t]
    BY <1>2 DEF OutOfMemory, ThreadInv, Active
  <2>2. Len(path[t]) \in Nat /\ Len(path[t]) >= MaxPathLength
    BY <2>1 DEF OutOfMemory, PathInv
  <2> QED BY <2>1, <2>2, PathFits, RouterAssumption
<1>5. CASE NoRoute(t)
  <2>1. result'[t] = EmptyResult("notFound")
    BY <1>5, ReturnResult DEF NoRoute, Return
  <2> QED BY <2>1 DEF EmptyResult
<1>6. CASE ReturnRoute(t)
  BY <1>6, ReturnResult DEF ReturnRoute, Return
<1>7. CASE result' = result
  BY <1>2, <1>7 DEF NeverThrows
<1>8. ~HeapUnderflow(t)
  BY <1>2 DEF HeapUnderflow, ThreadInv, Searching, SearchInv, QueueInv
<1>9. ~AddOutOfBounds(t)
  BY <1>2 DEF AddOutOfBounds, AddThrows, ThreadInv, Cleared, Searching, SearchInv, QueueInv
<1> QED BY <1>3, <1>4, <1>5, <1>6, <1>7, <1>8, <1>9
        DEF Step, resetState, AddStart, EnterLoop, TakeClosest, RelaxEdge, EdgesDone,
            FollowPrevious

\* A step of a running request keeps the invariant.  If the request is
\* overlapped, no request that is not overlapped is running.
LEMMA RunningStep ==
  ASSUME RouterInv, NoOverflow, NEW t \in Threads, Step(t), TypeOK'
  PROVE  RouterInv'
<1>1. Active(t) /\ OnlyThread(t) /\ disturbed' = disturbed
  BY StepIsActive, ThreadStep, StepFrame DEF RouterInv, IInv
<1>2. \A u \in Threads \ {t} : Active(u)' <=> Active(u)
  BY <1>1 DEF OnlyThread, Active
<1>3. Alone'
  BY <1>1, <1>2 DEF RouterInv, IInv, Alone
<1>4. AloneIsShortest' /\ NeverThrows'
  BY ResultStep, ThrowStep DEF RouterInv, IInv
<1>5. ASSUME NEW u \in Threads \ disturbed, u # t PROVE ThreadInv(u)'
  <2>1. pc[u] = "idle"
    BY <1>1, <1>5 DEF RouterInv, IInv, Alone, Active
  <2>2. pc'[u] = "idle"
    BY <1>1, <1>5, <2>1 DEF OnlyThread
  <2> QED BY <2>2 DEF ThreadInv, Searching
<1>6. t \notin disturbed => ThreadInv(t)'
  BY ThreadInvStep DEF RouterInv, IInv
<1>7. grid' = grid
  BY StepFrame
<1> QED BY <1>1, <1>3, <1>4, <1>5, <1>6, <1>7 DEF RouterInv, IInv

\* A new request keeps the invariant: it overlaps every running request, or
\* there is none.
LEMMA CallStep ==
  ASSUME RouterInv, NEW t \in Threads, NEW s \in Nodes, NEW d \in Nodes, Call(t, s, d), TypeOK'
  PROVE  RouterInv'
<1>1. /\ pc' = [pc EXCEPT ![t] = "reset"] /\ grid' = grid
      /\ start' = [start EXCEPT ![t] = s] /\ dest' = [dest EXCEPT ![t] = d]
      /\ result' = [result EXCEPT ![t] = NoResult]
  BY DEF Call, Goto
<1>2. pc'[t] = "reset" /\ \A u \in Threads \ {t} : pc'[u] = pc[u]
  BY <1>1 DEF RouterInv, IInv, TypeOK, ThreadTypes
<1>3. \A u \in Threads \ {t} : u \notin disturbed' => u \notin disturbed /\ pc[u] = "idle"
  BY DEF Call, Others, Active
<1>4. t \notin disturbed' => \A u \in Threads \ {t} : pc[u] = "idle"
  BY DEF Call, Others, Active
<1>5. Alone'
  BY <1>2, <1>3, <1>4 DEF Alone, Active
<1>6. \A u \in Threads : u \notin disturbed' => ThreadInv(u)'
  BY <1>2, <1>3 DEF ThreadInv, Searching
<1>7. result'[t] = EmptyResult("none") /\ \A u \in Threads \ {t} :
        result'[u] = result[u] /\ start'[u] = start[u] /\ dest'[u] = dest[u]
  BY <1>1 DEF RouterInv, IInv, TypeOK, ThreadTypes, NoResult
<1>8. \A u \in Threads \ {t} : u \notin disturbed' => (FoundIsShortest(u) /\ NotFoundIsRight(u))'
  BY <1>1, <1>3, <1>7, AnswerStays DEF RouterInv, IInv, AloneIsShortest
<1>9. (FoundIsShortest(t) /\ NotFoundIsRight(t))'
  BY <1>7 DEF FoundIsShortest, NotFoundIsRight, EmptyResult
<1>10. NeverThrows'
  BY <1>3, <1>7 DEF RouterInv, IInv, NeverThrows, EmptyResult
<1> QED BY <1>1, <1>5, <1>6, <1>8, <1>9, <1>10 DEF RouterInv, IInv, AloneIsShortest

\* A stuttering step keeps it.
LEMMA StutterStep ==
  ASSUME RouterInv, UNCHANGED vars, TypeOK'
  PROVE  RouterInv'
<1>1. UNCHANGED <<grid, currDistanceToNode, previousNode, nodeTouched, queue, queued, underflow,
                  pc, start, dest, node, edge, path, result, disturbed>>
  BY DEF vars, shared, locals
<1>2. ASSUME NEW t \in Threads \ disturbed PROVE ThreadInv(t)'
  <2>1. Cleared' <=> Cleared
    BY <1>1 DEF Cleared
  <2>2. PathInv(t)' <=> PathInv(t)
    BY <1>1 DEF PathInv, Tight
  <2>3. (StartInv(t)' <=> StartInv(t)) /\ (QueueInv' <=> QueueInv) /\ (OrderInv' <=> OrderInv)
    BY <1>1 DEF StartInv, QueueInv, OrderInv
  <2>4. LastInv(t)' <=> LastInv(t)
    BY <1>1 DEF LastInv
  <2>5. SettledInv(t)' <=> SettledInv(t)
    BY <1>1 DEF SettledInv, Relaxed
  <2>6. TreeInv(t)' <=> TreeInv(t)
    BY <1>1 DEF TreeInv, Tight
  <2>7. (Searching(t)' <=> Searching(t)) /\ pc'[t] = pc[t]
    BY <1>1 DEF Searching
  <2>8. (ReachInv(t)' <=> ReachInv(t)) /\ (AcyclicInv(t)' <=> AcyclicInv(t))
    BY <1>1 DEF ReachInv, AcyclicInv
  <2>9. ChainInv(t)' <=> ChainInv(t)
    BY <1>1 DEF ChainInv
  <2>10. SearchInv(t)' <=> SearchInv(t)
    BY <2>3, <2>4, <2>5, <2>6 DEF SearchInv
  <2>11. (queue # {})' <=> queue # {}
    BY <1>1
  <2> QED BY <1>2, <2>1, <2>2, <2>7, <2>8, <2>9, <2>10, <2>11 DEF RouterInv, IInv, ThreadInv
<1>3. AloneIsShortest' /\ NeverThrows'
  BY <1>1, AnswerStays DEF RouterInv, IInv, AloneIsShortest, NeverThrows
<1>4. Alone'
  BY <1>1 DEF RouterInv, IInv, Alone, Active
<1> QED BY <1>1, <1>2, <1>3, <1>4 DEF RouterInv, IInv

\* A data race keeps it: only overlapped requests meet one, and while they
\* run no request runs that is not overlapped.
LEMMA RaceStep ==
  ASSUME RouterInv, NEW t \in Threads, Race(t), TypeOK'
  PROVE  RouterInv'
<1>1. Active(t) /\ t \in disturbed
  BY DEF Race
<1>2. /\ UNCHANGED <<grid, start, dest, disturbed>>
      /\ \A u \in Threads \ {t} : pc'[u] = pc[u] /\ result'[u] = result[u]
  BY DEF Race, Leave, Goto, locals, RouterInv, IInv, TypeOK, ThreadTypes
<1>3. \A u \in Threads : Active(u)' => Active(u)
  BY <1>1, <1>2 DEF Active
<1>4. Alone'
  BY <1>2, <1>3 DEF RouterInv, IInv, Alone
<1>5. ASSUME NEW u \in Threads \ disturbed
      PROVE  /\ ThreadInv(u)' /\ (FoundIsShortest(u) /\ NotFoundIsRight(u))'
             /\ result'[u].kind # "exception"
  <2>1. u # t /\ pc[u] = "idle"
    BY <1>1 DEF RouterInv, IInv, Alone, Active
  <2>2. pc'[u] = "idle" /\ result'[u] = result[u]
    BY <1>2, <2>1
  <2>3. ThreadInv(u)'
    BY <2>2 DEF ThreadInv, Searching
  <2>4. FoundIsShortest(u) /\ NotFoundIsRight(u) /\ result[u].kind # "exception"
    BY DEF RouterInv, IInv, AloneIsShortest, NeverThrows
  <2> QED BY <1>2, <2>2, <2>3, <2>4, AnswerStays
<1> QED BY <1>2, <1>4, <1>5 DEF RouterInv, IInv, AloneIsShortest, NeverThrows

\* Every step keeps the invariant.
LEMMA InvStep == RouterInv /\ [Next]_vars => RouterInv'
<1> SUFFICES ASSUME RouterInv, [Next]_vars PROVE RouterInv'
  OBVIOUS
<1>1. TypeOK' /\ NoOverflow
  BY TypeStep, NoSumOverflows DEF RouterInv, IInv
<1> QED BY <1>1, RunningStep, RaceStep, CallStep, StutterStep DEF Next

\* The first state satisfies it.
LEMMA InvInit == Init => RouterInv
<1> SUFFICES ASSUME Init PROVE RouterInv
  OBVIOUS
<1>1. TypeOK
  BY TypeInit
<1>2. Alone /\ \A t \in Threads : ThreadInv(t)
  BY DEF Init, Alone, Active, ThreadInv, Searching
<1>3. AloneIsShortest /\ NeverThrows
  BY DEF Init, AloneIsShortest, FoundIsShortest, NotFoundIsRight, NeverThrows, NoResult,
         EmptyResult
<1> QED BY <1>1, <1>2, <1>3 DEF RouterInv, IInv, Init

\* It holds in every reachable state.
LEMMA InvHolds == Spec => []RouterInv
<1> QED BY InvInit, InvStep, PTL DEF Spec

\* The inductive invariant holds, with any number of overlapping requests and
\* whatever their data races leave in the fields of the router.
THEOREM RouterInvariant == Spec => []IInv
<1>1. RouterInv => IInv
  BY DEF RouterInv
<1> QED BY <1>1, InvHolds, PTL

\* On the web server, a request that no other request overlaps is answered
\* with a shortest route, whatever overlapping requests and their data races
\* did to the fields before it.
THEOREM AloneCorrect == Spec => []AloneIsShortest
<1>1. RouterInv => AloneIsShortest
  BY DEF RouterInv, IInv
<1> QED BY <1>1, InvHolds, PTL

\* The 32-bit sums of such a request are the true ones, because every node
\* it takes is at the end of a short voyage.
THEOREM SumsFit == Spec => []NoOverflow
<1> QED BY InvHolds, NoSumOverflows, PTL

\* Such a request throws nothing, although overlapping ones may have left a
\* heap of negative size behind: getNext finds a node, and the path is rebuilt
\* within the memory, also where edges of length 0 form circles.
THEOREM PathIsRebuilt == Spec => []NeverThrows
<1>1. RouterInv => NeverThrows
  BY DEF RouterInv, IInv
<1> QED BY <1>1, InvHolds, PTL

NoOverlap == disturbed = {}

\* One request after the other: none overlaps another.
LEMMA SerialIsAlone == SerialSpec => Spec /\ []NoOverlap
<1>1. Init => NoOverlap
  BY DEF Init, NoOverlap
<1>2. [SerialNext]_vars => [Next]_vars
  BY DEF SerialNext, SerialCall, Next
<1>3. NoOverlap /\ [SerialNext]_vars => NoOverlap'
  <2>1. ASSUME NoOverlap, NEW t \in Threads, Step(t) PROVE NoOverlap'
    BY <2>1, StepFrame DEF NoOverlap
  <2>2. ASSUME NoOverlap, NEW t \in Threads, NEW s \in Nodes, NEW d \in Nodes,
               SerialCall(t, s, d)
        PROVE  NoOverlap'
    BY <2>2 DEF SerialCall, Call, Others, Active, NoOverlap
  <2>3. ASSUME NoOverlap, UNCHANGED vars PROVE NoOverlap'
    BY <2>3 DEF vars, NoOverlap
  <2> QED BY <2>1, <2>2, <2>3 DEF SerialNext
<1> QED BY <1>1, <1>2, <1>3, PTL DEF SerialSpec, Spec

\* Requests that are issued one after the other are answered with shortest
\* routes: in every graph, a route that route() returns is a walk of the
\* returned length, no walk between the two nodes is shorter, and "no route"
\* is only reported if there is no walk.
THEOREM RouteCorrect == SerialSpec => []RouteIsShortest
<1>1. AloneIsShortest /\ NoOverlap => RouteIsShortest
  BY DEF AloneIsShortest, RouteIsShortest, NoOverlap
<1> QED BY <1>1, AloneCorrect, SerialIsAlone, PTL
------------------------------------------------------------------------------
\* The reference computes the distances of the loaded graph.
LEMMA GridDistances ==
  ASSUME grid \in Grids
  PROVE  /\ AreDistances(grid, Nodes, MAX_VALUE, AllDistances[grid])
         /\ \A n \in Nodes : DOMAIN grid[n] = 1..Len(grid[n])
         /\ \A n \in Nodes : \A i \in 1..Len(grid[n]) : grid[n][i].dest \in Nodes /\ grid[n][i].dist \in Nat
<1>1. IsGrid(grid) /\ MAX_VALUE \in Nat
  BY RouterAssumption
<1>2. IsGraph(grid, Nodes)
  BY <1>1 DEF IsGrid, IsGraph
<1>3. AreDistances(grid, Nodes, MAX_VALUE, ShortestDistances(grid, MAX_VALUE))
  BY <1>1, <1>2, RouterAssumption, MemoryAssumption, ReferenceCorrect
<1> QED BY <1>1, <1>3 DEF AllDistances, IsGrid

\* A walk is no shorter than the distance of its ends.
LEMMA WalkMeasured ==
  ASSUME grid \in Grids, NEW D, AreDistances(grid, Nodes, MAX_VALUE, D),
         NEW nodes, NEW odo, IsWalk(nodes, odo)
  PROVE  D[nodes[1]][nodes[Len(nodes)]] <= odo[Len(nodes)]
<1> DEFINE s == nodes[1]
           A == {i \in 1..Len(nodes) : ~(D[s][nodes[i]] <= odo[i])}
<1>1. /\ nodes \in Seq(Nodes) /\ Len(nodes) \in Nat /\ Len(nodes) > 0
      /\ odo \in Seq(Nat) /\ Len(odo) = Len(nodes) /\ odo[1] = 0
  BY DEF IsWalk, WalkIn
<1>2. s \in Nodes
  BY <1>1
<1>3. /\ \A u, v \in Nodes : D[u][v] \in Nat
      /\ \A u \in Nodes : D[u][u] = 0
      /\ \A u \in Nodes : \A i \in DOMAIN grid[u] : D[u][grid[u][i].dest] <= grid[u][i].dist
      /\ \A u, v, w \in Nodes : D[u][w] <= D[u][v] + D[v][w]
  <2>1. MAX_VALUE \in Nat
    BY RouterAssumption
  <2>2. \A u, v \in Nodes : D[u][v] \in Nat /\ D[u][v] <= MAX_VALUE
    BY <2>1, DistanceFields
  <2> QED BY <2>2 DEF AreDistances
<1> HIDE DEF s
<1>4. ASSUME NEW i \in 1..(Len(nodes) - 1), D[s][nodes[i]] <= odo[i]
      PROVE  D[s][nodes[i + 1]] <= odo[i + 1]
  <2>1. i \in 1..Len(nodes) /\ i + 1 \in 1..Len(nodes)
    BY <1>1
  <2>2. /\ nodes[i] \in Nodes /\ nodes[i + 1] \in Nodes
        /\ odo[i] \in Nat /\ odo[i + 1] \in Nat
    BY <1>1, <2>1
  <2>3. PICK k \in 1..Len(grid[nodes[i]]) :
          /\ grid[nodes[i]][k].dest = nodes[i + 1]
          /\ odo[i + 1] = odo[i] + grid[nodes[i]][k].dist
    BY DEF IsWalk, WalkIn
  <2>4. k \in DOMAIN grid[nodes[i]] /\ grid[nodes[i]][k].dist \in Nat
    BY <2>2, <2>3, GridDistances
  <2> DEFINE u == nodes[i]  v == nodes[i + 1]  w == grid[u][k].dist
             a == D[s][u]  b == D[s][v]  c == D[u][v]
  <2>5. a \in Nat /\ b \in Nat /\ c \in Nat /\ c <= w /\ b <= a + c /\ w \in Nat
    BY <1>2, <1>3, <2>2, <2>3, <2>4
  <2>6. a <= odo[i] /\ odo[i + 1] = odo[i] + w
    BY <1>4, <2>3
  <2> HIDE DEF a, b, c, w
  <2>7. b <= odo[i + 1]
    BY <2>2, <2>5, <2>6
  <2> QED BY <2>7 DEF b
<1>5. A \in SUBSET (1..Len(nodes)) /\ 1 \notin A
  BY <1>1, <1>2, <1>3 DEF s
<1>6. \A i \in 1..(Len(nodes) - 1) : i + 1 \in A => i \in A
  BY <1>1, <1>4
<1> HIDE DEF A
<1>7. A = {}
  BY <1>1, <1>5, <1>6, WalkInduction
<1> QED BY <1>1, <1>7 DEF A, s

\* When the destination is taken, its distance is no greater than that of the
\* reference: cut off there, the distances of the search are a potential.
LEMMA DestinationMeasured ==
  ASSUME TypeOK, grid \in Grids, NEW D, AreDistances(grid, Nodes, MAX_VALUE, D),
         NEW t \in Threads, SearchInv(t), pc[t] = "rebuild"
  PROVE  currDistanceToNode[dest[t]] <= D[start[t]][dest[t]]
<1> DEFINE m == currDistanceToNode[dest[t]]
           p == [n \in Nodes |-> IF currDistanceToNode[n] < m THEN currDistanceToNode[n] ELSE m]
<1>1. start[t] \in Nodes /\ dest[t] \in Nodes /\ MAX_VALUE \in Nat
  BY RouterAssumption DEF TypeOK, IndicesOK, Active
<1>2. \A n \in Nodes : currDistanceToNode[n] \in Nat /\ currDistanceToNode[n] <= MAX_VALUE
  <2>1. \A n \in Nodes : currDistanceToNode[n] \in 0..MAX_VALUE
    BY DEF SearchInv, QueueInv
  <2> QED BY <1>1, <2>1
<1>3. m \in Nat /\ m <= MAX_VALUE
  BY <1>1, <1>2
<1> HIDE DEF m
<1>4. ASSUME NEW n \in Nodes, NEW i \in 1..Len(grid[n]), currDistanceToNode[n] < m
      PROVE  currDistanceToNode[grid[n][i].dest] <= currDistanceToNode[n] + grid[n][i].dist
  <2>1. nodeTouched[dest[t]]
    BY DEF SearchInv, LastInv
  <2>2. nodeTouched[n]
    BY <1>1, <1>2, <1>3, <1>4, <2>1 DEF SearchInv, OrderInv, m
  <2>3. n # dest[t]
    BY <1>3, <1>4 DEF m
  <2>4. Relaxed(n, i)
    BY <2>2, <2>3 DEF SearchInv, SettledInv
  <2> QED BY <2>4 DEF Relaxed
<1>5. \A n \in Nodes : /\ p[n] \in Nat /\ p[n] <= MAX_VALUE /\ p[n] <= m
                       /\ p[n] <= currDistanceToNode[n]
                       /\ p[n] = currDistanceToNode[n] \/ p[n] = m
                       /\ currDistanceToNode[n] < m => p[n] = currDistanceToNode[n]
                       /\ ~(currDistanceToNode[n] < m) => p[n] = m
  BY <1>2, <1>3
<1>6. p \in [Nodes -> Int]
  BY <1>2, <1>3
<1> HIDE DEF p
<1>7. GraphPotential(grid, Nodes, MAX_VALUE, p)
  <2>1. ASSUME NEW u \in Nodes, NEW v \in Nodes PROVE p[v] - p[u] <= MAX_VALUE
    <3>1. p[v] \in Nat /\ p[u] \in Nat /\ p[v] <= MAX_VALUE
      BY <1>5
    <3> QED BY <3>1, <1>1
  <2>2. ASSUME NEW u \in Nodes, NEW i \in DOMAIN grid[u] PROVE p[grid[u][i].dest] <= p[u] + grid[u][i].dist
    <3> DEFINE v == grid[u][i].dest  w == grid[u][i].dist
               a == currDistanceToNode[u]  b == currDistanceToNode[v]
    <3>1. i \in 1..Len(grid[u]) /\ v \in Nodes /\ w \in Nat
      BY GridDistances
    <3>2. /\ p[u] \in Nat /\ p[v] \in Nat /\ p[v] <= m /\ p[v] <= b /\ b \in Nat /\ a \in Nat
          /\ a < m => p[u] = a
          /\ ~(a < m) => p[u] = m
      BY <1>2, <1>5, <3>1
    <3>3. a < m => b <= a + w
      BY <1>4, <3>1
    <3> HIDE DEF v, w, a, b
    <3>4. p[v] <= p[u] + w
      BY <3>1, <3>2, <3>3, <1>3
    <3> QED BY <3>4 DEF v, w
  <2> QED BY <1>6, <2>1, <2>2 DEF GraphPotential
<1>8. p[dest[t]] - p[start[t]] <= D[start[t]][dest[t]]
  BY <1>1, <1>7 DEF AreDistances
<1>9. p[start[t]] = 0 /\ p[dest[t]] = m
  <2>1. currDistanceToNode[start[t]] = 0
    BY DEF SearchInv, StartInv
  <2>2. p[start[t]] \in Nat /\ p[start[t]] <= currDistanceToNode[start[t]]
    BY <1>1, <1>5
  <2>3. p[dest[t]] = m
    BY <1>1, <1>3, <1>5 DEF m
  <2> QED BY <2>1, <2>2, <2>3
<1> DEFINE d == D[start[t]][dest[t]]
<1>10. d \in Nat
  BY <1>1, DistanceFields
<1> HIDE DEF d
<1>11. m <= d
  BY <1>3, <1>8, <1>9, <1>10 DEF d
<1> QED BY <1>11 DEF m, d

\* When the heap runs empty, the reference has no way to the destination
\* either: no edge leads from a reached node to one that is not.
LEMMA EmptyHeapMeasured ==
  ASSUME TypeOK, grid \in Grids, NEW D, AreDistances(grid, Nodes, MAX_VALUE, D),
         NEW t \in Threads, SearchInv(t), pc[t] = "loop", queue = {}
  PROVE  D[start[t]][dest[t]] = MAX_VALUE
<1> DEFINE Reached(n) == currDistanceToNode[n] < MAX_VALUE
           p == [n \in Nodes |-> IF Reached(n) THEN 0 ELSE MAX_VALUE]
<1>1. start[t] \in Nodes /\ dest[t] \in Nodes /\ MAX_VALUE \in Nat /\ MAX_VALUE > 0
  BY RouterAssumption DEF TypeOK, IndicesOK, Active
<1>2. \A n \in Nodes : Reached(n) => nodeTouched[n]
  BY DEF SearchInv, QueueInv
<1>3. ~nodeTouched[dest[t]]
  BY DEF SearchInv, LastInv
<1>4. Reached(start[t]) /\ ~Reached(dest[t])
  BY <1>1, <1>2, <1>3 DEF SearchInv, StartInv
<1>5. \A n \in Nodes : Reached(n) => \A i \in 1..Len(grid[n]) : Reached(grid[n][i].dest)
  BY <1>2, <1>3 DEF SearchInv, SettledInv, Relaxed
<1> HIDE DEF Reached
<1>6. GraphPotential(grid, Nodes, MAX_VALUE, p)
  <2>1. ASSUME NEW u \in Nodes, NEW i \in DOMAIN grid[u] PROVE p[grid[u][i].dest] <= p[u] + grid[u][i].dist
    <3> DEFINE v == grid[u][i].dest  w == grid[u][i].dist
    <3>1. i \in 1..Len(grid[u]) /\ v \in Nodes /\ w \in Nat
      BY GridDistances
    <3>2. Reached(u) => Reached(v)
      BY <1>5, <3>1
    <3> HIDE DEF v, w
    <3>3. p[v] <= p[u] + w
      BY <1>1, <3>1, <3>2
    <3> QED BY <3>3 DEF v, w
  <2>2. p \in [Nodes -> Int] /\ \A u, v \in Nodes : p[v] - p[u] <= MAX_VALUE
    BY <1>1
  <2> HIDE DEF p
  <2> QED BY <2>1, <2>2 DEF GraphPotential
<1>7. p[dest[t]] - p[start[t]] <= D[start[t]][dest[t]]
  <2> HIDE DEF p
  <2> QED BY <1>1, <1>6 DEF AreDistances
<1>8. p[start[t]] = 0 /\ p[dest[t]] = MAX_VALUE
  BY <1>1, <1>4
<1> HIDE DEF p
<1> DEFINE d == D[start[t]][dest[t]]
<1>9. d \in Nat /\ d <= MAX_VALUE
  BY <1>1, DistanceFields
<1> HIDE DEF d
<1>10. d = MAX_VALUE
  BY <1>1, <1>7, <1>8, <1>9 DEF d
<1> QED BY <1>10 DEF d

\* What the reference says of the answer to the call of thread t.
AnswerMatches(t) ==
  /\ result[t].kind = "found" => result[t].distance = AllDistances[grid][start[t]][dest[t]]
  /\ result[t].kind = "notFound" => AllDistances[grid][start[t]][dest[t]] = MAX_VALUE

\* What a thread that no other overlaps returns agrees with the reference.
LEMMA AnswerIsMeasured ==
  ASSUME TypeOK, grid \in Grids, NEW t \in Threads, ThreadInv(t), Step(t), result' # result
  PROVE  AnswerMatches(t)'
<1>1. UNCHANGED <<grid, start, dest>>
  BY StepFrame
<1>2. AreDistances(grid, Nodes, MAX_VALUE, AllDistances[grid])
  BY GridDistances
<1> DEFINE d == AllDistances[grid][start[t]][dest[t]]
<1>3. AllDistances[grid]'[start[t]'][dest[t]'] = d
  BY <1>1
<1>4. SUFFICES /\ result'[t].kind = "found" => result'[t].distance = d
               /\ result'[t].kind = "notFound" => d = MAX_VALUE
  BY <1>3 DEF AnswerMatches
<1>5. CASE NoRoute(t)
  <2>1. result'[t] = EmptyResult("notFound")
    BY <1>5, ReturnResult DEF NoRoute, Return
  <2>2. d = MAX_VALUE
    BY <1>2, <1>5, EmptyHeapMeasured DEF NoRoute, HeapIsEmpty, ThreadInv, Searching
  <2> QED BY <2>1, <2>2 DEF EmptyResult
<1>6. CASE Leave(t, EmptyResult("exception"))
  <2>1. result'[t] = EmptyResult("exception")
    BY <1>6, ReturnResult
  <2> QED BY <2>1 DEF EmptyResult
<1>7. CASE ReturnRoute(t)
  <2> DEFINE q == Reversed(path[t])
             odo == [i \in 1..Len(path[t]) |-> currDistanceToNode[q[i]]]
             r == [kind |-> "found", path |-> q, odometer |-> odo,
                   distance |-> currDistanceToNode[dest[t]]]
  <2>1. pc[t] = "rebuild" /\ node[t] = start[t] /\ Return(t, r) /\ SearchInv(t) /\ PathInv(t)
    BY <1>7 DEF ReturnRoute, ThreadInv, Searching
  <2>2. /\ IsWalk(q, odo) /\ q[1] = start[t] /\ q[Len(q)] = dest[t]
        /\ odo[Len(q)] = currDistanceToNode[dest[t]]
    BY <2>1, PathIsWalk
  <2>3. result'[t] = r
    BY <2>1, ReturnResult DEF Return
  <2> HIDE DEF q, odo
  <2>4. result'[t].kind = "found" /\ result'[t].distance = currDistanceToNode[dest[t]]
    BY <2>3
  <2>5. AllDistances[grid][q[1]][q[Len(q)]] <= odo[Len(q)]
    BY <1>2, <2>2, WalkMeasured
  <2>6. d <= currDistanceToNode[dest[t]]
    BY <2>2, <2>5
  <2>7. currDistanceToNode[dest[t]] <= d
    BY <1>2, <2>1, DestinationMeasured
  <2>8. d \in Nat /\ currDistanceToNode[dest[t]] \in Int
    <3>1. start[t] \in Nodes /\ dest[t] \in Nodes /\ MAX_VALUE \in Nat
      BY <2>1, RouterAssumption DEF TypeOK, IndicesOK, Active
    <3> QED BY <1>2, <3>1, DistanceFields DEF TypeOK, SharedTypes
  <2> HIDE DEF d
  <2>9. d = currDistanceToNode[dest[t]]
    BY <2>6, <2>7, <2>8
  <2> QED BY <2>4, <2>9
<1> QED BY <1>5, <1>6, <1>7
        DEF Step, resetState, AddStart, EnterLoop, TakeClosest, HeapUnderflow, RelaxEdge,
            AddOutOfBounds, EdgesDone, FollowPrevious, IndexOutOfBounds, OutOfMemory, Return

\* An answer agrees as long as it and the arguments of its call stay.
LEMMA MatchStays ==
  ASSUME NEW u \in Threads, AnswerMatches(u), grid' = grid,
         result'[u] = result[u], start'[u] = start[u], dest'[u] = dest[u]
  PROVE  AnswerMatches(u)'
BY DEF AnswerMatches

\* The answers to requests that are issued one after the other agree with the
\* reference distances, which Floyd's algorithm computes: a returned distance
\* is the shortest one, and "no route" is only reported if there is none; no
\* request throws.
THEOREM ReferenceMatched == SerialSpec => []MatchesReference
<1> DEFINE Agreed == \A t \in Threads : AnswerMatches(t)
<1>1. Init => Agreed
  BY DEF Init, AnswerMatches, NoResult, EmptyResult
<1>2. RouterInv /\ NoOverlap /\ Agreed /\ [SerialNext]_vars => Agreed'
  <2> SUFFICES ASSUME RouterInv, NoOverlap, Agreed, [SerialNext]_vars PROVE Agreed'
    OBVIOUS
  <2>1. TypeOK /\ grid \in Grids /\ \A t \in Threads : ThreadInv(t)
    BY DEF RouterInv, IInv, NoOverlap
  <2>2. ASSUME NEW t \in Threads, Step(t) PROVE Agreed'
    <3>1. UNCHANGED <<grid, start, dest>>
      BY <2>2, StepFrame
    <3>2. ASSUME NEW u \in Threads, result'[u] = result[u] PROVE AnswerMatches(u)'
      BY <3>1, <3>2, MatchStays
    <3>3. \A u \in Threads \ {t} : result'[u] = result[u]
      BY <2>1, <2>2, ThreadStep DEF OnlyThread
    <3>4. AnswerMatches(t)'
      BY <2>1, <2>2, <3>2, AnswerIsMeasured
    <3> QED BY <3>2, <3>3, <3>4
  <2>3. ASSUME NEW t \in Threads, NEW s \in Nodes, NEW d \in Nodes, Call(t, s, d) PROVE Agreed'
    <3>1. /\ grid' = grid /\ result' = [result EXCEPT ![t] = NoResult]
          /\ start' = [start EXCEPT ![t] = s] /\ dest' = [dest EXCEPT ![t] = d]
      BY <2>3 DEF Call
    <3>2. result'[t] = EmptyResult("none") /\ \A u \in Threads \ {t} :
            result'[u] = result[u] /\ start'[u] = start[u] /\ dest'[u] = dest[u]
      BY <2>1, <3>1 DEF TypeOK, ThreadTypes, NoResult
    <3>3. AnswerMatches(t)'
      BY <3>2 DEF AnswerMatches, EmptyResult
    <3>4. \A u \in Threads \ {t} : AnswerMatches(u)'
      BY <3>1, <3>2, MatchStays
    <3> QED BY <3>3, <3>4
  <2>4. CASE UNCHANGED vars
    <3>1. UNCHANGED <<grid, result, start, dest>>
      BY <2>4 DEF vars, locals
    <3> QED BY <3>1, MatchStays
  <2> QED BY <2>2, <2>3, <2>4 DEF SerialNext, SerialCall
<1>3. RouterInv /\ NoOverlap /\ Agreed => MatchesReference
  BY DEF RouterInv, IInv, NeverThrows, NoOverlap, AnswerMatches, MatchesReference
<1>4. SerialSpec => []RouterInv /\ []NoOverlap
  BY InvHolds, SerialIsAlone, PTL
<1> HIDE DEF Agreed
<1> QED BY <1>1, <1>2, <1>3, <1>4, PTL DEF SerialSpec
==============================================================================
