-------------------------- MODULE DijkstraHeapProofs --------------------------
(***************************************************************************)
(* Proofs about DijkstraHeap, for any set of ids, any distances and any    *)
(* lengths of the array.  The invariant is inductive as it stands because  *)
(* HeapOrder also says what holds around the place of a running sift.      *)
(***************************************************************************)
EXTENDS DijkstraHeap, SharedLemmas

HeapInv == TypeOK /\ PositionsAgree /\ HeapOrder

\* The distance of the id at place i after a step.
DistAfter(i) == currDistanceToNode'[idHeapArray'[i]]

\* HeapOrder after a step.
LEMMA OrderAfter ==
  ASSUME \A i \in 1..(Size' - 1) :
           /\ \/ pc' \in {"upNew", "upOld"} /\ i = pos'
              \/ pc' = "down" /\ Parent(i) = pos'
              \/ DistAfter(Parent(i)) <= DistAfter(i)
           /\ pc' # "ready" /\ Parent(i) = pos' /\ pos' > 0
                => DistAfter(Parent(pos')) <= DistAfter(i)
  PROVE  HeapOrder'
BY DEF HeapOrder, DistAt, DistAfter, Parent

\* Where a place's parent is.
LEMMA ParentFacts ==
  ASSUME NEW i \in Nat, i > 0
  PROVE  /\ Parent(i) \in Nat /\ Parent(i) < i
         /\ i = 2 * Parent(i) + 1 \/ i = 2 * Parent(i) + 2
BY DEF Parent

\* Where a place's children are.
LEMMA ChildFacts ==
  ASSUME NEW i \in Nat
  PROVE  Parent(2 * i + 1) = i /\ Parent(2 * i + 2) = i
BY DEF Parent

LEMMA MinusOneIsNoId == -1 \notin Ids
BY HeapAssumption

LEMMA SizeFacts ==
  ASSUME TypeOK
  PROVE  /\ Size \in Nat /\ Size <= length /\ length \in Nat
         /\ pc # "upNew" => Size = currentSize
         /\ pc = "upNew" => Size = currentSize + 1
         /\ \A i \in 0..(Size - 1) : i \in Nat /\ i < length /\ i \in 0..(length - 1)
BY DEF TypeOK, Size

\* Every place of the heap has an id with a distance, each its own.
LEMMA PlaceFacts ==
  ASSUME TypeOK, PositionsAgree
  PROVE  /\ \A i \in 0..(Size - 1) :
              /\ idHeapArray[i] \in Ids /\ heapPosition[idHeapArray[i]] = i
              /\ idHeapArray[i] \in OnHeap /\ DistAt(i) \in Nat
         /\ \A i, j \in 0..(Size - 1) : idHeapArray[i] = idHeapArray[j] => i = j
<1>1. \A i \in 0..(Size - 1) : idHeapArray[i] \in Ids /\ heapPosition[idHeapArray[i]] = i
  BY DEF PositionsAgree
<1>2. \A i \in 0..(Size - 1) : idHeapArray[i] \in OnHeap
  BY DEF OnHeap
<1>3. \A i \in 0..(Size - 1) : DistAt(i) \in Nat
  <2>1. \A id \in Ids : currDistanceToNode[id] \in Nat
    BY HeapAssumption DEF TypeOK
  <2> QED BY <1>1, <2>1 DEF DistAt
<1>4. \A i, j \in 0..(Size - 1) : idHeapArray[i] = idHeapArray[j] => i = j
  BY <1>1
<1> QED BY <1>1, <1>2, <1>3, <1>4

\* Two ids change places: the same ids are on the heap, and the positions
\* follow them.
LEMMA SwapFacts ==
  ASSUME TypeOK, PositionsAgree, NEW i \in 0..(Size - 1), NEW j \in 0..(Size - 1), i # j,
         swap(i, j),
         UNCHANGED <<length, currentSize, currDistanceToNode, nodeTouched, returnValue, pc>>
  PROVE  /\ idHeapArray' \in [0..(length - 1) -> Ids \cup {-1}]
         /\ heapPosition' \in [Ids -> Int]
         /\ Size' = Size
         /\ OnHeap' = OnHeap
         /\ PositionsAgree'
         /\ DistAfter(i) = DistAt(j) /\ DistAfter(j) = DistAt(i)
         /\ \A k \in 0..(Size - 1) : k # i /\ k # j => DistAfter(k) = DistAt(k)
<1> DEFINE a == idHeapArray[i]
           b == idHeapArray[j]
<1>1. a \in Ids /\ b \in Ids /\ a # b /\ heapPosition[a] = i /\ heapPosition[b] = j
  BY PlaceFacts
<1>2. i \in 0..(length - 1) /\ j \in 0..(length - 1) /\ i \in Int /\ j \in Int
  BY SizeFacts
<1>3. /\ idHeapArray \in [0..(length - 1) -> Ids \cup {-1}]
      /\ heapPosition \in [Ids -> Int]
  BY DEF TypeOK
<1>4. /\ idHeapArray' \in [0..(length - 1) -> Ids \cup {-1}]
      /\ idHeapArray'[i] = b /\ idHeapArray'[j] = a
      /\ \A k \in 0..(length - 1) : k # i /\ k # j => idHeapArray'[k] = idHeapArray[k]
  BY <1>1, <1>2, <1>3 DEF swap
<1>5. /\ heapPosition' \in [Ids -> Int]
      /\ heapPosition'[a] = j /\ heapPosition'[b] = i
      /\ \A id \in Ids : id # a /\ id # b => heapPosition'[id] = heapPosition[id]
  BY <1>1, <1>2, <1>3 DEF swap
<1>6. Size' = Size
  BY DEF Size
<1>7. \A k \in 0..(Size - 1) : k # i /\ k # j =>
        idHeapArray'[k] = idHeapArray[k] /\ idHeapArray[k] # a /\ idHeapArray[k] # b
  BY <1>4, SizeFacts, PlaceFacts
<1>8. OnHeap' = OnHeap
  <2>1. \A id : id \in OnHeap <=> \E k \in 0..(Size - 1) : id = idHeapArray[k]
    BY DEF OnHeap
  <2>2. \A id : id \in OnHeap' <=> \E k \in 0..(Size - 1) : id = idHeapArray'[k]
    BY <1>6 DEF OnHeap
  <2>3. ASSUME NEW id \in OnHeap PROVE id \in OnHeap'
    <3>1. PICK k \in 0..(Size - 1) : id = idHeapArray[k]
      BY <2>1
    <3>2. CASE k = i
      BY <1>4, <2>2, <3>1, <3>2
    <3>3. CASE k = j
      BY <1>4, <2>2, <3>1, <3>3
    <3>4. CASE k # i /\ k # j
      BY <1>7, <2>2, <3>1, <3>4
    <3> QED BY <3>2, <3>3, <3>4
  <2>4. ASSUME NEW id \in OnHeap' PROVE id \in OnHeap
    <3>1. PICK k \in 0..(Size - 1) : id = idHeapArray'[k]
      BY <2>2
    <3>2. CASE k = i
      BY <1>4, <2>1, <3>1, <3>2
    <3>3. CASE k = j
      BY <1>4, <2>1, <3>1, <3>3
    <3>4. CASE k # i /\ k # j
      BY <1>7, <2>1, <3>1, <3>4
    <3> QED BY <3>2, <3>3, <3>4
  <2> QED BY <2>3, <2>4
<1>9. PositionsAgree'
  <2>1. ASSUME NEW k \in 0..(Size - 1)
        PROVE  idHeapArray'[k] \in Ids /\ heapPosition'[idHeapArray'[k]] = k
    <3>1. CASE k = i \/ k = j
      BY <1>1, <1>4, <1>5, <3>1
    <3>2. CASE k # i /\ k # j
      BY <1>5, <1>7, <3>2, PlaceFacts
    <3> QED BY <3>1, <3>2
  <2>2. ASSUME NEW id \in Ids
        PROVE  IF nodeTouched[id]
               THEN id \notin OnHeap
               ELSE heapPosition'[id] = -1 \/ id \in OnHeap
    <3>1. a \in OnHeap /\ b \in OnHeap
      BY PlaceFacts
    <3>2. CASE id = a \/ id = b
      <4>1. ~nodeTouched[id]
        BY <3>1, <3>2 DEF PositionsAgree
      <4> QED BY <3>1, <3>2, <4>1
    <3>3. CASE id # a /\ id # b
      BY <1>5, <3>3 DEF PositionsAgree
    <3> QED BY <3>2, <3>3
  <2> QED BY <1>6, <1>8, <2>1, <2>2 DEF PositionsAgree
<1>10. /\ DistAfter(i) = DistAt(j) /\ DistAfter(j) = DistAt(i)
       /\ \A k \in 0..(Size - 1) : k # i /\ k # j => DistAfter(k) = DistAt(k)
  BY <1>4, <1>7 DEF DistAt, DistAfter
<1> QED BY <1>4, <1>5, <1>6, <1>8, <1>9, <1>10
------------------------------------------------------------------------------
LEMMA EmptyInv ==
  ASSUME idHeapArray = NewArray, length = INITIAL_SIZE, heapPosition = [i \in Ids |-> -1],
         currentSize = 0, currDistanceToNode = [i \in Ids |-> MAX_VALUE],
         nodeTouched = [i \in Ids |-> FALSE], returnValue = -1, pc = "ready", pos \in Nat
  PROVE  HeapInv /\ OnHeap = {}
<1>1. Size = 0
  BY DEF Size
<1>2. TypeOK
  BY <1>1, HeapAssumption DEF TypeOK, NewArray
<1>3. OnHeap = {}
  BY <1>1 DEF OnHeap
<1>4. PositionsAgree /\ HeapOrder
  BY <1>1, <1>3 DEF PositionsAgree, HeapOrder
<1> QED BY <1>2, <1>3, <1>4 DEF HeapInv

LEMMA InitInv == Init => HeapInv
BY EmptyInv DEF Init

LEMMA ResetInv == HeapInv /\ Reset => HeapInv' /\ OnHeap' = {}
<1> SUFFICES ASSUME HeapInv, Reset PROVE HeapInv' /\ OnHeap' = {}
  OBVIOUS
<1>1. pos' \in Nat /\ pc' = "ready"
  BY DEF HeapInv, TypeOK, Reset
<1>2. Size' = 0
  BY <1>1 DEF Size, Reset
<1>3. TypeOK'
  BY <1>1, <1>2, HeapAssumption DEF TypeOK, NewArray, Reset
<1>4. OnHeap' = {}
  BY <1>2 DEF OnHeap
<1>5. PositionsAgree' /\ HeapOrder'
  BY <1>2, <1>4 DEF PositionsAgree, HeapOrder, Reset
<1> QED BY <1>3, <1>4, <1>5 DEF HeapInv

\* A new id is put at the end of the array, which has room for it.
LEMMA AddNewInv ==
  ASSUME HeapInv, NEW id \in Ids, NEW d \in Distances, AddNew(id, d)
  PROVE  HeapInv' /\ OnHeap' = OnHeap \cup {id}
<1> USE DEF HeapInv, AddNew
<1> DEFINE n == currentSize
<1>1. /\ n \in Nat /\ length \in Nat /\ n <= length /\ Size = n
      /\ idHeapArray \in [0..(length - 1) -> Ids \cup {-1}]
      /\ heapPosition \in [Ids -> Int] /\ currDistanceToNode \in [Ids -> 0..MAX_VALUE]
  BY SizeFacts DEF TypeOK
<1>2. /\ GrownLength \in Nat /\ GrownLength >= length /\ n + 1 <= GrownLength
      /\ length' = GrownLength
  BY <1>1, HeapAssumption DEF GrownLength
<1>3. Size' = n + 1
  BY DEF Size
<1>4. /\ idHeapArray' \in [0..(GrownLength - 1) -> Ids \cup {-1}]
      /\ idHeapArray'[n] = id
      /\ \A i \in 0..(n - 1) : idHeapArray'[i] = idHeapArray[i]
  <2> DEFINE new(i) == IF i = n THEN id ELSE IF i < length THEN idHeapArray[i] ELSE -1
  <2>1. idHeapArray' = [i \in 0..(GrownLength - 1) |-> new(i)]
    BY DEF Appended
  <2>2. \A i \in 0..(GrownLength - 1) : new(i) \in Ids \cup {-1}
    BY <1>1, <1>2
  <2>3. new(n) = id /\ \A i \in 0..(n - 1) : new(i) = idHeapArray[i]
    BY <1>1
  <2>4. n \in 0..(GrownLength - 1) /\ \A i \in 0..(n - 1) : i \in 0..(GrownLength - 1)
    BY <1>1, <1>2
  <2> HIDE DEF new
  <2> QED BY <2>1, <2>2, <2>3, <2>4
<1>5. d \in 0..MAX_VALUE /\ currDistanceToNode' \in [Ids -> 0..MAX_VALUE]
  BY <1>1, HeapAssumption
<1>6. heapPosition' \in [Ids -> Int] /\ heapPosition'[id] = n
      /\ \A x \in Ids : x # id => heapPosition'[x] = heapPosition[x]
  BY <1>1
<1>7. TypeOK'
  <2>1. length' \in Nat /\ length' >= INITIAL_SIZE
    BY <1>1, <1>2, HeapAssumption DEF TypeOK
  <2>2. currentSize' \in Nat /\ Size' <= length' /\ pos' \in Nat /\ pos' < Size'
    BY <1>1, <1>2, <1>3
  <2>3. pc' \in {"ready", "upNew", "upOld", "down"}
    OBVIOUS
  <2> QED BY <1>2, <1>4, <1>5, <1>6, <2>1, <2>2, <2>3 DEF TypeOK
<1>8. \A i \in 0..(n - 1) : idHeapArray[i] \in Ids /\ heapPosition[idHeapArray[i]] = i
                            /\ idHeapArray[i] # id
  BY <1>1 DEF PositionsAgree
<1>9. OnHeap' = OnHeap \cup {id}
  <2>1. OnHeap = {idHeapArray[i] : i \in 0..(n - 1)}
    BY <1>1 DEF OnHeap
  <2>2. OnHeap' = {idHeapArray'[i] : i \in 0..n}
    BY <1>1, <1>3 DEF OnHeap
  <2>3. \A i \in 0..n : i = n \/ i \in 0..(n - 1)
    BY <1>1
  <2>4. n \in 0..n /\ \A i \in 0..(n - 1) : i \in 0..n
    BY <1>1
  <2> HIDE DEF n
  <2> QED BY <1>4, <2>1, <2>2, <2>3, <2>4
<1>10. PositionsAgree'
  <2>1. ASSUME NEW i \in 0..n
        PROVE  idHeapArray'[i] \in Ids /\ heapPosition'[idHeapArray'[i]] = i
    <3>1. CASE i = n
      BY <1>4, <1>6, <3>1
    <3>2. CASE i # n
      <4>1. i \in 0..(n - 1)
        BY <1>1, <3>2
      <4> QED BY <1>4, <1>6, <1>8, <4>1
    <3> QED BY <3>1, <3>2
  <2>2. ASSUME NEW x \in Ids
        PROVE  IF nodeTouched[x]
               THEN x \notin OnHeap'
               ELSE heapPosition'[x] = -1 \/ x \in OnHeap'
    BY <1>6, <1>9 DEF PositionsAgree
  <2>3. Size' - 1 = n /\ nodeTouched' = nodeTouched
    BY <1>1, <1>3
  <2> QED BY <2>1, <2>2, <2>3 DEF PositionsAgree
<1>11. \A i \in 0..(n - 1) : DistAfter(i) = DistAt(i)
  BY <1>1, <1>4, <1>8 DEF DistAt, DistAfter
<1>12. HeapOrder'
  <2> SUFFICES ASSUME NEW i \in 1..n, i # n
               PROVE  DistAfter(Parent(i)) <= DistAfter(i) /\ Parent(i) # n
    <3>1. Size' - 1 = n /\ pos' = n /\ pc' = "upNew"
      BY <1>1, <1>3
    <3>2. n \in 1..n => Parent(n) # n
      BY <1>1, ParentFacts
    <3> QED BY <3>1, <3>2, OrderAfter
  <2>1. /\ i \in Nat /\ i > 0 /\ i \in 1..(n - 1)
        /\ Parent(i) \in 0..(n - 1) /\ i \in 0..(n - 1) /\ Parent(i) # n
    BY <1>1, ParentFacts
  <2>2. DistAt(Parent(i)) <= DistAt(i)
    BY <1>1, <2>1 DEF HeapOrder
  <2> QED BY <1>11, <2>1, <2>2
<1> QED BY <1>7, <1>9, <1>10, <1>12

\* An id on the heap gets a lower distance: only its own place may be wrong.
LEMMA AddUpdateInv ==
  ASSUME HeapInv, NEW id \in Ids, NEW d \in Distances, AddUpdate(id, d)
  PROVE  HeapInv' /\ OnHeap' = OnHeap /\ id \in OnHeap
<1> USE DEF HeapInv, AddUpdate
<1> DEFINE n == currentSize
           p == heapPosition[id]
<1>1. /\ n \in Nat /\ Size = n /\ Size' = n /\ currDistanceToNode \in [Ids -> 0..MAX_VALUE]
  BY SizeFacts DEF TypeOK, Size
<1>2. id \in OnHeap
  BY DEF PositionsAgree
<1>3. PICK k \in 0..(n - 1) : id = idHeapArray[k]
  BY <1>1, <1>2 DEF OnHeap
<1>4. p = k /\ p \in 0..(n - 1) /\ idHeapArray[p] = id
  BY <1>1, <1>3, PlaceFacts
<1>5. currDistanceToNode' \in [Ids -> 0..MAX_VALUE]
  BY <1>1, HeapAssumption
<1>6. TypeOK'
  BY <1>1, <1>4, <1>5 DEF TypeOK
<1>7. OnHeap' = OnHeap
  BY <1>1 DEF OnHeap
<1>8. PositionsAgree'
  BY <1>1, <1>7 DEF PositionsAgree
<1>9. \A i \in 0..(n - 1) : i # p => DistAfter(i) = DistAt(i)
  BY <1>1, <1>4, PlaceFacts DEF DistAt, DistAfter
<1>10. DistAfter(p) = d /\ d < DistAt(p) /\ d \in Nat
  BY <1>1, <1>4, HeapAssumption DEF DistAt, DistAfter
<1>11. \A i \in 0..(n - 1) : DistAt(i) \in Nat
  BY <1>1, PlaceFacts
<1>12. \A i \in 1..(n - 1) : /\ DistAt(Parent(i)) <= DistAt(i)
                             /\ Parent(i) \in 0..(n - 1) /\ i \in 0..(n - 1) /\ Parent(i) # i
  <2> SUFFICES ASSUME NEW i \in 1..(n - 1)
               PROVE  /\ DistAt(Parent(i)) <= DistAt(i)
                      /\ Parent(i) \in 0..(n - 1) /\ i \in 0..(n - 1) /\ Parent(i) # i
    OBVIOUS
  <2>1. i \in Nat /\ i > 0
    BY <1>1
  <2> QED BY <1>1, <2>1, ParentFacts DEF HeapOrder
<1>13. HeapOrder'
  <2> SUFFICES ASSUME NEW i \in 1..(n - 1)
               PROVE  /\ i # p => DistAfter(Parent(i)) <= DistAfter(i)
                      /\ Parent(i) = p /\ p > 0 => DistAfter(Parent(p)) <= DistAfter(i)
    <3>1. Size' - 1 = n - 1 /\ pos' = p /\ pc' = "upOld"
      BY <1>1
    <3> QED BY <3>1, OrderAfter
  <2>1. i # p => DistAfter(Parent(i)) <= DistAfter(i)
    BY <1>4, <1>9, <1>10, <1>11, <1>12
  <2>2. ASSUME Parent(i) = p, p > 0 PROVE DistAfter(Parent(p)) <= DistAfter(i)
    <3>1. p \in 1..(n - 1)
      BY <1>1, <1>4, <2>2
    <3>2. DistAt(Parent(p)) <= DistAt(p) /\ DistAt(p) <= DistAt(i)
      BY <1>12, <2>2, <3>1
    <3>3. DistAfter(Parent(p)) = DistAt(Parent(p)) /\ DistAfter(i) = DistAt(i)
      BY <1>9, <1>12, <2>2, <3>1
    <3>4. DistAt(Parent(p)) \in Nat /\ DistAt(p) \in Nat /\ DistAt(i) \in Nat
      BY <1>11, <1>12, <3>1
    <3> QED BY <3>2, <3>3, <3>4
  <2> QED BY <2>1, <2>2
<1> QED BY <1>2, <1>6, <1>7, <1>8, <1>13

\* One step up: the order is now in question at the parent's place only.
LEMMA SiftUpInv == HeapInv /\ SiftUp => HeapInv' /\ OnHeap' = OnHeap
<1> SUFFICES ASSUME HeapInv, SiftUp PROVE HeapInv' /\ OnHeap' = OnHeap
  OBVIOUS
<1> USE DEF HeapInv, SiftUp
<1> DEFINE p == Parent(pos)
<1>1. pos \in Nat /\ pos > 0 /\ pos < Size /\ Size \in Nat
  BY SizeFacts DEF TypeOK
<1>2. p \in 0..(Size - 1) /\ pos \in 0..(Size - 1) /\ p < pos /\ p \in Nat /\ pos \in 1..(Size - 1)
  BY <1>1, ParentFacts
<1>3. /\ idHeapArray' \in [0..(length - 1) -> Ids \cup {-1}]
      /\ heapPosition' \in [Ids -> Int]
      /\ Size' = Size /\ OnHeap' = OnHeap /\ PositionsAgree'
      /\ DistAfter(pos) = DistAt(p) /\ DistAfter(p) = DistAt(pos)
      /\ \A k \in 0..(Size - 1) : k # pos /\ k # p => DistAfter(k) = DistAt(k)
  BY <1>1, <1>2, SwapFacts
<1>4. TypeOK'
  BY <1>1, <1>2, <1>3 DEF TypeOK
<1>5. \A k \in 0..(Size - 1) : DistAt(k) \in Nat
  BY PlaceFacts
<1>6. DistAt(pos) < DistAt(p)
  BY DEF Closer
<1>7. \A i \in 1..(Size - 1) : /\ Parent(i) \in 0..(Size - 1) /\ i \in 0..(Size - 1)
                               /\ Parent(i) \in Nat /\ Parent(i) < i /\ i \in Nat
  <2> SUFFICES ASSUME NEW i \in 1..(Size - 1)
               PROVE  /\ Parent(i) \in 0..(Size - 1) /\ i \in 0..(Size - 1)
                      /\ Parent(i) \in Nat /\ Parent(i) < i /\ i \in Nat
    OBVIOUS
  <2>1. i \in Nat /\ i > 0 /\ i < Size
    BY <1>1
  <2> QED BY <1>1, <2>1, ParentFacts
<1>8. \A i \in 1..(Size - 1) : /\ i # pos => DistAt(Parent(i)) <= DistAt(i)
                               /\ Parent(i) = pos => DistAt(p) <= DistAt(i)
  BY <1>1 DEF HeapOrder
<1> HIDE DEF p
<1>9. ASSUME NEW i \in 1..(Size - 1), i # p PROVE DistAfter(Parent(i)) <= DistAfter(i)
  <2>1. CASE i = pos
    <3>1. Parent(i) = p
      BY <2>1 DEF p
    <3> QED BY <1>2, <1>3, <1>5, <1>6, <2>1, <3>1
  <2>2. CASE i # pos /\ Parent(i) = p
    BY <1>2, <1>3, <1>5, <1>6, <1>7, <1>8, <1>9, <2>2
  <2>3. CASE i # pos /\ Parent(i) = pos
    BY <1>2, <1>3, <1>7, <1>8, <1>9, <2>3
  <2>4. CASE i # pos /\ Parent(i) # p /\ Parent(i) # pos
    BY <1>2, <1>3, <1>7, <1>8, <1>9, <2>4
  <2> QED BY <2>1, <2>2, <2>3, <2>4
<1>10. ASSUME NEW i \in 1..(Size - 1), Parent(i) = p, p > 0
       PROVE  DistAfter(Parent(p)) <= DistAfter(i)
  <2>1. p \in 1..(Size - 1)
    BY <1>1, <1>2, <1>10
  <2>2. DistAt(Parent(p)) <= DistAt(p) /\ Parent(p) # p /\ Parent(p) # pos
    BY <1>2, <1>7, <1>8, <2>1
  <2>3. DistAfter(Parent(p)) = DistAt(Parent(p))
    BY <1>3, <1>7, <2>1, <2>2
  <2>4. CASE i = pos
    BY <1>3, <2>2, <2>3, <2>4
  <2>5. CASE i # pos
    <3>1. DistAt(p) <= DistAt(i) /\ i # p
      BY <1>7, <1>8, <1>10, <2>5
    <3>2. DistAfter(i) = DistAt(i)
      BY <1>3, <1>7, <2>5, <3>1
    <3>3. DistAt(Parent(p)) \in Nat /\ DistAt(p) \in Nat /\ DistAt(i) \in Nat
      BY <1>2, <1>5, <1>7, <2>1
    <3> QED BY <2>2, <2>3, <3>1, <3>2, <3>3
  <2> QED BY <2>4, <2>5
<1>11. HeapOrder'
  <2>1. Size' - 1 = Size - 1 /\ pos' = p /\ pc' \in {"upNew", "upOld"}
    BY <1>3 DEF p
  <2> QED BY <1>9, <1>10, <2>1, OrderAfter
<1> QED BY <1>3, <1>4, <1>11

\* The way up ends where the parent is no farther.
LEMMA SiftUpDoneInv == HeapInv /\ SiftUpDone => HeapInv' /\ OnHeap' = OnHeap
<1> SUFFICES ASSUME HeapInv, SiftUpDone PROVE HeapInv' /\ OnHeap' = OnHeap
  OBVIOUS
<1> USE DEF HeapInv, SiftUpDone
<1>1. Size' = Size /\ Size \in Nat /\ pos \in Nat /\ currentSize' \in Nat /\ pos < Size
  BY SizeFacts DEF TypeOK, Size
<1>2. TypeOK'
  BY <1>1 DEF TypeOK
<1>3. OnHeap' = OnHeap
  BY <1>1 DEF OnHeap
<1>4. PositionsAgree'
  BY <1>1, <1>3 DEF PositionsAgree
<1>5. \A k : DistAfter(k) = DistAt(k)
  BY DEF DistAt, DistAfter
<1>6. ASSUME NEW i \in 1..(Size - 1) PROVE DistAt(Parent(i)) <= DistAt(i)
  <2>1. CASE i = pos
    <3>1. i \in Nat /\ i > 0
      BY <1>1
    <3>2. Parent(i) \in 0..(Size - 1) /\ i \in 0..(Size - 1)
      BY <1>1, <3>1, ParentFacts
    <3>3. DistAt(i) \in Nat /\ DistAt(Parent(i)) \in Nat
      BY <3>2, PlaceFacts
    <3>4. ~(DistAt(i) < DistAt(Parent(i)))
      BY <2>1, <3>1 DEF Closer
    <3> QED BY <3>3, <3>4
  <2>2. CASE i # pos
    BY <2>2 DEF HeapOrder
  <2> QED BY <2>1, <2>2
<1>7. HeapOrder'
  BY <1>1, <1>5, <1>6, OrderAfter
<1> QED BY <1>2, <1>3, <1>4, <1>7

\* The last id moves to the root, where the order is now in question; the
\* id that was there leaves the heap for good.
LEMMA GetNextInv ==
  ASSUME HeapInv, getNext
  PROVE  /\ HeapInv'
         /\ idHeapArray[0] \in OnHeap
         /\ OnHeap' = OnHeap \ {idHeapArray[0]}
<1> USE DEF HeapInv, getNext
<1> DEFINE n == currentSize - 1
           first == idHeapArray[0]
           last == idHeapArray[n]
<1>1. /\ n \in Nat /\ Size = n + 1 /\ Size' = n /\ currentSize' = n /\ length \in Nat
      /\ n + 1 <= length
      /\ idHeapArray \in [0..(length - 1) -> Ids \cup {-1}]
      /\ heapPosition \in [Ids -> Int] /\ nodeTouched \in [Ids -> BOOLEAN]
  BY SizeFacts DEF TypeOK, Size
<1>2. 0 \in 0..n /\ n \in 0..n /\ Size - 1 = n
  BY <1>1
<1>3. /\ \A i \in 0..n : idHeapArray[i] \in Ids /\ heapPosition[idHeapArray[i]] = i
                         /\ idHeapArray[i] \in OnHeap
      /\ \A i, j \in 0..n : idHeapArray[i] = idHeapArray[j] => i = j
  BY <1>2, PlaceFacts
<1>4. first \in Ids /\ last \in Ids /\ first \in OnHeap /\ last \in OnHeap
  BY <1>2, <1>3
<1>5. /\ idHeapArray' \in [0..(length - 1) -> Ids \cup {-1}]
      /\ n > 0 => idHeapArray'[0] = last
      /\ \A i \in 1..(n - 1) : idHeapArray'[i] = idHeapArray[i]
  BY <1>1, <1>4
<1>6. /\ heapPosition' \in [Ids -> Int] /\ heapPosition'[last] = 0
      /\ \A id \in Ids : id # last => heapPosition'[id] = heapPosition[id]
  BY <1>1, <1>4
<1>7. /\ nodeTouched' \in [Ids -> BOOLEAN] /\ nodeTouched'[first] = TRUE
      /\ \A id \in Ids : id # first => nodeTouched'[id] = nodeTouched[id]
  BY <1>1, <1>4
<1>8. TypeOK'
  BY <1>1, <1>4, <1>5, <1>6, <1>7 DEF TypeOK
<1> HIDE DEF n, first, last
<1>9. OnHeap' = OnHeap \ {first}
  <2>1. \A id : id \in OnHeap <=> \E k \in 0..n : id = idHeapArray[k]
    BY <1>2 DEF OnHeap
  <2>2. \A id : id \in OnHeap' <=> \E k \in 0..(n - 1) : id = idHeapArray'[k]
    BY <1>1 DEF OnHeap
  <2>3. ASSUME NEW id \in OnHeap, id # first PROVE id \in OnHeap'
    <3>1. PICK k \in 0..n : id = idHeapArray[k]
      BY <2>1
    <3>2. k # 0
      BY <2>3, <3>1 DEF first
    <3>3. CASE k = n
      <4>1. 0 \in 0..(n - 1) /\ n > 0
        BY <1>1, <3>2, <3>3
      <4> QED BY <1>5, <2>2, <3>1, <3>3, <4>1 DEF last
    <3>4. CASE k # n
      <4>1. k \in 1..(n - 1) /\ k \in 0..(n - 1)
        BY <1>1, <3>2, <3>4
      <4> QED BY <1>5, <2>2, <3>1, <4>1
    <3> QED BY <3>3, <3>4
  <2>4. ASSUME NEW id \in OnHeap' PROVE id \in OnHeap /\ id # first
    <3>1. PICK k \in 0..(n - 1) : id = idHeapArray'[k]
      BY <2>2
    <3>2. CASE k = 0
      <4>1. n > 0 /\ n # 0
        BY <1>1, <3>1, <3>2
      <4>2. id = last /\ last # first
        BY <1>2, <1>3, <1>5, <3>1, <3>2, <4>1 DEF first, last
      <4> QED BY <1>4, <4>2
    <3>3. CASE k # 0
      <4>1. k \in 1..(n - 1) /\ k \in 0..n
        BY <1>1, <3>3
      <4>2. id = idHeapArray[k] /\ idHeapArray[k] # first
        BY <1>2, <1>3, <1>5, <3>1, <3>3, <4>1 DEF first
      <4> QED BY <2>1, <4>1, <4>2
    <3> QED BY <3>2, <3>3
  <2> QED BY <2>3, <2>4
<1>10. PositionsAgree'
  <2>1. ASSUME NEW k \in 0..(n - 1)
        PROVE  idHeapArray'[k] \in Ids /\ heapPosition'[idHeapArray'[k]] = k
    <3>1. CASE k = 0
      <4>1. n > 0
        BY <1>1, <3>1
      <4> QED BY <1>4, <1>5, <1>6, <3>1, <4>1
    <3>2. CASE k # 0
      <4>1. k \in 1..(n - 1) /\ k \in 0..n /\ k # n
        BY <1>1, <3>2
      <4>2. idHeapArray[k] # last /\ idHeapArray[k] \in Ids /\ heapPosition[idHeapArray[k]] = k
        BY <1>2, <1>3, <4>1 DEF last
      <4> QED BY <1>5, <1>6, <4>1, <4>2
    <3> QED BY <3>1, <3>2
  <2>2. ASSUME NEW id \in Ids
        PROVE  IF nodeTouched'[id]
               THEN id \notin OnHeap'
               ELSE heapPosition'[id] = -1 \/ id \in OnHeap'
    <3>1. CASE id = first
      BY <1>7, <1>9, <3>1
    <3>2. CASE id # first
      <4>1. CASE id = last
        BY <1>4, <1>7, <1>9, <3>2, <4>1 DEF PositionsAgree
      <4>2. CASE id # last
        BY <1>6, <1>7, <1>9, <3>2, <4>2 DEF PositionsAgree
      <4> QED BY <4>1, <4>2
    <3> QED BY <3>1, <3>2
  <2> QED BY <1>1, <2>1, <2>2 DEF PositionsAgree
<1>11. HeapOrder'
  <2> SUFFICES ASSUME NEW i \in 1..(n - 1), Parent(i) # 0
               PROVE  DistAfter(Parent(i)) <= DistAfter(i)
    <3>1. Size' = n /\ pos' = 0 /\ pc' = "down"
      BY <1>1
    <3> QED BY <3>1, OrderAfter
  <2>1. i \in Nat /\ i > 0 /\ i \in 1..(Size - 1)
    BY <1>1
  <2>2. Parent(i) \in 1..(n - 1)
    BY <1>1, <2>1, ParentFacts
  <2>3. DistAt(Parent(i)) <= DistAt(i)
    BY <2>1 DEF HeapOrder
  <2>4. DistAfter(Parent(i)) = DistAt(Parent(i)) /\ DistAfter(i) = DistAt(i)
    BY <1>5, <2>2 DEF DistAt, DistAfter
  <2> QED BY <2>3, <2>4
<1> QED BY <1>4, <1>8, <1>9, <1>10, <1>11 DEF first

\* heapifyTopDown descends to a child that is closer than the root and no
\* farther than the other child, or stays where no child is closer.
LEMMA SmallestFacts ==
  ASSUME HeapInv, pc = "down", NEW i \in 1..(Size - 1), Parent(i) = pos
  PROVE  /\ Smallest(pos) # pos =>
              /\ Smallest(pos) \in 1..(Size - 1) /\ Parent(Smallest(pos)) = pos
              /\ Closer(Smallest(pos), pos)
              /\ DistAt(Smallest(pos)) <= DistAt(i)
         /\ Smallest(pos) = pos => DistAt(pos) <= DistAt(i)
<1>1. pos \in Nat /\ currentSize \in Nat /\ Size = currentSize
  BY SizeFacts DEF HeapInv, TypeOK
<1>2. i \in Nat /\ i > 0 /\ (i = 2 * pos + 1 \/ i = 2 * pos + 2) /\ i < currentSize /\ pos < i
  <2>1. i \in Nat /\ i > 0 /\ i < currentSize
    BY <1>1
  <2> QED BY <2>1, ParentFacts
<1>3. \A k \in 0..(Size - 1) : DistAt(k) \in Nat
  BY PlaceFacts DEF HeapInv
<1> DEFINE left == 2 * pos + 1
           right == 2 * pos + 2
<1>4. /\ left \in Nat /\ right \in Nat /\ left < currentSize /\ left # pos /\ right # pos
      /\ Parent(left) = pos /\ Parent(right) = pos
  BY <1>1, <1>2, ChildFacts
<1>5. /\ pos \in 0..(Size - 1) /\ left \in 1..(Size - 1) /\ left \in 0..(Size - 1)
      /\ right < currentSize => right \in 1..(Size - 1) /\ right \in 0..(Size - 1)
  BY <1>1, <1>2, <1>4
<1>6. Smallest(pos) = LET small == IF Closer(left, pos) THEN left ELSE pos
                      IN  IF right < currentSize /\ Closer(right, small) THEN right ELSE small
  BY <1>4 DEF Smallest
<1>7. i = left \/ i = right
  BY <1>2
<1> HIDE DEF left, right
<1>8. CASE right < currentSize
  BY <1>3, <1>4, <1>5, <1>6, <1>7, <1>8 DEF Closer
<1>9. CASE ~(right < currentSize)
  BY <1>1, <1>2, <1>3, <1>4, <1>5, <1>6, <1>7, <1>9 DEF Closer
<1> QED BY <1>8, <1>9

\* One step down: the order is now in question below the child's place only.
LEMMA SiftDownInv == HeapInv /\ SiftDown => HeapInv' /\ OnHeap' = OnHeap
<1> SUFFICES ASSUME HeapInv, SiftDown PROVE HeapInv' /\ OnHeap' = OnHeap
  OBVIOUS
<1> USE DEF HeapInv, SiftDown
<1> DEFINE s == Smallest(pos)
<1>1. pos \in Nat /\ Size = currentSize /\ Size \in Nat
  BY SizeFacts DEF TypeOK
<1>2. 2 * pos + 1 \in 1..(Size - 1) /\ Parent(2 * pos + 1) = pos
  <2>1. 2 * pos + 1 < currentSize \/ 2 * pos + 2 < currentSize
    BY DEF Smallest
  <2> QED BY <1>1, <2>1, ChildFacts
<1>3. s \in 1..(Size - 1) /\ Parent(s) = pos /\ Closer(s, pos)
  BY <1>2, SmallestFacts
<1>4. s \in Nat /\ s > 0 /\ pos < s /\ s \in 0..(Size - 1) /\ pos \in 0..(Size - 1)
  <2>1. s \in Nat /\ s > 0 /\ s \in 0..(Size - 1)
    BY <1>1, <1>3
  <2>2. pos < s
    BY <1>3, <2>1, ParentFacts
  <2> QED BY <1>1, <2>1, <2>2
<1>5. /\ idHeapArray' \in [0..(length - 1) -> Ids \cup {-1}]
      /\ heapPosition' \in [Ids -> Int]
      /\ Size' = Size /\ OnHeap' = OnHeap /\ PositionsAgree'
      /\ DistAfter(pos) = DistAt(s) /\ DistAfter(s) = DistAt(pos)
      /\ \A k \in 0..(Size - 1) : k # pos /\ k # s => DistAfter(k) = DistAt(k)
  BY <1>1, <1>4, SwapFacts
<1>6. TypeOK'
  BY <1>4, <1>5 DEF TypeOK
<1>7. \A k \in 0..(Size - 1) : DistAt(k) \in Nat
  BY PlaceFacts
<1>8. DistAt(s) < DistAt(pos)
  BY <1>3 DEF Closer
<1>9. \A i \in 1..(Size - 1) : /\ Parent(i) \in 0..(Size - 1) /\ i \in 0..(Size - 1)
                               /\ Parent(i) \in Nat /\ Parent(i) < i /\ i \in Nat
  <2> SUFFICES ASSUME NEW i \in 1..(Size - 1)
               PROVE  /\ Parent(i) \in 0..(Size - 1) /\ i \in 0..(Size - 1)
                      /\ Parent(i) \in Nat /\ Parent(i) < i /\ i \in Nat
    OBVIOUS
  <2>1. i \in Nat /\ i > 0 /\ i < Size
    BY <1>1
  <2> QED BY <1>1, <2>1, ParentFacts
<1>10. \A i \in 1..(Size - 1) :
         /\ Parent(i) # pos => DistAt(Parent(i)) <= DistAt(i)
         /\ Parent(i) = pos /\ pos > 0 => DistAt(Parent(pos)) <= DistAt(i)
         /\ Parent(i) = pos => DistAt(s) <= DistAt(i)
  BY SmallestFacts DEF HeapOrder
<1> HIDE DEF s
<1>11. ASSUME NEW i \in 1..(Size - 1), Parent(i) # s PROVE DistAfter(Parent(i)) <= DistAfter(i)
  <2>1. CASE i = s
    BY <1>3, <1>4, <1>5, <1>7, <1>8, <2>1
  <2>2. CASE i # s /\ Parent(i) = pos
    <3>1. i # pos
      BY <1>9, <1>11, <2>2
    <3> QED BY <1>5, <1>9, <1>10, <1>11, <2>2, <3>1
  <2>3. CASE i = pos
    <3>1. Parent(i) # pos /\ Parent(i) # s /\ pos > 0
      BY <1>4, <1>9, <1>11, <2>3
    <3>2. DistAfter(Parent(i)) = DistAt(Parent(pos))
      BY <1>5, <1>9, <1>11, <2>3, <3>1
    <3>3. DistAt(Parent(pos)) <= DistAt(s)
      BY <1>3, <1>10, <3>1
    <3> QED BY <1>5, <2>3, <3>2, <3>3
  <2>4. CASE i # s /\ i # pos /\ Parent(i) # pos
    <3>1. DistAfter(i) = DistAt(i) /\ DistAfter(Parent(i)) = DistAt(Parent(i))
      BY <1>5, <1>9, <1>11, <2>4
    <3> QED BY <1>10, <1>11, <2>4, <3>1
  <2> QED BY <2>1, <2>2, <2>3, <2>4
<1>12. ASSUME NEW i \in 1..(Size - 1), Parent(i) = s PROVE DistAfter(Parent(s)) <= DistAfter(i)
  <2>1. i # s /\ i # pos /\ Parent(i) # pos
    BY <1>4, <1>9, <1>12
  <2>2. DistAfter(i) = DistAt(i) /\ DistAfter(Parent(s)) = DistAt(s)
    BY <1>3, <1>5, <1>9, <1>12, <2>1
  <2>3. DistAt(s) <= DistAt(i)
    BY <1>10, <1>12, <2>1
  <2> QED BY <2>2, <2>3
<1>13. HeapOrder'
  <2>1. Size' - 1 = Size - 1 /\ pos' = s /\ pc' = "down"
    BY <1>5 DEF s
  <2> QED BY <1>11, <1>12, <2>1, OrderAfter
<1> QED BY <1>5, <1>6, <1>13

\* The way down ends where no child is closer.
LEMMA SiftDownDoneInv == HeapInv /\ SiftDownDone => HeapInv' /\ OnHeap' = OnHeap
<1> SUFFICES ASSUME HeapInv, SiftDownDone PROVE HeapInv' /\ OnHeap' = OnHeap
  OBVIOUS
<1> USE DEF HeapInv, SiftDownDone
<1>1. Size' = Size /\ Size \in Nat
  BY SizeFacts DEF Size
<1>2. TypeOK'
  BY <1>1 DEF TypeOK
<1>3. OnHeap' = OnHeap
  BY <1>1 DEF OnHeap
<1>4. PositionsAgree'
  BY <1>1, <1>3 DEF PositionsAgree
<1>5. ASSUME NEW i \in 1..(Size - 1) PROVE DistAt(Parent(i)) <= DistAt(i)
  <2>1. CASE Parent(i) = pos
    BY <2>1, SmallestFacts
  <2>2. CASE Parent(i) # pos
    BY <2>2 DEF HeapOrder
  <2> QED BY <2>1, <2>2
<1>6. \A k : DistAfter(k) = DistAt(k)
  BY DEF DistAt, DistAfter
<1>7. HeapOrder'
  BY <1>1, <1>5, <1>6, OrderAfter
<1> QED BY <1>2, <1>3, <1>4, <1>7
------------------------------------------------------------------------------
LEMMA NextInv == HeapInv /\ [Next]_vars => HeapInv'
<1> SUFFICES ASSUME HeapInv, [Next]_vars PROVE HeapInv'
  OBVIOUS
<1>1. CASE UNCHANGED vars
  BY <1>1 DEF vars, HeapInv, TypeOK, PositionsAgree, HeapOrder, Size, OnHeap, DistAt, Parent
<1> QED
  BY <1>1, ResetInv, AddNewInv, AddUpdateInv, SiftUpInv, SiftUpDoneInv, GetNextInv, SiftDownInv,
     SiftDownDoneInv DEF Next

\* The invariant of the heap between any two swaps.
THEOREM HeapInvariant == Spec => []HeapInv
<1>1. Init => HeapInv
  BY InitInv
<1>2. HeapInv /\ [Next]_vars => HeapInv'
  BY NextInv
<1> QED BY <1>1, <1>2, PTL DEF Spec

\* add() and getNext() never leave the array, and grow() is called in time.
THEOREM HeapFits == Spec => []TypeOK
<1>1. HeapInv => TypeOK
  BY DEF HeapInv
<1> QED BY <1>1, HeapInvariant, PTL

\* heapPosition is the inverse of idHeapArray on the heap, between any two
\* calls of swap, and an id that getNext returned is never added again.
THEOREM PositionsCorrect == Spec => []PositionsAgree
<1>1. HeapInv => PositionsAgree
  BY DEF HeapInv
<1> QED BY <1>1, HeapInvariant, PTL

\* heapifyBottomUp and heapifyTopDown restore the order of the heap.
THEOREM OrderCorrect == Spec => []HeapOrder
<1>1. HeapInv => HeapOrder
  BY DEF HeapInv
<1> QED BY <1>1, HeapInvariant, PTL

\* No id is closer than the one at the root: the first place with a closer
\* id would have a parent that is closer, too.
LEMMA RootIsLeast ==
  ASSUME HeapInv, pc = "ready", NEW i \in 0..(Size - 1)
  PROVE  DistAt(0) <= DistAt(i)
<1>1. Size \in Nat
  BY SizeFacts DEF HeapInv
<1>2. \A k \in 0..(Size - 1) : DistAt(k) \in Nat
  BY PlaceFacts DEF HeapInv
<1>3. 0 \in 0..(Size - 1)
  BY <1>1
<1> DEFINE B == {k \in 0..(Size - 1) : DistAt(k) < DistAt(0)}
<1>4. ASSUME B # {} PROVE FALSE
  <2>1. B \in SUBSET Nat
    BY <1>1
  <2>2. PICK b \in B : \A k \in B : b <= k
    <3> HIDE DEF B
    <3> QED BY <1>4, <2>1, LeastMember
  <2>3. b \in 0..(Size - 1) /\ DistAt(b) < DistAt(0)
    OBVIOUS
  <2>4. b # 0
    BY <1>2, <1>3, <2>3
  <2>5. b \in Nat /\ b > 0 /\ b \in 1..(Size - 1)
    BY <1>1, <2>3, <2>4
  <2>6. Parent(b) \in Nat /\ Parent(b) < b /\ Parent(b) \in 0..(Size - 1)
    BY <1>1, <2>5, ParentFacts
  <2>7. DistAt(Parent(b)) <= DistAt(b)
    BY <2>5 DEF HeapInv, HeapOrder
  <2>8. Parent(b) \in B
    BY <1>2, <1>3, <2>3, <2>6, <2>7
  <2> QED BY <2>2, <2>5, <2>6, <2>8
<1> QED BY <1>2, <1>3, <1>4

\* Every step of the heap is a step of the priority queue or none.
LEMMA StepRefines ==
  ASSUME HeapInv, [Next]_vars
  PROVE  [Queue!PQNext]_<<OnHeap, currDistanceToNode, {id \in Ids : nodeTouched[id]}, returnValue>>
<1> DEFINE popped == {id \in Ids : nodeTouched[id]}
<1>1. CASE Reset
  <2>1. OnHeap' = {}
    BY <1>1, ResetInv
  <2>2. popped' = {}
    BY <1>1 DEF Reset
  <2> QED BY <1>1, <2>1, <2>2 DEF Reset, Queue!PQNext, Queue!PQReset
<1>2. ASSUME NEW id \in Ids, NEW d \in Distances, AddNew(id, d) \/ AddUpdate(id, d)
      PROVE  Queue!PQNext
  <2>1. OnHeap' = OnHeap \cup {id}
    BY <1>2, AddNewInv, AddUpdateInv
  <2>2. id \notin popped /\ popped' = popped /\ d \in 0..(MAX_VALUE - 1)
    BY <1>2, HeapAssumption DEF AddNew, AddUpdate
  <2>3. /\ d < currDistanceToNode[id] /\ returnValue' = returnValue
        /\ currDistanceToNode' = [currDistanceToNode EXCEPT ![id] = d]
    BY <1>2 DEF AddNew, AddUpdate
  <2>4. Queue!PQAdd(id, d)
    BY <2>1, <2>2, <2>3 DEF Queue!PQAdd
  <2> QED BY <2>2, <2>4 DEF Queue!PQNext
<1>3. CASE getNext
  <2> DEFINE first == idHeapArray[0]
  <2>1. first \in OnHeap /\ OnHeap' = OnHeap \ {first}
    BY <1>3, GetNextInv
  <2>2. \A other \in OnHeap : currDistanceToNode[first] <= currDistanceToNode[other]
    <3>1. \A i \in 0..(Size - 1) : DistAt(0) <= DistAt(i)
      BY <1>3, RootIsLeast DEF getNext
    <3> QED BY <3>1 DEF OnHeap, DistAt
  <2>3. first \in Ids
    BY <2>1 DEF HeapInv, PositionsAgree, OnHeap
  <2>4. popped' = popped \cup {first}
    BY <1>3, <2>3 DEF getNext, HeapInv, TypeOK
  <2>5. returnValue' = first /\ currDistanceToNode' = currDistanceToNode
    BY <1>3 DEF getNext
  <2>6. Queue!PQGetNext
    BY <2>1, <2>2, <2>4, <2>5 DEF Queue!PQGetNext
  <2> QED BY <2>6 DEF Queue!PQNext
<1>4. CASE SiftUp \/ SiftUpDone \/ SiftDown \/ SiftDownDone
  <2>1. OnHeap' = OnHeap
    BY <1>4, SiftUpInv, SiftUpDoneInv, SiftDownInv, SiftDownDoneInv
  <2>2. UNCHANGED <<currDistanceToNode, nodeTouched, returnValue>>
    BY <1>4 DEF SiftUp, SiftUpDone, SiftDown, SiftDownDone
  <2> QED BY <2>1, <2>2
<1>5. CASE UNCHANGED vars
  <2>1. OnHeap' = OnHeap
    BY <1>5 DEF vars, OnHeap, Size
  <2> QED BY <1>5, <2>1 DEF vars
<1> QED BY <1>1, <1>2, <1>3, <1>4, <1>5 DEF Next

\* The heap is a priority queue: getNext() hands out a closest id and none
\* twice, whatever ids are added and moved in between.
THEOREM HeapIsQueue == Spec => ImplementsQueue
<1>1. Init => Queue!PQInit
  <2> SUFFICES ASSUME Init PROVE Queue!PQInit
    OBVIOUS
  <2>1. OnHeap = {}
    BY EmptyInv DEF Init
  <2> QED BY <2>1 DEF Init, Queue!PQInit
<1>2. HeapInv /\ [Next]_vars =>
        [Queue!PQNext]_<<OnHeap, currDistanceToNode, {id \in Ids : nodeTouched[id]}, returnValue>>
  BY StepRefines
<1> QED
  BY <1>1, <1>2, HeapInvariant, PTL DEF Spec, ImplementsQueue, Queue!PQSpec, Queue!pqVars
==============================================================================
