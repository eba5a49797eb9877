----------------------------- MODULE DijkstraHeap -----------------------------
(***************************************************************************)
(* router/DijkstraHeap.java: a binary min-heap of node ids in an array,    *)
(* with the position of every id kept beside it so that an id already on   *)
(* the heap is moved instead of being added twice.  The heap compares ids  *)
(* by the distance array of the router that owns it.                       *)
(*                                                                         *)
(* Each recursive call of heapifyBottomUp and heapifyTopDown is a step, so *)
(* that what holds between two swaps can be stated.  Calls come from one   *)
(* router thread and do not overlap: an operation starts in "ready" only.  *)
(***************************************************************************)
EXTENDS Integers

CONSTANTS Ids,            \* the node ids, 0 .. Node.getSize() - 1
          Distances,      \* the distances the router assigns
          MAX_VALUE,      \* Integer.MAX_VALUE
          INITIAL_SIZE,   \* length of a new heap array
          SIZE_INCREASE   \* by how much grow() lengthens it

ASSUME HeapAssumption ==
  /\ Ids \subseteq Nat
  /\ MAX_VALUE \in Nat \ {0}
  /\ Distances \subseteq 0..(MAX_VALUE - 1)
  /\ INITIAL_SIZE \in Nat \ {0}
  /\ SIZE_INCREASE \in Nat \ {0}

VARIABLES
  idHeapArray,         \* the array, a function on 0..(length - 1), -1 = empty
  length,              \* idHeapArray.length
  heapPosition,        \* for each id its index in idHeapArray, -1 = never added
  currentSize,         \* number of ids on the heap
  currDistanceToNode,  \* the router's array, which the heap only reads
  nodeTouched,         \* the router's flags: ids it took from the heap
  returnValue,         \* what getNext returned last
  pc,                  \* "ready", or which operation is sifting
  pos                  \* the array index the sift has arrived at

vars == <<idHeapArray, length, heapPosition, currentSize, currDistanceToNode,
          nodeTouched, returnValue, pc, pos>>

NewArray == [i \in 0..(INITIAL_SIZE - 1) |-> -1]

\* The constructor, and the first resetState: route() resets before every use,
\* and the constructor alone leaves heapPosition all 0.
Init ==
  /\ idHeapArray = NewArray
  /\ length = INITIAL_SIZE
  /\ heapPosition = [i \in Ids |-> -1]
  /\ currentSize = 0
  /\ currDistanceToNode = [i \in Ids |-> MAX_VALUE]
  /\ nodeTouched = [i \in Ids |-> FALSE]
  /\ returnValue = -1
  /\ pc = "ready"
  /\ pos = 0

DistAt(i) == currDistanceToNode[idHeapArray[i]]

\* compareValues(i, j) < 0
Closer(i, j) == DistAt(i) < DistAt(j)

Parent(i) == (i - 1) \div 2

\* Mutant of swap: the recorded positions stay behind.
SwapIdsOnly(i, j) ==
  /\ idHeapArray' = [idHeapArray EXCEPT ![i] = idHeapArray[j],
                                        ![j] = idHeapArray[i]]
  /\ UNCHANGED heapPosition

\* swap: the ids change places, and so do their recorded positions.
swap(i, j) ==
  /\ idHeapArray' = [idHeapArray EXCEPT ![i] = idHeapArray[j],
                                        ![j] = idHeapArray[i]]
  /\ heapPosition' = [heapPosition EXCEPT
                        ![idHeapArray[j]] = heapPosition[idHeapArray[i]],
                        ![idHeapArray[i]] = heapPosition[idHeapArray[j]]]

\* Mutant of GrownLength: the test whether the array is full is off by one.
GrownTooLate == IF currentSize > length THEN length + SIZE_INCREASE ELSE length

\* The length after grow(), which add calls when the array is full.
GrownLength == IF currentSize = length THEN length + SIZE_INCREASE ELSE length

\* The (grown) array with id at its end; the added places hold -1.
Appended(id) ==
  [i \in 0..(GrownLength - 1) |->
     IF i = currentSize THEN id ELSE IF i < length THEN idHeapArray[i] ELSE -1]
------------------------------------------------------------------------------
\* DijkstraRouter.resetState: the router's arrays, then the heap.
Reset ==
  /\ pc = "ready"
  /\ idHeapArray' = NewArray
  /\ length' = INITIAL_SIZE
  /\ heapPosition' = [i \in Ids |-> -1]
  /\ currentSize' = 0
  /\ currDistanceToNode' = [i \in Ids |-> MAX_VALUE]
  /\ nodeTouched' = [i \in Ids |-> FALSE]
  /\ returnValue' = -1
  /\ UNCHANGED <<pc, pos>>

\* The router lowers the distance of an untouched id and calls add(id).
AddNew(id, d) ==
  /\ pc = "ready"
  /\ ~nodeTouched[id]
  /\ d < currDistanceToNode[id]
  /\ heapPosition[id] = -1
  /\ currDistanceToNode' = [currDistanceToNode EXCEPT ![id] = d]
  /\ idHeapArray' = Appended(id)
  /\ length' = GrownLength
  /\ heapPosition' = [heapPosition EXCEPT ![id] = currentSize]
  /\ pc' = "upNew"
  /\ pos' = currentSize
  /\ UNCHANGED <<currentSize, nodeTouched, returnValue>>

\* Mutant of AddUpdate: a lower distance does not move the id.
AddUpdateInPlace(id, d) ==
  /\ pc = "ready"
  /\ ~nodeTouched[id]
  /\ d < currDistanceToNode[id]
  /\ heapPosition[id] # -1
  /\ currDistanceToNode' = [currDistanceToNode EXCEPT ![id] = d]
  /\ UNCHANGED <<idHeapArray, length, heapPosition, currentSize, nodeTouched, returnValue,
                 pc, pos>>

AddUpdate(id, d) ==
  /\ pc = "ready"
  /\ ~nodeTouched[id]
  /\ d < currDistanceToNode[id]
  /\ heapPosition[id] # -1
  /\ currDistanceToNode' = [currDistanceToNode EXCEPT ![id] = d]
  /\ pc' = "upOld"
  /\ pos' = heapPosition[id]
  /\ UNCHANGED <<idHeapArray, length, heapPosition, currentSize, nodeTouched, returnValue>>

\* heapifyBottomUp with something to do, and its return.
SiftUp ==
  /\ pc \in {"upNew", "upOld"}
  /\ pos > 0
  /\ Closer(pos, Parent(pos))
  /\ swap(pos, Parent(pos))
  /\ pos' = Parent(pos)
  /\ UNCHANGED <<length, currentSize, currDistanceToNode, nodeTouched, returnValue, pc>>

SiftUpDone ==
  /\ pc \in {"upNew", "upOld"}
  /\ ~(pos > 0 /\ Closer(pos, Parent(pos)))
  /\ currentSize' = IF pc = "upNew" THEN currentSize + 1 ELSE currentSize
  /\ pc' = "ready"
  /\ UNCHANGED <<idHeapArray, length, heapPosition, currDistanceToNode, nodeTouched,
                 returnValue, pos>>

\* getNext: the last id moves to the root.  The position of the returned id
\* is not cleared; the router marks the id as touched in the same breath.
getNext ==
  /\ pc = "ready"
  /\ currentSize > 0
  /\ LET first == idHeapArray[0]
         last  == idHeapArray[currentSize - 1]
     IN /\ returnValue' = first
        /\ idHeapArray' = [idHeapArray EXCEPT ![0] = last,
                                              ![currentSize - 1] = -1]
        /\ heapPosition' = [heapPosition EXCEPT ![last] = 0]
        /\ nodeTouched' = [nodeTouched EXCEPT ![first] = TRUE]
  /\ currentSize' = currentSize - 1
  /\ pc' = "down"
  /\ pos' = 0
  /\ UNCHANGED <<length, currDistanceToNode>>

\* Mutant of Smallest: the right child is forgotten.
SmallestOrLeft(root) ==
  LET left == 2 * root + 1
  IN  IF left < currentSize /\ Closer(left, root) THEN left ELSE root

\* The child heapifyTopDown compares against and descends to, or root itself.
Smallest(root) ==
  LET left  == 2 * root + 1
      right == 2 * root + 2
      small == IF left < currentSize /\ Closer(left, root) THEN left ELSE root
  IN  IF right < currentSize /\ Closer(right, small) THEN right ELSE small

SiftDown ==
  /\ pc = "down"
  /\ Smallest(pos) # pos
  /\ swap(pos, Smallest(pos))
  /\ pos' = Smallest(pos)
  /\ UNCHANGED <<length, currentSize, currDistanceToNode, nodeTouched, returnValue, pc>>

SiftDownDone ==
  /\ pc = "down"
  /\ Smallest(pos) = pos
  /\ pc' = "ready"
  /\ UNCHANGED <<idHeapArray, length, heapPosition, currentSize, currDistanceToNode,
                 nodeTouched, returnValue, pos>>

Next ==
  \/ Reset
  \/ \E id \in Ids, d \in Distances : AddNew(id, d)
  \/ \E id \in Ids, d \in Distances : AddUpdate(id, d)
  \/ SiftUp
  \/ SiftUpDone
  \/ getNext
  \/ SiftDown
  \/ SiftDownDone

Spec == Init /\ [][Next]_vars

------------------------------------------------------------------------------
\* The ids in idHeapArray[0 .. Size - 1] are on the heap.  add() counts a new
\* id only after it has been sifted.
Size == IF pc = "upNew" THEN currentSize + 1 ELSE currentSize

OnHeap == {idHeapArray[i] : i \in 0..(Size - 1)}

\* Type invariant: the heap fits its array, and a sift stays inside the heap.
TypeOK ==
  /\ length \in Nat /\ length >= INITIAL_SIZE
  /\ idHeapArray \in [0..(length - 1) -> Ids \cup {-1}]
  /\ heapPosition \in [Ids -> Int]
  /\ currentSize \in Nat /\ Size <= length
  /\ currDistanceToNode \in [Ids -> 0..MAX_VALUE]
  /\ nodeTouched \in [Ids -> BOOLEAN]
  /\ returnValue \in Ids \cup {-1}
  /\ pc \in {"ready", "upNew", "upOld", "down"}
  /\ pos \in Nat
  /\ pc \in {"upNew", "upOld"} => pos < Size

\* heapPosition is the inverse of idHeapArray for every id on the heap, even
\* between two swaps; an id that was added and not taken yet is on the heap;
\* a taken id never is again, whatever position is still recorded for it.  If
\* this broke, add() would move the wrong id or lose one (DijkstraHeap.add).
PositionsAgree ==
  /\ \A i \in 0..(Size - 1) :
       idHeapArray[i] \in Ids /\ heapPosition[idHeapArray[i]] = i
  /\ \A id \in Ids :
       IF nodeTouched[id]
       THEN id \notin OnHeap
       ELSE heapPosition[id] = -1 \/ id \in OnHeap

\* No child is closer than its parent, except around the place of a running
\* sift, whose parent and children are in order with each other.  This is
\* what heapifyBottomUp and heapifyTopDown restore for the whole array.
HeapOrder ==
  \A i \in 1..(Size - 1) :
    /\ \/ pc \in {"upNew", "upOld"} /\ i = pos
       \/ pc = "down" /\ Parent(i) = pos
       \/ DistAt(Parent(i)) <= DistAt(i)
    /\ pc # "ready" /\ Parent(i) = pos /\ pos > 0
         => DistAt(Parent(pos)) <= DistAt(i)

\* The heap is a priority queue: the array, the positions and the sifts are
\* invisible, and getNext always returns a closest id.
Queue == INSTANCE PriorityQueue WITH
           queue <- OnHeap,
           key <- currDistanceToNode,
           popped <- {id \in Ids : nodeTouched[id]},
           next <- returnValue

ImplementsQueue == Queue!PQSpec
==============================================================================
