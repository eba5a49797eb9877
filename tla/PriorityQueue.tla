---------------------------- MODULE PriorityQueue ----------------------------
(***************************************************************************)
(* What the router expects of its heap: a queue of node ids ordered by a   *)
(* distance that the router keeps and only ever lowers, which hands out a  *)
(* closest id each time and hands out no id twice between two resets.      *)
(***************************************************************************)
EXTENDS Integers

CONSTANTS Ids,        \* the node ids that may be queued
          MAX_VALUE   \* Integer.MAX_VALUE, the distance of an unreached id

VARIABLES queue,      \* the ids that are queued
          key,        \* the distance of every id, written by the router
          popped,     \* the ids handed out since the last reset
          next        \* the id handed out last, -1 if there is none

pqVars == <<queue, key, popped, next>>

PQInit ==
  /\ queue = {}
  /\ key = [i \in Ids |-> MAX_VALUE]
  /\ popped = {}
  /\ next = -1

PQReset ==
  /\ queue' = {}
  /\ key' = [i \in Ids |-> MAX_VALUE]
  /\ popped' = {}
  /\ next' = -1

\* Insertion and decrease-key are one operation: the id is queued, once.
PQAdd(id, d) ==
  /\ id \notin popped
  /\ d < key[id]
  /\ key' = [key EXCEPT ![id] = d]
  /\ queue' = queue \cup {id}
  /\ UNCHANGED <<popped, next>>

\* Any of the closest queued ids may be handed out.
PQGetNext ==
  \E id \in queue :
    /\ \A other \in queue : key[id] <= key[other]
    /\ queue' = queue \ {id}
    /\ popped' = popped \cup {id}
    /\ next' = id
    /\ UNCHANGED key

PQNext ==
  \/ PQReset
  \/ \E id \in Ids, d \in 0..(MAX_VALUE - 1) : PQAdd(id, d)
  \/ PQGetNext

PQSpec == PQInit /\ [][PQNext]_pqVars
==============================================================================
