----------------------------- MODULE RequestReply -----------------------------
(***************************************************************************)
(* What a user may expect of requests and answers, without fields, map,    *)
(* server or network: every request is answered at most once, and only an  *)
(* answer that comes in replaces the route that is drawn.                  *)
(***************************************************************************)
CONSTANTS Requests, null

VARIABLES
  status,     \* "unsent", "waiting" or "answered"
  drawn       \* the request whose route is drawn

Init == status = [i \in Requests |-> "unsent"] /\ drawn = null

Ask(i) ==
  /\ status[i] = "unsent"
  /\ status' = [status EXCEPT ![i] = "waiting"]
  /\ UNCHANGED drawn

\* The answer is a route, or it is not.
Answer(i) ==
  /\ status[i] = "waiting"
  /\ status' = [status EXCEPT ![i] = "answered"]
  /\ drawn' \in {drawn, i}

Next == \E i \in Requests : Ask(i) \/ Answer(i)

Spec == Init /\ [][Next]_<<status, drawn>>
==============================================================================
