-------------------------- MODULE AtMostOnceOrder --------------------------
(***************************************************************************)
(* What order submission promises, without retries, links or HTTP: a call  *)
(* puts at most one order on the exchange, the order only moves forward,   *)
(* and the answer the caller gets tells something about that order:        *)
(*   - a terminal status is the status the order really has;               *)
(*   - "timeout" means the order did reach the exchange;                   *)
(*   - "rejected" means nothing: the order may be there, or appear later.  *)
(* OrderGateway is shown to implement this specification.                  *)
(***************************************************************************)
CONSTANTS Calls,     \* the submit() calls
          Live,      \* exchange statuses of an order that can still change
          Terminal   \* exchange statuses that are final

VARIABLES order,     \* order[c]: exchange status of call c's order, or "none"
          answer     \* answer[c]: what the call returned, or "none"

vars == <<order, answer>>

Init == /\ order  = [c \in Calls |-> "none"]
        /\ answer = [c \in Calls |-> "none"]

\* The order reaches the exchange: once, and not after an answer that
\* already vouched for it.
Land(c) == /\ order[c] = "none"
           /\ answer[c] \in {"none", "rejected"}
           /\ \E s \in Live \cup Terminal : order' = [order EXCEPT ![c] = s]
           /\ UNCHANGED answer

Progress(c) == /\ order[c] \in Live
               /\ \E s \in Live \cup Terminal : order' = [order EXCEPT ![c] = s]
               /\ UNCHANGED answer

\* The call returns; landing may be part of the same exchange response.
Answer(c) == /\ answer[c] = "none"
             /\ \/ UNCHANGED order
                \/ /\ order[c] = "none"
                   /\ \E s \in Live \cup Terminal : order' = [order EXCEPT ![c] = s]
             /\ \/ answer' = [answer EXCEPT ![c] = "rejected"]
                \/ /\ order'[c] # "none"
                   /\ answer' = [answer EXCEPT ![c] = "timeout"]
                \/ /\ order'[c] \in Terminal
                   /\ answer' = [answer EXCEPT ![c] = order'[c]]

Next == \E c \in Calls : Land(c) \/ Progress(c) \/ Answer(c)

Spec == Init /\ [][Next]_vars
=============================================================================
