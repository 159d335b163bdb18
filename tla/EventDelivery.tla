--------------------------- MODULE EventDelivery ---------------------------
(* What the outbox promises about its events, whatever the publishers do:  *)
(* an event is handed to the broker at least once before it is marked      *)
(* PUBLISHED, is given up on only while PENDING, and never comes back.     *)
EXTENDS Integers

CONSTANT Event

VARIABLES
    status,   \* status[e]: "none" before the event is created
    handed    \* handed[e]: it has been handed to the broker

vars == <<status, handed>>

Init == /\ status = [e \in Event |-> "none"]
        /\ handed = [e \in Event |-> FALSE]

Create(e) == /\ status[e] = "none"
             /\ status' = [status EXCEPT ![e] = "PENDING"]
             /\ UNCHANGED handed

HandOver(e) == /\ status[e] = "PENDING"
               /\ handed' = [handed EXCEPT ![e] = TRUE]
               /\ UNCHANGED status

\* A batch of events is settled by one commit.
Settle(published, failed) ==
    /\ \A e \in published \cup failed : status[e] = "PENDING"
    /\ \A e \in published : handed[e]
    /\ status' = [e \in Event |-> CASE e \in published -> "PUBLISHED"
                                    [] e \in failed -> "FAILED"
                                    [] OTHER -> status[e]]
    /\ UNCHANGED handed

Next ==
    \/ \E e \in Event : Create(e) \/ HandOver(e)
    \/ \E published \in SUBSET Event :
         \E failed \in SUBSET (Event \ published) : Settle(published, failed)

Spec == Init /\ [][Next]_vars

=============================================================================
