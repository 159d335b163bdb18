---------------------------- MODULE AttemptQueue ----------------------------
(***************************************************************************)
(* What the job_attempt table promises the workers that poll it: a row is  *)
(* inserted once, at most one worker takes it and keeps it, it never goes  *)
(* back to the queue, and once it has ended it has ended for good.         *)
(*                                                                         *)
(* Two specifications implement it: ClaimOrder, with the lock of SELECT    *)
(* ... FOR UPDATE and the commit of the UPDATE as steps of their own, and  *)
(* Execution, which for the sake of the rest claims in one step.           *)
(***************************************************************************)
CONSTANTS
    Attempt,  \* job_attempt rows
    Worker,   \* worker ids
    None

VARIABLES
    state,  \* state[a]: "none", "waiting", "taken" or "ended"
    owner   \* owner[a]: the worker that has taken a

vars == <<state, owner>>

Init ==
    /\ state = [a \in Attempt |-> "none"]
    /\ owner = [a \in Attempt |-> None]

Insert(a) ==
    /\ state[a] = "none"
    /\ state' = [state EXCEPT ![a] = "waiting"]
    /\ UNCHANGED owner

Take(w, a) ==
    /\ state[a] = "waiting"
    /\ state' = [state EXCEPT ![a] = "taken"]
    /\ owner' = [owner EXCEPT ![a] = w]

End(a) ==
    /\ state[a] = "taken"
    /\ state' = [state EXCEPT ![a] = "ended"]
    /\ UNCHANGED owner

\* An attempt that is given up and replaced by another.
Retry(a, b) ==
    /\ state[a] = "taken"
    /\ state[b] = "none"
    /\ state' = [state EXCEPT ![a] = "ended", ![b] = "waiting"]
    /\ UNCHANGED owner

Next ==
    \E a \in Attempt :
        \/ Insert(a)
        \/ \E w \in Worker : Take(w, a)
        \/ End(a)
        \/ \E b \in Attempt : Retry(a, b)

Spec == Init /\ [][Next]_vars
=============================================================================
