------------------------------ MODULE Gateway ------------------------------
(***************************************************************************)
(* What an API request passes on its way to a view and back, in the order  *)
(* of settings.MIDDLEWARE: the idempotency middleware                      *)
(* (nexusops/middleware.py), the rate limiter (RateLimit) and the view.    *)
(*                                                                         *)
(* The requests are those of one client.  A request may carry an           *)
(* Idempotency-Key; the client uses a key for one mutation and may send it *)
(* as often, and as concurrently, as it likes.  Redis may fail at any of   *)
(* its calls or lose what it holds, views may fail before or after they    *)
(* have committed something, and processes may be killed.                  *)
(***************************************************************************)
EXTENDS RateLimit, FiniteSets

CONSTANTS
    Key,         \* idempotency keys, each with the mutation it is used for
    NoKey,       \* a request without a key, or one that changes nothing
    ResponseTTL  \* TTL_SECONDS of a stored response

ASSUME KeyAssumption ==
    /\ NoKey \notin Key
    /\ ResponseTTL \in Nat
    /\ IsFiniteSet(Request)

VARIABLES
    serve,    \* serve[q]: where request q is
    cache,    \* cache[k]: the response stored under k
    effects,  \* effects[k]: how often the mutation of k has been committed
    excuses   \* history: the events that let the mutation of k be made again

gateVars == <<serve, cache, effects, excuses>>
vars == <<rateVars, gateVars>>

-----------------------------------------------------------------------------

\* A response: for which key, with which status, after which execution.
Response == [status : {"none", "ok", "refused", "error"}, key : Key \cup {NoKey}, nth : Nat]

NoResponse == [status |-> "none", key |-> NoKey, nth |-> 0]
NothingStored == [response |-> NoResponse, expires |-> 0]

NewRequest == [pc |-> "new", key |-> NoKey, response |-> NoResponse]

At(q, pc, k) == serve[q].pc = pc /\ serve[q].key = k

\* Requests of k that have not found a response and have not executed yet, and
\* those that have executed and not stored the response yet.
Admitted(k) == {q \in Request : At(q, "limit", k)}
Storing(k) == {q \in Request : At(q, "store", k)}

Init ==
    /\ RateInit
    /\ serve = [q \in Request |-> NewRequest]
    /\ cache = [k \in Key |-> NothingStored]
    /\ effects = [k \in Key |-> 0]
    /\ excuses = [k \in Key |-> 0]

Excused(k) == excuses' = [excuses EXCEPT ![k] = @ + 1]

-----------------------------------------------------------------------------
(* IdempotencyMiddleware, before the view *)

Receive(q, k) ==
    /\ serve[q].pc = "new"
    /\ serve' = [serve EXCEPT ![q] = [pc |-> IF k = NoKey THEN "limit" ELSE "lookup",
                                      key |-> k, response |-> NoResponse]]
    /\ UNCHANGED <<rateVars, cache, effects, excuses>>

\* The Redis key is made of the idempotency key and the client's address.
Found_OfAnyKey(k) == {e \in {cache[l] : l \in Key} : now < e.expires}
Found(k) == {e \in {cache[k]} : now < e.expires}

\* A hit is answered at once ...
Replay(q) ==
    /\ serve[q].pc = "lookup"
    /\ \E e \in Found(serve[q].key) :
         serve' = [serve EXCEPT ![q].pc = "done", ![q].response = e.response]
    /\ UNCHANGED <<rateVars, cache, effects, excuses>>

\* ... and a miss goes on.  It is no surprise if nothing has been stored, but it
\* is if another request is about to, or the response has lapsed.
Overlaps(k) == Admitted(k) \cup Storing(k) # {}

Miss(q) ==
    LET k == serve[q].key IN
    /\ serve[q].pc = "lookup"
    /\ Found(k) = {}
    /\ serve' = [serve EXCEPT ![q].pc = "limit"]
    /\ IF Overlaps(k) \/ cache[k] # NothingStored THEN Excused(k) ELSE UNCHANGED excuses
    /\ UNCHANGED <<rateVars, cache, effects>>

\* An error is a miss.
LookupFails(q) ==
    /\ serve[q].pc = "lookup"
    /\ Fault
    /\ serve' = [serve EXCEPT ![q].pc = "limit"]
    /\ Excused(serve[q].key)
    /\ UNCHANGED <<now, bucket, check, history, cache, effects>>

-----------------------------------------------------------------------------
(* RateLimitMiddleware and the view *)

LimitStep(q) ==
    /\ serve[q].pc = "limit"
    /\ StartCheck(q) \/ ReadBucket(q) \/ WriteBucket(q) \/ CheckFails(q)
    /\ UNCHANGED gateVars

\* What the idempotency middleware stores: a response with a 2xx status.
Stores_Status200Only(response) == response.status = "200"
Stores(response) == response.status = "ok"

\* The view, or the limiter, has made the response; whether it reaches the
\* client makes no difference here.
Answered(q, response) ==
    [serve EXCEPT ![q].response = response,
                  ![q].pc = IF serve[q].key # NoKey /\ Stores(response)
                            THEN "store" ELSE "done"]

\* 429
Refuse(q) ==
    /\ serve[q].pc = "limit"
    /\ check[q].pc = "denied"
    /\ EndCheck(q)
    /\ serve' = Answered(q, [status |-> "refused", key |-> serve[q].key, nth |-> 0])
    /\ UNCHANGED <<cache, effects, excuses>>

\* The view commits the mutation and answers 2xx.
RunView(q) ==
    LET k == serve[q].key IN
    /\ serve[q].pc = "limit"
    /\ check[q].pc = "allowed"
    /\ EndCheck(q)
    /\ effects' = IF k = NoKey THEN effects ELSE [effects EXCEPT ![k] = @ + 1]
    /\ serve' = Answered(q, [status |-> "ok", key |-> k,
                             nth |-> IF k = NoKey THEN 0 ELSE effects[k] + 1])
    /\ UNCHANGED <<cache, excuses>>

\* The view rejects the request or fails before it commits anything ...
RejectInView(q) ==
    /\ serve[q].pc = "limit"
    /\ check[q].pc = "allowed"
    /\ EndCheck(q)
    /\ serve' = Answered(q, [status |-> "error", key |-> serve[q].key, nth |-> 0])
    /\ UNCHANGED <<cache, effects, excuses>>

\* ... or after it has: views make several statements without a transaction.
FailInView(q) ==
    LET k == serve[q].key IN
    /\ serve[q].pc = "limit"
    /\ check[q].pc = "allowed"
    /\ k # NoKey
    /\ Fault
    /\ check' = [check EXCEPT ![q] = IdleCheck]
    /\ effects' = [effects EXCEPT ![k] = @ + 1]
    /\ serve' = Answered(q, [status |-> "error", key |-> k, nth |-> 0])
    /\ Excused(k)
    /\ UNCHANGED <<now, bucket, history, cache>>

-----------------------------------------------------------------------------
(* IdempotencyMiddleware, after the view *)

StoreResponse(q) ==
    LET k == serve[q].key IN
    /\ serve[q].pc = "store"
    /\ cache' = [cache EXCEPT ![k] = [response |-> serve[q].response,
                                      expires |-> now + ResponseTTL]]
    /\ serve' = [serve EXCEPT ![q].pc = "done"]
    /\ UNCHANGED <<rateVars, effects, excuses>>

StoreFails(q) ==
    /\ serve[q].pc = "store"
    /\ Fault
    /\ serve' = [serve EXCEPT ![q].pc = "done"]
    /\ Excused(serve[q].key)
    /\ UNCHANGED <<now, bucket, check, history, cache, effects>>

-----------------------------------------------------------------------------
(* Processes and Redis stop *)

KillRequest(q) ==
    /\ serve[q].pc \notin {"new", "done"}
    /\ KillCheck(q)
    /\ serve' = [serve EXCEPT ![q].pc = "done", ![q].response = NoResponse]
    /\ IF serve[q].pc = "store" THEN Excused(serve[q].key) ELSE UNCHANGED excuses
    /\ UNCHANGED <<cache, effects>>

RestartRedis ==
    /\ LoseBucket
    /\ cache' = [k \in Key |-> NothingStored]
    /\ excuses' = [k \in Key |-> excuses[k] + 1]
    /\ UNCHANGED <<serve, effects>>

-----------------------------------------------------------------------------

Next ==
    \/ Advance /\ UNCHANGED gateVars
    \/ RestartRedis
    \/ \E q \in Request :
         \/ \E k \in Key \cup {NoKey} : Receive(q, k)
         \/ Replay(q) \/ Miss(q) \/ LookupFails(q)
         \/ LimitStep(q) \/ Refuse(q) \/ RunView(q) \/ RejectInView(q) \/ FailInView(q)
         \/ StoreResponse(q) \/ StoreFails(q) \/ KillRequest(q)

Spec == Init /\ [][Next]_vars

-----------------------------------------------------------------------------
(* Invariants *)

ServePc == {"new", "lookup", "limit", "store", "done"}

\* Requests, responses and counters are well formed.
TypeOK ==
    /\ RateTypeOK
    /\ serve \in [Request -> [pc : ServePc, key : Key \cup {NoKey}, response : Response]]
    /\ cache \in [Key -> [response : Response, expires : Nat]]
    /\ effects \in [Key -> Nat]
    /\ excuses \in [Key -> Nat]

\* A mutation is made once.  Every time it is made again there is an event of its
\* own to blame: a request that overlapped another, a response that lapsed or got
\* lost, a Redis error, a kill or a failure half way.
RepeatsExcused == \A k \in Key : effects[k] <= 1 + excuses[k]

\* A response that is stored, or on its way with a 2xx status, tells of an
\* execution of this very key that has been committed: neither a refusal nor an
\* error is ever replayed, nor what another key's request was answered.
ResponsesEarned ==
    /\ \A k \in Key : LET r == cache[k].response IN
         cache[k] # NothingStored => r.status = "ok" /\ r.key = k /\ r.nth \in 1..effects[k]
    /\ \A q \in Request : LET r == serve[q].response IN
         r.status = "ok" /\ serve[q].key # NoKey =>
            r.key = serve[q].key /\ r.nth \in 1..effects[r.key]

=============================================================================
