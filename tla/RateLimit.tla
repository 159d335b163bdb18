----------------------------- MODULE RateLimit -----------------------------
(***************************************************************************)
(* The token bucket of nexusops/ratelimit.py: one bucket, the one of one   *)
(* client in one category, shared by the requests of that client that the  *)
(* server handles at the same time.                                        *)
(*                                                                         *)
(* A request captures the time, reads the bucket from Redis, computes, and *)
(* writes the bucket back: two round trips with nothing to hold the bucket *)
(* in between.  Time is a bounded integer clock, fine enough for a token   *)
(* to refill in Cost ticks: quantities are in units of what one tick       *)
(* refills, so that the code's fractions of a token are integers.          *)
(***************************************************************************)
EXTENDS Integers

CONSTANTS
    Request,         \* the requests the server handles at a time (its processes)
    Capacity,        \* max_tokens, in units
    Cost,            \* one token, in units
    TicksPerSecond,  \* refill_rate is TicksPerSecond / Cost
    BucketTTL,       \* the EXPIRE of the bucket
    Timeout,         \* the server kills a request that takes longer
    MaxTime,         \* bound on the clock
    MaxFaults        \* bound on failures

\* RATE_LIMITS refills every bucket within 100 s and a token within a second;
\* EXPIRE is 300 s, gunicorn's timeout 120 s (docker/Dockerfile).
ASSUME RateAssumption ==
    /\ Cost \in Nat \ {0}
    /\ Capacity \in Nat
    /\ TicksPerSecond \in Nat
    /\ BucketTTL \in Nat
    /\ Timeout \in Nat
    /\ MaxTime \in Nat
    /\ MaxFaults \in Nat
    /\ Cost <= Capacity
    /\ Cost <= TicksPerSecond
    /\ Capacity + Timeout <= BucketTTL

VARIABLES
    now,     \* the time
    bucket,  \* the hash in Redis
    check,   \* check[q]: how far _check_rate_limit of request q has come
    since,   \* history: when the window began in which the next two are counted
    taken,   \* history: the tokens handed out to requests that came in the window
    lost,    \* history: how often the bucket has lost what others had taken
    faults

history == <<since, taken, lost>>
rateVars == <<now, bucket, check, since, taken, lost, faults>>

-----------------------------------------------------------------------------

\* A missing bucket is handled as one that is full.
NoBucket == [tokens |-> Capacity, last |-> 0, expires |-> 0]

\* What HGETALL returns.
Stored == IF now < bucket.expires THEN bucket ELSE NoBucket

Refilled_Uncapped(b, t) == b.tokens + (t - b.last)
Refilled(b, t) ==
    LET units == b.tokens + (t - b.last) IN
    IF units < Capacity THEN units ELSE Capacity

\* The Retry-After header, max(1, int(1 / refill_rate)) seconds, in ticks.
RetryAfter_NotClamped == (Cost \div TicksPerSecond) * TicksPerSecond
RetryAfter ==
    LET seconds == Cost \div TicksPerSecond IN
    (IF seconds < 1 THEN 1 ELSE seconds) * TicksPerSecond

IdleCheck == [pc |-> "idle", at |-> 0, seen |-> NoBucket]

InRedis(q) == check[q].pc \in {"captured", "write"}

RateInit ==
    /\ now = 0
    /\ bucket = NoBucket
    /\ check = [q \in Request |-> IdleCheck]
    /\ since = 0
    /\ taken = 0
    /\ lost = 0
    /\ faults = 0

Fault == /\ faults < MaxFaults
         /\ faults' = faults + 1

\* At any time a new window may begin.
Advance ==
    /\ now < MaxTime
    /\ \A q \in Request : InRedis(q) => now - check[q].at < Timeout
    /\ now' = now + 1
    /\ \/ UNCHANGED history
       \/ since' = now + 1 /\ taken' = 0 /\ lost' = 0
    /\ UNCHANGED <<bucket, check, faults>>

-----------------------------------------------------------------------------
(* _check_rate_limit *)

StartCheck(q) ==
    /\ check[q].pc = "idle"
    /\ check' = [check EXCEPT ![q] = [pc |-> "captured", at |-> now, seen |-> NoBucket]]
    /\ UNCHANGED <<now, bucket, history, faults>>

\* The first round trip: refused without a write, or on to the second.
ReadBucket(q) ==
    /\ check[q].pc = "captured"
    /\ check' = [check EXCEPT
         ![q].seen = Stored,
         ![q].pc = IF Refilled(Stored, check[q].at) < Cost THEN "denied" ELSE "write"]
    /\ UNCHANGED <<now, bucket, history, faults>>

\* EXPIRE counts from the write, last_refill from the captured time.
Spent_NothingTaken(b, t) ==
    [tokens |-> Refilled(b, t), last |-> t, expires |-> now + BucketTTL]
Spent(b, t) ==
    [tokens |-> Refilled(b, t) - Cost, last |-> t, expires |-> now + BucketTTL]

WriteBucket(q) ==
    /\ check[q].pc = "write"
    /\ bucket' = Spent(check[q].seen, check[q].at)
    /\ check' = [check EXCEPT ![q].pc = "allowed"]
    /\ taken' = IF check[q].at < since THEN taken ELSE taken + 1
    /\ lost' = IF Stored = check[q].seen THEN lost ELSE lost + 1
    /\ UNCHANGED <<now, since, faults>>

\* A Redis error lets the request pass.
CheckFails(q) ==
    /\ InRedis(q)
    /\ Fault
    /\ check' = [check EXCEPT ![q].pc = "allowed"]
    /\ UNCHANGED <<now, bucket, history>>

\* The middleware is done with the request.
EndCheck(q) ==
    /\ check[q].pc \in {"allowed", "denied"}
    /\ check' = [check EXCEPT ![q] = IdleCheck]
    /\ UNCHANGED <<now, bucket, history, faults>>

\* The process that handles the request is killed.
KillCheck(q) ==
    /\ Fault
    /\ check' = [check EXCEPT ![q] = IdleCheck]
    /\ UNCHANGED <<now, bucket, history>>

\* Redis starts again without what it held.
LoseBucket ==
    /\ Fault
    /\ bucket' = NoBucket
    /\ lost' = lost + 1
    /\ UNCHANGED <<now, check, since, taken>>

-----------------------------------------------------------------------------

RateNext ==
    \/ Advance
    \/ LoseBucket
    \/ \E q \in Request :
         \/ StartCheck(q) \/ ReadBucket(q) \/ WriteBucket(q)
         \/ CheckFails(q) \/ EndCheck(q) \/ KillCheck(q)

RateSpec == RateInit /\ [][RateNext]_rateVars

-----------------------------------------------------------------------------
(* Invariants *)

BucketRecord == [tokens : 0..Capacity, last : Nat, expires : Nat]

CheckRecord ==
    [pc : {"idle", "captured", "write", "allowed", "denied"}, at : Nat, seen : BucketRecord]

\* The bucket holds between nothing and max_tokens, whatever order the requests
\* read and write it in and however negative the time since `last_refill` is.
RateTypeOK ==
    /\ now \in 0..MaxTime
    /\ bucket \in BucketRecord
    /\ check \in [Request -> CheckRecord]
    /\ since \in 0..now
    /\ taken \in Nat
    /\ lost \in Nat
    /\ faults \in 0..MaxFaults

\* What the bucket can hand out once more after each loss: all it can hold, the
\* token just taken, and the refill since the writer captured its time.
LossCost == Capacity + Cost + Timeout

\* In every window of time a client's requests get the burst and the refill and
\* nothing more, although the bucket refills lazily, expires, is read and written
\* in two round trips, and counts from a time captured before them.  Only a
\* write over another request's write and a restart of Redis give more, and each
\* of them no more than its price.
BurstBounded == Cost * taken <= Capacity + (now - since) + lost * LossCost

\* Retry-After is long enough: unless somebody else takes it, a token is there
\* for the request that comes so much later, at every moment.
RetryAfterIsEnough == Refilled(bucket, now + RetryAfter) >= Cost

=============================================================================
