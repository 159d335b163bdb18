--------------------------- MODULE GatewayProofs ---------------------------
(***************************************************************************)
(* What the token bucket guarantees for any number of concurrent requests  *)
(* and any capacity, refill rate, expiry and timeout that RateAssumption   *)
(* allows, and what the chain of middleware guarantees for any number of   *)
(* requests and keys.  A step of the gateway is a step of the bucket or    *)
(* leaves it alone, so that the theorems about the bucket carry over.      *)
(***************************************************************************)
EXTENDS Gateway, FiniteSetTheorems, TLAPS

-----------------------------------------------------------------------------
(* The bucket *)

\* What has been handed out in the window and what is left at x is the burst and
\* the refill until x.  It has to hold at the captured times too, which lie in
\* the past: a request computes the level of the bucket as of then.
PaidAt(x) == Cost * taken + Refilled(bucket, x) <= Capacity + (x - since) + lost * LossCost

\* An expired bucket has had the time to fill up, even for a request that
\* captured its time before the bucket expired.
BucketAge ==
    /\ bucket.last <= now
    /\ bucket = NoBucket \/ bucket.last + BucketTTL <= bucket.expires

CheckAge ==
    \A q \in Request :
        /\ InRedis(q) => check[q].at <= now /\ now <= check[q].at + Timeout
        /\ check[q].pc = "write" => Refilled(check[q].seen, check[q].at) >= Cost

Paid ==
    /\ PaidAt(now)
    /\ \A q \in Request : InRedis(q) /\ since <= check[q].at => PaidAt(check[q].at)

RateInv == RateTypeOK /\ BucketAge /\ CheckAge /\ Paid

-----------------------------------------------------------------------------
(* Arithmetic of the bucket *)

LEMMA NoBucketType == NoBucket \in BucketRecord
BY RateAssumption DEF NoBucket, BucketRecord

LEMMA StoredType == bucket \in BucketRecord => Stored \in BucketRecord
BY NoBucketType DEF Stored

LEMMA RefilledRange ==
    ASSUME NEW b \in BucketRecord, NEW t \in Nat
    PROVE  /\ Refilled(b, t) \in Int
           /\ Refilled(b, t) <= Capacity
           /\ Refilled(b, t) <= b.tokens + (t - b.last)
           /\ b.last <= t => 0 <= Refilled(b, t)
           /\ \A u \in Int : u <= Capacity /\ u <= b.tokens + (t - b.last) => u <= Refilled(b, t)
BY RateAssumption DEF Refilled, BucketRecord

\* A missing bucket is full at any time.
LEMMA NoBucketFull == \A t \in Nat : Refilled(NoBucket, t) = Capacity
BY RateAssumption DEF Refilled, NoBucket

LEMMA AddOne == \A a \in Int, b \in Int : a * (b + 1) = a * b + a
OBVIOUS

LEMMA ProductType == \A a \in Int, b \in Int : a * b \in Int
OBVIOUS

\* Time alone fills the bucket by at most the time that passes.
LEMMA RefillsWithTime ==
    ASSUME NEW b \in BucketRecord, NEW t \in Nat
    PROVE  Refilled(b, t + 1) <= Refilled(b, t) + 1
BY RateAssumption DEF Refilled, BucketRecord

-----------------------------------------------------------------------------

LEMMA RateInitial == RateInit => RateInv
<1> SUFFICES ASSUME RateInit PROVE RateInv
  OBVIOUS
<1> USE DEF RateInit
<1>1. RateTypeOK
  BY RateAssumption, NoBucketType DEF RateTypeOK, CheckRecord, IdleCheck
<1>2. BucketAge
  BY DEF BucketAge, NoBucket
<1>3. \A q \in Request : check[q].pc = "idle"
  BY DEF IdleCheck
<1>4. CheckAge
  BY <1>3 DEF CheckAge, InRedis
<1>5. PaidAt(now)
  <2>1. Refilled(NoBucket, 0) = Capacity
    BY NoBucketFull
  <2>2. Cost * 0 = 0 /\ 0 * LossCost = 0
    BY RateAssumption DEF LossCost
  <2>3. QED
    BY <2>1, <2>2, RateAssumption DEF PaidAt
<1>6. Paid
  BY <1>3, <1>5 DEF Paid, InRedis
<1>7. QED
  BY <1>1, <1>2, <1>4, <1>6 DEF RateInv

\* A step that leaves the clock, the bucket and the two histories alone keeps
\* what is said of them, if the times it captures are the present.
LEMMA BucketUntouched ==
    ASSUME RateInv, UNCHANGED <<now, bucket, since, taken, lost>>,
           RateTypeOK',
           \A q \in Request :
               \/ check'[q] = check[q]
               \/ check'[q].pc \notin {"captured", "write"}
               \/ check'[q].pc = "captured" /\ check'[q].at = now
               \/ /\ InRedis(q) /\ check'[q].at = check[q].at
                  /\ Refilled(check'[q].seen, check'[q].at) >= Cost
    PROVE  RateInv'
<1> USE DEF RateInv
<1>1. BucketAge'
  BY DEF BucketAge
<1>2. \A x : PaidAt(x) <=> PaidAt(x)'
  BY DEF PaidAt, Refilled, LossCost
<1>3. \A q \in Request : InRedis(q)' =>
          check'[q].at = now \/ (InRedis(q) /\ check'[q].at = check[q].at)
  BY DEF InRedis
<1>4. Paid'
  BY <1>2, <1>3 DEF Paid, InRedis, PaidAt, Refilled
<1>5. CheckAge'
  <2> SUFFICES ASSUME NEW q \in Request
               PROVE  /\ InRedis(q)' => check'[q].at <= now' /\ now' <= check'[q].at + Timeout
                      /\ check'[q].pc = "write" => Refilled(check'[q].seen, check'[q].at) >= Cost
    BY DEF CheckAge, Refilled
  <2>1. now \in Nat /\ Timeout \in Nat /\ now' = now
    BY RateAssumption DEF RateTypeOK
  <2>2. InRedis(q)' => check'[q].at <= now' /\ now' <= check'[q].at + Timeout
    BY <1>3, <2>1 DEF CheckAge
  <2>3. check'[q].pc = "write" => Refilled(check'[q].seen, check'[q].at) >= Cost
    BY DEF CheckAge
  <2>4. QED
    BY <2>2, <2>3
<1>6. QED
  BY <1>1, <1>4, <1>5

-----------------------------------------------------------------------------

LEMMA AdvanceKeeps == RateInv /\ Advance => RateInv'
<1> SUFFICES ASSUME RateInv, Advance PROVE RateInv'
  OBVIOUS
<1> USE DEF RateInv
<1>1. /\ now \in Nat /\ now' = now + 1 /\ now' \in 0..MaxTime
      /\ bucket \in BucketRecord
      /\ UNCHANGED <<bucket, check, faults>>
  BY RateAssumption DEF Advance, RateTypeOK
<1>2. RateTypeOK'
  BY <1>1 DEF RateTypeOK, BucketRecord, CheckRecord, Advance, history
<1>3. BucketAge'
  BY <1>1, RateAssumption DEF BucketAge, BucketRecord
<1>4. CheckAge'
  <2> SUFFICES ASSUME NEW q \in Request
               PROVE  /\ InRedis(q) => check[q].at <= now + 1 /\ now + 1 <= check[q].at + Timeout
                      /\ check[q].pc = "write" => Refilled(check[q].seen, check[q].at) >= Cost
    BY <1>1 DEF CheckAge, InRedis, Refilled
  <2>1. check[q].at \in Nat
    BY DEF RateTypeOK, CheckRecord
  <2>2. QED
    BY <1>1, <2>1, RateAssumption DEF Advance, CheckAge
<1>5. ASSUME UNCHANGED history PROVE Paid'
  <2>1. Refilled(bucket, now + 1) <= Refilled(bucket, now) + 1
    BY <1>1, RefillsWithTime
  <2>2. Refilled(bucket, now + 1) \in Int /\ Refilled(bucket, now) \in Int /\ since \in Int
    BY <1>1, RefilledRange DEF RateTypeOK
  <2>3. Cost * taken \in Int /\ lost * LossCost \in Int
    BY ProductType, RateAssumption DEF RateTypeOK, LossCost
  <2>4. PaidAt(now + 1)
    BY <1>1, <2>1, <2>2, <2>3, RateAssumption DEF Paid, PaidAt
  <2>5. /\ now' = now + 1 /\ bucket' = bucket /\ check' = check
        /\ since' = since /\ taken' = taken /\ lost' = lost
    BY <1>1, <1>5 DEF history
  <2>6. PaidAt(now)'
    BY <2>4, <2>5 DEF PaidAt, Refilled, LossCost
  <2>7. ASSUME NEW q \in Request, InRedis(q), since <= check[q].at PROVE PaidAt(check[q].at)'
    <3>1. PaidAt(check[q].at)
      BY <2>7 DEF Paid
    <3>2. QED
      BY <2>5, <3>1 DEF PaidAt, Refilled, LossCost
  <2>8. \A q \in Request : InRedis(q)' => InRedis(q)
    BY <2>5 DEF InRedis
  <2>9. \A q \in Request : (InRedis(q) /\ since <= check[q].at)' => PaidAt(check[q].at)'
    BY <2>5, <2>7, <2>8
  <2>10. QED
    BY <2>6, <2>9 DEF Paid
<1>6. ASSUME since' = now + 1, taken' = 0, lost' = 0 PROVE Paid'
  <2>1. Refilled(bucket, now + 1) <= Capacity /\ Refilled(bucket, now + 1) \in Int
    BY <1>1, RefilledRange
  <2>2. Cost * 0 = 0 /\ 0 * LossCost = 0
    BY RateAssumption DEF LossCost
  <2>3. PaidAt(now)'
    BY <1>1, <1>6, <2>1, <2>2, RateAssumption DEF PaidAt, Refilled, LossCost
  <2>4. ASSUME NEW q \in Request, InRedis(q) PROVE ~(now + 1 <= check[q].at)
    <3>1. check[q].at <= now /\ check[q].at \in Nat
      BY <2>4 DEF CheckAge, RateTypeOK, CheckRecord
    <3>2. QED
      BY <1>1, <3>1
  <2>5. ASSUME NEW q \in Request, InRedis(q)' PROVE ~(since' <= check'[q].at)
    BY <1>1, <1>6, <2>4, <2>5 DEF InRedis
  <2>6. \A q \in Request : (InRedis(q) /\ since <= check[q].at)' => PaidAt(check[q].at)'
    BY <2>5
  <2>7. QED
    BY <2>3, <2>6 DEF Paid
<1>8. Paid'
  BY <1>5, <1>6 DEF Advance
<1>7. QED
  BY <1>2, <1>3, <1>4, <1>8

-----------------------------------------------------------------------------
(* The write *)

\* A write that nobody has come in between of computes the level the bucket in
\* Redis has at the captured time, although the bucket may have expired.
LEMMA FreshLevel ==
    ASSUME RateInv, NEW q \in Request, InRedis(q)
    PROVE  Refilled(Stored, check[q].at) = Refilled(bucket, check[q].at)
<1> USE DEF RateInv
<1>1. /\ now \in Nat /\ check[q].at \in Nat /\ bucket \in BucketRecord
      /\ now <= check[q].at + Timeout
  BY DEF RateTypeOK, CheckRecord, CheckAge
<1>2. CASE now < bucket.expires
  BY <1>2 DEF Stored
<1>3. CASE bucket = NoBucket
  BY <1>3 DEF Stored
<1>4. CASE ~(now < bucket.expires) /\ bucket # NoBucket
  <2>1. Refilled(Stored, check[q].at) = Capacity
    BY <1>1, <1>4, NoBucketFull DEF Stored
  <2>2. bucket.last + BucketTTL <= now
    BY <1>1, <1>4, RateAssumption DEF BucketAge, BucketRecord
  <2>3. Refilled(bucket, check[q].at) = Capacity
    BY <1>1, <2>2, RateAssumption DEF Refilled, BucketRecord
  <2>4. QED
    BY <2>1, <2>3
<1>5. QED
  BY <1>2, <1>3, <1>4

\* The level of the bucket a write leaves, at x.
LEMMA SpentLevel ==
    ASSUME NEW b \in BucketRecord, NEW t \in Nat, NEW x \in Nat, now \in Nat,
           Refilled(b, t) >= Cost
    PROVE  /\ Spent(b, t) \in BucketRecord
           /\ Refilled(Spent(b, t), x) \in Int
           /\ Refilled(Spent(b, t), x) <= Capacity
           /\ Refilled(Spent(b, t), x) <= Refilled(b, t) - Cost + (x - t)
<1>1. /\ Refilled(b, t) \in Int
      /\ Refilled(b, t) <= Capacity
  BY RefilledRange
<1>2. Spent(b, t) \in BucketRecord
  BY <1>1, RateAssumption DEF Spent, BucketRecord
<1>3. /\ Spent(b, t).tokens = Refilled(b, t) - Cost
      /\ Spent(b, t).last = t
  BY DEF Spent
<1>4. QED
  BY <1>2, <1>3, RefilledRange

LEMMA WriteKeeps == \A q \in Request : RateInv /\ WriteBucket(q) => RateInv'
<1> SUFFICES ASSUME NEW q \in Request, RateInv, WriteBucket(q) PROVE RateInv'
  OBVIOUS
<1> DEFINE at == check[q].at  seen == check[q].seen
<1>1. /\ now \in Nat /\ now \in 0..MaxTime /\ taken \in Nat /\ lost \in Nat /\ since \in 0..now
      /\ faults \in 0..MaxFaults
      /\ bucket \in BucketRecord /\ at \in Nat /\ seen \in BucketRecord
      /\ check \in [Request -> CheckRecord]
  BY RateAssumption DEF RateInv, RateTypeOK, CheckRecord
<1>2. /\ InRedis(q) /\ at <= now /\ now <= at + Timeout /\ Refilled(seen, at) >= Cost
      /\ check[q].pc = "write"
  BY DEF RateInv, CheckAge, WriteBucket, InRedis
<1>3. /\ bucket' = Spent(seen, at) /\ taken' = IF at < since THEN taken ELSE taken + 1
      /\ now' = now /\ since' = since /\ faults' = faults
      /\ check' = [check EXCEPT ![q].pc = "allowed"]
      /\ lost' = IF Stored = seen THEN lost ELSE lost + 1
  BY DEF WriteBucket
<1>4. \A r \in Request : /\ InRedis(r)' => InRedis(r) /\ r # q
                         /\ check'[r].at = check[r].at
                         /\ check'[r].seen = check[r].seen
                         /\ check'[r].pc = "write" => check[r].pc = "write"
  BY <1>1, <1>3 DEF InRedis, CheckRecord
<1>5. bucket' \in BucketRecord
  BY <1>1, <1>2, <1>3, SpentLevel
<1>6. check' \in [Request -> CheckRecord]
  BY <1>1, <1>3 DEF CheckRecord
<1>7. RateTypeOK'
  BY <1>1, <1>3, <1>5, <1>6 DEF RateTypeOK
<1>8. BucketAge'
  BY <1>1, <1>2, <1>3, RateAssumption DEF BucketAge, Spent
<1>9. CheckAge'
  BY <1>3, <1>4 DEF RateInv, CheckAge, Refilled, InRedis
<1>10. ASSUME NEW x \in Nat, PaidAt(x), since <= x, x <= now, now <= x + Timeout
       PROVE  PaidAt(x)'
  <2>1. /\ Refilled(bucket, x) \in Int /\ Refilled(bucket', x) \in Int
        /\ Refilled(seen, at) \in Int /\ Refilled(bucket, at) \in Int
        /\ Refilled(bucket', x) <= Capacity
        /\ Refilled(bucket', x) <= Refilled(seen, at) - Cost + (x - at)
    BY <1>1, <1>2, <1>3, SpentLevel, RefilledRange
  <2>2. /\ Cost * taken \in Int /\ lost * LossCost \in Int
        /\ Cost * (taken + 1) = Cost * taken + Cost
        /\ (lost + 1) * LossCost = lost * LossCost + LossCost
        /\ Cost \in Nat /\ LossCost = Capacity + Cost + Timeout
        /\ Capacity \in Nat /\ Timeout \in Nat /\ since \in Nat
    <3>1. LossCost \in Int /\ Cost \in Int
      BY RateAssumption DEF LossCost
    <3>2. (lost + 1) * LossCost = LossCost * (lost + 1) /\ lost * LossCost = LossCost * lost
      BY <1>1, <3>1
    <3>3. LossCost * (lost + 1) = LossCost * lost + LossCost /\ LossCost * lost \in Int
      BY <1>1, <3>1, AddOne, ProductType
    <3>4. Cost * (taken + 1) = Cost * taken + Cost /\ Cost * taken \in Int
      BY <1>1, <3>1, AddOne, ProductType
    <3>5. Cost \in Nat /\ LossCost = Capacity + Cost + Timeout /\ Capacity \in Nat /\ Timeout \in Nat
      BY RateAssumption DEF LossCost
    <3>6. QED
      BY <1>1, <3>2, <3>3, <3>4, <3>5
  <2>3. CASE Stored = seen /\ since <= at
    <3>1. Cost * taken + Refilled(bucket, at) <= Capacity + (at - since) + lost * LossCost
      BY <1>2, <2>3 DEF RateInv, Paid, PaidAt
    <3>2. Refilled(seen, at) = Refilled(bucket, at)
      BY <1>2, <2>3, FreshLevel
    <3>3. Cost * (taken + 1) + Refilled(bucket', x) <= Capacity + (x - since) + lost * LossCost
      BY <1>1, <2>1, <2>2, <3>1, <3>2
    <3>4. taken' = taken + 1 /\ lost' = lost
      BY <1>1, <1>3, <2>3
    <3>5. QED
      BY <1>3, <3>3, <3>4 DEF PaidAt, Refilled, LossCost
  <2>4. CASE Stored = seen /\ at < since
    <3>1. Refilled(seen, at) <= bucket.tokens + (at - bucket.last)
      <4>1. Refilled(seen, at) = Refilled(bucket, at)
        BY <1>2, <2>4, FreshLevel
      <4>2. QED
        BY <1>1, <4>1, RefilledRange
    <3>2. Refilled(bucket', x) <= bucket.tokens + (x - bucket.last)
      BY <1>1, <2>1, <2>2, <3>1 DEF BucketRecord
    <3>3. Refilled(bucket', x) <= Refilled(bucket, x)
      BY <1>1, <2>1, <3>2, RefilledRange
    <3>4. Cost * taken + Refilled(bucket, x) <= Capacity + (x - since) + lost * LossCost
      BY <1>10 DEF PaidAt
    <3>5. Cost * taken + Refilled(bucket', x) <= Capacity + (x - since) + lost * LossCost
      BY <1>1, <2>1, <2>2, <3>3, <3>4
    <3>6. taken' = taken /\ lost' = lost
      BY <1>3, <2>4
    <3>7. QED
      BY <1>3, <3>5, <3>6 DEF PaidAt, Refilled, LossCost
  <2>5. CASE Stored # seen
    <3>1. Cost * taken + Refilled(bucket, now) <= Capacity + (now - since) + lost * LossCost
      BY DEF RateInv, Paid, PaidAt
    <3>2. 0 <= Refilled(bucket, now) /\ Refilled(bucket, now) \in Int
      BY <1>1, RefilledRange DEF RateInv, BucketAge
    <3>3. /\ Cost * (taken + 1) + Refilled(bucket', x) <= Capacity + (x - since) + (lost + 1) * LossCost
          /\ Cost * taken + Refilled(bucket', x) <= Capacity + (x - since) + (lost + 1) * LossCost
      BY <1>1, <1>10, <2>1, <2>2, <3>1, <3>2
    <3>4. taken' \in {taken, taken + 1} /\ lost' = lost + 1
      BY <1>3, <2>5
    <3>5. QED
      BY <1>3, <3>3, <3>4 DEF PaidAt, Refilled, LossCost
  <2>6. QED
    BY <1>1, <2>3, <2>4, <2>5
<1>11. PaidAt(now)'
  <2>1. PaidAt(now) /\ since <= now
    BY <1>1 DEF RateInv, Paid
  <2>2. now <= now /\ now <= now + Timeout
    BY <1>1, RateAssumption
  <2>3. QED
    BY <1>1, <1>3, <1>10, <2>1, <2>2 DEF PaidAt
<1>12. ASSUME NEW r \in Request, InRedis(r)', since <= check[r].at PROVE PaidAt(check[r].at)'
  <2>1. PaidAt(check[r].at) /\ check[r].at <= now /\ now <= check[r].at + Timeout
    BY <1>4, <1>12 DEF RateInv, Paid, CheckAge
  <2>2. check[r].at \in Nat
    BY <1>1 DEF CheckRecord
  <2>3. check'[r].at = check[r].at
    BY <1>4
  <2>4. QED
    BY <1>10, <1>12, <2>1, <2>2, <2>3 DEF PaidAt
<1>13. Paid'
  BY <1>3, <1>4, <1>11, <1>12 DEF Paid, PaidAt
<1>14. QED
  BY <1>7, <1>8, <1>9, <1>13 DEF RateInv

-----------------------------------------------------------------------------

LEMMA LoseKeeps == RateInv /\ LoseBucket => RateInv'
<1> SUFFICES ASSUME RateInv, LoseBucket PROVE RateInv'
  OBVIOUS
<1>1. /\ bucket' = NoBucket /\ lost' = lost + 1
      /\ UNCHANGED <<now, check, since, taken>>
      /\ faults' \in 0..MaxFaults
  BY RateAssumption DEF LoseBucket, Fault, RateInv, RateTypeOK
<1>2. /\ now \in Nat /\ lost \in Nat /\ taken \in Nat /\ since \in 0..now
      /\ bucket \in BucketRecord
  BY RateAssumption DEF RateInv, RateTypeOK
<1>3. RateTypeOK'
  BY <1>1, <1>2, NoBucketType DEF RateInv, RateTypeOK
<1>4. BucketAge'
  BY <1>1, <1>2 DEF BucketAge, NoBucket
<1>5. CheckAge'
  BY <1>1 DEF RateInv, CheckAge, InRedis, Refilled
<1>6. ASSUME NEW x \in Nat, since <= x, x <= now, now <= x + Timeout PROVE PaidAt(x)'
  <2>1. Refilled(NoBucket, x) = Capacity
    BY NoBucketFull
  <2>2. 0 <= Refilled(bucket, now) /\ Refilled(bucket, now) \in Int
    BY <1>2, RefilledRange DEF RateInv, BucketAge
  <2>3. Cost * taken + Refilled(bucket, now) <= Capacity + (now - since) + lost * LossCost
    BY DEF RateInv, Paid, PaidAt
  <2>4. /\ LossCost = Capacity + Cost + Timeout
        /\ Capacity \in Nat /\ Cost \in Nat /\ Timeout \in Nat
    BY RateAssumption DEF LossCost
  <2>5. /\ Cost * taken \in Int /\ lost * LossCost \in Int
        /\ (lost + 1) * LossCost = lost * LossCost + LossCost
    <3>1. (lost + 1) * LossCost = LossCost * (lost + 1) /\ lost * LossCost = LossCost * lost
      BY <1>2, <2>4
    <3>2. QED
      BY <1>2, <2>4, <3>1, AddOne, ProductType
  <2>6. Cost * taken + Capacity <= Capacity + (x - since) + (lost + 1) * LossCost
    BY <1>2, <1>6, <2>2, <2>3, <2>4, <2>5
  <2>7. QED
    BY <1>1, <2>1, <2>6 DEF PaidAt, Refilled, LossCost
<1>7. Paid'
  <2>1. PaidAt(now)'
    <3>1. since <= now /\ now <= now /\ now <= now + Timeout
      BY <1>2, RateAssumption
    <3>2. QED
      BY <1>1, <1>2, <1>6, <3>1 DEF PaidAt
  <2>2. ASSUME NEW q \in Request, InRedis(q), since <= check[q].at PROVE PaidAt(check[q].at)'
    <3>1. check[q].at \in Nat /\ check[q].at <= now /\ now <= check[q].at + Timeout
      BY <2>2 DEF RateInv, CheckAge, RateTypeOK, CheckRecord
    <3>2. QED
      BY <1>1, <1>6, <2>2, <3>1 DEF PaidAt
  <2>3. QED
    BY <1>1, <2>1, <2>2 DEF Paid, InRedis, PaidAt
<1>8. QED
  BY <1>3, <1>4, <1>5, <1>7 DEF RateInv

LEMMA RateStep == RateInv /\ [RateNext]_rateVars => RateInv'
<1> SUFFICES ASSUME RateInv, [RateNext]_rateVars PROVE RateInv'
  OBVIOUS
<1>1. CASE Advance \/ LoseBucket
  BY <1>1, AdvanceKeeps, LoseKeeps
<1>2. ASSUME NEW q \in Request, WriteBucket(q) PROVE RateInv'
  BY <1>2, WriteKeeps
<1>3. ASSUME NEW q \in Request,
             \/ StartCheck(q) \/ ReadBucket(q) \/ CheckFails(q)
             \/ EndCheck(q) \/ KillCheck(q)
      PROVE  RateInv'
  <2>1. /\ check \in [Request -> CheckRecord] /\ now \in Nat /\ bucket \in BucketRecord
        /\ faults \in 0..MaxFaults
    BY RateAssumption DEF RateInv, RateTypeOK
  <2>2. Stored \in BucketRecord /\ IdleCheck \in CheckRecord /\ NoBucket \in BucketRecord
    BY <2>1, StoredType, NoBucketType DEF IdleCheck, CheckRecord
  <2>3. UNCHANGED <<now, bucket, since, taken, lost>>
    BY <1>3 DEF StartCheck, ReadBucket, CheckFails, EndCheck, KillCheck, history
  <2>4. check' \in [Request -> CheckRecord]
    BY <1>3, <2>1, <2>2 DEF StartCheck, ReadBucket, CheckFails, EndCheck, KillCheck, CheckRecord
  <2>5. faults' \in 0..MaxFaults
    BY <1>3, <2>1, RateAssumption
    DEF StartCheck, ReadBucket, CheckFails, EndCheck, KillCheck, Fault
  <2>6. RateTypeOK'
    BY <2>3, <2>4, <2>5 DEF RateInv, RateTypeOK
  <2>7. \A r \in Request \ {q} : check'[r] = check[r]
    BY <1>3, <2>1 DEF StartCheck, ReadBucket, CheckFails, EndCheck, KillCheck
  <2>8. \/ check'[q].pc \notin {"captured", "write"}
        \/ check'[q].pc = "captured" /\ check'[q].at = now
        \/ /\ InRedis(q) /\ check'[q].at = check[q].at
           /\ Refilled(check'[q].seen, check'[q].at) >= Cost
    <3>1. CASE ReadBucket(q)
      <4>1. /\ check[q].pc = "captured"
            /\ check'[q].at = check[q].at /\ check'[q].seen = Stored
            /\ check'[q].pc = IF Refilled(Stored, check[q].at) < Cost THEN "denied" ELSE "write"
        BY <3>1, <2>1 DEF ReadBucket, CheckRecord
      <4>2. Refilled(Stored, check[q].at) \in Int /\ Cost \in Int
        BY <2>1, <2>2, RefilledRange, RateAssumption DEF CheckRecord
      <4>3. QED
        BY <4>1, <4>2 DEF InRedis
    <3>2. CASE ~ReadBucket(q)
      BY <1>3, <2>1, <3>2 DEF StartCheck, CheckFails, EndCheck, KillCheck, IdleCheck, CheckRecord
    <3>3. QED
      BY <3>1, <3>2
  <2>9. QED
    BY <2>3, <2>6, <2>7, <2>8, BucketUntouched
<1>4. CASE UNCHANGED rateVars
  BY <1>4 DEF rateVars, history, RateInv, RateTypeOK, BucketAge, CheckAge, Paid, PaidAt, InRedis,
              Refilled, LossCost
<1>5. QED
  BY <1>1, <1>2, <1>3, <1>4 DEF RateNext

-----------------------------------------------------------------------------
(* The theorems *)

\* The invariant gives the three promises of the bucket.
LEMMA RateInvImplies == RateInv => RateTypeOK /\ BurstBounded /\ RetryAfterIsEnough
<1> SUFFICES ASSUME RateInv PROVE RateTypeOK /\ BurstBounded /\ RetryAfterIsEnough
  OBVIOUS
<1>1. now \in Nat /\ bucket \in BucketRecord /\ bucket.last <= now
  BY RateAssumption DEF RateInv, RateTypeOK, BucketAge
<1>2. Cost * taken \in Int /\ lost * LossCost \in Int
  BY ProductType, RateAssumption DEF RateInv, RateTypeOK, LossCost
<1>3. 0 <= Refilled(bucket, now) /\ Refilled(bucket, now) \in Int
  BY <1>1, RefilledRange
<1>4. BurstBounded
  <2>1. since \in Nat /\ Capacity \in Nat
    BY <1>1, RateAssumption DEF RateInv, RateTypeOK
  <2>2. Cost * taken + Refilled(bucket, now) <= Capacity + (now - since) + lost * LossCost
    BY DEF RateInv, Paid, PaidAt
  <2>3. QED
    BY <1>1, <1>2, <1>3, <2>1, <2>2 DEF BurstBounded
<1>5. RetryAfter \in Nat /\ RetryAfter >= TicksPerSecond
  <2>1. TicksPerSecond \in Nat /\ TicksPerSecond > 0 /\ Cost \in Nat
    BY RateAssumption
  <2>2. DEFINE d == Cost \div TicksPerSecond
  <2>3. d \in Int
    BY <2>1
  <2>4. \A s \in Int : s >= 1 => s * TicksPerSecond >= TicksPerSecond /\ s * TicksPerSecond \in Nat
    BY <2>1
  <2>5. RetryAfter = (IF d < 1 THEN 1 ELSE d) * TicksPerSecond
    BY DEF RetryAfter
  <2>6. QED
    BY <2>3, <2>4, <2>5
<1>6. RetryAfterIsEnough
  BY <1>1, <1>5, RateAssumption DEF RetryAfterIsEnough, Refilled, BucketRecord
<1>7. QED
  BY <1>4, <1>6 DEF RateInv

\* Every value stays in its range; the tokens never leave 0..max_tokens.
THEOREM RateTypeCorrect == RateSpec => []RateTypeOK
<1>1. QED
  BY RateInitial, RateStep, RateInvImplies, PTL DEF RateSpec

\* _check_rate_limit hands out the burst and the refill, and beyond that only
\* what the writes over another request's write lose.
THEOREM BurstBound == RateSpec => []BurstBounded
<1>1. QED
  BY RateInitial, RateStep, RateInvImplies, PTL DEF RateSpec

\* The Retry-After of the 429 answer suffices.
THEOREM RetryAfterSuffices == RateSpec => []RetryAfterIsEnough
<1>1. QED
  BY RateInitial, RateStep, RateInvImplies, PTL DEF RateSpec

-----------------------------------------------------------------------------
(* The chain of middleware *)

\* Only a request in the rate limiter or the view has a check in progress, only one
\* with a key deals with the cache, and only a 2xx response is stored.
Chained ==
    \A q \in Request :
        /\ serve[q].pc # "limit" => check[q] = IdleCheck
        /\ serve[q].pc \in {"lookup", "store"} => serve[q].key \in Key
        /\ serve[q].pc = "store" => serve[q].response.status = "ok"

\* Who may still execute counts as an execution; and as long as nothing has ever
\* been stored, whoever has executed is about to store or has an excuse.
Counted ==
    \A k \in Key :
        /\ effects[k] + Cardinality(Admitted(k)) <= 1 + excuses[k]
        /\ cache[k] = NothingStored => effects[k] <= excuses[k] + Cardinality(Storing(k))

ServeType == serve \in [Request -> [pc : ServePc, key : Key \cup {NoKey}, response : Response]]

ServeRecord == [pc : ServePc, key : Key \cup {NoKey}, response : Response]

GateType ==
    /\ ServeType
    /\ cache \in [Key -> [response : Response, expires : Nat]]
    /\ effects \in [Key -> Nat]
    /\ excuses \in [Key -> Nat]

GateInv == RateInv /\ GateType /\ Chained /\ Counted /\ ResponsesEarned

-----------------------------------------------------------------------------
(* Counting requests *)

LEMMA CountType ==
    \A k \in Key : /\ Cardinality(Admitted(k)) \in Nat
                   /\ Cardinality(Storing(k)) \in Nat
                   /\ IsFiniteSet(Admitted(k)) /\ IsFiniteSet(Storing(k))
<1> TAKE k \in Key
<1>1. IsFiniteSet(Admitted(k)) /\ IsFiniteSet(Storing(k))
  BY KeyAssumption, FS_Subset DEF Admitted, Storing
<1>2. QED
  BY <1>1, FS_CardinalityType

\* A set of requests that q joins, leaves or is not affected by.
LEMMA OneMoves ==
    ASSUME NEW S, NEW T, NEW q, IsFiniteSet(S), IsFiniteSet(T), S \ {q} = T \ {q}
    PROVE  /\ q \in S /\ q \notin T => Cardinality(T) = Cardinality(S) - 1
           /\ q \notin S /\ q \in T => Cardinality(T) = Cardinality(S) + 1
           /\ (q \in S <=> q \in T) => T = S
<1>1. ASSUME q \in S, q \notin T PROVE Cardinality(T) = Cardinality(S) - 1
  <2>1. T = S \ {q}
    BY <1>1
  <2>2. QED
    BY <1>1, <2>1, FS_RemoveElement
<1>2. ASSUME q \notin S, q \in T PROVE Cardinality(T) = Cardinality(S) + 1
  <2>1. T = S \cup {q}
    BY <1>2
  <2>2. QED
    BY <1>2, <2>1, FS_AddElement
<1>3. (q \in S <=> q \in T) => T = S
  OBVIOUS
<1>4. QED
  BY <1>1, <1>2, <1>3

\* How the two sets change when request q moves.
LEMMA RequestMoves ==
    ASSUME NEW q \in Request, NEW k \in Key,
           \A p \in Request \ {q} : serve'[p] = serve[p]
    PROVE  LET a == Cardinality(Admitted(k))  b == Cardinality(Admitted(k)')
               c == Cardinality(Storing(k))   d == Cardinality(Storing(k)')
           IN  /\ b = IF At(q, "limit", k) /\ ~At(q, "limit", k)' THEN a - 1
                      ELSE IF ~At(q, "limit", k) /\ At(q, "limit", k)' THEN a + 1 ELSE a
               /\ d = IF At(q, "store", k) /\ ~At(q, "store", k)' THEN c - 1
                      ELSE IF ~At(q, "store", k) /\ At(q, "store", k)' THEN c + 1 ELSE c
<1>1. /\ IsFiniteSet(Admitted(k)) /\ IsFiniteSet(Storing(k))
      /\ IsFiniteSet(Admitted(k)') /\ IsFiniteSet(Storing(k)')
  BY KeyAssumption, FS_Subset DEF Admitted, Storing
<1>2. /\ Admitted(k) \ {q} = Admitted(k)' \ {q}
      /\ Storing(k) \ {q} = Storing(k)' \ {q}
  BY DEF Admitted, Storing, At
<1>3. /\ q \in Admitted(k) <=> At(q, "limit", k)
      /\ q \in Admitted(k)' <=> At(q, "limit", k)'
      /\ q \in Storing(k) <=> At(q, "store", k)
      /\ q \in Storing(k)' <=> At(q, "store", k)'
  BY DEF Admitted, Storing, At
<1>4. QED
  BY <1>1, <1>2, <1>3, OneMoves

-----------------------------------------------------------------------------
(* The bucket *)

\* A step of the gateway is a step of the bucket: a failure of Redis elsewhere is
\* one that does nothing to the request's check.
LEMMA BucketStep == RateInv /\ Chained /\ [Next]_vars => [RateNext]_rateVars
<1> SUFFICES ASSUME RateInv, Chained, [Next]_vars PROVE [RateNext]_rateVars
  OBVIOUS
<1>1. check \in [Request -> CheckRecord]
  BY DEF RateInv, RateTypeOK
<1>2. ASSUME NEW q \in Request, LookupFails(q) \/ StoreFails(q) PROVE RateNext
  <2>1. check[q] = IdleCheck
    BY <1>2 DEF Chained, LookupFails, StoreFails
  <2>2. check = [check EXCEPT ![q] = IdleCheck]
    BY <1>1, <2>1
  <2>3. KillCheck(q)
    BY <1>2, <2>2 DEF LookupFails, StoreFails, KillCheck
  <2>4. QED
    BY <2>3 DEF RateNext
<1>3. ASSUME NEW q \in Request, FailInView(q) PROVE RateNext
  BY <1>3 DEF FailInView, KillCheck, RateNext
<1>4. ASSUME NEW q \in Request,
             LimitStep(q) \/ Refuse(q) \/ RunView(q) \/ RejectInView(q) \/ KillRequest(q)
      PROVE  RateNext
  BY <1>4 DEF LimitStep, Refuse, RunView, RejectInView, KillRequest, RateNext
<1>5. ASSUME NEW q \in Request,
             \/ \E k \in Key \cup {NoKey} : Receive(q, k)
             \/ Replay(q) \/ Miss(q) \/ StoreResponse(q)
      PROVE  UNCHANGED rateVars
  BY <1>5 DEF Receive, Replay, Miss, StoreResponse
<1>6. CASE RestartRedis \/ (Advance /\ UNCHANGED gateVars)
  BY <1>6 DEF RestartRedis, RateNext
<1>7. CASE UNCHANGED vars
  BY <1>7 DEF vars
<1>8. QED
  BY <1>2, <1>3, <1>4, <1>5, <1>6, <1>7 DEF Next

-----------------------------------------------------------------------------

LEMMA GateInitial == Init => GateInv
<1> SUFFICES ASSUME Init PROVE GateInv
  OBVIOUS
<1> USE DEF Init
<1>1. RateInv
  BY RateInitial
<1>2. NoResponse \in Response
  BY DEF NoResponse, Response
<1>3. GateType
  BY <1>2 DEF GateType, ServeType, ServePc, NewRequest, NothingStored
<1>4. Chained
  BY DEF Chained, NewRequest, RateInit
<1>5. \A k \in Key : Admitted(k) = {} /\ Storing(k) = {}
  BY DEF Admitted, Storing, At, NewRequest
<1>6. Counted
  BY <1>5, FS_EmptySet DEF Counted
<1>7. ResponsesEarned
  BY DEF ResponsesEarned, NewRequest, NoResponse
<1>8. QED
  BY <1>1, <1>3, <1>4, <1>6, <1>7 DEF GateInv

-----------------------------------------------------------------------------
(* The steps *)

\* What a request does itself.
Moves(q) ==
    \/ \E k \in Key \cup {NoKey} : Receive(q, k)
    \/ Replay(q) \/ Miss(q) \/ LookupFails(q)
    \/ LimitStep(q) \/ Refuse(q) \/ RunView(q) \/ RejectInView(q) \/ FailInView(q)
    \/ StoreResponse(q) \/ StoreFails(q) \/ KillRequest(q)

LEMMA NextMoves ==
    [Next]_vars => \/ \E q \in Request : Moves(q)
                   \/ RestartRedis
                   \/ UNCHANGED gateVars /\ (Advance \/ UNCHANGED check)
BY DEF Next, Moves, vars, rateVars

\* A stored response that has not expired is a response that was stored.
LEMMA FoundIsStored ==
    \A k \in Key : RateTypeOK =>
        \A e \in Found(k) : e = cache[k] /\ cache[k] # NothingStored
BY RateAssumption DEF Found, RateTypeOK, NothingStored

LEMMA ResponseTypes ==
    \A k \in Key \cup {NoKey}, n \in Nat :
        /\ [status |-> "ok", key |-> k, nth |-> n] \in Response
        /\ [status |-> "refused", key |-> k, nth |-> n] \in Response
        /\ [status |-> "error", key |-> k, nth |-> n] \in Response
BY DEF Response

\* A handler moves its request on, with the response it has or a new one.
LEMMA ServeUpdates ==
    ASSUME ServeType, NEW q \in Request, NEW pc \in ServePc, NEW response \in Response
    PROVE  /\ [serve[q] EXCEPT !.pc = pc] \in ServeRecord
           /\ [serve[q] EXCEPT !.pc = pc, !.response = response] \in ServeRecord
           /\ [serve[q] EXCEPT !.response = response, !.pc = pc] \in ServeRecord
<1>1. serve[q] \in ServeRecord
  BY DEF ServeType, ServeRecord
<1>2. QED
  BY <1>1 DEF ServeRecord

\* Only the record of q changes.
LEMMA ServeTypeKept ==
    ASSUME ServeType, NEW q \in Request, NEW r \in ServeRecord, serve' = [serve EXCEPT ![q] = r]
    PROVE  ServeType'
BY DEF ServeType, ServeRecord

\* The handler of q changes q's own state only.
LEMMA OwnState ==
    ASSUME NEW q \in Request, GateInv, Moves(q)
    PROVE  /\ \A p \in Request \ {q} : serve'[p] = serve[p] /\ check'[p] = check[p]
           /\ ServeType'
<1>s. ServeType /\ serve \in [Request -> ServeRecord]
  BY DEF GateInv, GateType, ServeType, ServeRecord
<1>1. check \in [Request -> CheckRecord]
  BY DEF GateInv, RateInv, RateTypeOK
<1>2. NoResponse \in Response
  BY DEF NoResponse, Response
<1>3. CASE \E k \in Key \cup {NoKey} : Receive(q, k)
  <2>1. PICK k \in Key \cup {NoKey} : Receive(q, k)
    BY <1>3
  <2>2. [pc |-> IF k = NoKey THEN "limit" ELSE "lookup", key |-> k, response |-> NoResponse]
          \in ServeRecord
    BY <1>2 DEF ServeRecord, ServePc
  <2>3. ServeType'
    BY <1>s, <2>1, <2>2, ServeTypeKept DEF Receive
  <2>4. QED
    BY <1>s, <2>1, <2>3 DEF Receive, rateVars
<1>4. CASE Replay(q)
  <2>1. RateTypeOK /\ serve[q].key \in Key
    BY <1>4 DEF GateInv, RateInv, Chained, Replay
  <2>2. PICK e \in Found(serve[q].key) :
          serve' = [serve EXCEPT ![q].pc = "done", ![q].response = e.response]
    BY <1>4 DEF Replay
  <2>3. e.response \in Response
    <3>1. cache[serve[q].key].response \in Response
      BY <2>1 DEF GateInv, GateType
    <3>2. QED
      BY <2>1, <2>2, <3>1, FoundIsStored
  <2>4. check' = check
    BY <1>4 DEF Replay, rateVars
  <2>5. \A p \in Request \ {q} : serve'[p] = serve[p]
    BY <1>s, <2>2
  <2>6. ServeType'
    <3>1. [serve[q] EXCEPT !.pc = "done", !.response = e.response] \in ServeRecord
      BY <1>s, <2>3, ServeUpdates DEF ServePc
    <3>2. serve' = [serve EXCEPT ![q] = [serve[q] EXCEPT !.pc = "done", !.response = e.response]]
      BY <1>s, <2>2
    <3>3. QED
      BY <1>s, <3>1, <3>2, ServeTypeKept
  <2>7. QED
    BY <2>4, <2>5, <2>6
<1>5. CASE Miss(q) \/ LookupFails(q) \/ StoreResponse(q) \/ StoreFails(q)
  <2>1. PICK pc \in ServePc : serve' = [serve EXCEPT ![q].pc = pc]
    BY <1>5 DEF Miss, LookupFails, StoreResponse, StoreFails, ServePc
  <2>2. [serve[q] EXCEPT !.pc = pc] \in ServeRecord
    BY <1>2, <1>s, ServeUpdates
  <2>3. serve' = [serve EXCEPT ![q] = [serve[q] EXCEPT !.pc = pc]]
    BY <1>s, <2>1
  <2>4. ServeType'
    BY <1>s, <2>2, <2>3, ServeTypeKept
  <2>5. check' = check
    BY <1>5 DEF Miss, LookupFails, StoreResponse, StoreFails, rateVars
  <2>6. QED
    BY <2>1, <2>4, <2>5
<1>6. CASE LimitStep(q)
  BY <1>1, <1>6, <1>s
  DEF LimitStep, gateVars, StartCheck, ReadBucket, WriteBucket, CheckFails, ServeType
<1>7. CASE Refuse(q) \/ RunView(q) \/ RejectInView(q) \/ FailInView(q)
  <2>1. PICK response \in Response : serve' = Answered(q, response)
    <3>1. serve[q].key \in Key \cup {NoKey} /\ effects \in [Key -> Nat]
      BY <1>s DEF ServeRecord, GateInv, GateType
    <3>2. CASE Refuse(q) \/ RejectInView(q) \/ FailInView(q)
      BY <3>1, <3>2, ResponseTypes DEF Refuse, RejectInView, FailInView
    <3>3. CASE RunView(q)
      <4>1. (IF serve[q].key = NoKey THEN 0 ELSE effects[serve[q].key] + 1) \in Nat
        BY <3>1
      <4>2. QED
        BY <3>1, <3>3, <4>1, ResponseTypes DEF RunView
    <3>4. QED
      BY <1>7, <3>2, <3>3
  <2>2. ServeType'
    <3>1. PICK pc \in ServePc : serve' = [serve EXCEPT ![q].response = response, ![q].pc = pc]
      BY <2>1 DEF Answered, ServePc
    <3>2. [serve[q] EXCEPT !.response = response, !.pc = pc] \in ServeRecord
      BY <1>s, ServeUpdates
    <3>3. serve' = [serve EXCEPT ![q] = [serve[q] EXCEPT !.response = response, !.pc = pc]]
      BY <1>s, <3>1
    <3>4. QED
      BY <1>s, <3>2, <3>3, ServeTypeKept
  <2>3. \A p \in Request \ {q} : serve'[p] = serve[p]
    BY <1>s, <2>1 DEF Answered
  <2>4. \A p \in Request \ {q} : check'[p] = check[p]
    BY <1>1, <1>7 DEF Refuse, RunView, RejectInView, FailInView, EndCheck
  <2>5. QED
    BY <2>2, <2>3, <2>4
<1>8. CASE KillRequest(q)
  <2>1. [serve[q] EXCEPT !.pc = "done", !.response = NoResponse] \in ServeRecord
    BY <1>2, <1>s, ServeUpdates DEF ServePc
  <2>2. serve' = [serve EXCEPT ![q] = [serve[q] EXCEPT !.pc = "done", !.response = NoResponse]]
    BY <1>8, <1>s DEF KillRequest
  <2>3. ServeType'
    BY <1>s, <2>1, <2>2, ServeTypeKept
  <2>4. \A p \in Request \ {q} : check'[p] = check[p]
    BY <1>1, <1>8 DEF KillRequest, KillCheck
  <2>5. QED
    BY <2>2, <2>3, <2>4
<1>9. QED
  BY <1>3, <1>4, <1>5, <1>6, <1>7, <1>8 DEF Moves

LEMMA ChainedStep == GateInv /\ [Next]_vars => Chained'
<1> SUFFICES ASSUME GateInv, [Next]_vars PROVE Chained'
  OBVIOUS
<1>1. check \in [Request -> CheckRecord] /\ ServeType
  BY DEF GateInv, GateType, RateInv, RateTypeOK
<1>2. ASSUME NEW q \in Request, Moves(q) PROVE Chained'
  <2>1. /\ serve'[q].pc # "limit" => check'[q] = IdleCheck
        /\ serve'[q].pc \in {"lookup", "store"} => serve'[q].key \in Key
        /\ serve'[q].pc = "store" => serve'[q].response.status = "ok"
    <3>1. /\ serve[q].pc # "limit" => check[q] = IdleCheck
          /\ serve[q].pc \in {"lookup", "store"} => serve[q].key \in Key
          /\ serve[q].pc = "store" => serve[q].response.status = "ok"
      BY DEF GateInv, Chained
    <3>2. CASE \/ \E k \in Key \cup {NoKey} : Receive(q, k)
               \/ Replay(q) \/ Miss(q) \/ LookupFails(q) \/ StoreResponse(q) \/ StoreFails(q)
      BY <1>1, <3>1, <3>2
      DEF Receive, Replay, Miss, LookupFails, StoreResponse, StoreFails, ServeType, rateVars
    <3>3. CASE LimitStep(q)
      BY <1>1, <3>1, <3>3 DEF LimitStep, gateVars
    <3>4. CASE Refuse(q) \/ RunView(q) \/ RejectInView(q) \/ FailInView(q)
      <4>1. check'[q] = IdleCheck
        BY <1>1, <3>4 DEF Refuse, RunView, RejectInView, FailInView, EndCheck
      <4>2. PICK response : serve' = Answered(q, response)
        BY <3>4 DEF Refuse, RunView, RejectInView, FailInView
      <4>3. QED
        BY <1>1, <4>1, <4>2 DEF Answered, Stores, ServeType
    <3>5. CASE KillRequest(q)
      BY <1>1, <3>5 DEF KillRequest, KillCheck, ServeType
    <3>6. QED
      BY <1>2, <3>2, <3>3, <3>4, <3>5 DEF Moves
  <2>2. QED
    BY <1>2, <2>1, OwnState DEF GateInv, Chained
<1>3. CASE RestartRedis \/ (UNCHANGED gateVars /\ (Advance \/ UNCHANGED check))
  BY <1>3 DEF RestartRedis, LoseBucket, Advance, gateVars, GateInv, Chained
<1>4. QED
  BY <1>2, <1>3, NextMoves

LEMMA GateTypeStep == GateInv /\ [Next]_vars => GateType'
<1> SUFFICES ASSUME GateInv, [Next]_vars PROVE GateType'
  OBVIOUS
<1> USE DEF GateInv, GateType
<1>1. RateTypeOK /\ now \in Nat /\ ResponseTTL \in Nat
  BY RateAssumption, KeyAssumption DEF RateInv, RateTypeOK
<1>2. ASSUME NEW q \in Request, Moves(q) PROVE GateType'
  <2>1. ServeType'
    BY <1>2, OwnState
  <2>2. cache' \in [Key -> [response : Response, expires : Nat]]
    <3>1. CASE StoreResponse(q)
      <4>1. serve[q].response \in Response /\ now + ResponseTTL \in Nat
        BY <1>1 DEF ServeType
      <4>2. QED
        BY <3>1, <4>1 DEF StoreResponse
    <3>2. CASE ~StoreResponse(q)
      BY <1>2, <3>2
      DEF Moves, Receive, Replay, Miss, LookupFails, LimitStep, Refuse, RunView, RejectInView,
          FailInView, StoreFails, KillRequest, gateVars
    <3>3. QED
      BY <3>1, <3>2
  <2>3. effects' \in [Key -> Nat]
    BY <1>2
    DEF Moves, Receive, Replay, Miss, LookupFails, LimitStep, Refuse, RunView, RejectInView,
        FailInView, StoreResponse, StoreFails, KillRequest, gateVars
  <2>4. excuses' \in [Key -> Nat]
    BY <1>2
    DEF Moves, Receive, Replay, Miss, LookupFails, LimitStep, Refuse, RunView, RejectInView,
        FailInView, StoreResponse, StoreFails, KillRequest, Excused, gateVars
  <2>5. QED
    BY <2>1, <2>2, <2>3, <2>4
<1>3. CASE RestartRedis
  <2>1. NothingStored \in [response : Response, expires : Nat]
    BY DEF NothingStored, NoResponse, Response
  <2>2. QED
    BY <1>3, <2>1 DEF RestartRedis, ServeType
<1>4. CASE UNCHANGED gateVars
  BY <1>4 DEF gateVars, ServeType
<1>5. QED
  BY <1>2, <1>3, <1>4, NextMoves

\* A mutation is made, or about to be made, once and once more per excuse.
LEMMA CountedStep == GateInv /\ [Next]_vars => Counted'
<1> SUFFICES ASSUME GateInv, [Next]_vars PROVE Counted'
  OBVIOUS
<1>1. ServeType /\ ServeType' /\ effects \in [Key -> Nat] /\ excuses \in [Key -> Nat]
  BY GateTypeStep DEF GateInv, GateType
<1>2. ASSUME NEW q \in Request, Moves(q) PROVE Counted'
  <2> SUFFICES ASSUME NEW k \in Key
               PROVE  /\ effects'[k] + Cardinality(Admitted(k)') <= 1 + excuses'[k]
                      /\ cache'[k] = NothingStored =>
                            effects'[k] <= excuses'[k] + Cardinality(Storing(k)')
    BY DEF Counted, NothingStored, NoResponse
  <2> DEFINE a == Cardinality(Admitted(k))  b == Cardinality(Admitted(k)')
             c == Cardinality(Storing(k))   d == Cardinality(Storing(k)')
  <2>1. a \in Nat /\ c \in Nat /\ effects[k] \in Nat /\ excuses[k] \in Nat
    BY <1>1, CountType
  <2>2. /\ effects[k] + a <= 1 + excuses[k]
        /\ cache[k] = NothingStored => effects[k] <= excuses[k] + c
    BY DEF GateInv, Counted
  <2>3. /\ b = IF At(q, "limit", k) /\ ~At(q, "limit", k)' THEN a - 1
               ELSE IF ~At(q, "limit", k) /\ At(q, "limit", k)' THEN a + 1 ELSE a
        /\ d = IF At(q, "store", k) /\ ~At(q, "store", k)' THEN c - 1
               ELSE IF ~At(q, "store", k) /\ At(q, "store", k)' THEN c + 1 ELSE c
    BY <1>2, OwnState, RequestMoves
  <2>4. serve[q].pc \in {"lookup", "store"} => serve[q].key \in Key
    BY DEF GateInv, Chained
  <2>5. NoKey # k
    BY KeyAssumption
  <2> HIDE DEF a, b, c, d
  <2>6. /\ b <= 1 + excuses'[k] - effects'[k]
        /\ cache'[k] = NothingStored => effects'[k] <= excuses'[k] + d
    <3>1. CASE \/ \E l \in Key \cup {NoKey} : Receive(q, l)
               \/ Replay(q) \/ LimitStep(q)
      <4>1. UNCHANGED <<cache, effects, excuses>>
        BY <3>1 DEF Receive, Replay, LimitStep, gateVars
      <4>2. /\ At(q, "limit", k) <=> At(q, "limit", k)'
            /\ At(q, "store", k) <=> At(q, "store", k)'
        BY <1>1, <2>5, <3>1 DEF Receive, Replay, LimitStep, At, ServeType, gateVars
      <4>3. QED
        BY <2>1, <2>2, <2>3, <4>1, <4>2
    <3>2. CASE Miss(q)
      <4>1. UNCHANGED <<cache, effects>>
        BY <3>2 DEF Miss
      <4>2. /\ ~At(q, "limit", k) /\ ~At(q, "store", k) /\ ~At(q, "store", k)'
            /\ At(q, "limit", k)' <=> serve[q].key = k
        BY <1>1, <3>2 DEF Miss, At, ServeType
      <4>3. excuses'[k] \in Nat /\ excuses'[k] >= excuses[k]
        BY <1>1, <2>1, <3>2 DEF Miss, Excused
      <4>4. CASE serve[q].key # k
        BY <2>1, <2>2, <2>3, <4>1, <4>2, <4>3, <4>4
      <4>5. CASE serve[q].key = k /\ (Overlaps(k) \/ cache[k] # NothingStored)
        <5>1. excuses'[k] = excuses[k] + 1
          BY <1>1, <3>2, <4>5 DEF Miss, Excused
        <5>2. QED
          BY <2>1, <2>2, <2>3, <4>1, <4>2, <5>1
      <4>6. CASE serve[q].key = k /\ ~Overlaps(k) /\ cache[k] = NothingStored
        <5>1. a = 0 /\ c = 0
          BY <4>6, FS_EmptySet DEF Overlaps, a, c
        <5>2. QED
          BY <2>1, <2>2, <2>3, <4>1, <4>2, <4>3, <4>6, <5>1
      <4>7. QED
        BY <4>4, <4>5, <4>6
    <3>3. CASE LookupFails(q)
      <4>1. /\ UNCHANGED <<cache, effects>>
            /\ excuses' = [excuses EXCEPT ![serve[q].key] = @ + 1]
        BY <3>3 DEF LookupFails, Excused
      <4>2. /\ ~At(q, "limit", k) /\ ~At(q, "store", k) /\ ~At(q, "store", k)'
            /\ At(q, "limit", k)' <=> serve[q].key = k
        BY <1>1, <3>3 DEF LookupFails, At, ServeType
      <4>3. QED
        BY <1>1, <2>1, <2>2, <2>3, <4>1, <4>2
    <3>4. CASE Refuse(q) \/ RejectInView(q)
      <4>1. UNCHANGED <<cache, effects, excuses>>
        BY <3>4 DEF Refuse, RejectInView
      <4>2. ~At(q, "limit", k)' /\ ~At(q, "store", k) /\ ~At(q, "store", k)'
        BY <1>1, <3>4 DEF Refuse, RejectInView, Answered, Stores, At, ServeType
      <4>3. QED
        BY <2>1, <2>2, <2>3, <4>1, <4>2
    <3>5. CASE RunView(q)
      <4>1. /\ UNCHANGED <<cache, excuses>>
            /\ effects'[k] = IF serve[q].key = k THEN effects[k] + 1 ELSE effects[k]
        BY <1>1, <2>5, <3>5 DEF RunView
      <4>2. /\ At(q, "limit", k) <=> serve[q].key = k
            /\ ~At(q, "limit", k)' /\ ~At(q, "store", k)
            /\ At(q, "store", k)' <=> serve[q].key = k
        BY <1>1, <2>5, <3>5 DEF RunView, Answered, Stores, At, ServeType
      <4>3. QED
        BY <2>1, <2>2, <2>3, <4>1, <4>2
    <3>6. CASE FailInView(q)
      <4>1. /\ UNCHANGED cache
            /\ effects'[k] = IF serve[q].key = k THEN effects[k] + 1 ELSE effects[k]
            /\ excuses'[k] = IF serve[q].key = k THEN excuses[k] + 1 ELSE excuses[k]
        BY <1>1, <3>6 DEF FailInView, Excused
      <4>2. /\ At(q, "limit", k) <=> serve[q].key = k
            /\ ~At(q, "limit", k)' /\ ~At(q, "store", k) /\ ~At(q, "store", k)'
        BY <1>1, <3>6 DEF FailInView, Answered, Stores, At, ServeType
      <4>3. QED
        BY <2>1, <2>2, <2>3, <4>1, <4>2
    <3>7. CASE StoreResponse(q)
      <4>1. UNCHANGED <<effects, excuses>>
        BY <3>7 DEF StoreResponse
      <4>2. /\ ~At(q, "limit", k) /\ ~At(q, "limit", k)' /\ ~At(q, "store", k)'
            /\ At(q, "store", k) <=> serve[q].key = k
        BY <1>1, <3>7 DEF StoreResponse, At, ServeType
      <4>3. CASE serve[q].key # k
        <5>1. cache'[k] = cache[k]
          BY <3>7, <4>3 DEF StoreResponse
        <5>2. QED
          BY <2>1, <2>2, <2>3, <4>1, <4>2, <4>3, <5>1
      <4>4. CASE serve[q].key = k
        <5>1. cache'[k].response.status = "ok"
          BY <3>7, <4>4 DEF StoreResponse, GateInv, GateType, Chained
        <5>2. cache'[k] # NothingStored
          BY <5>1 DEF NothingStored, NoResponse
        <5>3. QED
          BY <2>1, <2>2, <2>3, <4>1, <4>2, <5>2
      <4>5. QED
        BY <4>3, <4>4
    <3>8. CASE StoreFails(q)
      <4>1. /\ UNCHANGED <<cache, effects>>
            /\ excuses' = [excuses EXCEPT ![serve[q].key] = @ + 1]
        BY <3>8 DEF StoreFails, Excused
      <4>2. /\ ~At(q, "limit", k) /\ ~At(q, "limit", k)' /\ ~At(q, "store", k)'
            /\ At(q, "store", k) <=> serve[q].key = k
        BY <1>1, <3>8 DEF StoreFails, At, ServeType
      <4>3. QED
        BY <1>1, <2>1, <2>2, <2>3, <4>1, <4>2
    <3>9. CASE KillRequest(q)
      <4>1. UNCHANGED <<cache, effects>>
        BY <3>9 DEF KillRequest
      <4>2. ~At(q, "limit", k)' /\ ~At(q, "store", k)'
        BY <1>1, <3>9 DEF KillRequest, At, ServeType
      <4>3. excuses'[k] = IF At(q, "store", k) THEN excuses[k] + 1 ELSE excuses[k]
        BY <1>1, <2>4, <3>9 DEF KillRequest, Excused, At
      <4>4. ~(At(q, "limit", k) /\ At(q, "store", k))
        BY DEF At
      <4>5. QED
        BY <2>1, <2>2, <2>3, <4>1, <4>2, <4>3, <4>4
    <3>10. QED
      BY <1>2, <3>1, <3>2, <3>3, <3>4, <3>5, <3>6, <3>7, <3>8, <3>9 DEF Moves
  <2>7. effects'[k] \in Nat /\ excuses'[k] \in Nat /\ b \in Nat
    <3>1. b \in Nat
      BY <1>1, KeyAssumption, FS_Subset, FS_CardinalityType DEF b, Admitted
    <3>2. QED
      BY <3>1, GateTypeStep DEF GateInv, GateType
  <2>8. QED
    BY <2>6, <2>7 DEF b, d
<1>3. CASE RestartRedis
  <2> SUFFICES ASSUME NEW k \in Key
               PROVE  /\ effects'[k] + Cardinality(Admitted(k)') <= 1 + excuses'[k]
                      /\ effects'[k] <= excuses'[k] + Cardinality(Storing(k)')
    BY DEF Counted, NothingStored, NoResponse
  <2>1. /\ Cardinality(Admitted(k)) \in Nat /\ Cardinality(Storing(k)) \in Nat
        /\ effects[k] \in Nat /\ excuses[k] \in Nat
    BY <1>1, CountType
  <2>2. effects'[k] = effects[k] /\ excuses'[k] = excuses[k] + 1
    BY <1>1, <1>3 DEF RestartRedis
  <2>3. Admitted(k)' = Admitted(k) /\ Storing(k)' = Storing(k)
    BY <1>3 DEF RestartRedis, Admitted, Storing, At
  <2>4. effects[k] + Cardinality(Admitted(k)) <= 1 + excuses[k]
    BY DEF GateInv, Counted
  <2>5. QED
    BY <2>1, <2>2, <2>3, <2>4
<1>4. CASE UNCHANGED gateVars
  <2>1. \A k \in Key : Admitted(k)' = Admitted(k) /\ Storing(k)' = Storing(k)
    BY <1>4 DEF gateVars, Admitted, Storing, At
  <2>2. QED
    BY <1>4, <2>1 DEF gateVars, GateInv, Counted, NothingStored, NoResponse
<1>5. QED
  BY <1>2, <1>3, <1>4, NextMoves

\* A response tells of a committed execution of its key when it is made; it is
\* stored and replayed under that key, and executions are never undone.
LEMMA EarnedStep == GateInv /\ [Next]_vars => ResponsesEarned'
<1> SUFFICES ASSUME GateInv, [Next]_vars PROVE ResponsesEarned'
  OBVIOUS
<1> DEFINE Earned(r, k) == r.status = "ok" /\ r.key = k /\ r.nth \in 1..effects[k]
           InCache(k) == cache[k] # NothingStored => Earned(cache[k].response, k)
           InServe(q) == serve[q].response.status = "ok" /\ serve[q].key # NoKey =>
                            Earned(serve[q].response, serve[q].key)
<1>1. /\ ServeType /\ ServeType' /\ effects \in [Key -> Nat] /\ effects' \in [Key -> Nat]
      /\ cache \in [Key -> [response : Response, expires : Nat]]
      /\ RateTypeOK
  BY GateTypeStep DEF GateInv, GateType, RateInv
<1>2. ResponsesEarned' <=> (\A k \in Key : InCache(k)') /\ (\A q \in Request : InServe(q)')
  BY DEF ResponsesEarned
<1>3. /\ \A k \in Key : InCache(k)
      /\ \A q \in Request : InServe(q)
  BY DEF GateInv, ResponsesEarned
<1>4. \A k \in Key : effects'[k] >= effects[k]
  <2>1. CASE \E q \in Request : Moves(q)
    BY <1>1, <2>1
    DEF Moves, Receive, Replay, Miss, LookupFails, LimitStep, Refuse, RunView, RejectInView,
        FailInView, StoreResponse, StoreFails, KillRequest, gateVars
  <2>2. CASE RestartRedis \/ UNCHANGED gateVars
    BY <1>1, <2>2 DEF RestartRedis, gateVars
  <2>3. QED
    BY <2>1, <2>2, NextMoves
<1>5. \A r, k : k \in Key /\ Earned(r, k) => Earned(r, k)'
  BY <1>1, <1>4
<1>6. \A q \in Request : serve'[q] = serve[q] => InServe(q)'
  BY <1>1, <1>3, <1>5 DEF ServeType
<1>7. \A k \in Key : cache'[k] = cache[k] => InCache(k)'
  BY <1>3, <1>5 DEF NothingStored, NoResponse
<1>8. ASSUME NEW q \in Request, Moves(q) PROVE ResponsesEarned'
  <2>1. \A p \in Request \ {q} : serve'[p] = serve[p]
    BY <1>8, OwnState
  <2>2. \A k \in Key : InCache(k)'
    <3>1. CASE StoreResponse(q)
      <4>1. /\ serve[q].key \in Key /\ serve[q].response.status = "ok"
        BY <3>1 DEF GateInv, Chained, StoreResponse
      <4>2. Earned(serve[q].response, serve[q].key)'
        <5>1. Earned(serve[q].response, serve[q].key)
          BY <1>3, <4>1, KeyAssumption
        <5>2. \A k \in Key : \A r : Earned(r, k) => r.status = "ok" /\ r.key = k /\ r.nth \in 1..effects'[k]
          BY <1>5
        <5>3. serve'[q].response = serve[q].response /\ serve'[q].key = serve[q].key
          BY <1>1, <3>1 DEF StoreResponse, ServeType
        <5>4. QED
          BY <4>1, <5>1, <5>2, <5>3
      <4>3. /\ cache'[serve[q].key].response = serve[q].response
            /\ \A k \in Key : k # serve[q].key => cache'[k] = cache[k]
            /\ serve'[q].response = serve[q].response /\ serve'[q].key = serve[q].key
        BY <1>1, <3>1, <4>1 DEF StoreResponse, ServeType
      <4>4. InCache(serve[q].key)'
        BY <4>2, <4>3
      <4>5. QED
        BY <1>7, <4>3, <4>4
    <3>2. CASE ~StoreResponse(q)
      <4>1. cache' = cache
        BY <1>8, <3>2
        DEF Moves, Receive, Replay, Miss, LookupFails, LimitStep, Refuse, RunView, RejectInView,
            FailInView, StoreFails, KillRequest, gateVars
      <4>2. QED
        BY <1>7, <4>1
    <3>3. QED
      BY <3>1, <3>2
  <2>3. InServe(q)'
    <3>1. CASE (\E k \in Key \cup {NoKey} : Receive(q, k)) \/ KillRequest(q)
      <4>1. serve'[q].response = NoResponse
        BY <1>1, <3>1 DEF Receive, KillRequest, ServeType
      <4>2. QED
        BY <4>1 DEF NoResponse
    <3>2. CASE Replay(q)
      <4>1. serve[q].key \in Key
        BY <3>2 DEF GateInv, Chained, Replay
      <4>2. PICK e \in Found(serve[q].key) :
              serve' = [serve EXCEPT ![q].pc = "done", ![q].response = e.response]
        BY <3>2 DEF Replay
      <4>3. e = cache[serve[q].key] /\ cache[serve[q].key] # NothingStored
        BY <1>1, <4>1, FoundIsStored
      <4>4. Earned(e.response, serve[q].key)
        BY <1>3, <4>1, <4>3
      <4>5. /\ serve'[q].response = e.response /\ serve'[q].key = serve[q].key
            /\ effects' = effects
        BY <1>1, <3>2, <4>2 DEF ServeType, Replay
      <4>6. QED
        BY <4>4, <4>5
    <3>3. CASE Miss(q) \/ LookupFails(q) \/ LimitStep(q) \/ StoreResponse(q) \/ StoreFails(q)
      <4>1. serve'[q].response = serve[q].response /\ serve'[q].key = serve[q].key
        BY <1>1, <3>3 DEF Miss, LookupFails, LimitStep, StoreResponse, StoreFails, ServeType, gateVars
      <4>2. serve[q].key \in Key \cup {NoKey}
        BY <1>1 DEF ServeType
      <4>3. \A k \in Key : \A r : Earned(r, k) => r.status = "ok" /\ r.key = k /\ r.nth \in 1..effects'[k]
        BY <1>5
      <4>4. QED
        BY <1>3, <4>1, <4>2, <4>3
    <3>4. CASE Refuse(q) \/ RejectInView(q) \/ FailInView(q)
      <4>1. serve'[q].response.status # "ok"
        BY <1>1, <3>4 DEF Refuse, RejectInView, FailInView, Answered, ServeType
      <4>2. QED
        BY <4>1
    <3>5. CASE RunView(q)
      <4> DEFINE k == serve[q].key
      <4>1. CASE k = NoKey
        <5>1. serve'[q].key = NoKey
          BY <1>1, <3>5, <4>1 DEF RunView, Answered, ServeType
        <5>2. QED
          BY <5>1
      <4>2. CASE k # NoKey
        <5>1. k \in Key
          BY <1>1, <4>2 DEF ServeType
        <5>2. /\ serve'[q].response = [status |-> "ok", key |-> k, nth |-> effects[k] + 1]
              /\ serve'[q].key = k /\ effects'[k] = effects[k] + 1
          BY <1>1, <3>5, <4>2, <5>1 DEF RunView, Answered, ServeType
        <5>3. effects[k] + 1 \in 1..effects'[k]
          BY <1>1, <5>1, <5>2
        <5>4. QED
          BY <5>2, <5>3
      <4>3. QED
        BY <4>1, <4>2
    <3>6. QED
      BY <1>8, <3>1, <3>2, <3>3, <3>4, <3>5 DEF Moves
  <2>4. QED
    BY <1>2, <1>6, <2>1, <2>2, <2>3
<1>9. CASE RestartRedis
  <2>1. serve' = serve /\ \A k \in Key : cache'[k] = NothingStored
    BY <1>9 DEF RestartRedis
  <2>2. \A k \in Key : InCache(k)'
    BY <2>1 DEF NothingStored, NoResponse
  <2>3. QED
    BY <1>2, <1>6, <2>1, <2>2
<1>10. CASE UNCHANGED gateVars
  BY <1>2, <1>6, <1>7, <1>10 DEF gateVars
<1>11. QED
  BY <1>8, <1>9, <1>10, NextMoves

-----------------------------------------------------------------------------
(* The theorems *)

LEMMA GateStep == GateInv /\ [Next]_vars => GateInv'
BY BucketStep, RateStep, GateTypeStep, ChainedStep, CountedStep, EarnedStep DEF GateInv

LEMMA GateInvImplies == GateInv => TypeOK /\ RepeatsExcused /\ ResponsesEarned
<1> SUFFICES ASSUME GateInv PROVE TypeOK /\ RepeatsExcused /\ ResponsesEarned
  OBVIOUS
<1>1. TypeOK
  BY RateInvImplies DEF GateInv, GateType, ServeType, TypeOK
<1>2. ASSUME NEW k \in Key PROVE effects[k] <= 1 + excuses[k]
  <2>1. /\ Cardinality(Admitted(k)) \in Nat /\ effects[k] \in Nat /\ excuses[k] \in Nat
        /\ effects[k] + Cardinality(Admitted(k)) <= 1 + excuses[k]
    BY CountType DEF GateInv, GateType, Counted
  <2>2. QED
    BY <2>1
<1>3. QED
  BY <1>1, <1>2 DEF RepeatsExcused, GateInv

\* The chain of middleware keeps its state well formed.
THEOREM GatewayTypeCorrect == Spec => []TypeOK
<1>1. QED
  BY GateInitial, GateStep, GateInvImplies, PTL DEF Spec

\* The gateway implements the specification of the bucket alone: nothing the
\* other middleware, the views or their failures do is anything else to the bucket.
THEOREM GatewayImplementsBucket == Spec => RateSpec
<1>1. Init => RateInit
  BY DEF Init
<1>2. GateInv /\ [Next]_vars => [RateNext]_rateVars
  BY BucketStep DEF GateInv
<1>3. QED
  BY <1>1, <1>2, GateInitial, GateStep, PTL DEF Spec, RateSpec

\* So what the bucket promises holds in the gateway.
THEOREM GatewayBurstBound == Spec => [](BurstBounded /\ RetryAfterIsEnough)
<1>1. QED
  BY GatewayImplementsBucket, BurstBound, RetryAfterSuffices, PTL

\* A mutation with an idempotency key is made once, and made again only where an
\* overlap, an expiry, an error, a kill or a failure half way lets it.
THEOREM RepeatsOnlyExcused == Spec => []RepeatsExcused
<1>1. QED
  BY GateInitial, GateStep, GateInvImplies, PTL DEF Spec

\* What is replayed is the answer of a committed execution of the same key.
THEOREM ReplaysEarned == Spec => []ResponsesEarned
<1>1. QED
  BY GateInitial, GateStep, GateInvImplies, PTL DEF Spec

=============================================================================
