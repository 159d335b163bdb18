---------------------------- MODULE OutboxProofs ----------------------------
(* Theorems about Outbox, for every number of events, schedulers, faults    *)
(* and stops: it is type correct, it delivers events as EventDelivery       *)
(* promises, duplicates are paid for by failures, an outage costs an event  *)
(* few of its attempts, and what is lost is bounded by what was broken.     *)
EXTENDS Outbox, FiniteSetTheorems, TLAPS

-----------------------------------------------------------------------------
(* The inductive invariant *)

\* A batch exists only while it is published, and SKIP LOCKED keeps the rows
\* of a batch PENDING and out of every other batch.
BatchSound(s) ==
    /\ pub[s].pc # "publish" => Batch(s) = {}
    /\ \A e \in Batch(s) : event[e].status = "PENDING"
    /\ \A e \in pub[s].todo : e \notin pub[s].ok /\ e \notin pub[s].failed
    /\ \A e \in pub[s].ok : e \notin pub[s].failed /\ e \in sent

BatchesDisjoint == \A s, t \in Scheduler : \A e \in Batch(s) : e \in Batch(t) => s = t

\* An event with no attempts left is FAILED.
AttemptsLeft == \A e \in Event : event[e].status = "PENDING" => event[e].attempts < MaxPublishAttempts

OutboxInv ==
    /\ TypeOK
    /\ \A s \in Scheduler : BatchSound(s)
    /\ BatchesDisjoint
    /\ AttemptsLeft

ProcessNext(s) ==
    PublisherNext(s) \/ PublisherFails(s) \/ \E e \in Event : DeliveredButFails(s, e)

\* Sets of schedulers, and so of connections, can be counted.
LEMMA SchedulersFinite ==
    ASSUME NEW S, S \subseteq Scheduler
    PROVE  IsFiniteSet(S) /\ Cardinality(S) \in Nat
  BY ConstantsAssumption, FS_Subset, FS_CardinalityType

\* A set that grows by the members of another one grows by at most their number.
LEMMA CountsGrow ==
    ASSUME NEW S, NEW T, NEW U, S \subseteq Scheduler, T \subseteq Scheduler, U \subseteq Scheduler
    PROVE  /\ T \subseteq S => Cardinality(T) <= Cardinality(S)
           /\ T \subseteq S \cup U => Cardinality(T) <= Cardinality(S) + Cardinality(U)
<1>1. IsFiniteSet(S) /\ IsFiniteSet(T) /\ IsFiniteSet(U) /\ IsFiniteSet(S \cup U) /\ IsFiniteSet(S \cap U)
  BY SchedulersFinite
<1>2. /\ Cardinality(S) \in Nat /\ Cardinality(T) \in Nat /\ Cardinality(U) \in Nat
      /\ Cardinality(S \cup U) \in Nat /\ Cardinality(S \cap U) \in Nat
  BY <1>1, FS_CardinalityType
<1>3. Cardinality(S \cup U) <= Cardinality(S) + Cardinality(U)
  <2>1. Cardinality(S \cup U) = Cardinality(S) + Cardinality(U) - Cardinality(S \cap U)
    BY <1>1, FS_Union
  <2> QED
    BY <1>2, <2>1
<1>4. T \subseteq S \cup U => Cardinality(T) <= Cardinality(S \cup U)
  BY <1>1, FS_Subset
<1>5. T \subseteq S => Cardinality(T) <= Cardinality(S)
  BY <1>1, FS_Subset
<1> QED
  BY <1>2, <1>3, <1>4, <1>5

LEMMA ConnectedCount == IsFiniteSet(Connected) /\ Cardinality(Connected) \in Nat
  BY SchedulersFinite DEF Connected

\* The steps of the publishers, of the broker and of everything else.
LEMMA StepKinds ==
    ASSUME [Next]_vars
    PROVE  \/ UNCHANGED vars
           \/ \E e \in Event : CreateEvent(e) \/ BackoffElapses(e)
           \/ BrokerStops \/ BrokerStarts
           \/ \E s \in Scheduler : \/ Connect(s) \/ SelectPending(s)
                                   \/ CommitBatch(s) \/ PublisherFails(s)
           \/ \E s \in Scheduler, e \in Event :
                \/ PublishDelivered(s, e) \/ PublishLost(s, e)
                \/ PublishFails(s, e) \/ DeliveredButFails(s, e)
  BY DEF Next, PublisherNext, BatchNext, PublishNext

\* Only the tick, the backoff and a commit write events, ...
LEMMA EventWriters ==
    ASSUME [Next]_vars
    PROVE  \/ event' = event
           \/ \E e \in Event : CreateEvent(e) \/ BackoffElapses(e)
           \/ \E s \in Scheduler : CommitBatch(s)
<1>1. CASE UNCHANGED vars \/ BrokerStops \/ BrokerStarts
  BY <1>1 DEF vars, BrokerStops, BrokerStarts
<1>2. ASSUME NEW s \in Scheduler, Connect(s) \/ SelectPending(s) \/ PublisherFails(s)
      PROVE  event' = event
  BY <1>2 DEF Connect, SelectPending, PublisherFails
<1>3. ASSUME NEW s \in Scheduler, NEW e \in Event,
             \/ PublishDelivered(s, e) \/ PublishLost(s, e)
             \/ PublishFails(s, e) \/ DeliveredButFails(s, e)
      PROVE  event' = event
  BY <1>3 DEF PublishDelivered, PublishLost, PublishFails, DeliveredButFails
<1> QED
  BY <1>1, <1>2, <1>3, StepKinds

\* ... and only a publish that the broker takes reaches a queue.
LEMMA QueueWriters ==
    ASSUME [Next]_vars
    PROVE  \/ queue' = queue
           \/ \E s \in Scheduler, e \in Event : PublishDelivered(s, e) \/ DeliveredButFails(s, e)
<1>1. CASE UNCHANGED vars \/ BrokerStops \/ BrokerStarts
  BY <1>1 DEF vars, BrokerStops, BrokerStarts
<1>2. ASSUME NEW e \in Event, CreateEvent(e) \/ BackoffElapses(e)
      PROVE  queue' = queue
  BY <1>2 DEF CreateEvent, BackoffElapses
<1>3. ASSUME NEW s \in Scheduler, \/ Connect(s) \/ SelectPending(s)
                                  \/ CommitBatch(s) \/ PublisherFails(s)
      PROVE  queue' = queue
  BY <1>3 DEF Connect, SelectPending, CommitBatch, PublisherFails
<1>4. ASSUME NEW s \in Scheduler, NEW e \in Event, PublishLost(s, e) \/ PublishFails(s, e)
      PROVE  queue' = queue
  BY <1>4 DEF PublishLost, PublishFails
<1> QED
  BY <1>1, <1>2, <1>3, <1>4, StepKinds

\* The counters of faults only grow.
LEMMA FaultsCounted ==
    ASSUME [Next]_vars
    PROVE  crashes' \in {crashes, crashes + 1} /\ stops' \in {stops, stops + 1}
<1>1. CASE UNCHANGED vars \/ BrokerStops \/ BrokerStarts
  BY <1>1 DEF vars, BrokerStops, BrokerStarts
<1>2. ASSUME NEW e \in Event, CreateEvent(e) \/ BackoffElapses(e)
      PROVE  crashes' = crashes /\ stops' = stops
  BY <1>2 DEF CreateEvent, BackoffElapses
<1>3. ASSUME NEW s \in Scheduler, \/ Connect(s) \/ SelectPending(s)
                                  \/ CommitBatch(s) \/ PublisherFails(s)
      PROVE  crashes' \in {crashes, crashes + 1} /\ stops' = stops
  BY <1>3 DEF Connect, SelectPending, CommitBatch, PublisherFails
<1>4. ASSUME NEW s \in Scheduler, NEW e \in Event,
             \/ PublishDelivered(s, e) \/ PublishLost(s, e)
             \/ PublishFails(s, e) \/ DeliveredButFails(s, e)
      PROVE  crashes' = crashes /\ stops' \in {stops, stops + 1}
  BY <1>4 DEF PublishDelivered, PublishLost, PublishFails, DeliveredButFails
<1> QED
  BY <1>1, <1>2, <1>3, <1>4, StepKinds

LEMMA PubTypes ==
    ASSUME TypeOK, NEW s \in Scheduler
    PROVE  /\ pub[s] \in PublisherRecord
           /\ Batch(s) \subseteq Event
           /\ \A e \in Event : /\ pub[s].todo \ {e} \in SUBSET Event
                               /\ pub[s].ok \cup {e} \in SUBSET Event
                               /\ pub[s].failed \cup {e} \in SUBSET Event
  BY DEF TypeOK, PublisherRecord, Batch

\* What has become of a batch's event: it is in ok or in failed.
LEMMA RecordUpdated ==
    ASSUME NEW p \in PublisherRecord, NEW e \in Event, NEW l \in {"up", "dead", "closed"}
    PROVE  /\ [p EXCEPT !.link = l, !.todo = @ \ {e}, !.ok = @ \cup {e}] \in PublisherRecord
           /\ [p EXCEPT !.todo = @ \ {e}, !.ok = @ \cup {e}] \in PublisherRecord
           /\ [p EXCEPT !.link = l, !.todo = @ \ {e}, !.failed = @ \cup {e}] \in PublisherRecord
  BY DEF PublisherRecord

LEMMA SelectedTypes ==
    /\ \A S, k : Oldest(S, k) \subseteq S
    /\ IdlePublisher \in PublisherRecord
  BY DEF Oldest, IdlePublisher, PublisherRecord

LEMMA TypeInit == Init => TypeOK
<1> SUFFICES ASSUME Init PROVE TypeOK
  OBVIOUS
<1>1. NoEvent \in EventRow
  BY ConstantsAssumption DEF NoEvent, EventRow
<1>2. IdlePublisher \in PublisherRecord
  BY SelectedTypes
<1> QED
  BY <1>1, <1>2, ConstantsAssumption DEF Init, TypeOK

LEMMA BrokenTypes ==
    ASSUME TypeOK
    PROVE  /\ Broken \in [Scheduler -> PublisherRecord]
           /\ \A t \in Scheduler :
                /\ Broken[t].pc = pub[t].pc
                /\ Broken[t].todo = pub[t].todo
                /\ Broken[t].ok = pub[t].ok
                /\ Broken[t].failed = pub[t].failed
                /\ Broken[t].link # "up"
                /\ pub[t].link = "closed" => Broken[t].link = "closed"
  BY DEF TypeOK, Broken, Connected, PublisherRecord

LEMMA TypeStep ==
    ASSUME OutboxInv, [Next]_vars
    PROVE  TypeOK'
<1>i. TypeOK /\ AttemptsLeft /\ \A s \in Scheduler : BatchSound(s)
  BY DEF OutboxInv
<1>m. MaxPublishAttempts \in Nat \ {0} /\ MaxStops \in Nat /\ MaxCrashes \in Nat
  BY ConstantsAssumption
<1>1. ASSUME NEW e \in Event, CreateEvent(e) PROVE TypeOK'
  BY <1>i, <1>m, <1>1 DEF CreateEvent, TypeOK, EventRow
<1>2. ASSUME NEW e \in Event, BackoffElapses(e) PROVE TypeOK'
  BY <1>i, <1>2 DEF BackoffElapses, TypeOK, EventRow
<1>3. CASE BrokerStops
  BY <1>i, <1>m, <1>3, BrokenTypes, ConnectedCount DEF BrokerStops, TypeOK
<1>4. CASE BrokerStarts
  BY <1>i, <1>4 DEF BrokerStarts, TypeOK
<1>5. ASSUME NEW s \in Scheduler, Connect(s) PROVE TypeOK'
  <2>1. [pub[s] EXCEPT !.pc = "connected", !.link = "up"] \in PublisherRecord
    BY <1>i, PubTypes DEF PublisherRecord
  <2>2. pub' = [pub EXCEPT ![s] = [pub[s] EXCEPT !.pc = "connected", !.link = "up"]]
    BY <1>i, <1>5 DEF Connect, TypeOK
  <2> QED
    BY <1>i, <1>5, <2>1, <2>2 DEF Connect, TypeOK
<1>6. ASSUME NEW s \in Scheduler, SelectPending(s) PROVE TypeOK'
  <2>1. Oldest({e \in Event : Selectable(e)}, BatchSize) \subseteq Event
    BY SelectedTypes
  <2> QED
    BY <1>i, <1>6, <2>1, SelectedTypes DEF SelectPending, TypeOK, PublisherRecord
<1>7. ASSUME NEW s \in Scheduler, NEW e \in Event, PublishDelivered(s, e) PROVE TypeOK'
  <2>1. pub' \in [Scheduler -> PublisherRecord]
    BY <1>i, <1>7, PubTypes, RecordUpdated DEF PublishDelivered, TypeOK
  <2> QED
    BY <1>i, <1>7, <2>1 DEF PublishDelivered, TypeOK
<1>8. ASSUME NEW s \in Scheduler, NEW e \in Event, PublishLost(s, e) PROVE TypeOK'
  <2>1. pub' \in [Scheduler -> PublisherRecord]
    BY <1>i, <1>8, PubTypes, RecordUpdated DEF PublishLost, TypeOK
  <2> QED
    BY <1>i, <1>8, <2>1 DEF PublishLost, TypeOK
<1>9. ASSUME NEW s \in Scheduler, NEW e \in Event, PublishFails(s, e) PROVE TypeOK'
  <2>1. pub' \in [Scheduler -> PublisherRecord]
    BY <1>i, <1>9, PubTypes, RecordUpdated DEF PublishFails, TypeOK
  <2> QED
    BY <1>i, <1>9, <2>1 DEF PublishFails, TypeOK
<1>10. ASSUME NEW s \in Scheduler, NEW e \in Event, DeliveredButFails(s, e) PROVE TypeOK'
  <2>1. pub' \in [Scheduler -> PublisherRecord]
    BY <1>10, BrokenTypes, RecordUpdated, <1>i DEF DeliveredButFails
  <2> QED
    BY <1>i, <1>m, <1>10, <2>1, ConnectedCount DEF DeliveredButFails, TypeOK
<1>11. ASSUME NEW s \in Scheduler, CommitBatch(s) PROVE TypeOK'
  <2>1. \A e \in Event : Marked(e) \in EventRow
    BY <1>i DEF Marked, TypeOK, EventRow
  <2>2. \A e \in pub[s].failed : e \in Event /\ Retried(e) \in EventRow
    <3> SUFFICES ASSUME NEW e \in pub[s].failed PROVE e \in Event /\ Retried(e) \in EventRow
      OBVIOUS
    <3>1. e \in Event /\ event[e].status = "PENDING"
      BY <1>i, PubTypes DEF BatchSound, Batch
    <3>2. event[e] \in EventRow /\ event[e].attempts < MaxPublishAttempts
      BY <1>i, <3>1 DEF TypeOK, AttemptsLeft
    <3>3. event[e].attempts + 1 \in 0..MaxPublishAttempts
      BY <1>m, <3>2 DEF EventRow
    <3> QED
      BY <3>1, <3>2, <3>3 DEF Retried, EventRow
  <2>3. event' \in [Event -> EventRow]
    BY <1>i, <1>11, <2>1, <2>2 DEF CommitBatch, Committed, TypeOK
  <2> QED
    BY <1>i, <1>11, <2>3, SelectedTypes DEF CommitBatch, Closed, TypeOK
<1>12. ASSUME NEW s \in Scheduler, PublisherFails(s) PROVE TypeOK'
  BY <1>i, <1>m, <1>12, SelectedTypes DEF PublisherFails, TypeOK
<1>13. CASE UNCHANGED vars
  BY <1>i, <1>13 DEF vars, TypeOK
<1> QED
  BY <1>1, <1>2, <1>3, <1>4, <1>5, <1>6, <1>7, <1>8, <1>9, <1>10, <1>11, <1>12, <1>13, StepKinds

LEMMA PublishedEvent ==
    ASSUME OutboxInv, NEW s \in Scheduler, NEW e \in Event, Publishing(s, e)
    PROVE  /\ pub[s].pc = "publish"
           /\ e \in pub[s].todo /\ e \notin pub[s].ok /\ e \notin pub[s].failed
           /\ event[e].status = "PENDING"
           /\ \A t \in Scheduler : e \notin pub[t].ok
  BY SelectedTypes DEF OutboxInv, BatchSound, BatchesDisjoint, Batch, Publishing

\* A publish moves its event from todo to ok or to failed: batches keep their
\* events.
LEMMA PublishStep ==
    ASSUME OutboxInv, NEW s \in Scheduler, NEW e \in Event,
           PublishDelivered(s, e) \/ PublishLost(s, e) \/ PublishFails(s, e) \/ DeliveredButFails(s, e)
    PROVE  /\ Publishing(s, e) /\ event' = event
           /\ pub'[s].pc = "publish" /\ pub'[s].todo = pub[s].todo \ {e}
           /\ \/ /\ pub'[s].ok = pub[s].ok \cup {e} /\ pub'[s].failed = pub[s].failed
                 /\ sent' = sent \cup {e}
              \/ /\ pub'[s].ok = pub[s].ok /\ pub'[s].failed = pub[s].failed \cup {e}
                 /\ sent' = sent \/ sent' = sent \cup {e}
           /\ \A t \in Scheduler \ {s} : /\ pub'[t].pc = pub[t].pc /\ pub'[t].todo = pub[t].todo
                                         /\ pub'[t].ok = pub[t].ok /\ pub'[t].failed = pub[t].failed
           /\ \A t \in Scheduler : Batch(t)' = Batch(t)
<1>i. TypeOK
  BY DEF OutboxInv
<1>1. Publishing(s, e) /\ event' = event
  BY DEF PublishDelivered, PublishLost, PublishFails, DeliveredButFails
<1>2. pub[s] \in PublisherRecord /\ pub[s].pc = "publish"
  BY <1>i, <1>1, PublishedEvent, PubTypes
<1>3. /\ pub'[s].pc = "publish" /\ pub'[s].todo = pub[s].todo \ {e}
      /\ \/ /\ pub'[s].ok = pub[s].ok \cup {e} /\ pub'[s].failed = pub[s].failed
            /\ sent' = sent \cup {e}
         \/ /\ pub'[s].ok = pub[s].ok /\ pub'[s].failed = pub[s].failed \cup {e}
            /\ sent' = sent \/ sent' = sent \cup {e}
  <2>1. CASE PublishDelivered(s, e)
    BY <1>i, <1>2, <2>1 DEF PublishDelivered, TypeOK, PublisherRecord
  <2>2. CASE PublishLost(s, e)
    BY <1>i, <1>2, <2>2 DEF PublishLost, TypeOK, PublisherRecord
  <2>3. CASE PublishFails(s, e)
    BY <1>i, <1>2, <2>3 DEF PublishFails, TypeOK, PublisherRecord
  <2>4. CASE DeliveredButFails(s, e)
    BY <1>i, <1>2, <2>4, BrokenTypes DEF DeliveredButFails, PublisherRecord
  <2> QED
    BY <2>1, <2>2, <2>3, <2>4
<1>4. \A t \in Scheduler \ {s} : /\ pub'[t].pc = pub[t].pc /\ pub'[t].todo = pub[t].todo
                                 /\ pub'[t].ok = pub[t].ok /\ pub'[t].failed = pub[t].failed
  <2>1. CASE PublishDelivered(s, e) \/ PublishLost(s, e) \/ PublishFails(s, e)
    BY <1>i, <2>1 DEF PublishDelivered, PublishLost, PublishFails, TypeOK
  <2>2. CASE DeliveredButFails(s, e)
    BY <1>i, <2>2, BrokenTypes DEF DeliveredButFails
  <2> QED
    BY <2>1, <2>2
<1>5. Batch(s)' = Batch(s)
  BY <1>1, <1>3, PublishedEvent DEF Batch
<1>6. \A t \in Scheduler \ {s} : Batch(t)' = Batch(t)
  BY <1>4 DEF Batch
<1> QED
  BY <1>1, <1>3, <1>4, <1>5, <1>6

LEMMA BatchesStep ==
    ASSUME OutboxInv, [Next]_vars
    PROVE  (\A s \in Scheduler : BatchSound(s)') /\ BatchesDisjoint'
<1>i. TypeOK /\ BatchesDisjoint /\ \A s \in Scheduler : BatchSound(s)
  BY DEF OutboxInv
<1>1. ASSUME NEW e \in Event, CreateEvent(e) \/ BackoffElapses(e)
      PROVE  (\A s \in Scheduler : BatchSound(s)') /\ BatchesDisjoint'
  <2>1. /\ UNCHANGED <<pub, sent>>
        /\ \A f \in Event : event[f].status = "PENDING" => event'[f].status = "PENDING"
    BY <1>i, <1>1 DEF CreateEvent, BackoffElapses, TypeOK, EventRow
  <2> QED
    BY <1>i, <2>1, PubTypes DEF BatchSound, BatchesDisjoint, Batch
<1>2. CASE BrokerStops
  BY <1>i, <1>2, BrokenTypes DEF BrokerStops, BatchSound, BatchesDisjoint, Batch
<1>3. CASE BrokerStarts \/ UNCHANGED vars
  BY <1>i, <1>3 DEF BrokerStarts, vars, BatchSound, BatchesDisjoint, Batch
<1>4. ASSUME NEW s \in Scheduler, Connect(s)
      PROVE  (\A t \in Scheduler : BatchSound(t)') /\ BatchesDisjoint'
  <2>1. \A t \in Scheduler :
          /\ pub'[t].todo = pub[t].todo /\ pub'[t].ok = pub[t].ok /\ pub'[t].failed = pub[t].failed
          /\ pub'[t].pc = "publish" <=> pub[t].pc = "publish"
    BY <1>i, <1>4 DEF Connect, TypeOK, PublisherRecord
  <2>2. \A t \in Scheduler : Batch(t)' = Batch(t)
    BY <2>1 DEF Batch
  <2>3. event' = event /\ sent' = sent
    BY <1>4 DEF Connect
  <2>4. BatchesDisjoint'
    BY <1>i, <2>2 DEF BatchesDisjoint
  <2>5. \A t \in Scheduler : BatchSound(t)'
    BY <1>i, <2>1, <2>2, <2>3 DEF BatchSound
  <2> QED
    BY <2>4, <2>5
<1>5. ASSUME NEW s \in Scheduler, pub' = [pub EXCEPT ![s] = IdlePublisher],
             UNCHANGED sent,
             \A t \in Scheduler \ {s} : \A e \in Batch(t) : event'[e] = event[e]
      PROVE  (\A t \in Scheduler : BatchSound(t)') /\ BatchesDisjoint'
  <2>1. pub'[s] = IdlePublisher /\ \A t \in Scheduler \ {s} : pub'[t] = pub[t]
    BY <1>i, <1>5 DEF TypeOK
  <2>2. Batch(s)' = {} /\ \A t \in Scheduler \ {s} : Batch(t)' = Batch(t)
    BY <2>1 DEF Batch, IdlePublisher
  <2> QED
    BY <1>i, <1>5, <2>1, <2>2 DEF BatchSound, BatchesDisjoint, IdlePublisher
<1>6. ASSUME NEW s \in Scheduler, SelectPending(s)
      PROVE  (\A t \in Scheduler : BatchSound(t)') /\ BatchesDisjoint'
  <2> DEFINE events == Oldest({e \in Event : Selectable(e)}, BatchSize)
  <2>1. \A e \in events : e \in Event /\ event[e].status = "PENDING"
                          /\ \A t \in Scheduler : e \notin Batch(t)
    BY SelectedTypes DEF Selectable, Locked
  <2>2. CASE events = {}
    BY <1>5, <1>6, <2>2 DEF SelectPending
  <2>3. CASE events # {}
    <3>1. /\ pub'[s] = [pub[s] EXCEPT !.pc = "publish", !.todo = events]
          /\ \A t \in Scheduler \ {s} : pub'[t] = pub[t]
      BY <1>i, <1>6, <2>3 DEF SelectPending, TypeOK
    <3>2. pub'[s].pc = "publish" /\ pub'[s].todo = events
          /\ pub'[s].ok = {} /\ pub'[s].failed = {} /\ sent' = sent /\ event' = event
      <4>1. pub[s] \in PublisherRecord /\ pub[s].pc = "connected"
        BY <1>i, <1>6, PubTypes DEF SelectPending
      <4>2. pub[s].ok = {} /\ pub[s].failed = {}
        BY <1>i, <4>1 DEF BatchSound, Batch
      <4>3. sent' = sent /\ event' = event
        BY <1>6 DEF SelectPending
      <4> HIDE DEF events
      <4> QED
        BY <3>1, <4>1, <4>2, <4>3 DEF PublisherRecord
    <3>3. Batch(s)' = events /\ \A t \in Scheduler \ {s} : Batch(t)' = Batch(t)
      BY <3>1, <3>2 DEF Batch
    <3>4. BatchesDisjoint'
      BY <1>i, <2>1, <3>3 DEF BatchesDisjoint
    <3>5. BatchSound(s)'
      BY <2>1, <3>2, <3>3 DEF BatchSound
    <3>6. \A t \in Scheduler \ {s} : BatchSound(t)'
      BY <1>i, <3>1, <3>2, <3>3 DEF BatchSound
    <3> QED
      BY <3>4, <3>5, <3>6
  <2> QED
    BY <2>2, <2>3
<1>7. ASSUME NEW s \in Scheduler, NEW e \in Event,
             PublishDelivered(s, e) \/ PublishLost(s, e) \/ PublishFails(s, e) \/ DeliveredButFails(s, e)
      PROVE  (\A t \in Scheduler : BatchSound(t)') /\ BatchesDisjoint'
  <2>1. Publishing(s, e) /\ event' = event
    BY <1>7, PublishStep
  <2>2. /\ pub'[s].pc = "publish" /\ pub'[s].todo = pub[s].todo \ {e}
        /\ \/ /\ pub'[s].ok = pub[s].ok \cup {e} /\ pub'[s].failed = pub[s].failed
              /\ sent' = sent \cup {e}
           \/ /\ pub'[s].ok = pub[s].ok /\ pub'[s].failed = pub[s].failed \cup {e}
              /\ sent' = sent \/ sent' = sent \cup {e}
    BY <1>7, PublishStep
  <2>3. \A t \in Scheduler \ {s} : /\ pub'[t].pc = pub[t].pc /\ pub'[t].todo = pub[t].todo
                                   /\ pub'[t].ok = pub[t].ok /\ pub'[t].failed = pub[t].failed
    BY <1>7, PublishStep
  <2>4. \A t \in Scheduler : Batch(t)' = Batch(t)
    BY <1>7, PublishStep
  <2>5. sent \subseteq sent'
    BY <2>2
  <2>6. BatchesDisjoint'
    BY <1>i, <2>4 DEF BatchesDisjoint
  <2>7. BatchSound(s)'
    <3>1. e \in pub[s].todo /\ e \notin pub[s].ok /\ e \notin pub[s].failed
      BY <2>1, PublishedEvent
    <3>2. \A f \in Batch(s)' : event'[f].status = "PENDING"
      BY <1>i, <2>1, <2>4 DEF BatchSound
    <3>3. \A f \in pub'[s].todo : f \notin pub'[s].ok /\ f \notin pub'[s].failed
      BY <1>i, <2>2 DEF BatchSound
    <3>4. \A f \in pub'[s].ok : f \notin pub'[s].failed
      BY <1>i, <2>2, <3>1 DEF BatchSound
    <3>5. pub'[s].ok \subseteq sent'
      BY <1>i, <2>2, <2>5, <3>1 DEF BatchSound
    <3> QED
      BY <2>2, <3>2, <3>3, <3>4, <3>5 DEF BatchSound
  <2>8. \A t \in Scheduler \ {s} : BatchSound(t)'
    BY <1>i, <2>1, <2>3, <2>4, <2>5, PubTypes DEF BatchSound, Batch
  <2> QED
    BY <2>6, <2>7, <2>8
<1>8. ASSUME NEW s \in Scheduler, CommitBatch(s)
      PROVE  (\A t \in Scheduler : BatchSound(t)') /\ BatchesDisjoint'
  <2>1. \A t \in Scheduler \ {s} : \A e \in Batch(t) : e \in Event /\ e \notin Batch(s)
    BY <1>i, PubTypes DEF BatchesDisjoint
  <2>2. \A t \in Scheduler \ {s} : \A e \in Batch(t) : event'[e] = event[e]
    BY <1>8, <2>1 DEF CommitBatch, Committed, Published, Batch
  <2> QED
    BY <1>5, <1>8, <2>2 DEF CommitBatch, Closed
<1>9. ASSUME NEW s \in Scheduler, PublisherFails(s)
      PROVE  (\A t \in Scheduler : BatchSound(t)') /\ BatchesDisjoint'
  BY <1>5, <1>9 DEF PublisherFails
<1> QED
  BY <1>1, <1>2, <1>3, <1>4, <1>6, <1>7, <1>8, <1>9, StepKinds

LEMMA AttemptsLeftStep ==
    ASSUME OutboxInv, [Next]_vars
    PROVE  AttemptsLeft'
<1>i. TypeOK /\ AttemptsLeft
  BY DEF OutboxInv
<1>m. MaxPublishAttempts \in Nat \ {0}
  BY ConstantsAssumption
<1>1. ASSUME NEW e \in Event, CreateEvent(e) \/ BackoffElapses(e) PROVE AttemptsLeft'
  BY <1>i, <1>m, <1>1 DEF CreateEvent, BackoffElapses, AttemptsLeft, TypeOK, EventRow
<1>2. ASSUME NEW s \in Scheduler, CommitBatch(s) PROVE AttemptsLeft'
  <2>1. \A e \in Event : Marked(e).status # "PENDING"
    BY <1>i DEF Marked, TypeOK, EventRow
  <2>2. \A e \in Event : Retried(e).status = "PENDING" => Retried(e).attempts < MaxPublishAttempts
    BY <1>i, <1>m DEF Retried, TypeOK, EventRow
  <2> QED
    BY <1>i, <1>2, <2>1, <2>2 DEF CommitBatch, Committed, AttemptsLeft
<1>3. ASSUME event' = event PROVE AttemptsLeft'
  BY <1>i, <1>3 DEF AttemptsLeft
<1> QED
  BY <1>1, <1>2, <1>3, EventWriters

LEMMA OutboxInvInit == Init => OutboxInv
<1> SUFFICES ASSUME Init PROVE OutboxInv
  OBVIOUS
<1>1. \A s \in Scheduler : Batch(s) = {}
  BY DEF Init, Batch, IdlePublisher
<1>2. \A s \in Scheduler : BatchSound(s)
  BY <1>1 DEF BatchSound, Batch
<1>3. AttemptsLeft
  BY DEF Init, AttemptsLeft, NoEvent
<1> QED
  BY <1>1, <1>2, <1>3, TypeInit DEF OutboxInv, BatchesDisjoint

LEMMA OutboxInvStep == OutboxInv /\ [Next]_vars => OutboxInv'
  BY TypeStep, BatchesStep, AttemptsLeftStep DEF OutboxInv

LEMMA OutboxInvHolds == Spec => []OutboxInv
  BY OutboxInvInit, OutboxInvStep, PTL DEF Spec

\* Every variable of Outbox keeps its type: an event never has more failed
\* attempts than MAX_PUBLISH_ATTEMPTS.
THEOREM OutboxTypeCorrect == Spec => []TypeOK
<1>1. OutboxInv => TypeOK
  BY DEF OutboxInv
<1> QED
  BY <1>1, OutboxInvHolds, PTL

-----------------------------------------------------------------------------
(* The outbox implements EventDelivery *)

\* The sets a commit settles: what it publishes and what it gives up.
GivenUp(s) == {e \in pub[s].failed : event[e].attempts + 1 >= MaxPublishAttempts}

LEMMA CommitSettles ==
    ASSUME OutboxInv, NEW s \in Scheduler, CommitBatch(s),
           NEW published, NEW failed, published = pub[s].ok, failed = GivenUp(s)
    PROVE  Delivery!Settle(published, failed)
<1>i. TypeOK /\ TypeOK' /\ BatchSound(s) /\ Batch(s) \subseteq Event
  BY TypeStep, PubTypes DEF OutboxInv, Next, PublisherNext, BatchNext
<1>1. \A e \in pub[s].ok \cup GivenUp(s) : e \in Event /\ event[e].status = "PENDING"
  BY <1>i DEF BatchSound, Batch, GivenUp
<1>2. \A e \in pub[s].ok : e \in sent /\ e \notin pub[s].failed
  BY <1>i DEF BatchSound
<1>3. \A e \in Event : event'[e].status = IF e \in pub[s].ok THEN "PUBLISHED"
                                          ELSE IF e \in GivenUp(s) THEN "FAILED"
                                          ELSE event[e].status
  <2> SUFFICES ASSUME NEW e \in Event
               PROVE  event'[e].status = IF e \in pub[s].ok THEN "PUBLISHED"
                                         ELSE IF e \in GivenUp(s) THEN "FAILED"
                                         ELSE event[e].status
    OBVIOUS
  <2>1. event[e] \in EventRow
    BY <1>i DEF TypeOK
  <2>2. CASE e \in pub[s].ok
    BY <2>1, <2>2 DEF CommitBatch, Committed, Published, Marked, EventRow
  <2>3. CASE e \in pub[s].failed /\ e \notin pub[s].ok
    BY <2>1, <2>3 DEF CommitBatch, Committed, Published, Retried, EventRow, GivenUp
  <2>4. CASE e \notin pub[s].failed /\ e \notin pub[s].ok
    BY <2>4 DEF CommitBatch, Committed, Published, GivenUp
  <2> QED
    BY <2>2, <2>3, <2>4
<1>4. [e \in Event |-> event[e].status]'
      = [e \in Event |-> CASE e \in published -> "PUBLISHED"
                           [] e \in failed -> "FAILED"
                           [] OTHER -> [f \in Event |-> event[f].status][e]]
  BY <1>2, <1>3 DEF GivenUp
<1>5. UNCHANGED [e \in Event |-> e \in sent]
  BY DEF CommitBatch
<1> QED
  BY <1>1, <1>2, <1>4, <1>5 DEF Delivery!Settle

LEMMA DeliveryStep ==
    ASSUME OutboxInv, [Next]_vars
    PROVE  [Delivery!Next]_(Delivery!vars)
<1>i. TypeOK
  BY DEF OutboxInv
<1>1. ASSUME NEW e \in Event, CreateEvent(e) PROVE Delivery!Create(e)
  BY <1>i, <1>1 DEF CreateEvent, Delivery!Create, TypeOK
<1>2. ASSUME NEW e \in Event, BackoffElapses(e) PROVE UNCHANGED Delivery!vars
  <2>1. \A f \in Event : event'[f].status = event[f].status
    BY <1>i, <1>2 DEF BackoffElapses, TypeOK, EventRow
  <2> QED
    BY <1>2, <2>1 DEF BackoffElapses, Delivery!vars
<1>3. ASSUME NEW s \in Scheduler, NEW e \in Event, Publishing(s, e), event' = event, sent' = sent \cup {e}
      PROVE  Delivery!HandOver(e)
  <2>1. event[e].status = "PENDING"
    BY <1>3, PublishedEvent
  <2>2. [f \in Event |-> f \in sent]' = [[f \in Event |-> f \in sent] EXCEPT ![e] = TRUE]
    <3> DEFINE before == [f \in Event |-> f \in sent]
    <3>1. [before EXCEPT ![e] = TRUE]
          = [f \in Event |-> IF f = e THEN TRUE ELSE before[f]]
      OBVIOUS
    <3>2. ASSUME NEW f \in Event
          PROVE  (f \in sent') = IF f = e THEN TRUE ELSE before[f]
      <4>1. CASE f = e
        BY <1>3, <4>1
      <4>2. CASE f # e
        <5>1. (f \in sent') = (f \in sent)
          BY <1>3, <4>2
        <5> QED
          BY <4>2, <5>1, Zenon
      <4> QED
        BY <4>1, <4>2
    <3>3. [f \in Event |-> f \in sent'] = [f \in Event |-> IF f = e THEN TRUE ELSE before[f]]
      <4> HIDE DEF before
      <4> QED
        BY <3>2, Zenon
    <3> QED
      BY <3>1, <3>3
  <2> QED
    BY <1>3, <2>1, <2>2 DEF Delivery!HandOver
<1>4. ASSUME NEW s \in Scheduler, CommitBatch(s) PROVE Delivery!Next
  <2>1. PICK published, failed : published = pub[s].ok /\ failed = GivenUp(s)
    OBVIOUS
  <2>2. published \in SUBSET Event /\ failed \in SUBSET (Event \ published)
    BY <1>i, <2>1, PubTypes DEF OutboxInv, BatchSound, Batch, GivenUp
  <2>3. Delivery!Settle(published, failed)
    BY <1>4, <2>1, CommitSettles
  <2> QED
    BY <2>2, <2>3 DEF Delivery!Next
<1>5. ASSUME event' = event, sent' = sent PROVE UNCHANGED Delivery!vars
  BY <1>5 DEF Delivery!vars
<1>6. CASE UNCHANGED vars \/ BrokerStops \/ BrokerStarts
  BY <1>5, <1>6 DEF vars, BrokerStops, BrokerStarts
<1>7. ASSUME NEW s \in Scheduler, Connect(s) \/ SelectPending(s) \/ PublisherFails(s)
      PROVE  UNCHANGED Delivery!vars
  BY <1>5, <1>7 DEF Connect, SelectPending, PublisherFails
<1>8. ASSUME NEW s \in Scheduler, NEW e \in Event,
             \/ PublishDelivered(s, e) \/ PublishLost(s, e)
             \/ PublishFails(s, e) \/ DeliveredButFails(s, e)
      PROVE  Delivery!HandOver(e) \/ UNCHANGED Delivery!vars
  <2>1. event' = event /\ Publishing(s, e) /\ (sent' = sent \/ sent' = sent \cup {e})
    BY <1>8 DEF PublishDelivered, PublishLost, PublishFails, DeliveredButFails
  <2> QED
    BY <1>3, <1>5, <2>1
<1>9. \A e \in Event : Delivery!Create(e) \/ Delivery!HandOver(e) => Delivery!Next
  BY DEF Delivery!Next
<1> QED
  BY <1>1, <1>2, <1>4, <1>6, <1>7, <1>8, <1>9, StepKinds

\* What the publishers of any number of schedulers do to an event is what
\* EventDelivery allows, whatever crashes, rollbacks and outages come between.
THEOREM OutboxDelivers == Spec => DeliversEvents
<1>1. Init => Delivery!Init
  <2> SUFFICES ASSUME Init PROVE Delivery!Init
    OBVIOUS
  <2>1. [e \in Event |-> event[e].status] = [e \in Event |-> "none"]
    BY DEF Init, NoEvent
  <2>2. [e \in Event |-> e \in sent] = [e \in Event |-> FALSE]
    <3>1. \A e \in Event : (e \in sent) = FALSE
      BY DEF Init
    <3> QED
      BY <3>1, Zenon
  <2> QED
    BY <2>1, <2>2 DEF Delivery!Init
<1> QED
  BY <1>1, OutboxInvHolds, DeliveryStep, PTL DEF Spec, DeliversEvents, Delivery!Spec

-----------------------------------------------------------------------------
(* Every duplicate is paid for *)

\* Events that no publisher will publish again unless its batch rolls back.
Taken(e) == event[e].status = "PUBLISHED" \/ \E s \in Scheduler : e \in pub[s].ok

DuplicatesPaid ==
    \A e \in Event : queue[e] <= crashes + stops + (IF Taken(e) THEN 1 ELSE 0)

LEMMA TakenStep ==
    ASSUME OutboxInv, [Next]_vars, NEW f \in Event, Taken(f), ~Taken(f)'
    PROVE  crashes' = crashes + 1 /\ queue' = queue /\ stops' = stops
<1>i. TypeOK
  BY DEF OutboxInv
<1>1. ASSUME NEW e \in Event, CreateEvent(e) \/ BackoffElapses(e) PROVE FALSE
  <2>1. pub' = pub /\ (event[f].status = "PUBLISHED" => event'[f].status = "PUBLISHED")
    BY <1>i, <1>1 DEF CreateEvent, BackoffElapses, TypeOK, EventRow
  <2> QED
    BY <2>1 DEF Taken
<1>2. CASE BrokerStops
  BY <1>2, BrokenTypes, <1>i DEF BrokerStops, Taken
<1>3. CASE BrokerStarts \/ UNCHANGED vars
  BY <1>3 DEF BrokerStarts, vars, Taken
<1>4. ASSUME event' = event,
             \A t \in Scheduler : pub[t].ok \subseteq pub'[t].ok
      PROVE  FALSE
  BY <1>4 DEF Taken
<1>5. ASSUME NEW s \in Scheduler, Connect(s) \/ SelectPending(s) PROVE FALSE
  <2>1. event' = event /\ \A t \in Scheduler : pub[t].ok \subseteq pub'[t].ok
    BY <1>i, <1>5 DEF Connect, SelectPending, TypeOK, PublisherRecord, IdlePublisher,
                      OutboxInv, BatchSound, Batch
  <2> QED
    BY <1>4, <2>1
<1>6. ASSUME NEW s \in Scheduler, NEW e \in Event,
             PublishDelivered(s, e) \/ PublishLost(s, e) \/ PublishFails(s, e) \/ DeliveredButFails(s, e)
      PROVE  FALSE
  <2>1. event' = event /\ \A t \in Scheduler : pub[t].ok \subseteq pub'[t].ok
    BY <1>6, PublishStep
  <2> QED
    BY <1>4, <2>1
<1>7. ASSUME NEW s \in Scheduler, CommitBatch(s) PROVE FALSE
  <2>1. f \in pub[s].ok => event'[f].status = "PUBLISHED"
    BY <1>i, <1>7 DEF CommitBatch, Committed, Published, Marked, TypeOK, EventRow
  <2>2. event[f].status = "PUBLISHED" => event'[f] = event[f]
    <3>1. f \in Batch(s) => event[f].status = "PENDING"
      BY DEF OutboxInv, BatchSound
    <3> QED
      BY <1>7, <3>1 DEF CommitBatch, Committed, Published, Batch
  <2>3. \A t \in Scheduler \ {s} : pub'[t] = pub[t]
    BY <1>i, <1>7 DEF CommitBatch, Closed, TypeOK
  <2> QED
    BY <2>1, <2>2, <2>3 DEF Taken
<1>8. ASSUME NEW s \in Scheduler, PublisherFails(s)
      PROVE  crashes' = crashes + 1 /\ queue' = queue /\ stops' = stops
  BY <1>8 DEF PublisherFails
<1> QED
  BY <1>1, <1>2, <1>3, <1>5, <1>6, <1>7, <1>8, StepKinds

LEMMA QueueStep ==
    ASSUME OutboxInv, [Next]_vars, NEW f \in Event
    PROVE  \/ /\ queue'[f] = queue[f]
              /\ crashes' >= crashes /\ stops' >= stops
           \/ /\ queue'[f] = queue[f] + 1 /\ crashes' = crashes
              /\ \/ stops' = stops + 1
                 \/ stops' = stops /\ ~Taken(f) /\ Taken(f)'
<1>i. TypeOK
  BY DEF OutboxInv
<1>1. ASSUME NEW s \in Scheduler, PublishDelivered(s, f)
      PROVE  queue'[f] = queue[f] + 1 /\ crashes' = crashes /\ stops' = stops /\ ~Taken(f) /\ Taken(f)'
  <2>1. Publishing(s, f)
    BY <1>1 DEF PublishDelivered
  <2>2. ~Taken(f)
    BY <2>1, PublishedEvent DEF Taken
  <2>3. f \in pub'[s].ok
    BY <1>i, <1>1 DEF PublishDelivered, TypeOK, PublisherRecord
  <2> QED
    BY <1>i, <1>1, <2>2, <2>3 DEF PublishDelivered, Taken, TypeOK
<1>2. ASSUME NEW s \in Scheduler, DeliveredButFails(s, f)
      PROVE  queue'[f] = queue[f] + 1 /\ crashes' = crashes /\ stops' = stops + 1
  BY <1>i, <1>2 DEF DeliveredButFails, TypeOK
<1>3. ASSUME \A s \in Scheduler : ~PublishDelivered(s, f) /\ ~DeliveredButFails(s, f)
      PROVE  queue'[f] = queue[f] /\ crashes' >= crashes /\ stops' >= stops
  <2>1. crashes \in Nat /\ stops \in Nat
    BY <1>i DEF TypeOK
  <2>2. ASSUME NEW s \in Scheduler, NEW e \in Event, PublishDelivered(s, e) \/ DeliveredButFails(s, e)
        PROVE  queue'[f] = queue[f] /\ crashes' >= crashes /\ stops' >= stops
    <3>1. e # f
      BY <1>3, <2>2
    <3> QED
      BY <1>i, <2>1, <2>2, <3>1 DEF PublishDelivered, DeliveredButFails, TypeOK
  <2> QED
    BY <2>1, <2>2, QueueWriters, FaultsCounted
<1> QED
  BY <1>1, <1>2, <1>3

LEMMA DuplicatesPaidStep ==
    ASSUME OutboxInv, DuplicatesPaid, [Next]_vars
    PROVE  DuplicatesPaid'
<1> SUFFICES ASSUME NEW f \in Event
             PROVE  queue'[f] <= crashes' + stops' + (IF Taken(f)' THEN 1 ELSE 0)
  BY DEF DuplicatesPaid
<1>1. queue[f] \in Nat /\ crashes \in Nat /\ stops \in Nat /\ crashes' \in Nat /\ stops' \in Nat
  BY TypeStep DEF OutboxInv, TypeOK
<1>2. queue[f] <= crashes + stops + (IF Taken(f) THEN 1 ELSE 0)
  BY DEF DuplicatesPaid
<1>3. CASE Taken(f) /\ ~Taken(f)'
  BY <1>1, <1>2, <1>3, TakenStep
<1>4. CASE Taken(f) => Taken(f)'
  BY <1>1, <1>2, <1>4, QueueStep
<1> QED
  BY <1>3, <1>4

\* An event reaches the queues at most once more than publishers crashed and
\* the broker stopped, whatever publishers race for it.
THEOREM DuplicatesPaidFor == Spec => []DuplicatesNeedFailures
<1>1. Init => DuplicatesPaid
  <2>1. ASSUME Init PROVE DuplicatesPaid
    <3>1. \A e \in Event : queue[e] = 0
      BY <2>1 DEF Init
    <3>2. crashes = 0 /\ stops = 0
      BY <2>1 DEF Init
    <3> QED
      BY <3>1, <3>2 DEF DuplicatesPaid
  <2> QED
    BY <2>1
<1>2. OutboxInv /\ DuplicatesPaid => DuplicatesNeedFailures
  BY DEF OutboxInv, TypeOK, DuplicatesPaid, DuplicatesNeedFailures
<1> QED
  BY <1>1, <1>2, OutboxInvHolds, DuplicatesPaidStep, PTL DEF Spec

-----------------------------------------------------------------------------
(* An outage costs little *)

\* A publisher with a broken connection is armed: it can make one more batch
\* of events fail, and is disarmed by the commit.
Armed == {s \in Scheduler : pub[s].link = "dead" \/ (pub[s].link = "closed" /\ pub[s].pc = "publish")}

LinksSound ==
    \A s \in Scheduler : /\ pub[s].pc = "connected" => pub[s].link # "closed"
                         /\ pub[s].failed # {} => pub[s].link = "closed"

OutagePaid ==
    \A e \in Event : event[e].attempts + Cardinality(Armed) <= broken

OutageInv == OutboxInv /\ LinksSound /\ OutagePaid

\* A step breaks every connection or none; one that breaks none arms nobody.
LEMMA LinkStep ==
    ASSUME OutboxInv, LinksSound, [Next]_vars
    PROVE  /\ LinksSound'
           /\ \/ broken' = broken /\ Armed' \subseteq Armed
              \/ broken' = broken + Cardinality(Connected) /\ Armed' \subseteq Armed \cup Connected
<1>i. TypeOK /\ \A s \in Scheduler : BatchSound(s)
  BY DEF OutboxInv
<1> DEFINE Goal == /\ LinksSound'
                   /\ \/ broken' = broken /\ Armed' \subseteq Armed
                      \/ broken' = broken + Cardinality(Connected) /\ Armed' \subseteq Armed \cup Connected
<1>b. \A t \in Scheduler : \/ t \in Connected /\ Broken[t].link = "dead"
                           \/ t \notin Connected /\ Broken[t] = pub[t]
  <2>1. ASSUME NEW t \in Connected PROVE Broken[t].link = "dead"
    <3>1. pub[t] \in PublisherRecord /\ t \in Scheduler
      BY <1>i, PubTypes DEF Connected
    <3> QED
      BY <3>1 DEF Broken, PublisherRecord
  <2>2. ASSUME NEW t \in Scheduler \ Connected PROVE Broken[t] = pub[t]
    BY DEF Broken
  <2> QED
    BY <2>1, <2>2
<1>1. ASSUME pub' = pub, broken' = broken
      PROVE  Goal
  BY <1>1 DEF LinksSound, Armed
<1>2. ASSUME NEW s \in Scheduler, broken' = broken, \A t \in Scheduler \ {s} : pub'[t] = pub[t],
             /\ pub'[s].pc = "connected" => pub'[s].link # "closed"
             /\ pub'[s].failed # {} => pub'[s].link = "closed",
             s \in Armed' => s \in Armed
      PROVE  Goal
  BY <1>2 DEF LinksSound, Armed
<1>3. CASE BrokerStops
  <2>1. pub' = Broken /\ broken' = broken + Cardinality(Connected)
    BY <1>3 DEF BrokerStops
  <2>2. \A t \in Scheduler : /\ pub'[t].pc = "connected" => pub'[t].link # "closed"
                             /\ pub'[t].failed # {} => pub'[t].link = "closed"
    BY <1>b, <1>i, <2>1, BrokenTypes DEF LinksSound, Connected
  <2>3. Armed' \subseteq Armed \cup Connected
    BY <1>b, <2>1 DEF Armed
  <2>4. LinksSound'
    BY <2>2 DEF LinksSound
  <2> QED
    BY <2>1, <2>3, <2>4
<1>4. ASSUME NEW s \in Scheduler, NEW e \in Event, DeliveredButFails(s, e)
      PROVE  Goal
  <2>1. pub'[s].link = "closed" /\ pub'[s].pc = "publish"
    BY <1>i, <1>4, BrokenTypes, PublishedEvent DEF DeliveredButFails, PublisherRecord
  <2>2. \A t \in Scheduler \ {s} : pub'[t] = Broken[t]
    BY <1>i, <1>4, BrokenTypes DEF DeliveredButFails
  <2>3. s \in Connected /\ broken' = broken + Cardinality(Connected)
    BY <1>4 DEF DeliveredButFails, Connected
  <2>4. \A t \in Scheduler : /\ pub'[t].pc = "connected" => pub'[t].link # "closed"
                             /\ pub'[t].failed # {} => pub'[t].link = "closed"
    BY <1>b, <1>i, <2>1, <2>2, BrokenTypes DEF LinksSound, Connected
  <2>5. Armed' \subseteq Armed \cup Connected
    BY <1>b, <2>2, <2>3 DEF Armed
  <2>6. LinksSound'
    BY <2>4 DEF LinksSound
  <2> QED
    BY <2>3, <2>5, <2>6
<1>5. ASSUME NEW s \in Scheduler, Connect(s) PROVE Goal
  <2>1. pub'[s].link = "up" /\ pub'[s].failed = {} /\ \A t \in Scheduler \ {s} : pub'[t] = pub[t]
    <3>1. pub[s] \in PublisherRecord /\ pub[s].failed = {}
      BY <1>i, <1>5, PubTypes DEF Connect, BatchSound, Batch
    <3> QED
      BY <1>i, <1>5, <3>1 DEF Connect, TypeOK, PublisherRecord
  <2>2. s \notin Armed'
    BY <2>1 DEF Armed
  <2> QED
    BY <1>2, <1>5, <2>1, <2>2 DEF Connect
<1>6. ASSUME NEW s \in Scheduler, pub' = [pub EXCEPT ![s] = IdlePublisher], broken' = broken
      PROVE  Goal
  <2>1. pub'[s] = IdlePublisher /\ \A t \in Scheduler \ {s} : pub'[t] = pub[t]
    BY <1>i, <1>6 DEF TypeOK
  <2>2. s \notin Armed'
    BY <2>1 DEF Armed, IdlePublisher
  <2> QED
    BY <1>2, <1>6, <2>1, <2>2 DEF IdlePublisher
<1>7. ASSUME NEW s \in Scheduler, SelectPending(s) PROVE Goal
  <2> DEFINE events == Oldest({e \in Event : Selectable(e)}, BatchSize)
  <2>0. broken' = broken
    BY <1>7 DEF SelectPending
  <2>1. CASE events = {}
    BY <1>6, <1>7, <2>0, <2>1 DEF SelectPending
  <2>2. CASE events # {}
    <3>1. /\ pub'[s] = [pub[s] EXCEPT !.pc = "publish", !.todo = events]
          /\ pub[s].pc = "connected" /\ pub[s].link # "closed"
          /\ \A t \in Scheduler \ {s} : pub'[t] = pub[t]
      BY <1>i, <1>7, <2>2 DEF SelectPending, TypeOK, LinksSound
    <3>2. pub[s] \in PublisherRecord /\ pub[s].failed = {}
      BY <1>i, <3>1, PubTypes DEF BatchSound, Batch
    <3>3. pub'[s].pc = "publish" /\ pub'[s].link = pub[s].link /\ pub'[s].failed = {}
      <4> HIDE DEF events
      <4> QED
        BY <3>1, <3>2 DEF PublisherRecord
    <3>4. s \in Armed' => s \in Armed
      BY <3>1, <3>3 DEF Armed
    <3> QED
      BY <1>2, <2>0, <3>1, <3>3, <3>4
  <2> QED
    BY <2>1, <2>2
<1>8. ASSUME NEW s \in Scheduler, NEW e \in Event, PublishDelivered(s, e) \/ PublishLost(s, e)
      PROVE  Goal
  <2>0. pub[s] \in PublisherRecord /\ pub[s].pc = "publish" /\ broken' = broken
    BY <1>i, <1>8, PubTypes, PublishedEvent DEF PublishDelivered, PublishLost
  <2>1. /\ pub'[s].link = pub[s].link /\ pub[s].link # "closed" /\ pub'[s].failed = pub[s].failed
        /\ pub'[s].pc = "publish" /\ \A t \in Scheduler \ {s} : pub'[t] = pub[t]
    BY <1>i, <1>8, <2>0 DEF PublishDelivered, PublishLost, TypeOK, PublisherRecord
  <2>2. s \in Armed' => s \in Armed
    BY <2>0, <2>1 DEF Armed
  <2> QED
    BY <1>2, <2>0, <2>1, <2>2 DEF LinksSound
<1>9. ASSUME NEW s \in Scheduler, NEW e \in Event, PublishFails(s, e)
      PROVE  Goal
  <2>0. pub[s] \in PublisherRecord /\ pub[s].pc = "publish" /\ broken' = broken
    BY <1>i, <1>9, PubTypes, PublishedEvent DEF PublishFails
  <2>1. /\ pub'[s].link = "closed" /\ pub[s].link # "up" /\ pub'[s].pc = "publish"
        /\ \A t \in Scheduler \ {s} : pub'[t] = pub[t]
    BY <1>i, <1>9, <2>0 DEF PublishFails, TypeOK, PublisherRecord
  <2>2. s \in Armed
    BY <2>0, <2>1 DEF Armed, PublisherRecord
  <2> QED
    BY <1>2, <2>0, <2>1, <2>2
<1>10. ASSUME NEW s \in Scheduler, CommitBatch(s) \/ PublisherFails(s)
       PROVE  Goal
  BY <1>6, <1>10 DEF CommitBatch, Closed, PublisherFails
<1>11. ASSUME \/ \E e \in Event : CreateEvent(e) \/ BackoffElapses(e)
              \/ BrokerStarts \/ UNCHANGED vars
       PROVE  Goal
  BY <1>1, <1>11 DEF CreateEvent, BackoffElapses, BrokerStarts, vars
<1> QED
  BY <1>3, <1>4, <1>5, <1>7, <1>8, <1>9, <1>10, <1>11, StepKinds

\* What a step adds to the attempts of an event.
LEMMA AttemptsStep ==
    ASSUME OutboxInv, LinksSound, [Next]_vars, NEW e \in Event
    PROVE  \/ event'[e].attempts = event[e].attempts
           \/ event'[e].attempts = 0
           \/ /\ event'[e].attempts = event[e].attempts + 1
              /\ \E s \in Scheduler : s \in Armed /\ Armed' = Armed \ {s} /\ broken' = broken
<1>i. TypeOK /\ \A s \in Scheduler : BatchSound(s)
  BY DEF OutboxInv
<1>1. ASSUME NEW f \in Event, CreateEvent(f)
      PROVE  event'[e].attempts = event[e].attempts \/ event'[e].attempts = 0
  BY <1>i, <1>1 DEF CreateEvent, TypeOK
<1>2. ASSUME NEW f \in Event, BackoffElapses(f)
      PROVE  event'[e].attempts = event[e].attempts
  BY <1>i, <1>2 DEF BackoffElapses, TypeOK, EventRow
<1>3. ASSUME NEW s \in Scheduler, CommitBatch(s)
      PROVE  \/ event'[e].attempts = event[e].attempts
             \/ /\ event'[e].attempts = event[e].attempts + 1
                /\ s \in Armed /\ Armed' = Armed \ {s} /\ broken' = broken
  <2>e. event[e] \in EventRow
    BY <1>i DEF TypeOK
  <2>1. CASE e \in pub[s].ok
    BY <1>3, <2>1, <2>e DEF CommitBatch, Committed, Published, Marked, EventRow
  <2>2. CASE e \in pub[s].failed /\ e \notin pub[s].ok
    <3>1. event'[e].attempts = event[e].attempts + 1
      BY <1>3, <2>2, <2>e DEF CommitBatch, Committed, Published, Retried, EventRow
    <3>2. s \in Armed
      BY <1>3, <2>2 DEF CommitBatch, LinksSound, Armed
    <3>3. pub'[s] = IdlePublisher /\ \A t \in Scheduler \ {s} : pub'[t] = pub[t]
      BY <1>i, <1>3 DEF CommitBatch, Closed, TypeOK
    <3>4. Armed' = Armed \ {s}
      BY <3>3 DEF Armed, IdlePublisher
    <3> QED
      BY <1>3, <3>1, <3>2, <3>4 DEF CommitBatch
  <2>3. CASE e \notin pub[s].failed /\ e \notin pub[s].ok
    BY <1>3, <2>3 DEF CommitBatch, Committed, Published
  <2> QED
    BY <2>1, <2>2, <2>3
<1> QED
  BY <1>1, <1>2, <1>3, EventWriters

LEMMA OutageInvStep ==
    ASSUME OutageInv, [Next]_vars
    PROVE  OutageInv'
<1>i. OutboxInv /\ LinksSound /\ OutagePaid /\ TypeOK /\ OutboxInv' /\ TypeOK'
  BY OutboxInvStep DEF OutageInv, OutboxInv
<1>1. LinksSound'
  BY <1>i, LinkStep
<1>2. Armed \subseteq Scheduler /\ Armed' \subseteq Scheduler
  BY DEF Armed
<1> SUFFICES ASSUME NEW e \in Event
             PROVE  event'[e].attempts + Cardinality(Armed') <= broken'
  BY <1>i, <1>1 DEF OutageInv, OutagePaid
<1>3. /\ event[e].attempts \in Nat /\ event'[e].attempts \in Nat
      /\ broken \in Nat /\ broken' \in Nat
  BY <1>i DEF TypeOK, EventRow
<1>4. event[e].attempts + Cardinality(Armed) <= broken
  BY <1>i DEF OutagePaid
<1>5. CASE \E s \in Scheduler : s \in Armed /\ Armed' = Armed \ {s} /\ broken' = broken
                              /\ event'[e].attempts = event[e].attempts + 1
  <2>1. Cardinality(Armed') = Cardinality(Armed) - 1
    BY <1>2, <1>5, SchedulersFinite, FS_RemoveElement
  <2> QED
    BY <1>2, <1>3, <1>4, <1>5, <2>1, SchedulersFinite
<1>6. ASSUME event'[e].attempts = event[e].attempts \/ event'[e].attempts = 0
      PROVE  event'[e].attempts + Cardinality(Armed') <= broken'
  <2>1. Cardinality(Armed') + broken <= Cardinality(Armed) + broken'
    <3>1. Connected \subseteq Scheduler
      BY DEF Connected
    <3>2. CASE broken' = broken /\ Armed' \subseteq Armed
      <4>1. Cardinality(Armed') <= Cardinality(Armed)
        BY <1>2, <3>1, <3>2, CountsGrow
      <4> QED
        BY <1>2, <1>3, <3>2, <4>1, SchedulersFinite
    <3>3. CASE broken' = broken + Cardinality(Connected) /\ Armed' \subseteq Armed \cup Connected
      <4>1. Cardinality(Armed') <= Cardinality(Armed) + Cardinality(Connected)
        BY <1>2, <3>1, <3>3, CountsGrow
      <4> QED
        BY <1>2, <1>3, <3>3, <4>1, SchedulersFinite, ConnectedCount
    <3> QED
      BY <1>i, <3>2, <3>3, LinkStep
  <2> QED
    BY <1>2, <1>3, <1>4, <1>6, <2>1, SchedulersFinite
<1> QED
  BY <1>5, <1>6, <1>i, AttemptsStep

\* However long an outage lasts, it costs an event at most one attempt for each
\* connection that it broke.
THEOREM OutageBounded == Spec => []OutageCostsLittle
<1>1. Init => OutageInv
  <2> SUFFICES ASSUME Init PROVE LinksSound /\ OutagePaid
    BY OutboxInvInit DEF OutageInv
  <2>1. LinksSound /\ Armed = {}
    BY DEF Init, LinksSound, Armed, IdlePublisher
  <2>2. Cardinality(Armed) = 0 /\ broken = 0 /\ \A e \in Event : event[e].attempts = 0
    BY <2>1, FS_EmptySet DEF Init, NoEvent
  <2> QED
    BY <2>1, <2>2 DEF OutagePaid
<1>2. OutageInv => OutageCostsLittle
  <2> SUFFICES ASSUME OutageInv, NEW e \in Event
               PROVE  event[e].attempts <= broken
    BY DEF OutageCostsLittle
  <2>1. event[e].attempts + Cardinality(Armed) <= broken
    BY DEF OutageInv, OutagePaid
  <2>2. event[e].attempts \in Nat /\ broken \in Nat
    BY DEF OutageInv, OutboxInv, TypeOK, EventRow
  <2>3. Cardinality(Armed) \in Nat
    BY SchedulersFinite DEF Armed
  <2> QED
    BY <2>1, <2>2, <2>3
<1> QED
  BY <1>1, <1>2, OutageInvStep, PTL DEF Spec

-----------------------------------------------------------------------------
(* Losses are bounded *)

\* LIMIT BATCH_SIZE: of the events that a publisher may select it takes at
\* most that many.
LEMMA OldestBounded ==
    ASSUME NEW S \in SUBSET Event, NEW k \in Nat
    PROVE  IsFiniteSet(Oldest(S, k)) /\ Cardinality(Oldest(S, k)) <= k
<1> DEFINE Older(e) == {f \in S : f < e}
           rank == [e \in Oldest(S, k) |-> Cardinality(Older(e))]
<1>1. IsFiniteSet(Event) /\ S \subseteq Int
  BY ConstantsAssumption, FS_Interval DEF Event
<1>2. \A e \in S : IsFiniteSet(Older(e)) /\ Cardinality(Older(e)) \in Nat
  BY <1>1, FS_Subset, FS_CardinalityType
<1>3. ASSUME NEW d \in S, NEW e \in S, d < e
      PROVE  Cardinality(Older(d)) # Cardinality(Older(e))
  <2>1. ASSUME NEW f \in S, f < d PROVE f < e
    <3>1. f \in Int /\ d \in Int /\ e \in Int
      BY <1>1
    <3> QED
      BY <1>3, <2>1, <3>1
  <2>2. d \in Older(e) /\ d \notin Older(d)
    BY <1>1, <1>3
  <2>3. Older(d) \subseteq Older(e)
    BY <2>1
  <2> HIDE DEF Older
  <2> QED
    BY <1>2, <2>3, <2>2, FS_Subset
<1>4. ASSUME NEW e \in Oldest(S, k)
      PROVE  e \in S /\ rank[e] \in 0..(k - 1)
  <2>1. e \in S /\ Cardinality(Older(e)) < k
    BY DEF Oldest
  <2>2. rank[e] = Cardinality(Older(e)) /\ Cardinality(Older(e)) \in Nat
    BY <1>2, <2>1
  <2> HIDE DEF Older, rank
  <2> QED
    BY <2>1, <2>2
<1>5. rank \in Injection(Oldest(S, k), 0..(k - 1))
  <2>1. ASSUME NEW d \in Oldest(S, k), NEW e \in Oldest(S, k), d # e
        PROVE  rank[d] # rank[e]
    <3>1. d \in S /\ e \in S
      BY <1>4
    <3>2. d \in Int /\ e \in Int
      BY <1>1, <3>1
    <3>3. d < e \/ e < d
      BY <2>1, <3>2
    <3>4. Cardinality(Older(d)) # Cardinality(Older(e))
      <4> HIDE DEF Older
      <4> QED
        BY <1>3, <3>1, <3>3
    <3>5. rank[d] = Cardinality(Older(d)) /\ rank[e] = Cardinality(Older(e))
      OBVIOUS
    <3> QED
      BY <3>4, <3>5
  <2> QED
    BY <1>4, <2>1 DEF Injection, IsInjective
<1>6. IsFiniteSet(0..(k - 1)) /\ Cardinality(0..(k - 1)) = k
  BY FS_Interval
<1> QED
  BY <1>5, <1>6, FS_Injection

BatchesBounded == \A s \in Scheduler : Cardinality(Batch(s)) <= BatchSize

LEMMA BatchStep ==
    ASSUME OutboxInv, [Next]_vars, NEW t \in Scheduler
    PROVE  \/ Batch(t)' \subseteq Batch(t)
           \/ Batch(t)' = Oldest({e \in Event : Selectable(e)}, BatchSize)
<1>i. TypeOK /\ \A s \in Scheduler : BatchSound(s)
  BY DEF OutboxInv
<1>1. ASSUME pub' = pub PROVE Batch(t)' \subseteq Batch(t)
  BY <1>1 DEF Batch
<1>2. CASE \/ UNCHANGED vars \/ BrokerStarts
           \/ \E e \in Event : CreateEvent(e) \/ BackoffElapses(e)
  BY <1>1, <1>2 DEF vars, BrokerStarts, CreateEvent, BackoffElapses
<1>3. CASE BrokerStops
  BY <1>i, <1>3, BrokenTypes DEF BrokerStops, Batch
<1>4. ASSUME NEW s \in Scheduler, NEW e \in Event,
             PublishDelivered(s, e) \/ PublishLost(s, e) \/ PublishFails(s, e) \/ DeliveredButFails(s, e)
      PROVE  Batch(t)' \subseteq Batch(t)
  BY <1>4, PublishStep
<1>5. ASSUME NEW s \in Scheduler, pub' = [pub EXCEPT ![s] = IdlePublisher]
      PROVE  Batch(t)' \subseteq Batch(t)
  <2>1. pub'[t] = pub[t] \/ pub'[t] = IdlePublisher
    BY <1>i, <1>5 DEF TypeOK
  <2> QED
    BY <2>1 DEF Batch, IdlePublisher
<1>6. ASSUME NEW s \in Scheduler, Connect(s) PROVE Batch(t)' \subseteq Batch(t)
  <2>1. /\ pub'[t].todo = pub[t].todo /\ pub'[t].ok = pub[t].ok
        /\ pub'[t].failed = pub[t].failed
    BY <1>i, <1>6, PubTypes DEF Connect, TypeOK, PublisherRecord
  <2> QED
    BY <2>1 DEF Batch
<1>7. ASSUME NEW s \in Scheduler, SelectPending(s)
      PROVE  \/ Batch(t)' \subseteq Batch(t)
             \/ Batch(t)' = Oldest({e \in Event : Selectable(e)}, BatchSize)
  <2> DEFINE events == Oldest({e \in Event : Selectable(e)}, BatchSize)
  <2>1. CASE events = {}
    BY <1>5, <1>7, <2>1 DEF SelectPending
  <2>2. CASE events # {}
    <3>1. pub[s] \in PublisherRecord /\ Batch(s) = {}
      BY <1>i, <1>7, PubTypes DEF SelectPending, BatchSound
    <3>2. /\ pub'[s] = [pub[s] EXCEPT !.pc = "publish", !.todo = events]
          /\ \A r \in Scheduler \ {s} : pub'[r] = pub[r]
      BY <1>i, <1>7, <2>2 DEF SelectPending, TypeOK
    <3>3. Batch(s)' = events
      <4> HIDE DEF events
      <4> QED
        BY <3>1, <3>2 DEF Batch, PublisherRecord
    <3>4. t # s => Batch(t)' = Batch(t)
      BY <3>2 DEF Batch
    <3> QED
      BY <3>3, <3>4
  <2> QED
    BY <2>1, <2>2
<1>8. ASSUME NEW s \in Scheduler, CommitBatch(s) \/ PublisherFails(s)
      PROVE  Batch(t)' \subseteq Batch(t)
  BY <1>5, <1>8 DEF CommitBatch, Closed, PublisherFails
<1> QED
  BY <1>2, <1>3, <1>4, <1>6, <1>7, <1>8, StepKinds

LEMMA BatchesBoundedStep ==
    ASSUME OutboxInv, BatchesBounded, [Next]_vars
    PROVE  BatchesBounded'
<1> SUFFICES ASSUME NEW t \in Scheduler PROVE Cardinality(Batch(t)') <= BatchSize
  BY DEF BatchesBounded
<1>i. TypeOK /\ BatchSize \in Nat
  BY ConstantsAssumption DEF OutboxInv
<1>1. IsFiniteSet(Batch(t)) /\ Cardinality(Batch(t)) <= BatchSize
  <2>1. IsFiniteSet(Event) /\ Batch(t) \subseteq Event
    BY <1>i, PubTypes, ConstantsAssumption, FS_Interval DEF Event
  <2> QED
    BY <2>1, FS_Subset DEF BatchesBounded
<1>2. ASSUME Batch(t)' \subseteq Batch(t) PROVE Cardinality(Batch(t)') <= BatchSize
  <2>1. IsFiniteSet(Batch(t)') /\ Cardinality(Batch(t)') <= Cardinality(Batch(t))
    BY <1>1, <1>2, FS_Subset
  <2> QED
    BY <1>i, <1>1, <2>1, FS_CardinalityType
<1>3. Cardinality(Oldest({e \in Event : Selectable(e)}, BatchSize)) <= BatchSize
  BY <1>i, OldestBounded
<1> QED
  BY <1>2, <1>3, BatchStep

\* A publisher whose batch may come to be lost: it has published into a broken
\* connection, or may do so.
Lossy == {s \in Scheduler : pub[s].link = "dead" \/ Undelivered(s) # {}}

LossPaid ==
    /\ lossy + Cardinality(Lossy) <= broken
    /\ Cardinality(Lost) <= lossy * BatchSize

LossInv == OutboxInv /\ BatchesBounded /\ LossPaid

\* A publisher becomes lossy only when a stop breaks its connection, ...
LEMMA LossyStep ==
    ASSUME OutboxInv, [Next]_vars
    PROVE  \/ broken' = broken /\ lossy' = lossy /\ Lossy' \subseteq Lossy
           \/ /\ broken' = broken + Cardinality(Connected) /\ lossy' = lossy
              /\ Lossy' \subseteq Lossy \cup Connected
           \/ \E s \in Scheduler : CommitBatch(s)
<1>i. TypeOK /\ TypeOK' /\ \A s \in Scheduler : BatchSound(s)
  BY TypeStep DEF OutboxInv
<1>q. \A f \in Event : queue[f] \in Nat
  BY <1>i DEF TypeOK
<1>1. ASSUME NEW t \in Scheduler, pub'[t].link = pub[t].link \/ pub'[t].link # "dead",
             pub'[t].ok = pub[t].ok, \A e \in Event : queue'[e] = 0 => queue[e] = 0
      PROVE  t \in Lossy' => t \in Lossy
  <2>1. pub'[t].ok \subseteq Event
    BY <1>i DEF TypeOK, PublisherRecord
  <2>2. Undelivered(t)' \subseteq Undelivered(t)
    BY <1>1, <2>1 DEF Undelivered, Published
  <2> QED
    BY <1>1, <2>2 DEF Lossy
<1>2. ASSUME UNCHANGED <<queue, pub>> PROVE Lossy' = Lossy
  BY <1>2 DEF Lossy, Undelivered, Published
<1>3. CASE \/ UNCHANGED vars \/ BrokerStarts
           \/ \E e \in Event : CreateEvent(e) \/ BackoffElapses(e)
  BY <1>2, <1>3 DEF vars, BrokerStarts, CreateEvent, BackoffElapses
<1>b. \A t \in Scheduler \ Connected : Broken[t] = pub[t]
  BY DEF Broken
<1>4. CASE BrokerStops
  <2>1. \A t \in Scheduler \ Connected : t \in Lossy' => t \in Lossy
    BY <1>1, <1>4, <1>b DEF BrokerStops
  <2> QED
    BY <1>4, <2>1 DEF BrokerStops, Lossy
<1>5. ASSUME NEW s \in Scheduler, NEW e \in Event, DeliveredButFails(s, e)
      PROVE  /\ broken' = broken + Cardinality(Connected) /\ lossy' = lossy
             /\ Lossy' \subseteq Lossy \cup Connected
  <2>1. s \in Connected
    BY <1>5 DEF DeliveredButFails, Connected
  <2>2. \A f \in Event : queue'[f] = 0 => queue[f] = 0
    BY <1>i, <1>5, <1>q DEF DeliveredButFails, TypeOK
  <2>3. \A t \in Scheduler \ Connected : pub'[t] = pub[t]
    BY <1>i, <1>5, <1>b, <2>1, BrokenTypes DEF DeliveredButFails
  <2>4. \A t \in Scheduler \ Connected : t \in Lossy' => t \in Lossy
    BY <1>1, <2>2, <2>3
  <2> QED
    BY <1>5, <2>4 DEF DeliveredButFails, Lossy
<1>6. ASSUME NEW s \in Scheduler, broken' = broken, lossy' = lossy,
             \A t \in Scheduler \ {s} : pub'[t] = pub[t],
             \A f \in Event : queue'[f] = 0 => queue[f] = 0,
             s \in Lossy' => s \in Lossy
      PROVE  broken' = broken /\ lossy' = lossy /\ Lossy' \subseteq Lossy
  <2>1. \A t \in Scheduler \ {s} : t \in Lossy' => t \in Lossy
    BY <1>1, <1>6
  <2> QED
    BY <1>6, <2>1 DEF Lossy
<1>7. ASSUME NEW s \in Scheduler, Connect(s) \/ SelectPending(s) \/ PublisherFails(s)
      PROVE  broken' = broken /\ lossy' = lossy /\ Lossy' \subseteq Lossy
  <2>1. /\ broken' = broken /\ lossy' = lossy /\ queue' = queue
        /\ \A t \in Scheduler \ {s} : pub'[t] = pub[t]
    BY <1>i, <1>7 DEF Connect, SelectPending, PublisherFails, TypeOK
  <2>2. \/ pub'[s].ok = {} /\ pub'[s].link # "dead"
        \/ pub'[s].ok = pub[s].ok /\ pub'[s].link = pub[s].link
    <3>p. pub[s] \in PublisherRecord
      BY <1>i, PubTypes
    <3>1. CASE Connect(s)
      <4>1. pub[s].ok = {}
        BY <1>i, <3>1 DEF Connect, BatchSound, Batch
      <4> QED
        BY <1>i, <3>1, <3>p, <4>1 DEF Connect, TypeOK, PublisherRecord
    <3>2. CASE SelectPending(s)
      <4> DEFINE events == Oldest({e \in Event : Selectable(e)}, BatchSize)
      <4>1. pub'[s] = IdlePublisher \/ pub'[s] = [pub[s] EXCEPT !.pc = "publish", !.todo = events]
        BY <1>i, <3>2 DEF SelectPending, TypeOK
      <4> HIDE DEF events
      <4>2. CASE pub'[s] = IdlePublisher
        BY <4>2 DEF IdlePublisher
      <4>3. CASE pub'[s] = [pub[s] EXCEPT !.pc = "publish", !.todo = events]
        BY <3>p, <4>3 DEF PublisherRecord
      <4> QED
        BY <4>1, <4>2, <4>3
    <3>3. CASE PublisherFails(s)
      BY <1>i, <3>3 DEF PublisherFails, TypeOK, IdlePublisher
    <3> QED
      BY <1>7, <3>1, <3>2, <3>3
  <2>3. s \in Lossy' => s \in Lossy
    <3>1. CASE pub'[s].ok = {} /\ pub'[s].link # "dead"
      BY <3>1 DEF Lossy, Undelivered, Published
    <3>2. CASE pub'[s].ok = pub[s].ok /\ pub'[s].link = pub[s].link
      BY <1>1, <2>1, <3>2
    <3> QED
      BY <2>2, <3>1, <3>2
  <2> QED
    BY <1>6, <2>1, <2>3
<1>8. ASSUME NEW s \in Scheduler, NEW e \in Event,
             PublishDelivered(s, e) \/ PublishLost(s, e) \/ PublishFails(s, e)
      PROVE  broken' = broken /\ lossy' = lossy /\ Lossy' \subseteq Lossy
  <2>p. pub[s] \in PublisherRecord
    BY <1>i, PubTypes
  <2>1. /\ broken' = broken /\ lossy' = lossy
        /\ \A t \in Scheduler \ {s} : pub'[t] = pub[t]
    BY <1>i, <1>8 DEF PublishDelivered, PublishLost, PublishFails, TypeOK
  <2>2. \A f \in Event : queue'[f] = 0 => queue[f] = 0
    BY <1>i, <1>8, <1>q DEF PublishDelivered, PublishLost, PublishFails, TypeOK
  <2>3. CASE PublishDelivered(s, e)
    <3>1. pub'[s].link = pub[s].link /\ pub'[s].ok = pub[s].ok \cup {e} /\ queue'[e] # 0
      BY <1>i, <1>q, <2>3, <2>p DEF PublishDelivered, TypeOK, PublisherRecord
    <3>2. Undelivered(s)' \subseteq Undelivered(s)
      BY <2>2, <2>p, <3>1 DEF Undelivered, Published, PublisherRecord
    <3>3. s \in Lossy' => s \in Lossy
      BY <3>1, <3>2 DEF Lossy
    <3> QED
      BY <1>6, <2>1, <2>2, <3>3
  <2>4. CASE PublishLost(s, e)
    <3>1. s \in Lossy
      BY <2>4 DEF PublishLost, Lossy
    <3> QED
      BY <1>6, <2>1, <2>2, <3>1
  <2>5. CASE PublishFails(s, e)
    <3>1. pub'[s].link # "dead" /\ pub'[s].ok = pub[s].ok
      BY <1>i, <2>5, <2>p DEF PublishFails, TypeOK, PublisherRecord
    <3>2. s \in Lossy' => s \in Lossy
      BY <1>1, <2>2, <3>1
    <3> QED
      BY <1>6, <2>1, <2>2, <3>2
  <2> QED
    BY <1>8, <2>3, <2>4, <2>5
<1> QED
  BY <1>3, <1>4, <1>5, <1>7, <1>8, StepKinds

\* ... an event is lost only by a commit, ...
LEMMA LostStep ==
    ASSUME OutboxInv, [Next]_vars
    PROVE  \/ Lost' \subseteq Lost
           \/ \E s \in Scheduler : CommitBatch(s)
<1>i. TypeOK
  BY DEF OutboxInv
<1>q. \A e \in Event : queue'[e] = 0 => queue[e] = 0
  <2> SUFFICES ASSUME NEW e \in Event, queue'[e] = 0 PROVE queue[e] = 0
    OBVIOUS
  <2>1. queue'[e] = queue[e] \/ queue'[e] = queue[e] + 1
    BY QueueStep
  <2> QED
    BY <1>i, <2>1 DEF TypeOK
<1>1. CASE event' = event
  BY <1>q, <1>1 DEF Lost
<1>2. ASSUME NEW f \in Event, CreateEvent(f) \/ BackoffElapses(f)
      PROVE  \A e \in Event : event'[e].status = "PUBLISHED" => event[e].status = "PUBLISHED"
  BY <1>i, <1>2 DEF CreateEvent, BackoffElapses, TypeOK, EventRow
<1>3. CASE \E f \in Event : CreateEvent(f) \/ BackoffElapses(f)
  BY <1>q, <1>2, <1>3 DEF Lost
<1> QED
  BY <1>1, <1>3, EventWriters

\* ... which loses what its publisher has published in vain and leaves it idle.
LEMMA CommitLoses ==
    ASSUME OutboxInv, NEW s \in Scheduler, CommitBatch(s)
    PROVE  /\ broken' = broken /\ Lost' \subseteq Lost \cup Undelivered(s)
           /\ Lossy' = Lossy \ {s}
           /\ lossy' = lossy + (IF Undelivered(s) = {} THEN 0 ELSE 1)
<1>i. TypeOK
  BY DEF OutboxInv
<1>1. broken' = broken /\ queue' = queue /\ lossy' = lossy + (IF Undelivered(s) = {} THEN 0 ELSE 1)
  BY DEF CommitBatch
<1>2. ASSUME NEW e \in Event, event'[e].status = "PUBLISHED"
      PROVE  event[e].status = "PUBLISHED" \/ e \in Published(s)
  <2>1. event[e] \in EventRow
    BY <1>i DEF TypeOK
  <2>2. CASE e \in pub[s].failed \ Published(s)
    <3>1. event'[e] = Retried(e)
      BY <2>2 DEF CommitBatch, Committed
    <3> QED
      BY <1>2, <2>1, <3>1 DEF Retried, EventRow
  <2>3. CASE e \notin pub[s].failed /\ e \notin Published(s)
    BY <1>2, <2>3 DEF CommitBatch, Committed
  <2> QED
    BY <2>2, <2>3
<1>3. Lost' \subseteq Lost \cup Undelivered(s)
  <2> SUFFICES ASSUME NEW e \in Event, event'[e].status = "PUBLISHED", queue[e] = 0
               PROVE  e \in Lost \/ e \in Undelivered(s)
    BY <1>1 DEF Lost
  <2> QED
    BY <1>2 DEF Lost, Undelivered
<1>4. pub'[s] = IdlePublisher /\ \A t \in Scheduler \ {s} : pub'[t] = pub[t]
  BY <1>i DEF CommitBatch, Closed, TypeOK
<1>5. s \notin Lossy'
  BY <1>4 DEF Lossy, Undelivered, Published, IdlePublisher
<1>6. \A t \in Scheduler \ {s} : t \in Lossy' <=> t \in Lossy
  BY <1>1, <1>4 DEF Lossy, Undelivered, Published
<1> QED
  BY <1>1, <1>3, <1>5, <1>6 DEF Lossy

LEMMA LossPaidStep ==
    ASSUME LossInv, [Next]_vars
    PROVE  LossPaid'
<1>i. OutboxInv /\ BatchesBounded /\ LossPaid /\ TypeOK
  BY DEF LossInv, OutboxInv
<1>f. IsFiniteSet(Event) /\ IsFiniteSet(Lost) /\ IsFiniteSet(Lost') /\ BatchSize \in Nat
  <2>1. IsFiniteSet(Event) /\ BatchSize \in Nat
    BY ConstantsAssumption, FS_Interval DEF Event
  <2>2. Lost \subseteq Event /\ Lost' \subseteq Event
    BY DEF Lost
  <2> QED
    BY <2>1, <2>2, FS_Subset
<1>c. Lossy \subseteq Scheduler /\ Lossy' \subseteq Scheduler /\ Connected \subseteq Scheduler
  BY DEF Lossy, Connected
<1>n. /\ Cardinality(Lost) \in Nat /\ Cardinality(Lost') \in Nat
      /\ Cardinality(Lossy) \in Nat /\ Cardinality(Lossy') \in Nat
      /\ Cardinality(Connected) \in Nat /\ broken \in Nat /\ lossy \in Nat
  BY <1>i, <1>f, <1>c, FS_CardinalityType, SchedulersFinite DEF TypeOK
<1>p. lossy + Cardinality(Lossy) <= broken /\ Cardinality(Lost) <= lossy * BatchSize
  BY <1>i DEF LossPaid
<1>l. ASSUME Lost' \subseteq Lost PROVE Cardinality(Lost') <= Cardinality(Lost)
  BY <1>f, <1>l, FS_Subset
<1>1. ASSUME lossy' = lossy, Lost' \subseteq Lost,
             \/ broken' = broken /\ Lossy' \subseteq Lossy
             \/ broken' = broken + Cardinality(Connected) /\ Lossy' \subseteq Lossy \cup Connected
      PROVE  LossPaid'
  <2>1. Cardinality(Lossy') + broken <= Cardinality(Lossy) + broken'
    <3>1. CASE broken' = broken /\ Lossy' \subseteq Lossy
      <4>1. Cardinality(Lossy') <= Cardinality(Lossy)
        BY <1>c, <3>1, CountsGrow
      <4> QED
        BY <1>n, <3>1, <4>1
    <3>2. CASE broken' = broken + Cardinality(Connected) /\ Lossy' \subseteq Lossy \cup Connected
      <4>1. Cardinality(Lossy') <= Cardinality(Lossy) + Cardinality(Connected)
        BY <1>c, <3>2, CountsGrow
      <4> QED
        BY <1>n, <3>2, <4>1
    <3> QED
      BY <1>1, <3>1, <3>2
  <2>2. broken' \in Nat
    BY <1>1, <1>n
  <2>3. lossy' + Cardinality(Lossy') <= broken'
    BY <1>1, <1>n, <1>p, <2>1, <2>2
  <2>4. Cardinality(Lost') <= lossy' * BatchSize
    <3>1. PICK m \in Nat : m = lossy * BatchSize
      BY <1>f, <1>n
    <3> QED
      BY <1>1, <1>l, <1>n, <1>p, <3>1
  <2> QED
    BY <2>3, <2>4 DEF LossPaid
<1>2. ASSUME NEW s \in Scheduler, CommitBatch(s) PROVE LossPaid'
  <2>1. /\ broken' = broken /\ Lost' \subseteq Lost \cup Undelivered(s)
        /\ Lossy' = Lossy \ {s}
        /\ lossy' = lossy + (IF Undelivered(s) = {} THEN 0 ELSE 1)
    BY <1>2, <1>i, CommitLoses
  <2>2. CASE Undelivered(s) = {}
    BY <1>1, <1>n, <2>1, <2>2
  <2>3. CASE Undelivered(s) # {}
    <3>1. s \in Lossy /\ lossy' = lossy + 1
      BY <2>1, <2>3 DEF Lossy
    <3>2. Cardinality(Lossy') = Cardinality(Lossy) - 1
      BY <1>c, <2>1, <3>1, SchedulersFinite, FS_RemoveElement
    <3>3. lossy' + Cardinality(Lossy') <= broken'
      BY <1>n, <1>p, <2>1, <3>1, <3>2
    <3>4. IsFiniteSet(Undelivered(s)) /\ Cardinality(Undelivered(s)) <= BatchSize
                                      /\ Cardinality(Undelivered(s)) \in Nat
      <4>1. Undelivered(s) \subseteq Batch(s) /\ Batch(s) \subseteq Event
        BY <1>i, PubTypes DEF Undelivered, Published, Batch
      <4>2. IsFiniteSet(Batch(s)) /\ Cardinality(Batch(s)) <= BatchSize
        BY <1>f, <1>i, <4>1, FS_Subset DEF BatchesBounded
      <4>3. IsFiniteSet(Undelivered(s)) /\ Cardinality(Undelivered(s)) <= Cardinality(Batch(s))
        BY <4>1, <4>2, FS_Subset
      <4>4. Cardinality(Undelivered(s)) \in Nat /\ Cardinality(Batch(s)) \in Nat
        BY <4>2, <4>3, FS_CardinalityType
      <4> QED
        BY <1>f, <4>2, <4>3, <4>4
    <3>5. Cardinality(Lost') <= Cardinality(Lost) + Cardinality(Undelivered(s))
      <4> DEFINE U == Undelivered(s)
      <4>1. IsFiniteSet(Lost \cup U) /\ IsFiniteSet(Lost \cap U)
        BY <1>f, <3>4, FS_Union, FS_Intersection
      <4>2. Cardinality(Lost \cup U) = Cardinality(Lost) + Cardinality(U) - Cardinality(Lost \cap U)
        BY <1>f, <3>4, FS_Union
      <4>3. Cardinality(Lost') <= Cardinality(Lost \cup U)
        BY <2>1, <4>1, FS_Subset
      <4>4. Cardinality(Lost \cup U) \in Nat /\ Cardinality(Lost \cap U) \in Nat
        BY <4>1, FS_CardinalityType
      <4> QED
        BY <1>n, <3>4, <4>2, <4>3, <4>4
    <3>6. Cardinality(Lost') <= lossy' * BatchSize
      <4>1. PICK m \in Nat : m = lossy * BatchSize
        BY <1>f, <1>n
      <4>2. (lossy + 1) * BatchSize = m + BatchSize
        BY <1>f, <1>n, <4>1
      <4> QED
        BY <1>f, <1>n, <1>p, <3>1, <3>4, <3>5, <4>1, <4>2
    <3> QED
      BY <3>3, <3>6 DEF LossPaid
  <2> QED
    BY <2>2, <2>3
<1> QED
  BY <1>1, <1>2, <1>i, LossyStep, LostStep

LEMMA LossInvInit == Init => LossInv
<1> SUFFICES ASSUME Init PROVE BatchesBounded /\ LossPaid
  BY OutboxInvInit DEF LossInv
<1>1. \A s \in Scheduler : Batch(s) = {}
  BY DEF Init, Batch, IdlePublisher
<1>2. BatchesBounded
  BY <1>1, FS_EmptySet, ConstantsAssumption DEF BatchesBounded
<1>3. Lossy = {}
  BY DEF Init, Lossy, Undelivered, Published, IdlePublisher
<1>4. Lost = {}
  BY DEF Init, Lost, NoEvent
<1>5. lossy = 0 /\ broken = 0 /\ 0 * BatchSize = 0
  BY ConstantsAssumption DEF Init
<1> QED
  BY <1>2, <1>3, <1>4, <1>5, FS_EmptySet DEF LossPaid

LEMMA LossInvHolds == Spec => []LossInv
<1>1. LossInv /\ [Next]_vars => LossInv'
  BY OutboxInvStep, BatchesBoundedStep, LossPaidStep DEF LossInv
<1> QED
  BY <1>1, LossInvInit, PTL DEF Spec

\* However many publishers race and whenever they crash, the events marked
\* PUBLISHED that are in no queue are at most one batch for each connection
\* that a stop of the broker broke.
THEOREM LossesPaidFor == Spec => []LossesBounded
<1>1. LossInv => LossesBounded
  <2> SUFFICES ASSUME LossInv PROVE LossesBounded
    OBVIOUS
  <2>1. lossy + Cardinality(Lossy) <= broken /\ Cardinality(Lost) <= lossy * BatchSize
    BY DEF LossInv, LossPaid
  <2>2. lossy \in Nat /\ broken \in Nat
    BY DEF LossInv, OutboxInv, TypeOK
  <2>3. Cardinality(Lossy) \in Nat
    BY SchedulersFinite DEF Lossy
  <2>4. lossy <= broken
    BY <2>1, <2>2, <2>3
  <2> QED
    BY <2>1, <2>4 DEF LossesBounded
<1> QED
  BY <1>1, LossInvHolds, PTL

\* A broker that has never stopped has broken no connection.
StopsBreak == stops = 0 => broken = 0

LEMMA StopsBreakHolds == Spec => []StopsBreak
<1>1. Init => StopsBreak
  BY DEF Init, StopsBreak
<1>2. ASSUME OutboxInv, StopsBreak, [Next]_vars PROVE StopsBreak'
  <2>1. stops \in Nat
    BY <1>2 DEF OutboxInv, TypeOK
  <2>2. CASE UNCHANGED vars \/ BrokerStops \/ BrokerStarts
    BY <1>2, <2>1, <2>2 DEF vars, BrokerStops, BrokerStarts, StopsBreak
  <2>3. ASSUME NEW e \in Event, CreateEvent(e) \/ BackoffElapses(e) PROVE StopsBreak'
    BY <1>2, <2>3 DEF CreateEvent, BackoffElapses, StopsBreak
  <2>4. ASSUME NEW s \in Scheduler, \/ Connect(s) \/ SelectPending(s)
                                    \/ CommitBatch(s) \/ PublisherFails(s)
        PROVE  StopsBreak'
    BY <1>2, <2>4 DEF Connect, SelectPending, CommitBatch, PublisherFails, StopsBreak
  <2>5. ASSUME NEW s \in Scheduler, NEW e \in Event,
               \/ PublishDelivered(s, e) \/ PublishLost(s, e)
               \/ PublishFails(s, e) \/ DeliveredButFails(s, e)
        PROVE  StopsBreak'
    BY <1>2, <2>1, <2>5 DEF PublishDelivered, PublishLost, PublishFails, DeliveredButFails, StopsBreak
  <2> QED
    BY <1>2, <2>2, <2>3, <2>4, <2>5, StepKinds
<1> QED
  BY <1>1, <1>2, OutboxInvHolds, PTL DEF Spec

\* Without a stop of the broker nothing is lost: a PUBLISHED event has reached
\* a queue, and as often as publishers crashed, plus one, at most.
DeliveredOnce ==
    stops = 0 => \A e \in Event : event[e].status = "PUBLISHED" => queue[e] \in 1..(1 + crashes)

\* Crashes and rollbacks alone cost duplicates, never an event.
THEOREM CrashesLoseNothing == Spec => []DeliveredOnce
<1>1. OutboxInv /\ LossesBounded /\ StopsBreak /\ DuplicatesNeedFailures => DeliveredOnce
  <2> SUFFICES ASSUME OutboxInv, LossesBounded, StopsBreak, DuplicatesNeedFailures, stops = 0,
                      NEW e \in Event, event[e].status = "PUBLISHED"
               PROVE  queue[e] \in 1..(1 + crashes)
    BY DEF DeliveredOnce
  <2>1. queue[e] \in Nat /\ crashes \in Nat /\ lossy \in Nat
    BY DEF OutboxInv, TypeOK
  <2>2. queue[e] <= 1 + crashes
    BY <2>1 DEF DuplicatesNeedFailures
  <2>3. IsFiniteSet(Lost) /\ Cardinality(Lost) \in Nat
    <3>1. IsFiniteSet(Event)
      BY ConstantsAssumption, FS_Interval DEF Event
    <3>2. Lost \subseteq Event
      BY DEF Lost
    <3> QED
      BY <3>1, <3>2, FS_Subset, FS_CardinalityType
  <2>4. lossy = 0 /\ lossy * BatchSize = 0
    BY <2>1, ConstantsAssumption DEF LossesBounded, StopsBreak
  <2>5. Cardinality(Lost) = 0
    BY <2>3, <2>4 DEF LossesBounded
  <2>6. e \notin Lost
    BY <2>3, <2>5, FS_EmptySet
  <2>7. queue[e] # 0
    BY <2>6 DEF Lost
  <2> QED
    BY <2>1, <2>2, <2>7
<1> QED
  BY <1>1, OutboxInvHolds, LossesPaidFor, StopsBreakHolds, DuplicatesPaidFor, PTL

=============================================================================
