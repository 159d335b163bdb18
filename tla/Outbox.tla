------------------------------- MODULE Outbox -------------------------------
(***************************************************************************)
(* The transactional outbox: the publisher of each scheduler process       *)
(* (scheduler/publisher.py) moves the PENDING rows of outbox_event to      *)
(* RabbitMQ.  A publisher opens a connection, locks a batch of rows in one *)
(* transaction, publishes them one by one and commits what became of them. *)
(*                                                                         *)
(* The channel is not in confirm mode: basic_publish returns once the      *)
(* message is written to the socket.  When the broker stops, a connection  *)
(* made before is "dead": a publish on it either raises, which closes it,  *)
(* or is lost without a sign.  Nothing in src/ consumes the queues.        *)
(***************************************************************************)
EXTENDS Integers, FiniteSets

CONSTANTS
    MaxEvents,           \* bound on the outbox_event rows
    Scheduler,           \* scheduler processes, each with a publisher
    BatchSize,           \* BATCH_SIZE
    MaxPublishAttempts,  \* MAX_PUBLISH_ATTEMPTS
    MaxStops,            \* bound on broker stops
    MaxCrashes           \* bound on crashes and database errors of publishers

ASSUME ConstantsAssumption ==
    /\ MaxEvents \in Nat
    /\ IsFiniteSet(Scheduler)
    /\ BatchSize \in Nat \ {0}
    /\ MaxPublishAttempts \in Nat \ {0}
    /\ MaxStops \in Nat
    /\ MaxCrashes \in Nat

VARIABLES
    event,    \* event[e]: the OutboxEvent row e
    queue,    \* queue[e]: messages of e that reached a RabbitMQ queue
    sent,     \* the events basic_publish has taken a message of (history)
    broker,   \* "up" or "down"
    pub,      \* pub[s]: local state of the publisher of scheduler s
    stops,
    broken,   \* connections that broker stops have broken (history)
    lossy,    \* batches committed with a message that reached no queue (history)
    crashes

vars == <<event, queue, sent, broker, pub, stops, broken, lossy, crashes>>

Event == 1..MaxEvents   \* in the order of created_at

NoEvent == [status |-> "none", attempts |-> 0, due |-> FALSE]
IdlePublisher == [pc |-> "idle", link |-> "closed", todo |-> {}, ok |-> {}, failed |-> {}]

Batch(s) == pub[s].todo \cup pub[s].ok \cup pub[s].failed

\* The row locks of the publishers' transactions.
Locked(e) == \E s \in Scheduler : e \in Batch(s)

\* The k oldest members of S.
Oldest(S, k) == {e \in S : Cardinality({f \in S : f < e}) < k}

Init ==
    /\ event = [e \in Event |-> NoEvent]
    /\ queue = [e \in Event |-> 0]
    /\ sent = {}
    /\ broker = "up"
    /\ pub = [s \in Scheduler |-> IdlePublisher]
    /\ stops = 0
    /\ broken = 0
    /\ lossy = 0
    /\ crashes = 0

-----------------------------------------------------------------------------
(* The environment: ticks, time and the broker *)

\* The commit of a tick inserts the event with its run and attempt.
CreateEvent(e) ==
    /\ event[e].status = "none"
    /\ \A f \in Event : f < e => event[f].status # "none"
    /\ event' = [event EXCEPT ![e] = [status |-> "PENDING", attempts |-> 0, due |-> TRUE]]
    /\ UNCHANGED <<queue, sent, broker, pub, stops, broken, lossy, crashes>>

BackoffElapses(e) ==
    /\ event[e].status = "PENDING"
    /\ ~event[e].due
    /\ event' = [event EXCEPT ![e].due = TRUE]
    /\ UNCHANGED <<queue, sent, broker, pub, stops, broken, lossy, crashes>>

Connected == {s \in Scheduler : pub[s].link = "up"}

Broken == [s \in Scheduler |->
             IF s \in Connected THEN [pub[s] EXCEPT !.link = "dead"] ELSE pub[s]]

BrokerStops ==
    /\ broker = "up"
    /\ stops < MaxStops
    /\ broker' = "down"
    /\ stops' = stops + 1
    /\ broken' = broken + Cardinality(Connected)
    /\ pub' = Broken
    /\ UNCHANGED <<event, queue, sent, lossy, crashes>>

BrokerStarts ==
    /\ broker = "down"
    /\ broker' = "up"
    /\ UNCHANGED <<event, queue, sent, pub, stops, broken, lossy, crashes>>

-----------------------------------------------------------------------------
(* publish_pending_events *)

\* RabbitMQConnection.connect and setup_queues; while the broker is down they
\* raise and the publisher returns with nothing done.
Connect_Unchecked(s) ==
    /\ pub[s].pc = "idle"
    /\ pub' = [pub EXCEPT ![s].pc = "connected",
                          ![s].link = IF broker = "up" THEN "up" ELSE "closed"]
    /\ UNCHANGED <<event, queue, sent, broker, stops, broken, lossy, crashes>>
Connect(s) ==
    /\ pub[s].pc = "idle"
    /\ broker = "up"
    /\ pub' = [pub EXCEPT ![s].pc = "connected", ![s].link = "up"]
    /\ UNCHANGED <<event, queue, sent, broker, stops, broken, lossy, crashes>>

Selectable_NoSkipLocked(e) == event[e].status = "PENDING" /\ event[e].due
Selectable_NoRetryTime(e) ==
    event[e].status = "PENDING" /\ event[e].attempts = 0 /\ ~Locked(e)
Selectable(e) == event[e].status = "PENDING" /\ event[e].due /\ ~Locked(e)

\* SELECT ... FOR UPDATE SKIP LOCKED; with no event the connection is closed.
SelectPending(s) ==
    LET events == Oldest({e \in Event : Selectable(e)}, BatchSize) IN
    /\ pub[s].pc = "connected"
    /\ pub' = [pub EXCEPT ![s] = IF events = {} THEN IdlePublisher
                                 ELSE [@ EXCEPT !.pc = "publish", !.todo = events]]
    /\ UNCHANGED <<event, queue, sent, broker, stops, broken, lossy, crashes>>

Publishing(s, e) == pub[s].pc = "publish" /\ e \in Oldest(pub[s].todo, 1)

PublishDelivered(s, e) ==
    /\ Publishing(s, e)
    /\ pub[s].link = "up"
    /\ queue' = [queue EXCEPT ![e] = @ + 1]
    /\ sent' = sent \cup {e}
    /\ pub' = [pub EXCEPT ![s].todo = @ \ {e}, ![s].ok = @ \cup {e}]
    /\ UNCHANGED <<event, broker, stops, broken, lossy, crashes>>

PublishLost(s, e) ==
    /\ Publishing(s, e)
    /\ pub[s].link = "dead"
    /\ sent' = sent \cup {e}
    /\ pub' = [pub EXCEPT ![s].todo = @ \ {e}, ![s].ok = @ \cup {e}]
    /\ UNCHANGED <<event, queue, broker, stops, broken, lossy, crashes>>

\* publish_event catches the exception; every later publish of the batch uses
\* the same closed channel and fails as well.
PublishFails(s, e) ==
    /\ Publishing(s, e)
    /\ pub[s].link # "up"
    /\ pub' = [pub EXCEPT ![s].link = "closed", ![s].todo = @ \ {e}, ![s].failed = @ \cup {e}]
    /\ UNCHANGED <<event, queue, sent, broker, stops, broken, lossy, crashes>>

\* The broker takes the message and stops before basic_publish has returned.
DeliveredButFails(s, e) ==
    /\ Publishing(s, e)
    /\ pub[s].link = "up"
    /\ stops < MaxStops
    /\ broker' = "down"
    /\ stops' = stops + 1
    /\ broken' = broken + Cardinality(Connected)
    /\ queue' = [queue EXCEPT ![e] = @ + 1]
    /\ sent' = sent \cup {e}
    /\ pub' = [Broken EXCEPT ![s].link = "closed", ![s].todo = @ \ {e}, ![s].failed = @ \cup {e}]
    /\ UNCHANGED <<event, lossy, crashes>>

Published_WholeBatch(s) == Batch(s)
Published(s) == pub[s].ok

\* The row of a published event, and of one whose publishing failed.
Marked(e) == [event[e] EXCEPT !.status = "PUBLISHED"]

Retried_NoLimit(e) == [event[e] EXCEPT !.attempts = @ + 1, !.due = FALSE]
Retried(e) ==
    LET n == event[e].attempts + 1 IN
    IF n >= MaxPublishAttempts
    THEN [event[e] EXCEPT !.attempts = n, !.status = "FAILED"]
    ELSE [event[e] EXCEPT !.attempts = n, !.due = FALSE]

\* A published event of the batch that is in no queue.
Undelivered(s) == {e \in Published(s) : queue[e] = 0}

Committed(s) == [e \in Event |-> CASE e \in Published(s) -> Marked(e)
                                    [] e \in pub[s].failed \ Published(s) -> Retried(e)
                                    [] OTHER -> event[e]]

\* `finally: rabbitmq.close()`: the next call starts with a new connection.
Closed_KeptOpen(s) == [IdlePublisher EXCEPT !.pc = "connected", !.link = pub[s].link]
Closed(s) == IdlePublisher

CommitBatch(s) ==
    /\ pub[s].pc = "publish"
    /\ pub[s].todo = {}
    /\ event' = Committed(s)
    /\ lossy' = lossy + (IF Undelivered(s) = {} THEN 0 ELSE 1)
    /\ pub' = [pub EXCEPT ![s] = Closed(s)]
    /\ UNCHANGED <<queue, sent, broker, stops, broken, crashes>>

\* The scheduler crashes or a statement fails: the transaction rolls back, and
\* what was published stays published.
PublisherFails(s) ==
    /\ pub[s].pc # "idle"
    /\ crashes < MaxCrashes
    /\ crashes' = crashes + 1
    /\ pub' = [pub EXCEPT ![s] = IdlePublisher]
    /\ UNCHANGED <<event, queue, sent, broker, stops, broken, lossy>>

-----------------------------------------------------------------------------

PublishNext(s) ==
    \E e \in Event : PublishDelivered(s, e) \/ PublishLost(s, e) \/ PublishFails(s, e)

BatchNext(s) == SelectPending(s) \/ PublishNext(s) \/ CommitBatch(s)

PublisherNext(s) == Connect(s) \/ BatchNext(s)

Next ==
    \/ \E e \in Event : CreateEvent(e) \/ BackoffElapses(e)
    \/ BrokerStops
    \/ BrokerStarts
    \/ \E s \in Scheduler :
         \/ PublisherNext(s)
         \/ PublisherFails(s)
         \/ \E e \in Event : DeliveredButFails(s, e)

Spec == Init /\ [][Next]_vars

\* The main loop calls the publisher every second, a batch is worked through
\* before it returns, backoffs elapse, and a stopped broker is started again.
FairSpec ==
    /\ Spec
    /\ \A s \in Scheduler : WF_vars(Connect(s)) /\ WF_vars(BatchNext(s))
    /\ \A e \in Event : WF_vars(BackoffElapses(e))
    /\ WF_vars(BrokerStarts)

-----------------------------------------------------------------------------
(* Invariants *)

EventRow == [status : {"none", "PENDING", "PUBLISHED", "FAILED"},
             attempts : 0..MaxPublishAttempts, due : BOOLEAN]

PublisherRecord ==
    [pc : {"idle", "connected", "publish"}, link : {"up", "dead", "closed"},
     todo : SUBSET Event, ok : SUBSET Event, failed : SUBSET Event]

\* Rows and publishers are well formed; attempts never pass the limit.
TypeOK ==
    /\ event \in [Event -> EventRow]
    /\ queue \in [Event -> Nat]
    /\ sent \subseteq Event
    /\ broker \in {"up", "down"}
    /\ pub \in [Scheduler -> PublisherRecord]
    /\ stops \in 0..MaxStops
    /\ broken \in Nat
    /\ lossy \in Nat
    /\ crashes \in 0..MaxCrashes

\* At-least-once, and no more often than there were crashes of a publisher and
\* stops of the broker: racing publishers never publish an event twice.
DuplicatesNeedFailures ==
    \A e \in Event : queue[e] <= 1 + crashes + stops

\* "Outbox events stay PENDING in DB": an outage, however long, costs an event
\* at most one of its attempts for each connection that it broke.
OutageCostsLittle ==
    \A e \in Event : event[e].attempts <= broken

\* Marked PUBLISHED, and in no queue.
Lost == {e \in Event : event[e].status = "PUBLISHED" /\ queue[e] = 0}

\* "The database and RabbitMQ are eventually consistent": but for what a publish
\* without confirms loses, which is one batch at most for each connection that
\* a stop of the broker broke, because no connection outlives its batch.
LossesBounded == lossy <= broken /\ Cardinality(Lost) <= lossy * BatchSize

-----------------------------------------------------------------------------
(* The outbox implements its promise *)

Delivery == INSTANCE EventDelivery WITH
    status <- [e \in Event |-> event[e].status],
    handed <- [e \in Event |-> e \in sent]

\* An event is PUBLISHED only after it was handed to the broker, and settled
\* once and for all, although batches of several publishers roll back.
DeliversEvents == Delivery!Spec

-----------------------------------------------------------------------------
(* Liveness *)

\* Every event is PUBLISHED or FAILED in the end.
EventsSettle ==
    \A e \in Event : event[e].status = "PENDING" ~> event[e].status \in {"PUBLISHED", "FAILED"}

=============================================================================
