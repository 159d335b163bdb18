----------------------------- MODULE Scheduling -----------------------------
(***************************************************************************)
(* The schedule of the job table: the scheduler's tick (scheduler/tick.py) *)
(* turns due jobs into runs while API requests (apps/jobs/) create, change *)
(* and delete jobs by reading a row, changing the object and saving the    *)
(* whole row back, with no lock and no transaction in between.             *)
(*                                                                         *)
(* Time is a bounded integer clock.  A CRON schedule is due at the         *)
(* multiples of a period, a ONE_TIME schedule at one instant; Null is SQL's *)
(* NULL.  A tick is one transaction: it locks the due rows it selects, and *)
(* what it writes becomes visible at its commit.                           *)
(***************************************************************************)
EXTENDS Integers, FiniteSets

CONSTANTS
    Job,             \* job ids
    Schedule,        \* the schedules a job may be given, see CronSchedule, OneTimeSchedule
    PriorityOf,      \* PriorityOf[j]: job.priority
    Scheduler,       \* scheduler processes
    Request,         \* bound: the PATCH and DELETE requests, each made once
    MaxJobsPerTick,  \* MAX_JOBS_PER_TICK
    MaxTime,         \* bound on the clock
    MaxFaults,       \* bound on failures of ticks
    Null

VARIABLES
    now,      \* the time
    job,      \* job[j]: the Job row j
    runs,     \* the JobRun rows the ticks have inserted
    tick,     \* tick[s]: the transaction of scheduler s
    request,  \* request[q]: the API request q
    faults

vars == <<now, job, runs, tick, request, faults>>

-----------------------------------------------------------------------------
(* Jobs *)

Priority == {"CRITICAL", "HIGH", "MEDIUM", "LOW"}

CronSchedule(period) == [type |-> "CRON", arg |-> period]
OneTimeSchedule(at) == [type |-> "ONE_TIME", arg |-> at]

ASSUME ConstantsAssumption ==
    /\ \A sch \in Schedule :
         /\ sch.arg \in Nat
         /\ (sch = CronSchedule(sch.arg) /\ sch.arg # 0) \/ sch = OneTimeSchedule(sch.arg)
    /\ PriorityOf \in [Job -> Priority]
    /\ MaxJobsPerTick \in Nat \ {0}
    /\ MaxTime \in Nat
    /\ MaxFaults \in Nat
    /\ Null \notin Nat

NoJob == [status |-> "none", schedule |-> Null, next |-> Null]

\* croniter.get_next: the first occurrence strictly after t.
CronNext_Previous(period, t) == (t \div period - 1) * period
CronNext(period, t) == (t \div period + 1) * period

\* calculate_next_run of the tick: a one-time job is not scheduled again.
CalculateNextRun(sch, t) == IF sch.type = "CRON" THEN CronNext(sch.arg, t) ELSE Null

\* _calculate_next_run of the serializer: a one-time job is due at run_at.
FirstRun(sch, t) == IF sch.type = "CRON" THEN CronNext(sch.arg, t) ELSE sch.arg

-----------------------------------------------------------------------------
(* Runs and ticks *)

RunsFor(j, slot) == {r \in runs : r.job = j /\ r.slot = slot}

IdleTick == [pc |-> "idle", now |-> 0, batch |-> {}, seen |-> [j \in Job |-> NoJob],
             todo |-> {}, new |-> {}, moved |-> {}]

\* The row locks of the ticks' transactions.
Locked(j) == \E s \in Scheduler : j \in tick[s].batch

NoRequest == [pc |-> "new", kind |-> Null, job |-> Null, row |-> NoJob, schedule |-> Null]

Init ==
    /\ now = 0
    /\ job = [j \in Job |-> NoJob]
    /\ runs = {}
    /\ tick = [s \in Scheduler |-> IdleTick]
    /\ request = [q \in Request |-> NoRequest]
    /\ faults = 0

Fault == /\ faults < MaxFaults
         /\ faults' = faults + 1

Advance ==
    /\ now < MaxTime
    /\ now' = now + 1
    /\ UNCHANGED <<job, runs, tick, request, faults>>

-----------------------------------------------------------------------------
(* The tick *)

Lockable_NoSkipLocked(j) ==
    job[j].status = "ACTIVE" /\ job[j].next # Null /\ job[j].next <= now
Lockable(j) ==
    job[j].status = "ACTIVE" /\ job[j].next # Null /\ job[j].next <= now /\ ~Locked(j)

Due == {j \in Job : Lockable(j)}

\* ORDER BY priority compares the priorities as strings.
StringRank == [CRITICAL |-> 1, HIGH |-> 2, LOW |-> 3, MEDIUM |-> 4]

Before(j, k) ==
    \/ StringRank[PriorityOf[j]] < StringRank[PriorityOf[k]]
    \/ PriorityOf[j] = PriorityOf[k] /\ job[j].next < job[k].next

\* The rows ORDER BY ... LIMIT may return; ties are broken arbitrarily.
Batches ==
    {batch \in SUBSET Due :
        /\ Cardinality(batch) <= MaxJobsPerTick
        /\ batch # Due => Cardinality(batch) = MaxJobsPerTick
        /\ \A j \in batch, k \in Due \ batch : ~Before(k, j)}

\* SELECT ... FOR UPDATE SKIP LOCKED; with no due job the tick returns at once.
TickSelect(s) ==
    /\ tick[s].pc = "idle"
    /\ \E batch \in Batches \ {{}} :
         tick' = [tick EXCEPT ![s] =
                    [pc |-> "create", now |-> now, batch |-> batch,
                     seen |-> [j \in Job |-> IF j \in batch THEN job[j] ELSE NoJob],
                     todo |-> batch, new |-> {}, moved |-> {}]]
    /\ UNCHANGED <<now, job, runs, request, faults>>

Existing_NotChecked(j, slot) == FALSE
Existing(j, slot) == RunsFor(j, slot) # {}

\* One turn of the loop: run, attempt and outbox event are inserted together
\* unless the slot has a run already, and next_run_at moves in both cases.
TickJob(s, j) ==
    LET slot == tick[s].seen[j].next IN
    /\ tick[s].pc = "create"
    /\ j \in tick[s].todo
    /\ tick' = [tick EXCEPT ![s].todo = @ \ {j},
                            ![s].new = IF Existing(j, slot) THEN @ ELSE @ \cup {j},
                            ![s].moved = @ \cup {j}]
    /\ UNCHANGED <<now, job, runs, request, faults>>

\* The except clause of the loop, for an exception that leaves the transaction
\* usable (calculate_next_run raises): nothing is written for this job.
TickJobFails(s, j) ==
    /\ tick[s].pc = "create"
    /\ j \in tick[s].todo
    /\ Fault
    /\ tick' = [tick EXCEPT ![s].todo = @ \ {j}]
    /\ UNCHANGED <<now, job, runs, request>>

\* The jobs whose row the tick saves.
Saves_EvenIfCreationFails(s) == tick[s].batch
Saves(s) == tick[s].moved

TickCommit(s) ==
    /\ tick[s].pc = "create"
    /\ tick[s].todo = {}
    /\ runs' = runs \cup
         {[job |-> j, slot |-> tick[s].seen[j].next,
           copy |-> Cardinality(RunsFor(j, tick[s].seen[j].next)) + 1] : j \in tick[s].new}
    /\ job' = [j \in Job |->
                 IF j \in Saves(s)
                 THEN [job[j] EXCEPT !.next = CalculateNextRun(tick[s].seen[j].schedule, tick[s].now)]
                 ELSE job[j]]
    /\ tick' = [tick EXCEPT ![s] = IdleTick]
    /\ UNCHANGED <<now, request, faults>>

\* The scheduler crashes, or a statement fails: every later statement of the
\* transaction fails too, the loop logs each one, and all of it rolls back.
TickRollsBack(s) ==
    /\ tick[s].pc = "create"
    /\ Fault
    /\ tick' = [tick EXCEPT ![s] = IdleTick]
    /\ UNCHANGED <<now, job, runs, request>>

-----------------------------------------------------------------------------
(* The API *)

CreateJob(j, sch) ==
    /\ job[j].status = "none"
    /\ sch.type = "ONE_TIME" => sch.arg > now
    /\ job' = [job EXCEPT ![j] = [status |-> "ACTIVE", schedule |-> sch,
                                  next |-> FirstRun(sch, now)]]
    /\ UNCHANGED <<now, runs, tick, request, faults>>

\* A PATCH ("rename": fields other than the schedule; "timezone"; "reschedule")
\* or a DELETE reads the row ...
ReadJob(q, j, kind, sch) ==
    /\ request[q].pc = "new"
    /\ job[j].status # "none"
    /\ request' = [request EXCEPT ![q] = [pc |-> "read", kind |-> kind, job |-> j,
                                          row |-> job[j], schedule |-> sch]]
    /\ UNCHANGED <<now, job, runs, tick, faults>>

\* A PATCH that names the schedule type must name a future run_at; one that
\* only moves the run_at of a one-time job is not checked.
Accepted(row, sch) ==
    sch.type = "ONE_TIME" => sch.arg > now \/ row.schedule.type = "ONE_TIME"

Rescheduled_NextKept(row, sch) == [row EXCEPT !.schedule = sch]
Rescheduled(row, sch) ==
    IF sch = row.schedule THEN row
    ELSE [row EXCEPT !.schedule = sch, !.next = FirstRun(sch, now)]

\* ... changes the object in memory (JobSerializer.update) ...
Changed(row, kind, sch) ==
    CASE kind = "reschedule" -> Rescheduled(row, sch)
      [] kind = "timezone" -> [row EXCEPT !.next = FirstRun(row.schedule, now)]
      [] kind = "delete" -> [row EXCEPT !.status = "INACTIVE"]
      [] OTHER -> row

ChangeJob(q) ==
    LET r == request[q] IN
    /\ r.pc = "read"
    /\ r.kind = "reschedule" => Accepted(r.row, r.schedule)
    /\ request' = [request EXCEPT ![q].pc = "changed",
                                  ![q].row = Changed(r.row, r.kind, r.schedule)]
    /\ UNCHANGED <<now, job, runs, tick, faults>>

\* ... and saves every column of it, waiting for a tick that holds the row.
SaveJob(q) ==
    /\ request[q].pc = "changed"
    /\ ~Locked(request[q].job)
    /\ job' = [job EXCEPT ![request[q].job] = request[q].row]
    /\ request' = [request EXCEPT ![q].pc = "saved", ![q].row = NoJob]
    /\ UNCHANGED <<now, runs, tick, faults>>

-----------------------------------------------------------------------------

TickNext(s) ==
    \/ TickSelect(s)
    \/ \E j \in Job : TickJob(s, j)
    \/ TickCommit(s)

ApiNext ==
    \/ \E j \in Job, sch \in Schedule : CreateJob(j, sch)
    \/ \E q \in Request, j \in Job :
         \/ \E kind \in {"rename", "timezone", "delete"} : ReadJob(q, j, kind, Null)
         \/ \E sch \in Schedule : ReadJob(q, j, "reschedule", sch)
    \/ \E q \in Request : ChangeJob(q) \/ SaveJob(q)

FaultNext ==
    \E s \in Scheduler : TickRollsBack(s) \/ \E j \in Job : TickJobFails(s, j)

Next ==
    \/ Advance
    \/ \E s \in Scheduler : TickNext(s)
    \/ ApiNext
    \/ FaultNext

Spec == Init /\ [][Next]_vars

\* The main loop of a scheduler calls tick again and again.
FairSpec == Spec /\ \A s \in Scheduler : WF_vars(TickNext(s))

-----------------------------------------------------------------------------
(* Invariants *)

JobRow ==
    [status : {"none", "ACTIVE", "INACTIVE"}, schedule : Schedule \cup {Null},
     next : Nat \cup {Null}]

TickRecord ==
    [pc : {"idle", "create"}, now : Nat, batch : SUBSET Job, seen : [Job -> JobRow],
     todo : SUBSET Job, new : SUBSET Job, moved : SUBSET Job]

RequestRecord ==
    [pc : {"new", "read", "changed", "saved"},
     kind : {"rename", "timezone", "reschedule", "delete", Null}, job : Job \cup {Null},
     row : JobRow, schedule : Schedule \cup {Null}]

\* Rows, transactions and requests are well formed.
TypeOK ==
    /\ now \in 0..MaxTime
    /\ job \in [Job -> JobRow]
    /\ \A r \in runs : r.job \in Job /\ r.slot \in Nat /\ r.copy \in Nat
    /\ tick \in [Scheduler -> TickRecord]
    /\ request \in [Request -> RequestRecord]
    /\ faults \in 0..MaxFaults

\* A job runs at most once for a scheduled time, although several schedulers
\* tick and API requests put stale values of next_run_at back.
SlotRunsOnce ==
    \A r, q \in runs : r.job = q.job /\ r.slot = q.slot => r = q

\* next_run_at always belongs to the schedule it is stored with, whichever of
\* the racing ticks and full-row saves wrote last.
NextRunFitsSchedule ==
    \A j \in Job :
        LET sch == job[j].schedule IN
        job[j].status # "none" =>
            IF sch.type = "CRON" THEN job[j].next # Null /\ job[j].next % sch.arg = 0
            ELSE job[j].next \in {Null, sch.arg}

-----------------------------------------------------------------------------
(* Action properties *)

\* A tick never moves next_run_at on from a slot that has no run: it holds the
\* row from its SELECT to its commit, and a job whose run it could not create
\* keeps its slot.  Only the save of an API request takes a slot away.
SlotsKept ==
    [][\A j \in Job :
          job[j].status = "ACTIVE" /\ job[j].next # Null /\ job'[j].next # job[j].next
            => \/ \E r \in runs' : r.job = j /\ r.slot = job[j].next
               \/ \E q \in Request : SaveJob(q) /\ request[q].job = j]_vars

-----------------------------------------------------------------------------
(* Liveness *)

SavesOf(j) == {q \in Request : request[q].pc = "saved" /\ request[q].job = j}

\* A due job gets a run for the very time it was due at, although ticks skip
\* locked rows, fail and roll back: only a request that saves the row meanwhile
\* can take the slot away, and one that waits for the row lock cannot.
DueSlotRuns ==
    \A j \in Job, t \in 0..MaxTime, Q \in SUBSET Request :
        (job[j].status = "ACTIVE" /\ job[j].next = t /\ t <= now /\ SavesOf(j) = Q)
            ~> (RunsFor(j, t) # {} \/ SavesOf(j) # Q)

-----------------------------------------------------------------------------
(* What the repository's documents say and the code does not do; each is    *)
(* refuted by a run of its own.                                             *)

Urgency == [CRITICAL |-> 1, HIGH |-> 2, MEDIUM |-> 3, LOW |-> 4]

\* "Higher priority jobs are scheduled first": a tick that cannot take all due
\* jobs leaves the less urgent ones.
HigherPriorityFirst ==
    [][\A s \in Scheduler : TickSelect(s) =>
          \A j \in tick'[s].batch, k \in Due \ tick'[s].batch :
              Urgency[PriorityOf[j]] <= Urgency[PriorityOf[k]]]_vars

=============================================================================
