-------------------------- MODULE SchedulingProofs --------------------------
(* Machine-checked theorems about Scheduling, for every number of jobs,    *)
(* schedules, schedulers and API requests.                                 *)
EXTENDS Scheduling, FiniteSetTheorems, TLAPS

-----------------------------------------------------------------------------
(* The inductive invariant: what a tick has read and decided stays true as *)
(* long as it holds its row locks, for no other process can write there.   *)

Work(s) == tick[s].todo \cup tick[s].new \cup tick[s].moved

LocksExclusive ==
    \A s, t \in Scheduler : s # t => tick[s].batch \cap tick[t].batch = {}

SeenIsCurrent ==
    \A s \in Scheduler : \A j \in tick[s].batch :
        job[j] = tick[s].seen[j] /\ job[j].status = "ACTIVE" /\ job[j].next \in Nat

NewIsNew ==
    \A s \in Scheduler : /\ Work(s) \subseteq tick[s].batch
                         /\ \A j \in tick[s].new : RunsFor(j, tick[s].seen[j].next) = {}

\* A row that exists has a schedule, and so has a row some process has read.
Scheduled(row) == row.status # "none" => row.schedule \in Schedule

RowsScheduled ==
    /\ \A j \in Job : Scheduled(job[j])
    /\ \A q \in Request : request[q].pc \in {"read", "changed"} =>
         /\ request[q].job \in Job
         /\ request[q].row.status # "none" /\ Scheduled(request[q].row)
         /\ request[q].kind = "reschedule" => request[q].schedule \in Schedule

SlotInv ==
    TypeOK /\ LocksExclusive /\ SeenIsCurrent /\ NewIsNew /\ RowsScheduled /\ SlotRunsOnce

-----------------------------------------------------------------------------
(* Schedules and rows *)

LEMMA ScheduleFacts ==
    ASSUME NEW sch \in Schedule
    PROVE  /\ sch.type \in {"CRON", "ONE_TIME"}
           /\ sch.arg \in Nat
           /\ sch.type = "CRON" => sch.arg \in Nat \ {0}
  BY ConstantsAssumption DEF CronSchedule, OneTimeSchedule

LEMMA CronNextIsNat ==
    ASSUME NEW p \in Nat \ {0}, NEW t \in Nat
    PROVE  CronNext(p, t) \in Nat
<1>1. PICK k \in Nat : k = t \div p + 1
  OBVIOUS
<1>2. k * p \in Nat
  OBVIOUS
<1> QED
  BY <1>1, <1>2 DEF CronNext

LEMMA NextTypes ==
    ASSUME NEW sch \in Schedule, NEW t \in Nat
    PROVE  /\ CalculateNextRun(sch, t) \in Nat \cup {Null}
           /\ FirstRun(sch, t) \in Nat
  BY ScheduleFacts, CronNextIsNat DEF CalculateNextRun, FirstRun

LEMMA RowUpdates ==
    ASSUME NEW row \in JobRow, NEW n \in Nat \cup {Null}, NEW sch \in Schedule
    PROVE  /\ [row EXCEPT !.next = n] \in JobRow
           /\ [row EXCEPT !.schedule = sch, !.next = n] \in JobRow
           /\ [row EXCEPT !.status = "INACTIVE"] \in JobRow
  BY DEF JobRow

LEMMA NoJobType == NoJob \in JobRow
  BY DEF NoJob, JobRow

LEMMA ChangedType ==
    ASSUME TypeOK, NEW row \in JobRow, row.status # "none", Scheduled(row), NEW kind, NEW sch,
           kind = "reschedule" => sch \in Schedule
    PROVE  /\ Changed(row, kind, sch) \in JobRow
           /\ Changed(row, kind, sch).status # "none"
           /\ Scheduled(Changed(row, kind, sch))
<1>n. now \in Nat
  BY ConstantsAssumption DEF TypeOK
<1>s. row.schedule \in Schedule
  BY DEF Scheduled
<1>1. CASE kind = "reschedule" /\ sch # row.schedule
  <2>1. Changed(row, kind, sch) = [row EXCEPT !.schedule = sch, !.next = FirstRun(sch, now)]
    BY <1>1 DEF Changed, Rescheduled
  <2>2. PICK n \in Nat : n = FirstRun(sch, now)
    BY <1>1, <1>n, NextTypes
  <2>3. [row EXCEPT !.schedule = sch, !.next = n] \in JobRow
    BY <1>1, RowUpdates
  <2>4. /\ [row EXCEPT !.schedule = sch, !.next = n].schedule = sch
        /\ [row EXCEPT !.schedule = sch, !.next = n].status = row.status
    BY DEF JobRow
  <2> QED
    BY <1>1, <2>1, <2>2, <2>3, <2>4 DEF Scheduled
<1>2. CASE kind = "delete"
  <2>1. Changed(row, kind, sch) = [row EXCEPT !.status = "INACTIVE"]
    BY <1>2 DEF Changed
  <2>2. /\ [row EXCEPT !.status = "INACTIVE"].schedule = row.schedule
        /\ [row EXCEPT !.status = "INACTIVE"].status = "INACTIVE"
        /\ [row EXCEPT !.status = "INACTIVE"] \in JobRow
    BY DEF JobRow
  <2> QED
    BY <1>s, <2>1, <2>2 DEF Scheduled
<1>3. CASE kind = "timezone"
  <2>1. Changed(row, kind, sch) = [row EXCEPT !.next = FirstRun(row.schedule, now)]
    BY <1>3 DEF Changed
  <2>2. PICK n \in Nat : n = FirstRun(row.schedule, now)
    BY <1>n, <1>s, NextTypes
  <2>3. [row EXCEPT !.next = n] \in JobRow
    BY DEF JobRow
  <2>4. /\ [row EXCEPT !.next = n].schedule = row.schedule
        /\ [row EXCEPT !.next = n].status = row.status
    BY DEF JobRow
  <2> QED
    BY <1>s, <2>1, <2>2, <2>3, <2>4 DEF Scheduled
<1>4. CASE kind \notin {"delete", "timezone"} /\ (kind = "reschedule" => sch = row.schedule)
  BY <1>4 DEF Changed, Rescheduled
<1> QED
  BY <1>1, <1>2, <1>3, <1>4

\* What a tick that holds a batch looks like, and how its fields change.
TickHolding(batch, t) ==
    [pc |-> "create", now |-> t, batch |-> batch,
     seen |-> [j \in Job |-> IF j \in batch THEN job[j] ELSE NoJob],
     todo |-> batch, new |-> {}, moved |-> {}]

LEMMA TickTypes ==
    /\ IdleTick \in TickRecord
    /\ TypeOK => \A batch \in SUBSET Job, t \in Nat : TickHolding(batch, t) \in TickRecord
<1>1. IdleTick \in TickRecord
  BY NoJobType DEF IdleTick, TickRecord
<1>2. ASSUME TypeOK, NEW batch \in SUBSET Job, NEW t \in Nat
      PROVE  TickHolding(batch, t) \in TickRecord
  <2>1. [j \in Job |-> IF j \in batch THEN job[j] ELSE NoJob] \in [Job -> JobRow]
    BY <1>2, NoJobType DEF TypeOK
  <2> QED
    BY <2>1 DEF TickHolding, TickRecord
<1> QED
  BY <1>1, <1>2

LEMMA TickUpdate ==
    ASSUME NEW x \in TickRecord, NEW S \in SUBSET Job, NEW N \in SUBSET Job, NEW M \in SUBSET Job
    PROVE  /\ [x EXCEPT !.todo = S] \in TickRecord
           /\ [x EXCEPT !.todo = S, !.new = N, !.moved = M] \in TickRecord
  BY DEF TickRecord

LEMMA TickFields ==
    ASSUME NEW x \in TickRecord
    PROVE  /\ x.pc \in {"idle", "create"} /\ x.now \in Nat /\ x.batch \in SUBSET Job
           /\ x.seen \in [Job -> JobRow] /\ x.todo \in SUBSET Job
           /\ x.new \in SUBSET Job /\ x.moved \in SUBSET Job
  BY DEF TickRecord

-----------------------------------------------------------------------------
(* The steps that touch ticks *)

\* s releases its locks; everything else is left alone.
Released(s) == tick' = [tick EXCEPT ![s] = IdleTick]

LEMMA SelectStep ==
    ASSUME SlotInv, NEW s \in Scheduler, TickSelect(s)
    PROVE  SlotInv'
<1>t. TypeOK /\ tick \in [Scheduler -> TickRecord] /\ now \in Nat
  BY ConstantsAssumption DEF SlotInv, TypeOK
<1>1. PICK batch \in Batches : tick' = [tick EXCEPT ![s] = TickHolding(batch, now)]
  BY DEF TickSelect, TickHolding
<1>2. batch \subseteq Due /\ batch \in SUBSET Job
  BY DEF Batches, Due
<1>3. tick'[s] = TickHolding(batch, now) /\ \A t \in Scheduler : t # s => tick'[t] = tick[t]
  BY <1>t, <1>1
<1>4. /\ tick'[s].batch = batch /\ tick'[s].todo = batch /\ tick'[s].new = {} /\ tick'[s].moved = {}
      /\ \A j \in batch : tick'[s].seen[j] = job[j]
  BY <1>2, <1>3 DEF TickHolding
<1>5. \A j \in batch : /\ \A t \in Scheduler : j \notin tick[t].batch
                       /\ job[j].status = "ACTIVE" /\ job[j].next \in Nat
  BY <1>2, <1>t DEF Due, Lockable, Locked, TypeOK, JobRow
<1>6. UNCHANGED <<now, job, runs, request, faults>>
  BY DEF TickSelect
<1>7. tick' \in [Scheduler -> TickRecord]
  BY <1>t, <1>1, <1>2, TickTypes
<1>8. TypeOK'
  BY <1>t, <1>6, <1>7 DEF TypeOK
<1>9. LocksExclusive'
  BY <1>3, <1>4, <1>5 DEF SlotInv, LocksExclusive
<1>10. SeenIsCurrent'
  BY <1>3, <1>4, <1>5, <1>6 DEF SlotInv, SeenIsCurrent
<1>11. NewIsNew'
  BY <1>3, <1>4, <1>6 DEF SlotInv, NewIsNew, Work, RunsFor
<1>12. RowsScheduled' /\ SlotRunsOnce'
  BY <1>6 DEF SlotInv, RowsScheduled, SlotRunsOnce
<1> QED
  BY <1>8, <1>9, <1>10, <1>11, <1>12 DEF SlotInv

LEMMA ReleaseStep ==
    ASSUME SlotInv, NEW s \in Scheduler, Released(s), UNCHANGED <<now, job, runs, request>>,
           faults' \in 0..MaxFaults
    PROVE  SlotInv'
<1>t. tick \in [Scheduler -> TickRecord]
  BY DEF SlotInv, TypeOK
<1>1. tick'[s] = IdleTick /\ \A t \in Scheduler : t # s => tick'[t] = tick[t]
  BY <1>t DEF Released
<1>2. tick'[s].batch = {} /\ tick'[s].todo = {} /\ tick'[s].new = {} /\ tick'[s].moved = {}
  BY <1>1 DEF IdleTick
<1>3. tick' \in [Scheduler -> TickRecord]
  BY <1>t, TickTypes DEF Released
<1>4. TypeOK'
  BY <1>3 DEF SlotInv, TypeOK
<1>5. LocksExclusive' /\ SeenIsCurrent'
  BY <1>1, <1>2 DEF SlotInv, LocksExclusive, SeenIsCurrent
<1>6. NewIsNew'
  BY <1>1, <1>2 DEF SlotInv, NewIsNew, Work, RunsFor
<1> QED
  BY <1>4, <1>5, <1>6 DEF SlotInv, RowsScheduled, SlotRunsOnce

LEMMA TickJobStep ==
    ASSUME SlotInv, NEW s \in Scheduler, NEW j \in Job, TickJob(s, j) \/ TickJobFails(s, j)
    PROVE  SlotInv'
<1>t. tick \in [Scheduler -> TickRecord] /\ tick[s] \in TickRecord
  BY DEF SlotInv, TypeOK
<1>f. /\ tick[s].todo \in SUBSET Job /\ tick[s].new \in SUBSET Job /\ tick[s].moved \in SUBSET Job
      /\ Work(s) \subseteq tick[s].batch /\ j \in tick[s].todo
  BY <1>t, TickFields DEF SlotInv, NewIsNew, TickJob, TickJobFails
<1>1. \E N \in {tick[s].new, tick[s].new \cup {j}}, M \in {tick[s].moved, tick[s].moved \cup {j}} :
        /\ tick'[s] = [tick[s] EXCEPT !.todo = @ \ {j}, !.new = N, !.moved = M]
        /\ j \in N => j \in tick[s].new \/ RunsFor(j, tick[s].seen[j].next) = {}
  <2>1. CASE TickJobFails(s, j)
    <3>1. tick'[s] = [tick[s] EXCEPT !.todo = @ \ {j}]
      BY <1>t, <2>1 DEF TickJobFails
    <3>2. [tick[s] EXCEPT !.todo = @ \ {j}]
            = [tick[s] EXCEPT !.todo = @ \ {j}, !.new = tick[s].new, !.moved = tick[s].moved]
      BY <1>t DEF TickRecord
    <3> QED
      BY <3>1, <3>2
  <2>2. CASE TickJob(s, j)
    <3>1. CASE Existing(j, tick[s].seen[j].next)
      <4>1. tick'[s] = [tick[s] EXCEPT !.todo = @ \ {j}, !.new = tick[s].new,
                                       !.moved = tick[s].moved \cup {j}]
        BY <1>t, <2>2, <3>1 DEF TickJob
      <4> QED
        BY <4>1
    <3>2. CASE ~Existing(j, tick[s].seen[j].next)
      <4>1. tick'[s] = [tick[s] EXCEPT !.todo = @ \ {j}, !.new = tick[s].new \cup {j},
                                       !.moved = tick[s].moved \cup {j}]
        BY <1>t, <2>2, <3>2 DEF TickJob
      <4> QED
        BY <3>2, <4>1 DEF Existing
    <3> QED
      BY <3>1, <3>2
  <2> QED
    BY <2>1, <2>2
<1>2. PICK N \in {tick[s].new, tick[s].new \cup {j}}, M \in {tick[s].moved, tick[s].moved \cup {j}} :
        /\ tick'[s] = [tick[s] EXCEPT !.todo = @ \ {j}, !.new = N, !.moved = M]
        /\ j \in N => j \in tick[s].new \/ RunsFor(j, tick[s].seen[j].next) = {}
  BY <1>1
<1>3. /\ tick'[s].batch = tick[s].batch /\ tick'[s].seen = tick[s].seen
      /\ tick'[s].todo = tick[s].todo \ {j} /\ tick'[s].new = N /\ tick'[s].moved = M
  BY <1>t, <1>2 DEF TickRecord
<1>4. \A t \in Scheduler : t # s => tick'[t] = tick[t]
  BY <1>t DEF TickJob, TickJobFails
<1>5. UNCHANGED <<now, job, runs, request>> /\ faults' \in 0..MaxFaults
  BY ConstantsAssumption DEF TickJob, TickJobFails, Fault, SlotInv, TypeOK
<1>6. tick' \in [Scheduler -> TickRecord]
  <2>1. tick[s].todo \ {j} \in SUBSET Job /\ N \in SUBSET Job /\ M \in SUBSET Job
    BY <1>f
  <2>2. tick'[s] \in TickRecord
    <3>1. tick'[s] = [tick[s] EXCEPT !.todo = tick[s].todo \ {j}, !.new = N, !.moved = M]
      BY <1>t, <1>2 DEF TickRecord
    <3>2. PICK S \in SUBSET Job : S = tick[s].todo \ {j}
      BY <2>1
    <3>3. [tick[s] EXCEPT !.todo = S, !.new = N, !.moved = M] \in TickRecord
      BY <1>t, <2>1, TickUpdate
    <3> QED
      BY <3>1, <3>2, <3>3
  <2>3. tick' = [t \in Scheduler |-> tick'[t]]
    BY <1>t DEF TickJob, TickJobFails
  <2> QED
    BY <1>t, <1>4, <2>2, <2>3
<1>7. TypeOK'
  BY <1>5, <1>6 DEF SlotInv, TypeOK
<1>8. LocksExclusive' /\ SeenIsCurrent'
  BY <1>3, <1>4, <1>5 DEF SlotInv, LocksExclusive, SeenIsCurrent
<1>9. Work(s)' \subseteq tick'[s].batch
  BY <1>f, <1>3 DEF Work
<1>10. NewIsNew'
  <2>1. \A i \in N : RunsFor(i, tick[s].seen[i].next) = {}
    BY <1>2 DEF SlotInv, NewIsNew
  <2>2. \A t \in Scheduler : t # s => Work(t)' \subseteq tick'[t].batch
    BY <1>4 DEF SlotInv, NewIsNew, Work
  <2>3. \A t \in Scheduler : Work(t)' \subseteq tick'[t].batch
    BY <1>9, <2>2
  <2>4. \A i, x : RunsFor(i, x)' = RunsFor(i, x)
    BY <1>5 DEF RunsFor
  <2>5. \A t \in Scheduler : \A i \in tick'[t].new : RunsFor(i, tick[t].seen[i].next) = {}
    BY <1>3, <1>4, <2>1 DEF SlotInv, NewIsNew
  <2>6. \A t \in Scheduler : tick'[t].seen = tick[t].seen
    BY <1>3, <1>4
  <2> QED
    BY <1>5, <2>3, <2>5, <2>6 DEF NewIsNew, RunsFor
<1> QED
  BY <1>5, <1>7, <1>8, <1>10 DEF SlotInv, RowsScheduled, SlotRunsOnce

\* The rows a commit inserts.
NewRows(s) ==
    {[job |-> j, slot |-> tick[s].seen[j].next,
      copy |-> Cardinality(RunsFor(j, tick[s].seen[j].next)) + 1] : j \in tick[s].new}

LEMMA CommitStep ==
    ASSUME SlotInv, NEW s \in Scheduler, TickCommit(s)
    PROVE  SlotInv'
<1>t. TypeOK /\ tick \in [Scheduler -> TickRecord] /\ job \in [Job -> JobRow]
  BY DEF SlotInv, TypeOK
<1>f. /\ tick[s].now \in Nat /\ tick[s].batch \in SUBSET Job
      /\ tick[s].new \subseteq tick[s].batch /\ tick[s].moved \subseteq tick[s].batch
  BY <1>t, TickFields DEF SlotInv, NewIsNew, Work
<1>1. /\ runs' = runs \cup NewRows(s)
      /\ job' = [j \in Job |->
           IF j \in tick[s].moved
           THEN [job[j] EXCEPT !.next = CalculateNextRun(tick[s].seen[j].schedule, tick[s].now)]
           ELSE job[j]]
      /\ tick' = [tick EXCEPT ![s] = IdleTick]
      /\ UNCHANGED <<now, request, faults>>
  BY DEF TickCommit, NewRows, Saves
<1>2. tick'[s] = IdleTick /\ \A t \in Scheduler : t # s => tick'[t] = tick[t]
  BY <1>t, <1>1
<1>3. tick'[s].batch = {} /\ tick'[s].todo = {} /\ tick'[s].new = {} /\ tick'[s].moved = {}
  BY <1>2 DEF IdleTick
<1>4. \A j \in Job : /\ j \notin tick[s].batch => job'[j] = job[j]
                     /\ job'[j].status = job[j].status /\ job'[j].schedule = job[j].schedule
                     /\ job'[j] \in JobRow
  <2> SUFFICES ASSUME NEW j \in Job
               PROVE  /\ j \notin tick[s].batch => job'[j] = job[j]
                      /\ job'[j].status = job[j].status /\ job'[j].schedule = job[j].schedule
                      /\ job'[j] \in JobRow
    OBVIOUS
  <2>j. job[j] \in JobRow
    BY <1>t
  <2>1. CASE j \in tick[s].moved
    <3>1. tick[s].seen[j] = job[j] /\ job[j].status = "ACTIVE"
      BY <1>f, <2>1 DEF SlotInv, SeenIsCurrent
    <3>2. job[j].schedule \in Schedule
      BY <3>1 DEF SlotInv, RowsScheduled, Scheduled
    <3>3. PICK n \in Nat \cup {Null} : n = CalculateNextRun(job[j].schedule, tick[s].now)
      BY <1>f, <3>2, NextTypes
    <3>4. job'[j] = [job[j] EXCEPT !.next = n]
      BY <1>1, <2>1, <3>1, <3>3
    <3>5. [job[j] EXCEPT !.next = n] \in JobRow
      BY <2>j, <3>2, RowUpdates
    <3>6. [job[j] EXCEPT !.next = n].status = job[j].status
          /\ [job[j] EXCEPT !.next = n].schedule = job[j].schedule
      BY <2>j DEF JobRow
    <3> QED
      BY <1>f, <2>1, <3>4, <3>5, <3>6
  <2>2. CASE j \notin tick[s].moved
    BY <1>1, <2>2, <2>j
  <2> QED
    BY <2>1, <2>2
<1>5. \A r \in NewRows(s) : /\ r.job \in tick[s].new /\ r.slot = tick[s].seen[r.job].next
                            /\ r.slot \in Nat /\ r.copy = 1
                            /\ RunsFor(r.job, r.slot) = {}
  <2> SUFFICES ASSUME NEW j \in tick[s].new
               PROVE  /\ tick[s].seen[j].next \in Nat
                      /\ RunsFor(j, tick[s].seen[j].next) = {}
                      /\ Cardinality(RunsFor(j, tick[s].seen[j].next)) + 1 = 1
    BY DEF NewRows
  <2>1. RunsFor(j, tick[s].seen[j].next) = {}
    BY DEF SlotInv, NewIsNew
  <2>2. tick[s].seen[j].next \in Nat
    BY <1>f DEF SlotInv, SeenIsCurrent
  <2> QED
    BY <2>1, <2>2, FS_EmptySet
<1>6. TypeOK'
  <2>1. tick' \in [Scheduler -> TickRecord]
    BY <1>t, <1>1, TickTypes
  <2>2. job' \in [Job -> JobRow]
    BY <1>1, <1>4
  <2>3. \A r \in runs' : r.job \in Job /\ r.slot \in Nat /\ r.copy \in Nat
    BY <1>1, <1>5, <1>f, <1>t DEF TypeOK
  <2> QED
    BY <1>1, <1>t, <2>1, <2>2, <2>3 DEF TypeOK
<1>7. LocksExclusive'
  BY <1>2, <1>3 DEF SlotInv, LocksExclusive
<1>d. \A t \in Scheduler : t # s => tick[t].batch \cap tick[s].batch = {} /\ tick[t].batch \subseteq Job
  BY <1>t, TickFields DEF SlotInv, LocksExclusive
<1>8. SeenIsCurrent'
  BY <1>2, <1>3, <1>4, <1>d DEF SlotInv, SeenIsCurrent
<1>9. NewIsNew'
  <2>1. ASSUME NEW t \in Scheduler, t # s, NEW j \in tick[t].new
        PROVE  RunsFor(j, tick[t].seen[j].next)' = {}
    <3>1. j \notin tick[s].new
      BY <1>d, <1>f, <2>1 DEF SlotInv, NewIsNew, Work
    <3>2. \A x : RunsFor(j, x)' = RunsFor(j, x)
      BY <1>1, <1>5, <3>1 DEF RunsFor
    <3>3. tick'[t].seen = tick[t].seen
      BY <1>2, <2>1
    <3>4. RunsFor(j, tick[t].seen[j].next) = {}
      BY <2>1 DEF SlotInv, NewIsNew
    <3> QED
      BY <3>2, <3>3, <3>4 DEF RunsFor
  <2>2. \A t \in Scheduler : Work(t)' \subseteq tick'[t].batch
    BY <1>2, <1>3 DEF SlotInv, NewIsNew, Work
  <2> QED
    BY <1>2, <1>3, <2>1, <2>2 DEF NewIsNew
<1>10. RowsScheduled'
  BY <1>1, <1>4 DEF SlotInv, RowsScheduled, Scheduled
<1>11. SlotRunsOnce'
  <2>1. ASSUME NEW r \in runs', NEW q \in runs', r.job = q.job, r.slot = q.slot
        PROVE  r = q
    <3>1. CASE r \in runs /\ q \in runs
      BY <2>1, <3>1 DEF SlotInv, SlotRunsOnce
    <3>2. CASE r \in NewRows(s) /\ q \in NewRows(s)
      BY <2>1, <3>2 DEF NewRows
    <3>3. CASE r \in NewRows(s) /\ q \in runs
      BY <1>5, <2>1, <3>3 DEF RunsFor
    <3>4. CASE r \in runs /\ q \in NewRows(s)
      BY <1>5, <2>1, <3>4 DEF RunsFor
    <3> QED
      BY <1>1, <3>1, <3>2, <3>3, <3>4
  <2> QED
    BY <2>1 DEF SlotRunsOnce
<1> QED
  BY <1>6, <1>7, <1>8, <1>9, <1>10, <1>11 DEF SlotInv

-----------------------------------------------------------------------------
(* The other steps *)

\* A write to a row that no tick holds disturbs no tick.
LEMMA RowWriteStep ==
    ASSUME SlotInv, NEW j \in Job, ~Locked(j), NEW row \in JobRow, Scheduled(row),
           job' = [job EXCEPT ![j] = row], UNCHANGED <<now, runs, tick, faults>>,
           request' \in [Request -> RequestRecord],
           \A q \in Request : request'[q] = request[q] \/ request'[q].pc = "saved"
    PROVE  SlotInv'
<1>t. TypeOK /\ job \in [Job -> JobRow] /\ \A s \in Scheduler : tick[s].batch \in SUBSET Job
  BY TickFields DEF SlotInv, TypeOK
<1>1. TypeOK'
  BY <1>t DEF TypeOK
<1>2. job'[j] = row /\ \A k \in Job : k # j => job'[k] = job[k]
  BY <1>t
<1>3. \A s \in Scheduler : j \notin tick[s].batch
  BY DEF Locked
<1>4. SeenIsCurrent'
  BY <1>t, <1>2, <1>3 DEF SlotInv, SeenIsCurrent
<1>5. LocksExclusive' /\ NewIsNew' /\ SlotRunsOnce'
  BY DEF SlotInv, LocksExclusive, NewIsNew, Work, RunsFor, SlotRunsOnce
<1>6. RowsScheduled'
  BY <1>2 DEF SlotInv, RowsScheduled, Scheduled
<1> QED
  BY <1>1, <1>4, <1>5, <1>6 DEF SlotInv

LEMMA RequestStep ==
    ASSUME SlotInv, UNCHANGED <<job, runs, tick, faults>>, now' \in 0..MaxTime,
           request' \in [Request -> RequestRecord], RowsScheduled'
    PROVE  SlotInv'
  BY DEF SlotInv, TypeOK, LocksExclusive, SeenIsCurrent, NewIsNew, Work, RunsFor, SlotRunsOnce

LEMMA ApiStep == SlotInv /\ ApiNext => SlotInv'
<1> SUFFICES ASSUME SlotInv, ApiNext PROVE SlotInv'
  OBVIOUS
<1>t. /\ TypeOK /\ job \in [Job -> JobRow] /\ request \in [Request -> RequestRecord]
      /\ now \in 0..MaxTime /\ now \in Nat
  BY ConstantsAssumption DEF SlotInv, TypeOK
<1>l. \A j \in Job : Locked(j) => job[j].status = "ACTIVE"
  BY DEF SlotInv, SeenIsCurrent, Locked
<1>1. ASSUME NEW j \in Job, NEW sch \in Schedule, CreateJob(j, sch) PROVE SlotInv'
  <2>1. PICK n \in Nat : n = FirstRun(sch, now)
    BY <1>t, NextTypes
  <2> DEFINE row == [status |-> "ACTIVE", schedule |-> sch, next |-> n]
  <2>2. row \in JobRow /\ Scheduled(row)
    BY DEF JobRow, Scheduled
  <2>3. ~Locked(j) /\ job' = [job EXCEPT ![j] = row] /\ UNCHANGED <<now, runs, tick, request, faults>>
    BY <1>1, <1>l, <2>1 DEF CreateJob
  <2> HIDE DEF row
  <2>4. \E x \in JobRow : Scheduled(x) /\ job' = [job EXCEPT ![j] = x]
    BY <2>2, <2>3
  <2> QED
    BY <1>t, <2>3, <2>4, RowWriteStep
<1>2. ASSUME NEW q \in Request, NEW j \in Job, NEW kind \in {"rename", "timezone", "reschedule", "delete"},
             NEW sch \in Schedule \cup {Null}, kind = "reschedule" => sch \in Schedule,
             ReadJob(q, j, kind, sch)
      PROVE  SlotInv'
  <2> DEFINE new == [pc |-> "read", kind |-> kind, job |-> j, row |-> job[j], schedule |-> sch]
  <2>1. request' = [request EXCEPT ![q] = new] /\ UNCHANGED <<now, job, runs, tick, faults>>
        /\ job[j].status # "none"
    BY <1>2 DEF ReadJob
  <2>2. new \in RequestRecord
    BY <1>t DEF RequestRecord
  <2>3. request' \in [Request -> RequestRecord]
    BY <1>t, <2>1, <2>2
  <2>4. RowsScheduled'
    <3>1. request'[q] = new /\ \A p \in Request : p # q => request'[p] = request[p]
      BY <1>t, <2>1
    <3>2. \A p \in Request : request'[p].pc \in {"read", "changed"} =>
            /\ request'[p].job \in Job
            /\ request'[p].row.status # "none" /\ Scheduled(request'[p].row)
            /\ request'[p].kind = "reschedule" => request'[p].schedule \in Schedule
      BY <1>2, <2>1, <3>1 DEF SlotInv, RowsScheduled, Scheduled
    <3> QED
      BY <2>1, <3>2 DEF SlotInv, RowsScheduled, Scheduled
  <2> QED
    BY <1>t, <2>1, <2>3, <2>4, RequestStep
<1>3. ASSUME NEW q \in Request, ChangeJob(q) PROVE SlotInv'
  <2>1. PICK r \in RequestRecord : r = request[q]
    BY <1>t
  <2>2. /\ r.job \in Job /\ r.row \in JobRow /\ r.row.status # "none" /\ Scheduled(r.row)
        /\ r.kind = "reschedule" => r.schedule \in Schedule
    BY <1>3, <2>1 DEF SlotInv, RowsScheduled, ChangeJob, RequestRecord
  <2>3. PICK row \in JobRow : /\ row = Changed(r.row, r.kind, r.schedule)
                              /\ row.status # "none" /\ Scheduled(row)
    BY <1>t, <2>2, ChangedType
  <2>4. request' = [request EXCEPT ![q].pc = "changed", ![q].row = row]
        /\ UNCHANGED <<now, job, runs, tick, faults>>
    BY <1>3, <2>1, <2>3 DEF ChangeJob
  <2>5. request'[q] = [r EXCEPT !.pc = "changed", !.row = row]
        /\ \A p \in Request : p # q => request'[p] = request[p]
    BY <1>t, <2>1, <2>4
  <2>6. [r EXCEPT !.pc = "changed", !.row = row] \in RequestRecord
    BY DEF RequestRecord
  <2>7. request' \in [Request -> RequestRecord]
    BY <1>t, <2>1, <2>4, <2>6
  <2>8. request'[q].job = r.job /\ request'[q].row = row /\ request'[q].kind = r.kind
        /\ request'[q].schedule = r.schedule
    BY <2>5 DEF RequestRecord
  <2>9. \A p \in Request : request'[p].pc \in {"read", "changed"} =>
          /\ request'[p].job \in Job
          /\ request'[p].row.status # "none" /\ Scheduled(request'[p].row)
          /\ request'[p].kind = "reschedule" => request'[p].schedule \in Schedule
    BY <2>2, <2>3, <2>5, <2>8 DEF SlotInv, RowsScheduled
  <2>10. RowsScheduled'
    BY <2>4, <2>9 DEF SlotInv, RowsScheduled, Scheduled
  <2> QED
    BY <1>t, <2>4, <2>7, <2>10, RequestStep
<1>4. ASSUME NEW q \in Request, SaveJob(q) PROVE SlotInv'
  <2>1. PICK r \in RequestRecord : r = request[q]
    BY <1>t
  <2>2. /\ r.job \in Job /\ r.row \in JobRow /\ Scheduled(r.row) /\ ~Locked(r.job)
    BY <1>4, <2>1 DEF SlotInv, RowsScheduled, SaveJob, RequestRecord
  <2>3. job' = [job EXCEPT ![r.job] = r.row] /\ UNCHANGED <<now, runs, tick, faults>>
        /\ request' = [request EXCEPT ![q].pc = "saved", ![q].row = NoJob]
    BY <1>4, <2>1 DEF SaveJob
  <2>4. request'[q] = [r EXCEPT !.pc = "saved", !.row = NoJob]
        /\ \A p \in Request : p # q => request'[p] = request[p]
    BY <1>t, <2>1, <2>3
  <2>5. [r EXCEPT !.pc = "saved", !.row = NoJob] \in RequestRecord
        /\ [r EXCEPT !.pc = "saved", !.row = NoJob].pc = "saved"
    BY NoJobType DEF RequestRecord
  <2>6. request' \in [Request -> RequestRecord]
    BY <1>t, <2>1, <2>3, <2>5
  <2> QED
    BY <2>2, <2>3, <2>4, <2>5, <2>6, RowWriteStep
<1> QED
  BY <1>1, <1>2, <1>3, <1>4 DEF ApiNext

LEMMA AdvanceStep == SlotInv /\ Advance => SlotInv'
<1> SUFFICES ASSUME SlotInv, Advance PROVE SlotInv'
  OBVIOUS
<1>1. now' \in 0..MaxTime
  BY ConstantsAssumption DEF Advance, SlotInv, TypeOK
<1>2. request' \in [Request -> RequestRecord] /\ RowsScheduled'
  BY DEF Advance, SlotInv, TypeOK, RowsScheduled, Scheduled
<1> QED
  BY <1>1, <1>2, RequestStep DEF Advance

LEMMA SlotInvStep == SlotInv /\ [Next]_vars => SlotInv'
<1> SUFFICES ASSUME SlotInv, [Next]_vars PROVE SlotInv'
  OBVIOUS
<1>1. ASSUME NEW s \in Scheduler, TickRollsBack(s) PROVE SlotInv'
  <2>1. faults' \in 0..MaxFaults
    BY <1>1, ConstantsAssumption DEF TickRollsBack, Fault, SlotInv, TypeOK
  <2> QED
    BY <1>1, <2>1, ReleaseStep DEF TickRollsBack, Released
<1>2. CASE UNCHANGED vars
  BY <1>2 DEF vars, SlotInv, TypeOK, LocksExclusive, SeenIsCurrent, NewIsNew, Work, RunsFor,
     RowsScheduled, Scheduled, SlotRunsOnce
<1> QED
  BY <1>1, <1>2, SelectStep, TickJobStep, CommitStep, ApiStep, AdvanceStep
  DEF Next, TickNext, FaultNext

LEMMA SlotInvInit == Init => SlotInv
<1> SUFFICES ASSUME Init PROVE SlotInv
  OBVIOUS
<1>1. NoRequest \in RequestRecord /\ NoRequest.pc = "new"
  BY NoJobType DEF NoRequest, RequestRecord
<1>2. TypeOK
  BY <1>1, NoJobType, TickTypes, ConstantsAssumption DEF Init, TypeOK
<1>3. \A s \in Scheduler : /\ tick[s].batch = {} /\ tick[s].todo = {}
                           /\ tick[s].new = {} /\ tick[s].moved = {}
  BY DEF Init, IdleTick
<1>4. LocksExclusive /\ SeenIsCurrent /\ NewIsNew
  BY <1>3 DEF LocksExclusive, SeenIsCurrent, NewIsNew, Work
<1>5. RowsScheduled /\ SlotRunsOnce
  BY <1>1 DEF Init, RowsScheduled, Scheduled, SlotRunsOnce, NoJob
<1> QED
  BY <1>2, <1>4, <1>5 DEF SlotInv

-----------------------------------------------------------------------------
(* next_run_at and the schedule beside it *)

Fits(row) ==
    row.status # "none" =>
        IF row.schedule.type = "CRON" THEN row.next # Null /\ row.next % row.schedule.arg = 0
        ELSE row.next \in {Null, row.schedule.arg}

\* Rows fit, and so do the copies of rows that requests hold.
RowsFit ==
    /\ \A j \in Job : Fits(job[j])
    /\ \A q \in Request : request[q].pc \in {"read", "changed"} => Fits(request[q].row)

FitInv == SlotInv /\ RowsFit

LEMMA Occurrences == \A k \in Nat, p \in Nat \ {0} : (k * p) % p = 0
OBVIOUS

\* Both ways to compute a next run give one of the schedule's own.
LEMMA NextFits ==
    ASSUME NEW sch \in Schedule, NEW t \in Nat
    PROVE  /\ sch.type = "CRON" => /\ CalculateNextRun(sch, t) \in Nat /\ FirstRun(sch, t) \in Nat
                                   /\ CalculateNextRun(sch, t) % sch.arg = 0
                                   /\ FirstRun(sch, t) % sch.arg = 0
           /\ sch.type # "CRON" => CalculateNextRun(sch, t) = Null /\ FirstRun(sch, t) = sch.arg
<1>1. CASE sch.type = "CRON"
  <2>1. sch.arg \in Nat \ {0}
    BY <1>1, ScheduleFacts
  <2>2. CronNext(sch.arg, t) \in Nat
    BY <2>1, CronNextIsNat
  <2>3. CronNext(sch.arg, t) % sch.arg = 0
    <3>1. PICK k \in Nat : k = t \div sch.arg + 1
      BY <2>1
    <3>2. QED
      BY <2>1, <3>1, Occurrences DEF CronNext
  <2>4. QED
    BY <1>1, <2>2, <2>3 DEF CalculateNextRun, FirstRun
<1>2. CASE sch.type # "CRON"
  BY <1>2 DEF CalculateNextRun, FirstRun
<1>3. QED
  BY <1>1, <1>2

\* A row whose next_run_at has just been computed from its schedule.
LEMMA ComputedFits ==
    ASSUME NEW row \in JobRow, row.schedule \in Schedule, NEW t \in Nat,
           row.next \in {CalculateNextRun(row.schedule, t), FirstRun(row.schedule, t)}
    PROVE  Fits(row)
BY NextFits, ConstantsAssumption DEF Fits

LEMMA ChangedFits ==
    ASSUME TypeOK, NEW row \in JobRow, row.status # "none", Scheduled(row), Fits(row),
           NEW kind, NEW sch, kind = "reschedule" => sch \in Schedule
    PROVE  Fits(Changed(row, kind, sch))
<1> DEFINE new == Changed(row, kind, sch)
<1>1. new \in JobRow /\ Scheduled(new) /\ new.status # "none" /\ new.schedule \in Schedule
  BY ChangedType DEF Scheduled
<1>2. now \in Nat
  BY ConstantsAssumption DEF TypeOK
<1>3. CASE kind = "reschedule" /\ sch # row.schedule
  <2>1. new.schedule = sch /\ new.next = FirstRun(sch, now)
    BY <1>3 DEF Changed, Rescheduled, JobRow
  <2>2. QED
    BY <1>1, <1>2, <2>1, ComputedFits
<1>4. CASE kind = "timezone"
  <2>1. new.schedule = row.schedule /\ new.next = FirstRun(row.schedule, now)
    BY <1>4 DEF Changed, JobRow
  <2>2. QED
    BY <1>1, <1>2, <2>1, ComputedFits
<1>5. CASE kind # "timezone" /\ ~(kind = "reschedule" /\ sch # row.schedule)
  <2>1. new.schedule = row.schedule /\ new.next = row.next
    BY <1>5 DEF Changed, Rescheduled, JobRow
  <2>2. QED
    BY <2>1 DEF Fits
<1>6. QED
  BY <1>3, <1>4, <1>5

LEMMA RowsFitStep == FitInv /\ [Next]_vars => RowsFit'
<1> SUFFICES ASSUME FitInv, [Next]_vars PROVE RowsFit'
  OBVIOUS
<1>1. /\ SlotInv /\ TypeOK /\ RowsFit /\ job \in [Job -> JobRow]
      /\ request \in [Request -> RequestRecord] /\ tick \in [Scheduler -> TickRecord]
      /\ now \in Nat
  BY ConstantsAssumption DEF FitInv, SlotInv, TypeOK
<1>2. CASE UNCHANGED <<job, request>>
  BY <1>1, <1>2 DEF RowsFit, Fits
<1>3. ASSUME NEW s \in Scheduler, TickCommit(s) PROVE RowsFit'
  <2>1. ASSUME NEW j \in Job PROVE Fits(job'[j])
    <3>1. CASE j \notin tick[s].moved
      BY <1>1, <1>3, <3>1 DEF TickCommit, Saves, RowsFit
    <3>2. CASE j \in tick[s].moved
      <4>1. /\ tick[s].seen[j] = job[j] /\ job[j].schedule \in Schedule /\ tick[s].now \in Nat
        BY <1>1, <3>2, TickFields
        DEF SlotInv, NewIsNew, Work, SeenIsCurrent, RowsScheduled, Scheduled
      <4>2. job'[j] = [job[j] EXCEPT !.next = CalculateNextRun(job[j].schedule, tick[s].now)]
        BY <1>3, <3>2, <4>1 DEF TickCommit, Saves
      <4>3. /\ job'[j].schedule = job[j].schedule
            /\ job'[j].next = CalculateNextRun(job[j].schedule, tick[s].now)
        BY <1>1, <4>2 DEF JobRow
      <4>4. job'[j] \in JobRow
        BY SlotInvStep, <1>1 DEF SlotInv, TypeOK
      <4>5. QED
        BY <4>1, <4>3, <4>4, ComputedFits
    <3>3. QED
      BY <3>1, <3>2
  <2>2. request' = request
    BY <1>3 DEF TickCommit
  <2>3. QED
    BY <1>1, <2>1, <2>2 DEF RowsFit
<1>4. ASSUME NEW j \in Job, NEW sch \in Schedule, CreateJob(j, sch) PROVE RowsFit'
  <2>1. /\ request' = request /\ job'[j].schedule = sch /\ job'[j].next = FirstRun(sch, now)
        /\ \A k \in Job : k # j => job'[k] = job[k]
    BY <1>1, <1>4 DEF CreateJob
  <2>2. job'[j] \in JobRow
    BY SlotInvStep, <1>1 DEF SlotInv, TypeOK
  <2>3. Fits(job'[j])
    BY <1>1, <2>1, <2>2, ComputedFits
  <2>4. QED
    BY <1>1, <2>1, <2>3 DEF RowsFit
<1>5. ASSUME NEW q \in Request, NEW j \in Job, NEW kind, NEW sch, ReadJob(q, j, kind, sch)
      PROVE  RowsFit'
  <2>1. job' = job /\ \A p \in Request : p # q => request'[p] = request[p]
    BY <1>1, <1>5 DEF ReadJob
  <2>2. request'[q].row = job[j]
    BY <1>1, <1>5 DEF ReadJob
  <2>3. QED
    BY <1>1, <2>1, <2>2 DEF RowsFit
<1>6. ASSUME NEW q \in Request, ChangeJob(q) PROVE RowsFit'
  <2>1. PICK r \in RequestRecord : r = request[q]
    BY <1>1
  <2>2. /\ r.row \in JobRow /\ r.row.status # "none" /\ Scheduled(r.row) /\ Fits(r.row)
        /\ r.kind = "reschedule" => r.schedule \in Schedule
    BY <1>1, <1>6, <2>1 DEF SlotInv, RowsScheduled, ChangeJob, RequestRecord, RowsFit
  <2>3. Fits(Changed(r.row, r.kind, r.schedule))
    BY <1>1, <2>2, ChangedFits
  <2>4. /\ job' = job /\ \A p \in Request : p # q => request'[p] = request[p]
        /\ request'[q].row = Changed(r.row, r.kind, r.schedule)
    <3>1. request' = [request EXCEPT ![q] = [[r EXCEPT !.pc = "changed"]
                                               EXCEPT !.row = Changed(r.row, r.kind, r.schedule)]]
      BY <1>1, <1>6, <2>1 DEF ChangeJob
    <3>2. request'[q] = [[r EXCEPT !.pc = "changed"] EXCEPT !.row = Changed(r.row, r.kind, r.schedule)]
      BY <1>1, <3>1
    <3>3. request'[q].row = Changed(r.row, r.kind, r.schedule)
      BY <3>2 DEF RequestRecord
    <3>4. QED
      BY <1>1, <1>6, <3>3 DEF ChangeJob
  <2>5. QED
    BY <1>1, <2>3, <2>4 DEF RowsFit
<1>7. ASSUME NEW q \in Request, SaveJob(q) PROVE RowsFit'
  <2>1. PICK r \in RequestRecord : r = request[q]
    BY <1>1
  <2>2. Fits(r.row) /\ job' = [job EXCEPT ![r.job] = r.row]
    BY <1>1, <1>7, <2>1 DEF SaveJob, RowsFit
  <2>3. \A p \in Request : p # q => request'[p] = request[p]
    BY <1>1, <1>7 DEF SaveJob
  <2>4. request'[q].pc = "saved"
    <3>1. request' = [request EXCEPT ![q] = [[r EXCEPT !.pc = "saved"] EXCEPT !.row = NoJob]]
      BY <1>1, <1>7, <2>1 DEF SaveJob
    <3>2. QED
      BY <1>1, <3>1 DEF RequestRecord
  <2>5. \A j \in Job : Fits(job'[j])
    BY <1>1, <2>2 DEF RowsFit
  <2>6. QED
    BY <1>1, <2>3, <2>4, <2>5 DEF RowsFit
<1>8. CASE Advance \/ FaultNext \/ \E s \in Scheduler : TickSelect(s) \/ \E j \in Job : TickJob(s, j)
  BY <1>2, <1>8 DEF Advance, FaultNext, TickSelect, TickJob, TickRollsBack, TickJobFails
<1>9. QED
  BY <1>2, <1>3, <1>4, <1>5, <1>6, <1>7, <1>8 DEF Next, TickNext, ApiNext, vars

LEMMA FitInvInit == Init => FitInv
BY SlotInvInit DEF FitInv, RowsFit, Fits, Init, NoJob, NoRequest

LEMMA FitInvAlways == Spec => []FitInv
<1>1. FitInv /\ [Next]_vars => FitInv'
  BY SlotInvStep, RowsFitStep DEF FitInv
<1>2. QED
  BY <1>1, FitInvInit, PTL DEF Spec

-----------------------------------------------------------------------------
(* The theorems *)

LEMMA SlotInvAlways == Spec => []SlotInv
  BY SlotInvInit, SlotInvStep, PTL DEF Spec

\* Job rows, ticks and API requests keep to their types.
THEOREM SchedulingTypeCorrect == Spec => []TypeOK
<1>1. SlotInv => TypeOK
  BY DEF SlotInv
<1> QED
  BY <1>1, SlotInvAlways, PTL

\* However many schedulers tick and however many stale rows API requests save,
\* no job gets two runs for the same scheduled time.
THEOREM SlotsRunOnce == Spec => []SlotRunsOnce
<1>1. SlotInv => SlotRunsOnce
  BY DEF SlotInv
<1> QED
  BY <1>1, SlotInvAlways, PTL

\* Whichever tick or full-row save wrote last, next_run_at is an occurrence of
\* the schedule that is stored with it: what was saved stale was stale as a whole.
THEOREM NextRunFits == Spec => []NextRunFitsSchedule
<1>1. FitInv => NextRunFitsSchedule
  BY DEF FitInv, RowsFit, Fits, NextRunFitsSchedule
<1> QED
  BY <1>1, FitInvAlways, PTL

-----------------------------------------------------------------------------
(* A slot is kept until it has a run: what a tick is going to move has one, *)
(* or gets one at the same commit.                                          *)

Backed(s, j) == j \in tick[s].new \/ RunsFor(j, tick[s].seen[j].next) # {}

MovedHaveRuns == \A s \in Scheduler : \A j \in tick[s].moved : Backed(s, j)

KeptInv == SlotInv /\ MovedHaveRuns

LEMMA MovedStep == KeptInv /\ [Next]_vars => MovedHaveRuns'
<1> SUFFICES ASSUME KeptInv, [Next]_vars, NEW s \in Scheduler, NEW j \in tick'[s].moved
             PROVE  Backed(s, j)'
  BY DEF MovedHaveRuns
<1>t. SlotInv /\ MovedHaveRuns /\ tick \in [Scheduler -> TickRecord] /\ tick[s] \in TickRecord
  BY DEF KeptInv, SlotInv, TypeOK
<1>r. \A i, slot : RunsFor(i, slot) # {} => {r \in runs' : r.job = i /\ r.slot = slot} # {}
  <2>1. runs \subseteq runs'
    BY DEF Next, TickNext, ApiNext, FaultNext, Advance, TickSelect, TickJob, TickCommit, CreateJob,
       ReadJob, ChangeJob, SaveJob, TickRollsBack, TickJobFails, vars
  <2> QED
    BY <2>1 DEF RunsFor
<1>1. CASE tick'[s] = tick[s]
  BY <1>t, <1>r, <1>1 DEF MovedHaveRuns, Backed, RunsFor
<1>2. CASE tick'[s] = IdleTick
  BY <1>2 DEF IdleTick
<1>3. CASE TickSelect(s)
  <2>1. PICK batch \in Batches : tick' = [tick EXCEPT ![s] = TickHolding(batch, now)]
    BY <1>3 DEF TickSelect, TickHolding
  <2>2. tick'[s].moved = {}
    BY <1>t, <2>1 DEF TickHolding
  <2> QED
    BY <2>2
<1>4. ASSUME NEW i \in Job, TickJob(s, i)
      PROVE  Backed(s, j)'
  <2> DEFINE old == Existing(i, tick[s].seen[i].next)
  <2>1. tick'[s] = [tick[s] EXCEPT !.todo = @ \ {i},
                                   !.new = IF old THEN tick[s].new ELSE tick[s].new \cup {i},
                                   !.moved = tick[s].moved \cup {i}]
    BY <1>t, <1>4 DEF TickJob
  <2>2. /\ tick'[s].new = IF old THEN tick[s].new ELSE tick[s].new \cup {i}
        /\ tick'[s].moved = tick[s].moved \cup {i} /\ tick'[s].seen = tick[s].seen
    BY <1>t, <2>1 DEF TickRecord
  <2>3. old => RunsFor(i, tick[s].seen[i].next) # {}
    BY DEF Existing
  <2> QED
    BY <1>t, <1>r, <2>2, <2>3 DEF MovedHaveRuns, Backed, RunsFor
<1>5. ASSUME NEW i \in Job, TickJobFails(s, i)
      PROVE  Backed(s, j)'
  <2>1. tick'[s] = [tick[s] EXCEPT !.todo = @ \ {i}]
    BY <1>t, <1>5 DEF TickJobFails
  <2>2. /\ tick'[s].new = tick[s].new /\ tick'[s].moved = tick[s].moved
        /\ tick'[s].seen = tick[s].seen
    BY <1>t, <2>1 DEF TickRecord
  <2> QED
    BY <1>t, <1>r, <2>2 DEF MovedHaveRuns, Backed, RunsFor
<1>6. CASE TickCommit(s) \/ TickRollsBack(s)
  BY <1>t, <1>2, <1>6 DEF TickCommit, TickRollsBack
<1>7. ASSUME NEW t \in Scheduler, t # s,
             TickNext(t) \/ TickRollsBack(t) \/ \E i \in Job : TickJobFails(t, i)
      PROVE  tick'[s] = tick[s]
  BY <1>t, <1>7 DEF TickNext, TickSelect, TickJob, TickCommit, TickRollsBack, TickJobFails
<1>8. CASE Advance \/ ApiNext \/ UNCHANGED vars
  BY <1>1, <1>8 DEF Advance, ApiNext, CreateJob, ReadJob, ChangeJob, SaveJob, vars
<1> QED
  BY <1>1, <1>3, <1>4, <1>5, <1>6, <1>7, <1>8 DEF Next, TickNext, FaultNext

\* No tick moves next_run_at on from a slot without a run, though schedulers
\* race for the rows, ticks fail and roll back, and requests save stale rows.
THEOREM SlotsAreKept == Spec => SlotsKept
<1> DEFINE Kept ==
      \A j \in Job :
          job[j].status = "ACTIVE" /\ job[j].next # Null /\ job'[j].next # job[j].next
            => \/ \E r \in runs' : r.job = j /\ r.slot = job[j].next
               \/ \E q \in Request : SaveJob(q) /\ request[q].job = j
<1>1. KeptInv /\ [Next]_vars => KeptInv'
  BY SlotInvStep, MovedStep DEF KeptInv
<1>2. Init => KeptInv
  BY SlotInvInit DEF KeptInv, MovedHaveRuns, Init, IdleTick
<1>3. KeptInv /\ [Next]_vars => [Kept]_vars
  <2> SUFFICES ASSUME KeptInv, Next, NEW j \in Job,
                      job[j].status = "ACTIVE", job'[j].next # job[j].next
               PROVE  \/ \E r \in runs' : r.job = j /\ r.slot = job[j].next
                      \/ \E q \in Request : SaveJob(q) /\ request[q].job = j
    OBVIOUS
  <2>t. job \in [Job -> JobRow] /\ SlotInv
    BY DEF KeptInv, SlotInv, TypeOK
  <2>1. ASSUME NEW s \in Scheduler, TickCommit(s)
        PROVE  \E r \in runs' : r.job = j /\ r.slot = job[j].next
    <3>1. j \in tick[s].moved
      BY <2>t, <2>1 DEF TickCommit, Saves
    <3>2. tick[s].seen[j] = job[j]
      BY <2>t, <3>1 DEF SlotInv, NewIsNew, Work, SeenIsCurrent
    <3>3. CASE j \in tick[s].new
      <4>1. [job |-> j, slot |-> job[j].next,
             copy |-> Cardinality(RunsFor(j, job[j].next)) + 1] \in runs'
        BY <2>1, <3>2, <3>3 DEF TickCommit
      <4> QED
        BY <4>1
    <3>4. CASE j \notin tick[s].new
      BY <2>1, <3>1, <3>2, <3>4 DEF TickCommit, KeptInv, MovedHaveRuns, Backed, RunsFor
    <3> QED
      BY <3>3, <3>4
  <2>2. ASSUME NEW q \in Request, SaveJob(q) PROVE request[q].job = j
    BY <2>t, <2>2 DEF SaveJob
  <2>3. ASSUME NEW i \in Job, NEW sch \in Schedule, CreateJob(i, sch) PROVE FALSE
    BY <2>t, <2>3 DEF CreateJob
  <2>4. job' # job
    OBVIOUS
  <2> QED
    BY <2>1, <2>2, <2>3, <2>4 DEF Next, TickNext, ApiNext, FaultNext, Advance, TickSelect, TickJob,
       ReadJob, ChangeJob, TickRollsBack, TickJobFails
<1> QED
  BY <1>1, <1>2, <1>3, PTL DEF Spec, SlotsKept
=============================================================================
