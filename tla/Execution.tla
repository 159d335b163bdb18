----------------------------- MODULE Execution -----------------------------
(***************************************************************************)
(* The execution core of the job platform: the job_run and job_attempt     *)
(* tables, the worker processes that claim, execute and report attempts    *)
(* (worker/), and the watchdog of each scheduler process that recovers     *)
(* attempts whose lease has expired (scheduler/watchdog.py).               *)
(*                                                                         *)
(* Every action is one committed database statement or transaction, or one *)
(* step of a Python process between two of them: PostgreSQL runs at READ   *)
(* COMMITTED and only the bodies of transaction.atomic() are transactions. *)
(*                                                                         *)
(* Time is abstract.  A lease is "valid" or "expired"; LeaseExpires lets   *)
(* it run out at any moment.  Code that captures `now` and uses it later   *)
(* keeps here what it would conclude from that `now`: beat[w] holds the    *)
(* attempts whose lease is after the heartbeat's `now`, wd[s].todo those   *)
(* whose lease is before the watchdog's `now`.                             *)
(***************************************************************************)
EXTENDS Integers, FiniteSets

CONSTANTS
    Run,            \* job_run ids
    MaxAttempts,    \* bound on the job_attempt rows ever created
    Worker,         \* worker ids ("worker-<hostname>-<pid>")
    Scheduler,      \* scheduler processes, each with a watchdog
    RetryLimit,     \* job.retry_limit
    MaxConcurrent,  \* MAX_CONCURRENT_JOBS, and the literal 4 of worker/main.py
    MaxClaims,      \* bound on the claims of one attempt (more than 1: resets)
    MaxFaults,      \* bound on crashes, shutdowns, database errors and resets
    None

ASSUME ConstantsAssumption ==
    /\ MaxAttempts \in Nat
    /\ None \notin Run \cup Nat \cup Worker
    /\ RetryLimit \in 1..10
    /\ MaxConcurrent \in Nat \ {0}
    /\ MaxClaims \in Nat \ {0}
    /\ MaxFaults \in Nat

ASSUME SchedulersFinite == IsFiniteSet(Scheduler)

VARIABLES
    run,      \* run[r]: JobRun.status of row r, "none" while there is no row
    attempt,  \* attempt[a]: the JobAttempt row a
    trigger,  \* trigger[r]: a manual trigger has created r and not its attempt
    main,     \* main[w]: where the main loop of worker process w is
    beat,     \* beat[w]: the leases that are after the `now` of w's heartbeat
    exec,     \* exec[a][n]: the execution started by the n-th claim of a
    claims,   \* claims[a]: how often a has been claimed (history)
    wd,       \* wd[s]: local state of the watchdog of scheduler s
    faults    \* faults so far, at most MaxFaults

vars == <<run, attempt, trigger, main, beat, exec, claims, wd, faults>>

-----------------------------------------------------------------------------
(* The tables *)

Attempt == 1..MaxAttempts   \* row ids, in the order of creation

ActiveStatus == {"QUEUED", "RUNNING"}
AttemptStatus == ActiveStatus \cup {"SUCCESS", "FAILED", "TIMED_OUT"}
RunStatus == {"QUEUED", "SUCCESS", "PERMANENTLY_FAILED"}
FinalRunStatus == RunStatus \ {"QUEUED"}

NoAttempt == [run |-> None, number |-> 0, status |-> "none",
              worker |-> None, token |-> 0, lease |-> "none"]

NewAttempt(r, k) == [NoAttempt EXCEPT !.run = r, !.number = k, !.status = "QUEUED"]

Free(a) == attempt[a].status = "none"
NextRow_InUse(a) == \A b \in Attempt : b < a => ~Free(b)
NextRow(a) == Free(a) /\ \A b \in Attempt : b < a => ~Free(b)
Active(a) == attempt[a].status \in ActiveStatus
AttemptsOf(r) == {a \in Attempt : attempt[a].run = r}

-----------------------------------------------------------------------------
(* Executions: the claimed `attempt` object a worker holds (its id and the *)
(* fencing token it was claimed with) and how far its future has come.     *)

Claim == 1..MaxClaims

QueuedPc == {"pooled", "running"}                      \* future.done() is false
CallbackPc == {"returned", "anySuccess", "anyActive", "saveSuccess", "saveFailed"}
LivePc == {"claimed"} \cup QueuedPc \cup CallbackPc
ExecPc == {"none", "done", "lost"} \cup LivePc

NoExec == [worker |-> None, token |-> 0, pc |-> "none", result |-> "none"]

Owned(w, pcs) == {e \in Attempt \X Claim :
                    /\ exec[e[1]][e[2]].worker = w
                    /\ exec[e[1]][e[2]].pc \in pcs}

\* running_futures after the clean-up of the main loop: keyed by attempt, so
\* a second execution of the same attempt hides the first.
RunningFutures(w) ==
    {a \in Attempt : \E n \in Claim :
        /\ <<a, n>> \in Owned(w, QueuedPc)
        /\ \A m \in Claim : <<a, m>> \in Owned(w, ExecPc \ {"none", "claimed"}) => m <= n}

\* Threads of the pool: one is busy until the callback of its future is over.
BusyThreads(w) == Owned(w, {"running"} \cup CallbackPc)

\* Executions of w that are pc \in LivePc vanish with the process.
Killed(w, pcs) ==
    [a \in Attempt |-> [n \in Claim |->
        IF exec[a][n].worker = w /\ exec[a][n].pc \in pcs
        THEN [exec[a][n] EXCEPT !.pc = "lost"] ELSE exec[a][n]]]

-----------------------------------------------------------------------------
(* Watchdogs *)

WdPc == {"idle", "handle", "timeout", "commit", "runs", "anySuccess",
         "saveSuccess", "saveFailed"}

IdleWatchdog == [pc |-> "idle", todo |-> {}, cur |-> None, total |-> 0,
                 runs |-> {}, curRun |-> None]

\* The row lock the UPDATE of _handle_expired_attempt holds until its commit.
Locked_NotHeld(a) == FALSE
Locked(a) == \E s \in Scheduler : wd[s].pc = "commit" /\ wd[s].cur = a

\* The leases of S move past every `now` captured so far: a watchdog that has
\* them on its list will find lease_expires_at >= now.
RenewedFor(S) == [s \in Scheduler |-> [wd[s] EXCEPT !.todo = @ \ S]]

-----------------------------------------------------------------------------

Init ==
    /\ run = [r \in Run |-> "none"]
    /\ attempt = [a \in Attempt |-> NoAttempt]
    /\ trigger = [r \in Run |-> FALSE]
    /\ main = [w \in Worker |-> "loop"]
    /\ beat = [w \in Worker |-> {}]
    /\ exec = [a \in Attempt |-> [n \in Claim |-> NoExec]]
    /\ claims = [a \in Attempt |-> 0]
    /\ wd = [s \in Scheduler |-> IdleWatchdog]
    /\ faults = 0

Fault == /\ faults < MaxFaults
         /\ faults' = faults + 1

-----------------------------------------------------------------------------
(* Runs come from the scheduler's tick, whose transaction inserts run and  *)
(* attempt together, or from the trigger endpoint, which inserts them one  *)
(* after the other with no transaction and may die in between.             *)

CreateRunForJob(r, a) ==
    /\ run[r] = "none"
    /\ NextRow(a)
    /\ run' = [run EXCEPT ![r] = "QUEUED"]
    /\ attempt' = [attempt EXCEPT ![a] = NewAttempt(r, 1)]
    /\ UNCHANGED <<trigger, main, beat, exec, claims, wd, faults>>

TriggerRun(r) ==
    /\ run[r] = "none"
    /\ run' = [run EXCEPT ![r] = "QUEUED"]
    /\ trigger' = [trigger EXCEPT ![r] = TRUE]
    /\ UNCHANGED <<attempt, main, beat, exec, claims, wd, faults>>

TriggerAttempt(r, a) ==
    /\ trigger[r]
    /\ NextRow(a)
    /\ trigger' = [trigger EXCEPT ![r] = FALSE]
    /\ attempt' = [attempt EXCEPT ![a] = NewAttempt(r, 1)]
    /\ UNCHANGED <<run, main, beat, exec, claims, wd, faults>>

-----------------------------------------------------------------------------
(* The worker's main loop *)

HasCapacity_OffByOne(w) == Cardinality(RunningFutures(w)) <= MaxConcurrent
HasCapacity(w) == Cardinality(RunningFutures(w)) < MaxConcurrent

Claimable_StatusNotRechecked(a) == Active(a) /\ ~Locked(a)
Claimable(a) == attempt[a].status = "QUEUED" /\ ~Locked(a)

\* claim_attempt: one transaction.  Which QUEUED row it takes is left open here
\* (ClaimOrder has the choice).
ClaimAttempt(w, a) ==
    /\ main[w] = "loop"
    /\ HasCapacity(w)
    /\ Claimable(a)
    /\ claims[a] < MaxClaims
    /\ attempt' = [attempt EXCEPT ![a].status = "RUNNING", ![a].worker = w,
                                  ![a].token = @ + 1, ![a].lease = "valid"]
    /\ exec' = [exec EXCEPT ![a][claims[a] + 1] =
                   [worker |-> w, token |-> attempt[a].token + 1,
                    pc |-> "claimed", result |-> "none"]]
    /\ claims' = [claims EXCEPT ![a] = @ + 1]
    /\ main' = [main EXCEPT ![w] = "submit"]
    /\ wd' = RenewedFor({a})
    /\ UNCHANGED <<run, trigger, beat, faults>>

SubmitJob(a, n) ==
    LET w == exec[a][n].worker IN
    /\ exec[a][n].pc = "claimed"
    /\ exec' = [exec EXCEPT ![a][n].pc = "pooled"]
    /\ main' = [main EXCEPT ![w] = "loop"]
    /\ UNCHANGED <<run, attempt, trigger, beat, claims, wd, faults>>

\* attempt.job or the submission raises: the claim is committed all the same.
SubmitFails(a, n) ==
    LET w == exec[a][n].worker IN
    /\ exec[a][n].pc = "claimed"
    /\ Fault
    /\ exec' = [exec EXCEPT ![a][n].pc = "lost"]
    /\ main' = [main EXCEPT ![w] = "loop"]
    /\ UNCHANGED <<run, attempt, trigger, beat, claims, wd>>

ValidLeases(w) == {a \in Attempt : attempt[a].worker = w /\ attempt[a].lease = "valid"}

\* send_heartbeat captures `now` (a heartbeat that can extend nothing changes
\* no row of this module and is left out) ...
HeartbeatStart(w) ==
    /\ main[w] = "loop"
    /\ \E a \in ValidLeases(w) : attempt[a].status = "RUNNING"
    /\ main' = [main EXCEPT ![w] = "beat"]
    /\ beat' = [beat EXCEPT ![w] = ValidLeases(w)]
    /\ UNCHANGED <<run, attempt, trigger, exec, claims, wd, faults>>

\* ... and later extends every RUNNING attempt of this worker id whose lease
\* is after that `now`, whether or not the process still executes it.
Extended(w) == {a \in beat[w] : attempt[a].worker = w /\ attempt[a].status = "RUNNING"}

HeartbeatExtend(w) ==
    /\ main[w] = "beat"
    /\ \A a \in Extended(w) : ~Locked(a)
    /\ attempt' = [a \in Attempt |-> IF a \in Extended(w)
                                     THEN [attempt[a] EXCEPT !.lease = "valid"]
                                     ELSE attempt[a]]
    /\ wd' = RenewedFor(Extended(w))
    /\ main' = [main EXCEPT ![w] = "loop"]
    /\ beat' = [beat EXCEPT ![w] = {}]
    /\ UNCHANGED <<run, trigger, exec, claims, faults>>

HeartbeatFails(w) ==
    /\ main[w] = "beat"
    /\ Fault
    /\ main' = [main EXCEPT ![w] = "loop"]
    /\ beat' = [beat EXCEPT ![w] = {}]
    /\ UNCHANGED <<run, attempt, trigger, exec, claims, wd>>

\* Time passes.
LeaseExpires(a) ==
    /\ attempt[a].status = "RUNNING"
    /\ attempt[a].lease = "valid"
    /\ attempt' = [attempt EXCEPT ![a].lease = "expired"]
    /\ UNCHANGED <<run, trigger, main, beat, exec, claims, wd, faults>>

-----------------------------------------------------------------------------
(* The thread pool and the completion callback *)

StartHandler(a, n) ==
    /\ exec[a][n].pc = "pooled"
    /\ Cardinality(BusyThreads(exec[a][n].worker)) < MaxConcurrent
    /\ exec' = [exec EXCEPT ![a][n].pc = "running"]
    /\ UNCHANGED <<run, attempt, trigger, main, beat, claims, wd, faults>>

\* execute_handler turns every exception into a result with success = False.
HandlerReturns(a, n, outcome) ==
    /\ exec[a][n].pc = "running"
    /\ exec' = [exec EXCEPT ![a][n] = [@ EXCEPT !.pc = "returned", !.result = outcome]]
    /\ UNCHANGED <<run, attempt, trigger, main, beat, claims, wd, faults>>

\* The UPDATE of handle_attempt_completion: WHERE id and fencing_token.  It
\* waits for the lock of a watchdog that is timing the same row out.
ReportAttempt(a, n) ==
    /\ exec[a][n].pc = "returned"
    /\ ~Locked(a)
    /\ \/ /\ attempt[a].token = exec[a][n].token
          /\ attempt' = [attempt EXCEPT ![a].status = exec[a][n].result]
          /\ exec' = [exec EXCEPT ![a][n].pc = "anySuccess"]
       \/ /\ attempt[a].token # exec[a][n].token
          /\ exec' = [exec EXCEPT ![a][n].pc = "done"]
          /\ UNCHANGED attempt
    /\ UNCHANGED <<run, trigger, main, beat, claims, wd, faults>>

SomeAttempt_OtherStatuses(r, statuses) ==
    \E a \in AttemptsOf(r) : attempt[a].status \notin statuses
SomeAttempt(r, statuses) == \E a \in AttemptsOf(r) : attempt[a].status \in statuses

\* _update_run_status: two reads and a save, each a statement of its own.
UpdateRunAnySuccess(a, n) ==
    /\ exec[a][n].pc = "anySuccess"
    /\ exec' = [exec EXCEPT ![a][n].pc =
                   IF SomeAttempt(attempt[a].run, {"SUCCESS"})
                   THEN "saveSuccess" ELSE "anyActive"]
    /\ UNCHANGED <<run, attempt, trigger, main, beat, claims, wd, faults>>

UpdateRunAnyActive(a, n) ==
    /\ exec[a][n].pc = "anyActive"
    /\ exec' = [exec EXCEPT ![a][n].pc =
                   IF SomeAttempt(attempt[a].run, ActiveStatus)
                   THEN "done" ELSE "saveFailed"]
    /\ UNCHANGED <<run, attempt, trigger, main, beat, claims, wd, faults>>

Saved_AttemptStatus(pc) == IF pc = "saveSuccess" THEN "SUCCESS" ELSE "FAILED"
Saved(pc) == IF pc = "saveSuccess" THEN "SUCCESS" ELSE "PERMANENTLY_FAILED"

UpdateRunSave(a, n) ==
    /\ exec[a][n].pc \in {"saveSuccess", "saveFailed"}
    /\ run' = [run EXCEPT ![attempt[a].run] = Saved(exec[a][n].pc)]
    /\ exec' = [exec EXCEPT ![a][n].pc = "done"]
    /\ UNCHANGED <<attempt, trigger, main, beat, claims, wd, faults>>

\* A database error in the callback: the future's machinery logs and drops it.
CallbackFails(a, n) ==
    /\ exec[a][n].pc \in CallbackPc
    /\ Fault
    /\ exec' = [exec EXCEPT ![a][n].pc = "lost"]
    /\ UNCHANGED <<run, attempt, trigger, main, beat, claims, wd>>

-----------------------------------------------------------------------------
(* Worker processes stop and start *)

CrashWorker(w) ==
    /\ main[w] # "down"
    /\ Fault
    /\ main' = [main EXCEPT ![w] = "down"]
    /\ beat' = [beat EXCEPT ![w] = {}]
    /\ exec' = Killed(w, LivePc)
    /\ UNCHANGED <<run, attempt, trigger, claims, wd>>

\* KeyboardInterrupt: no more heartbeats or claims, but the interpreter joins
\* the pool's threads, so what was submitted still runs and reports.
ShutdownWorker(w) ==
    /\ main[w] \notin {"down", "draining"}
    /\ Fault
    /\ main' = [main EXCEPT ![w] = "draining"]
    /\ beat' = [beat EXCEPT ![w] = {}]
    /\ exec' = Killed(w, {"claimed"})
    /\ UNCHANGED <<run, attempt, trigger, claims, wd>>

\* A container restart gives the process its hostname and pid, so its id, back.
RestartWorker(w) ==
    /\ main[w] \in {"down", "draining"}
    /\ Owned(w, LivePc) = {}
    /\ main' = [main EXCEPT ![w] = "loop"]
    /\ UNCHANGED <<run, attempt, trigger, beat, exec, claims, wd, faults>>

-----------------------------------------------------------------------------
(* One cycle of run_watchdog *)

Expired_OfDeadWorkers == {a \in Attempt : /\ attempt[a].status = "RUNNING"
                                          /\ attempt[a].lease = "expired"
                                          /\ attempt[a].worker = None}
Expired == {a \in Attempt : attempt[a].status = "RUNNING" /\ attempt[a].lease = "expired"}

FindExpiredLeases(s) ==
    /\ wd[s].pc = "idle"
    /\ wd' = [wd EXCEPT ![s].pc = "handle", ![s].todo = Expired]
    /\ UNCHANGED <<run, attempt, trigger, main, beat, exec, claims, faults>>

\* refresh_from_db and the two early returns; no lock is taken.
RefreshExpired(s, a) ==
    /\ wd[s].pc = "handle"
    /\ a \in wd[s].todo
    /\ wd' = [wd EXCEPT ![s].todo = @ \ {a},
                        ![s].pc = IF attempt[a].status = "RUNNING" THEN "timeout" ELSE "handle",
                        ![s].cur = IF attempt[a].status = "RUNNING" THEN a ELSE None]
    /\ UNCHANGED <<run, attempt, trigger, main, beat, exec, claims, faults>>

\* The UPDATE by id takes the row lock; then the attempts of the run are counted.
TimeOutAndCount(s) ==
    /\ wd[s].pc = "timeout"
    /\ ~Locked(wd[s].cur)
    /\ wd' = [wd EXCEPT ![s].pc = "commit",
                        ![s].total = Cardinality(AttemptsOf(attempt[wd[s].cur].run))]
    /\ UNCHANGED <<run, attempt, trigger, main, beat, exec, claims, faults>>

Handled(s) == [wd EXCEPT ![s].pc = "handle", ![s].cur = None, ![s].total = 0]

RetriesLeft_OffByOne(total) == total <= RetryLimit
RetriesLeft(total) == total < RetryLimit

\* The row a after the UPDATE to TIMED_OUT.
TimedOut_Omitted(a) == attempt[a]
TimedOut(a) == [attempt[a] EXCEPT !.status = "TIMED_OUT"]

CommitWithRetry(s, b) ==
    LET a == wd[s].cur IN
    /\ wd[s].pc = "commit"
    /\ RetriesLeft(wd[s].total)
    /\ NextRow(b)
    /\ attempt' = [attempt EXCEPT ![a] = TimedOut(a),
                                  ![b] = NewAttempt(attempt[a].run, wd[s].total + 1)]
    /\ wd' = Handled(s)
    /\ UNCHANGED <<run, trigger, main, beat, exec, claims, faults>>

CommitExhausted(s) ==
    /\ wd[s].pc = "commit"
    /\ ~RetriesLeft(wd[s].total)
    /\ attempt' = [attempt EXCEPT ![wd[s].cur] = TimedOut(wd[s].cur)]
    /\ wd' = Handled(s)
    /\ UNCHANGED <<run, trigger, main, beat, exec, claims, faults>>

\* The loop of _mark_permanently_failed over the runs rs it still has to visit;
\* after the last one the cycle is over.
Remaining(rs) == IF rs = {} THEN IdleWatchdog
                 ELSE [IdleWatchdog EXCEPT !.pc = "runs", !.runs = rs]

\* _mark_permanently_failed: the open runs are listed once, then each is read
\* and saved statement by statement.
ListOpenRuns(s) ==
    /\ wd[s].pc = "handle"
    /\ wd[s].todo = {}
    /\ wd' = [wd EXCEPT ![s] = Remaining({r \in Run : run[r] = "QUEUED"})]
    /\ UNCHANGED <<run, attempt, trigger, main, beat, exec, claims, faults>>

MarkRunAnyActive(s, r) ==
    /\ wd[s].pc = "runs"
    /\ r \in wd[s].runs
    /\ LET rest == wd[s].runs \ {r} IN
       wd' = [wd EXCEPT ![s] =
                IF SomeAttempt(r, ActiveStatus) THEN Remaining(rest)
                ELSE [IdleWatchdog EXCEPT !.pc = "anySuccess", !.runs = rest, !.curRun = r]]
    /\ UNCHANGED <<run, attempt, trigger, main, beat, exec, claims, faults>>

MarkRunAnySuccess(s) ==
    /\ wd[s].pc = "anySuccess"
    /\ wd' = [wd EXCEPT ![s].pc = IF SomeAttempt(wd[s].curRun, {"SUCCESS"})
                                  THEN "saveSuccess" ELSE "saveFailed"]
    /\ UNCHANGED <<run, attempt, trigger, main, beat, exec, claims, faults>>

MarkRunSave(s) ==
    /\ wd[s].pc \in {"saveSuccess", "saveFailed"}
    /\ run' = [run EXCEPT ![wd[s].curRun] = Saved(wd[s].pc)]
    /\ wd' = [wd EXCEPT ![s] = Remaining(@.runs)]
    /\ UNCHANGED <<attempt, trigger, main, beat, exec, claims, faults>>

\* The scheduler crashes and restarts, or a query raises and the main loop
\* logs it: an open transaction rolls back and the next cycle starts anew.
WatchdogFails(s) ==
    /\ wd[s].pc # "idle"
    /\ Fault
    /\ wd' = [wd EXCEPT ![s] = IdleWatchdog]
    /\ UNCHANGED <<run, attempt, trigger, main, beat, exec, claims>>

-----------------------------------------------------------------------------
(* The reset of stuck runs, from the ops endpoint or the command.  S is    *)
(* the set of attempts created before the cutoff.  The second statement    *)
(* sets open runs to QUEUED, which is what an open run already is.         *)

StuckAttempts_AnyStatus(S) == {a \in S : ~Free(a)}
StuckAttempts(S) == {a \in S : Active(a)}

ResetStuck(S) ==
    LET stuck == StuckAttempts(S) IN
    /\ stuck # {}
    /\ \A a \in stuck : ~Locked(a)
    /\ Fault
    /\ attempt' = [a \in Attempt |-> IF a \in stuck
                     THEN [attempt[a] EXCEPT !.status = "QUEUED", !.worker = None,
                                             !.token = 0, !.lease = "none"]
                     ELSE attempt[a]]
    /\ UNCHANGED <<run, trigger, main, beat, exec, claims, wd>>

-----------------------------------------------------------------------------

CreateNext ==
    \E r \in Run :
        \/ TriggerRun(r)
        \/ \E a \in Attempt : CreateRunForJob(r, a) \/ TriggerAttempt(r, a)

LoopNext(w) ==
    \/ HeartbeatStart(w)
    \/ HeartbeatExtend(w)
    \/ \E a \in Attempt : ClaimAttempt(w, a)

HandlerNext(a, n) ==
    \E outcome \in {"SUCCESS", "FAILED"} : HandlerReturns(a, n, outcome)

ExecNext(a, n) ==
    \/ SubmitJob(a, n)
    \/ StartHandler(a, n)
    \/ ReportAttempt(a, n)
    \/ UpdateRunAnySuccess(a, n)
    \/ UpdateRunAnyActive(a, n)
    \/ UpdateRunSave(a, n)

WatchdogNext(s) ==
    \/ FindExpiredLeases(s)
    \/ \E a \in Attempt : RefreshExpired(s, a) \/ CommitWithRetry(s, a)
    \/ TimeOutAndCount(s)
    \/ CommitExhausted(s)
    \/ ListOpenRuns(s)
    \/ \E r \in Run : MarkRunAnyActive(s, r)
    \/ MarkRunAnySuccess(s)
    \/ MarkRunSave(s)

ProcessFaultNext ==
    \/ \E w \in Worker : CrashWorker(w) \/ ShutdownWorker(w)
    \/ \E s \in Scheduler : WatchdogFails(s)

DatabaseFaultNext ==
    \/ \E w \in Worker : HeartbeatFails(w)
    \/ \E a \in Attempt, n \in Claim : SubmitFails(a, n) \/ CallbackFails(a, n)

\* What the processes do by themselves, and their stopping.
CoreNext ==
    \/ CreateNext
    \/ \E w \in Worker : LoopNext(w)
    \/ \E a \in Attempt : LeaseExpires(a) \/ \E n \in Claim : ExecNext(a, n) \/ HandlerNext(a, n)
    \/ \E s \in Scheduler : WatchdogNext(s)
    \/ ProcessFaultNext

\* ... with database errors and restarts under the same worker id ...
NoResetNext ==
    \/ CoreNext
    \/ DatabaseFaultNext
    \/ \E w \in Worker : RestartWorker(w)

\* ... and with the operator's reset: everything.
Next == NoResetNext \/ \E S \in SUBSET Attempt : ResetStuck(S)

CoreSpec == Init /\ [][CoreNext]_vars
NoResetSpec == Init /\ [][NoResetNext]_vars
Spec == Init /\ [][Next]_vars
-----------------------------------------------------------------------------
(* Fairness: the loops of the processes go on, SKIP LOCKED cannot starve a  *)
(* worker for ever, and a lease runs out unless a heartbeat renews it again *)
(* and again.  That handlers return is an assumption of its own: nothing in *)
(* the code enforces job.timeout_seconds.                                   *)

Unrenewed(a) == \A w \in Worker : a \notin beat[w]

LoopFairness ==
    /\ \A w \in Worker : /\ WF_vars(HeartbeatExtend(w))
                         /\ SF_vars(\E a \in Attempt : ClaimAttempt(w, a))
    /\ \A a \in Attempt : /\ WF_vars(Unrenewed(a) /\ LeaseExpires(a))
                          /\ WF_vars(\E n \in Claim : ExecNext(a, n))
    /\ \A s \in Scheduler : WF_vars(WatchdogNext(s))

HandlerFairness ==
    \A a \in Attempt : WF_vars(\E n \in Claim : HandlerNext(a, n))

FairSpec == NoResetSpec /\ LoopFairness /\ HandlerFairness
HangingSpec == CoreSpec /\ LoopFairness

-----------------------------------------------------------------------------
(* Invariants *)

AttemptRow ==
    [run : Run \cup {None}, number : Nat, status : AttemptStatus \cup {"none"},
     worker : Worker \cup {None}, token : Nat, lease : {"none", "valid", "expired"}]

ExecRecord ==
    [worker : Worker \cup {None}, token : Nat, pc : ExecPc,
     result : {"none", "SUCCESS", "FAILED"}]

WatchdogRecord ==
    [pc : WdPc, todo : SUBSET Attempt, cur : Attempt \cup {None}, total : Nat,
     runs : SUBSET Run, curRun : Run \cup {None}]

\* Every variable keeps to the values the tables and the processes can hold.
TypeOK ==
    /\ run \in [Run -> RunStatus \cup {"none"}]
    /\ attempt \in [Attempt -> AttemptRow]
    /\ trigger \in [Run -> BOOLEAN]
    /\ main \in [Worker -> {"loop", "beat", "submit", "down", "draining"}]
    /\ beat \in [Worker -> SUBSET Attempt]
    /\ exec \in [Attempt -> [Claim -> ExecRecord]]
    /\ claims \in [Attempt -> 0..MaxClaims]
    /\ wd \in [Scheduler -> WatchdogRecord]
    /\ faults \in 0..MaxFaults

\* The attempts of a run come one after the other: their numbers differ and
\* only the newest can be QUEUED or RUNNING, whatever a late worker, an
\* operator's reset or a watchdog does in between.
AttemptsSequential ==
    \A a, b \in Attempt :
        attempt[a].run \in Run /\ attempt[b].run = attempt[a].run /\ a # b =>
            /\ attempt[a].number # attempt[b].number
            /\ Active(a) => attempt[b].number < attempt[a].number

\* One watchdog never gives a run more attempts than job.retry_limit.  Several may
\* exceed the limit, for their counts and inserts are not serialised, but only
\* those that time out different attempts of the run at the same time: each adds
\* one, and there is an attempt for each of them.
RetriesBounded ==
    \A r \in Run :
        LET total == Cardinality(AttemptsOf(r)) IN
        \/ total <= RetryLimit
        \/ total < RetryLimit + Cardinality(Scheduler) /\ total <= 2 * (RetryLimit - 1)

\* Some handler execution of the run returned without an exception.
Earned(r) == \E a \in AttemptsOf(r) : \E n \in Claim : exec[a][n].result = "SUCCESS"

\* A run or an attempt reads SUCCESS only if a handler really succeeded for it.
SuccessIsEarned ==
    /\ \A r \in Run : run[r] = "SUCCESS" => Earned(r)
    /\ \A a \in Attempt : attempt[a].status = "SUCCESS" =>
         \E n \in Claim : exec[a][n].result = "SUCCESS"

\* Without a reset an attempt row is handed to one execution at most: workers
\* polling the same rows, restarts and retries never run the same row twice.
ClaimedOnce == \A a \in Attempt : claims[a] <= 1

\* A worker never has more claims whose handler has not returned than its
\* limit; counting the callbacks its threads are in, never twice as many.  A
\* future is done before its callback is, so the main loop does not see those.
BacklogBounded ==
    \A w \in Worker :
        /\ Cardinality(Owned(w, {"claimed"} \cup QueuedPc)) <= MaxConcurrent
        /\ Cardinality(Owned(w, LivePc)) <= 2 * MaxConcurrent

-----------------------------------------------------------------------------
(* Action properties *)

\* Terminal is terminal: no step makes a finished attempt claimable again or a
\* settled run open again.
NeverReopened ==
    [][/\ \A a \in Attempt : ~Active(a) /\ ~Free(a) => ~Active(a)'
       /\ \A r \in Run : run[r] \in FinalRunStatus => run'[r] \in FinalRunStatus]_vars

-----------------------------------------------------------------------------
(* Liveness *)

\* An attempt nobody executes any more, whose lease the heartbeats of its worker
\* id go on renewing: the submission raised after the claim had committed, the
\* callback failed, or a restarted process has got its predecessor's id.
Stranded(r) ==
    \E a \in AttemptsOf(r) :
        /\ attempt[a].status = "RUNNING"
        /\ main[attempt[a].worker] \in {"loop", "beat", "submit"}
        /\ \A n \in Claim : exec[a][n].pc \notin LivePc

\* Every run is settled, though workers crash, shut down and restart, the
\* database fails, schedulers crash and triggers stop half way: a stranded
\* attempt is the only thing that can keep a run open for ever.
RunsSettle ==
    \A r \in Run :
        \/ run[r] = "QUEUED" ~> run[r] \in FinalRunStatus
        \/ <>[]Stranded(r)

-----------------------------------------------------------------------------
(* What the attempts promise the workers that poll them                    *)

QueueState(row) ==
    CASE row.status = "none" -> "none"
      [] row.status = "QUEUED" -> "waiting"
      [] row.status = "RUNNING" -> "taken"
      [] OTHER -> "ended"

Queue == INSTANCE AttemptQueue WITH
           state <- [a \in Attempt |-> QueueState(attempt[a])],
           owner <- [a \in Attempt |-> attempt[a].worker]

\* Without a reset, late reports, heartbeats of restarted workers and watchdogs
\* that time out the same attempt twice change no row otherwise than the queue
\* allows: a row has one owner, is not offered again and ends once.
ImplementsQueue == Queue!Spec

-----------------------------------------------------------------------------
(* What the repository's documents say and the code does not do; each is   *)
(* refuted by a run of its own.                                             *)

\* "If attempt fails and retries remain: Watchdog creates a new JobAttempt":
\* a run whose newest attempt FAILED is given up only after all its retries.
FailedIsRetried ==
    \A r \in Run : \A a \in AttemptsOf(r) :
        /\ run[r] = "PERMANENTLY_FAILED"
        /\ attempt[a].status = "FAILED"
        /\ attempt[a].number = Cardinality(AttemptsOf(r))
        => attempt[a].number = RetryLimit

\* "Old worker returns after lease expires: status update rejected".
StaleReportRejected ==
    [][\A a \in Attempt : attempt[a].status = "TIMED_OUT" => attempt'[a].status = "TIMED_OUT"]_vars

\* "Refresh and check it's still expired (prevents race condition)": an
\* outcome a worker has reported is not overwritten.
OutcomeKept ==
    [][\A a \in Attempt : attempt[a].status \in {"SUCCESS", "FAILED"} =>
          attempt'[a].status = attempt[a].status]_vars

\* "the lease expires after 45s and the watchdog marks it TIMED_OUT": an attempt
\* does not stay RUNNING, whatever its handler does.
HungJobTimesOut ==
    \A a \in Attempt : attempt[a].status = "RUNNING" ~> attempt[a].status # "RUNNING"

=============================================================================
