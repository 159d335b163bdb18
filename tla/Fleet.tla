------------------------------- MODULE Fleet -------------------------------
(***************************************************************************)
(* Heartbeats, leases and the worker table in real time: the heartbeat of  *)
(* worker/main.py and worker/heartbeat.py against the deadlines of         *)
(* scheduler/watchdog.py.  Execution leaves open when a lease runs out;    *)
(* here it takes its time, so that what the constants 15, 45, 60 and 10    *)
(* are chosen for can be stated.                                           *)
(*                                                                         *)
(* Times are kept relative to the present: `age` is how long ago a stored  *)
(* or captured time is and `left` how far ahead lease_expires_at is.       *)
(* Advance is the passing of one unit; it waits for no loop longer than    *)
(* the loop's lag allows.  How many attempts a worker takes, in which      *)
(* order, and what becomes of their runs is the matter of Execution.       *)
(***************************************************************************)
EXTENDS Integers

CONSTANTS
    Worker,       \* worker ids
    Attempt,      \* places for job_attempt rows; a settled row makes room
    Interval,     \* HEARTBEAT_INTERVAL_SECONDS
    Lag,          \* how late a worker's loop comes to a heartbeat, and how long
                  \* that takes: the poll sleep and a few statements
    Lease,        \* LEASE_DURATION_SECONDS
    DeadAfter,    \* HEARTBEAT_TIMEOUT_SECONDS
    Period,       \* WATCHDOG_INTERVAL_SECONDS
    WatchdogLag,  \* the same for the scheduler's loop and a watchdog cycle
    Misses,       \* heartbeats in a row that may fail
    MaxFaults,
    None

\* With 15, 45 and 60 seconds, one heartbeat may fail and the lag be 5 seconds.
ASSUME FleetAssumption ==
    /\ {Interval, Lag, Lease, DeadAfter, Period, WatchdogLag, Misses, MaxFaults} \subseteq Nat
    /\ (Misses + 1) * (Interval + Lag) < Lease
    /\ (Misses + 1) * (Interval + Lag) + Lag <= Lease
    /\ Lease <= DeadAfter
    /\ None \notin Worker \cup Attempt

VARIABLES
    main,     \* main[w]: where the main loop of process w is
    beatAge,  \* beatAge[w]: since the loop's last_heartbeat
    row,      \* row[w]: the worker row, its age counted while it is ACTIVE
    attempt,  \* attempt[a]: the job_attempt row, its lease counted while RUNNING
    exec,     \* exec[a]: the process that has claimed a is still executing it
    wd,       \* the watchdog; its age is that of its `now`, kept as last_watchdog
    faults,
    missed,   \* history: heartbeats of w that have failed in a row
    excused,  \* history: too many have failed, or shutdown ended them, since a's claim
    downFor,  \* history: how long w has been down, while a trace of it is left
    skipped   \* history: watchdog cycles that have failed in a row

history == <<missed, excused, downFor, skipped>>
vars == <<main, beatAge, row, attempt, exec, wd, faults, missed, excused, downFor, skipped>>

-----------------------------------------------------------------------------

BeatPc == {"worker", "leases"}
UpPc == {"loop"} \cup BeatPc
Up(w) == main[w] \in UpPc

RunningOf(w) == {a \in Attempt : attempt[a].status = "RUNNING" /\ attempt[a].worker = w}
ExecutedBy(w) == {a \in Attempt : exec[a] /\ attempt[a].worker = w}

NoRow == [status |-> "none", worker |-> None, left |-> 0]

Init ==
    /\ main = [w \in Worker |-> "down"]
    /\ beatAge = [w \in Worker |-> 0]
    /\ row = [w \in Worker |-> [status |-> "none", age |-> 0]]
    /\ attempt = [a \in Attempt |-> NoRow]
    /\ exec = [a \in Attempt |-> FALSE]
    /\ wd = [pc |-> "idle", age |-> 0, todo |-> {}, cur |-> None]
    /\ faults = 0
    /\ missed = [w \in Worker |-> 0]
    /\ excused = [a \in Attempt |-> FALSE]
    /\ downFor = [w \in Worker |-> 0]
    /\ skipped = 0

Fault == /\ faults < MaxFaults
         /\ faults' = faults + 1

-----------------------------------------------------------------------------
(* Time *)

WorkerWaits(w) ==
    /\ main[w] = "loop" => beatAge[w] < Interval + Lag
    /\ main[w] \in BeatPc => beatAge[w] < Lag

WatchdogWaits == wd.age < IF wd.pc = "idle" THEN Period + WatchdogLag ELSE WatchdogLag

Trace(w) == row[w].status = "ACTIVE" \/ RunningOf(w) # {}

Advance ==
    /\ \A w \in Worker : WorkerWaits(w)
    /\ WatchdogWaits
    /\ beatAge' = [w \in Worker |-> IF Up(w) THEN beatAge[w] + 1 ELSE 0]
    /\ row' = [w \in Worker |-> IF row[w].status = "ACTIVE"
                                THEN [row[w] EXCEPT !.age = @ + 1] ELSE row[w]]
    /\ attempt' = [a \in Attempt |-> IF attempt[a].status = "RUNNING"
                                     THEN [attempt[a] EXCEPT !.left = @ - 1] ELSE attempt[a]]
    /\ wd' = [wd EXCEPT !.age = @ + 1]
    /\ downFor' = [w \in Worker |-> IF main[w] = "down" /\ Trace(w)
                                    THEN downFor[w] + 1 ELSE downFor[w]]
    /\ UNCHANGED <<main, exec, faults, missed, excused, skipped>>

-----------------------------------------------------------------------------
(* Processes start and stop *)

\* register_worker: an upsert of the row; last_heartbeat = 0 makes the first
\* heartbeat due at once.  A container that starts again has its id back.
StartWorker(w) ==
    /\ main[w] = "down"
    /\ main' = [main EXCEPT ![w] = "loop"]
    /\ row' = [row EXCEPT ![w] = [status |-> "ACTIVE", age |-> 0]]
    /\ beatAge' = [beatAge EXCEPT ![w] = Interval]
    /\ missed' = [missed EXCEPT ![w] = 0]
    /\ downFor' = [downFor EXCEPT ![w] = 0]
    /\ UNCHANGED <<attempt, exec, wd, faults, excused, skipped>>

DeadRow_AttemptStatus == [status |-> "TIMED_OUT", age |-> 0]
DeadRow == [status |-> "DEAD", age |-> 0]

Gone(w) == [a \in Attempt |-> exec[a] /\ attempt[a].worker # w]

CrashWorker(w) ==
    /\ main[w] # "down"
    /\ Fault
    /\ main' = [main EXCEPT ![w] = "down"]
    /\ exec' = Gone(w)
    /\ UNCHANGED <<beatAge, row, attempt, wd, history>>

Excuse(w) == [a \in Attempt |-> excused[a] \/ attempt[a].worker = w]

\* KeyboardInterrupt: mark_worker_dead, which may fail; the interpreter then
\* waits for the pool's threads.
ShutdownWorker(w) ==
    /\ Up(w)
    /\ Fault
    /\ main' = [main EXCEPT ![w] = "draining"]
    /\ row' \in {row, [row EXCEPT ![w] = DeadRow]}
    /\ excused' = Excuse(w)
    /\ UNCHANGED <<beatAge, attempt, exec, wd, missed, downFor, skipped>>

ExitWorker(w) ==
    /\ main[w] = "draining"
    /\ ExecutedBy(w) = {}
    /\ main' = [main EXCEPT ![w] = "down"]
    /\ UNCHANGED <<beatAge, row, attempt, exec, wd, faults, history>>

-----------------------------------------------------------------------------
(* Attempts *)

\* A new row, in the place of one that no process and no watchdog refers to.
QueueAttempt(a) ==
    /\ attempt[a].status \notin {"QUEUED", "RUNNING"}
    /\ ~exec[a]
    /\ a \notin wd.todo \cup {wd.cur}
    /\ attempt' = [attempt EXCEPT ![a] = [NoRow EXCEPT !.status = "QUEUED"]]
    /\ UNCHANGED <<main, beatAge, row, exec, wd, faults, history>>

\* The claim does not look at the worker's row: a DEAD worker claims as well.
ClaimAttempt(w, a) ==
    /\ main[w] = "loop"
    /\ attempt[a].status = "QUEUED"
    /\ attempt' = [attempt EXCEPT ![a] = [status |-> "RUNNING", worker |-> w, left |-> Lease]]
    /\ exec' = [exec EXCEPT ![a] = TRUE]
    /\ excused' = [excused EXCEPT ![a] = FALSE]
    /\ UNCHANGED <<main, beatAge, row, wd, faults, missed, downFor, skipped>>

Settled(a, status) == [status |-> status, worker |-> attempt[a].worker, left |-> 0]

\* The callback reports by id and token, whatever the status of the row; a
\* database error leaves the row as it is.
FinishAttempt(a) ==
    /\ exec[a]
    /\ exec' = [exec EXCEPT ![a] = FALSE]
    /\ \/ /\ attempt' = [attempt EXCEPT ![a] = Settled(a, "reported")]
          /\ UNCHANGED faults
       \/ Fault /\ UNCHANGED attempt
    /\ UNCHANGED <<main, beatAge, row, wd, history>>

-----------------------------------------------------------------------------
(* The heartbeat: two statements with the same captured time *)

HeartbeatStart(w) ==
    /\ main[w] = "loop"
    /\ beatAge[w] >= Interval
    /\ main' = [main EXCEPT ![w] = "worker"]
    /\ beatAge' = [beatAge EXCEPT ![w] = 0]
    /\ UNCHANGED <<row, attempt, exec, wd, faults, history>>

HeartbeatWorker(w) ==
    /\ main[w] = "worker"
    /\ main' = [main EXCEPT ![w] = "leases"]
    /\ row' = [row EXCEPT ![w] = [status |-> "ACTIVE", age |-> beatAge[w]]]
    /\ UNCHANGED <<beatAge, attempt, exec, wd, faults, history>>

\* lease_expires_at__gt=now
Extended_OnlyExpired(w) == {a \in RunningOf(w) : attempt[a].left + beatAge[w] <= 0}
Extended(w) == {a \in RunningOf(w) : attempt[a].left + beatAge[w] > 0}

HeartbeatLeases(w) ==
    /\ main[w] = "leases"
    /\ main' = [main EXCEPT ![w] = "loop"]
    /\ attempt' = [a \in Attempt |-> IF a \in Extended(w)
                                     THEN [attempt[a] EXCEPT !.left = Lease - beatAge[w]]
                                     ELSE attempt[a]]
    /\ missed' = [missed EXCEPT ![w] = 0]
    /\ UNCHANGED <<beatAge, row, exec, wd, faults, excused, downFor, skipped>>

\* last_heartbeat is set even so.
HeartbeatFails(w) ==
    /\ main[w] \in BeatPc
    /\ Fault
    /\ main' = [main EXCEPT ![w] = "loop"]
    /\ missed' = [missed EXCEPT ![w] = @ + 1]
    /\ excused' = IF missed[w] < Misses THEN excused ELSE Excuse(w)
    /\ UNCHANGED <<beatAge, row, attempt, exec, wd, downFor, skipped>>

-----------------------------------------------------------------------------
(* The watchdog: one cycle with one captured time *)

\* lease_expires_at < now, for the `now` of the cycle that starts
Expired_OfDeadWorkers ==
    {a \in Attempt : /\ attempt[a].status = "RUNNING"
                     /\ attempt[a].left < 0
                     /\ row[attempt[a].worker].status = "DEAD"}
Expired == {a \in Attempt : attempt[a].status = "RUNNING" /\ attempt[a].left < 0}

\* A tick and the publisher may have run since the loop looked at the time.
WatchdogStart ==
    /\ wd.pc = "idle"
    /\ wd.age >= Period - WatchdogLag
    /\ wd' = [pc |-> "handle", age |-> 0, todo |-> Expired, cur |-> None]
    /\ UNCHANGED <<main, beatAge, row, attempt, exec, faults, history>>

\* refresh_from_db, and the two reasons to leave the attempt alone
StillExpired(a) == attempt[a].status = "RUNNING" /\ attempt[a].left + wd.age < 0

WatchdogRefresh(a) ==
    /\ wd.pc = "handle"
    /\ a \in wd.todo
    /\ wd' = [wd EXCEPT !.todo = @ \ {a},
                        !.pc = IF StillExpired(a) THEN "timeout" ELSE "handle",
                        !.cur = IF StillExpired(a) THEN a ELSE None]
    /\ UNCHANGED <<main, beatAge, row, attempt, exec, faults, history>>

\* The UPDATE is by id only.
WatchdogTimeOut ==
    /\ wd.pc = "timeout"
    /\ attempt' = [attempt EXCEPT ![wd.cur] = Settled(wd.cur, "TIMED_OUT")]
    /\ wd' = [wd EXCEPT !.pc = "handle", !.cur = None]
    /\ UNCHANGED <<main, beatAge, row, exec, faults, history>>

\* last_heartbeat_at < now - HEARTBEAT_TIMEOUT_SECONDS
Silent_SinceOneInterval(w) ==
    row[w].status = "ACTIVE" /\ row[w].age - wd.age > Interval
Silent_MarkedBefore(w) ==
    row[w].status = "DEAD" /\ row[w].age - wd.age > DeadAfter
Silent(w) == row[w].status = "ACTIVE" /\ row[w].age - wd.age > DeadAfter

WatchdogMarkDead ==
    /\ wd.pc = "handle"
    /\ wd.todo = {}
    /\ row' = [w \in Worker |-> IF Silent(w) THEN DeadRow ELSE row[w]]
    /\ wd' = [wd EXCEPT !.pc = "idle"]
    /\ skipped' = 0
    /\ UNCHANGED <<main, beatAge, attempt, exec, faults, missed, excused, downFor>>

\* An exception ends the cycle: the other attempts and the dead workers wait for
\* the next one, which comes no sooner for that.
WatchdogFails ==
    /\ wd.pc # "idle"
    /\ Fault
    /\ wd' = [wd EXCEPT !.pc = "idle", !.todo = {}, !.cur = None]
    /\ skipped' = skipped + 1
    /\ UNCHANGED <<main, beatAge, row, attempt, exec, missed, excused, downFor>>

-----------------------------------------------------------------------------

WorkerNext(w) ==
    \/ StartWorker(w) \/ CrashWorker(w) \/ ShutdownWorker(w) \/ ExitWorker(w)
    \/ HeartbeatStart(w) \/ HeartbeatWorker(w) \/ HeartbeatLeases(w) \/ HeartbeatFails(w)
    \/ \E a \in Attempt : ClaimAttempt(w, a)

AttemptNext(a) == QueueAttempt(a) \/ FinishAttempt(a)

WatchdogNext ==
    \/ WatchdogStart \/ WatchdogTimeOut \/ WatchdogMarkDead \/ WatchdogFails
    \/ \E a \in Attempt : WatchdogRefresh(a)

Next ==
    \/ Advance
    \/ \E w \in Worker : WorkerNext(w)
    \/ \E a \in Attempt : AttemptNext(a)
    \/ WatchdogNext

Spec == Init /\ [][Next]_vars

-----------------------------------------------------------------------------
(* Invariants *)

AttemptRow ==
    [status : {"none", "QUEUED", "RUNNING", "TIMED_OUT", "reported"},
     worker : Worker \cup {None}, left : Int]

\* Rows, loops and clocks hold what they can hold.
TypeOK ==
    /\ main \in [Worker -> UpPc \cup {"draining", "down"}]
    /\ beatAge \in [Worker -> Nat]
    /\ row \in [Worker -> [status : {"none", "ACTIVE", "DEAD"}, age : Nat]]
    /\ attempt \in [Attempt -> AttemptRow]
    /\ exec \in [Attempt -> BOOLEAN]
    /\ wd \in [pc : {"idle", "handle", "timeout"}, age : Nat,
               todo : SUBSET Attempt, cur : Attempt \cup {None}]
    /\ faults \in 0..MaxFaults
    /\ missed \in [Worker -> Nat]
    /\ excused \in [Attempt -> BOOLEAN]
    /\ downFor \in [Worker -> Nat]
    /\ skipped \in Nat

\* The watchdog never takes an attempt away from a process that is executing it
\* and whose heartbeats have not failed more often in a row than Misses.
LeaseKept == \A a \in Attempt : exec[a] /\ ~excused[a] => attempt[a].status = "RUNNING"

\* ... nor is such a process ever listed as DEAD; and after any number of failures
\* it is ACTIVE again with its next heartbeat.
LiveWorkerActive ==
    \A w \in Worker :
        Up(w) /\ (missed[w] <= Misses \/ main[w] = "leases") => row[w].status = "ACTIVE"

\* How long what is due for the watchdog can have been due: a cycle comes within
\* Period and its lag, and each that fails adds as much.
Delay == (skipped + (IF wd.pc = "idle" THEN 1 ELSE 2)) * (Period + WatchdogLag)

\* A lease that has run out is noticed in time, whoever holds it; a restart under
\* the same id may renew a lease, but it cannot hide one that has run out.
LapsesNoticed == \A a \in Attempt : attempt[a].status = "RUNNING" => -attempt[a].left <= Delay

\* A worker that is down is listed as DEAD and has lost its attempts in time,
\* however its last heartbeat and the watchdog's cycles fell.
CrashNoticed ==
    \A w \in Worker :
        main[w] = "down" =>
            /\ row[w].status = "ACTIVE" => downFor[w] <= DeadAfter + Delay
            /\ RunningOf(w) # {} => downFor[w] <= Lease + Delay

=============================================================================
