------------------------ MODULE ExecutionTypeProofs ------------------------
(* Machine-checked theorems about Execution, for every number of runs,     *)
(* workers, schedulers, retries, faults and resets.                        *)
EXTENDS Execution, FiniteSetTheorems, TLAPS


-----------------------------------------------------------------------------
(* The parts of the inductive invariant *)

TimingOut == {"timeout", "commit"}
MarkingRun == {"anySuccess", "saveSuccess", "saveFailed"}

\* A row has a run exactly when it exists.
RowsHaveRuns == \A a \in Attempt : Free(a) <=> attempt[a].run = None

\* What a process points at exists, and a result is there once it is reported.
PointersValid ==
    /\ \A s \in Scheduler : /\ wd[s].pc \in TimingOut => wd[s].cur \in Attempt /\ ~Free(wd[s].cur)
                            /\ wd[s].pc \in MarkingRun => wd[s].curRun \in Run
                            /\ \A a \in wd[s].todo : ~Free(a)
    /\ \A a \in Attempt, n \in Claim :
         /\ exec[a][n].pc # "none" => ~Free(a)
         /\ exec[a][n].pc \in CallbackPc => exec[a][n].result # "none"

TypeInv == TypeOK /\ RowsHaveRuns /\ PointersValid

-----------------------------------------------------------------------------
(* Type correctness *)


LEMMA RowTypes ==
    /\ NoAttempt \in AttemptRow
    /\ NoExec \in ExecRecord
    /\ IdleWatchdog \in WatchdogRecord
    /\ \A r \in Run, k \in Nat :
         /\ NewAttempt(r, k) \in AttemptRow
         /\ NewAttempt(r, k).run = r
         /\ NewAttempt(r, k).number = k
         /\ NewAttempt(r, k).status = "QUEUED"
  BY DEF NoAttempt, NewAttempt, NoExec, IdleWatchdog, AttemptStatus, ActiveStatus,
         ExecPc, LivePc, WdPc, AttemptRow, ExecRecord, WatchdogRecord

LEMMA PcTypes == ExecPc = {"none", "done", "lost", "claimed", "pooled", "running", "returned",
                           "anySuccess", "anyActive", "saveSuccess", "saveFailed"}
  BY DEF ExecPc, LivePc, QueuedPc, CallbackPc

(* The updates the actions make keep the records well formed. *)

LEMMA RowUpdate ==
    ASSUME NEW row \in AttemptRow
    PROVE  /\ \A st \in AttemptStatus \cup {"none"} : [row EXCEPT !.status = st] \in AttemptRow
           /\ \A l \in {"valid", "expired"} : [row EXCEPT !.lease = l] \in AttemptRow
           /\ \A w \in Worker, t \in Nat :
                [row EXCEPT !.status = "RUNNING", !.worker = w, !.token = t, !.lease = "valid"]
                    \in AttemptRow
           /\ [row EXCEPT !.status = "QUEUED", !.worker = None, !.token = 0, !.lease = "none"]
                    \in AttemptRow
  BY DEF AttemptRow, AttemptStatus, ActiveStatus

LEMMA TimedOutRow ==
    ASSUME NEW a \in Attempt, attempt[a] \in AttemptRow
    PROVE  TimedOut(a) \in AttemptRow
  BY DEF TimedOut, AttemptRow, AttemptStatus

LEMMA ExecUpdate ==
    ASSUME NEW e \in ExecRecord, NEW p \in ExecPc
    PROVE  /\ [e EXCEPT !.pc = p] \in ExecRecord
           /\ \A o \in {"SUCCESS", "FAILED"} : [e EXCEPT !.pc = p, !.result = o] \in ExecRecord
  BY DEF ExecRecord

LEMMA ExecPcUpdate ==
    ASSUME exec \in [Attempt -> [Claim -> ExecRecord]],
           NEW a \in Attempt, NEW n \in Claim, NEW p \in ExecPc
    PROVE  [exec EXCEPT ![a][n].pc = p] \in [Attempt -> [Claim -> ExecRecord]]
  BY ExecUpdate

LEMMA WatchdogUpdate ==
    ASSUME NEW x \in WatchdogRecord, NEW p \in WdPc
    PROVE  /\ [x EXCEPT !.pc = p] \in WatchdogRecord
           /\ \A S \in SUBSET Attempt : /\ [x EXCEPT !.todo = S] \in WatchdogRecord
                                        /\ [x EXCEPT !.pc = p, !.todo = S] \in WatchdogRecord
           /\ \A S \in SUBSET Attempt, c \in Attempt \cup {None} :
                [x EXCEPT !.todo = S, !.pc = p, !.cur = c] \in WatchdogRecord
           /\ \A k \in Nat : [x EXCEPT !.pc = p, !.total = k] \in WatchdogRecord
           /\ [x EXCEPT !.pc = p, !.cur = None, !.total = 0] \in WatchdogRecord
           /\ \A rs \in SUBSET Run, r \in Run :
                [x EXCEPT !.pc = p, !.runs = rs, !.curRun = r] \in WatchdogRecord
  BY DEF WatchdogRecord

LEMMA WatchdogFields ==
    ASSUME NEW x \in WatchdogRecord
    PROVE  /\ x.pc \in WdPc /\ x.total \in Nat
           /\ x.todo \in SUBSET Attempt /\ x.runs \in SUBSET Run
           /\ x.cur \in Attempt \cup {None} /\ x.curRun \in Run \cup {None}
  BY DEF WatchdogRecord

LEMMA RemainingType ==
    ASSUME NEW rs \in SUBSET Run
    PROVE  Remaining(rs) \in WatchdogRecord
  BY RowTypes DEF Remaining, WatchdogRecord, WdPc

LEMMA RenewedType ==
    ASSUME wd \in [Scheduler -> WatchdogRecord], NEW S
    PROVE  RenewedFor(S) \in [Scheduler -> WatchdogRecord]
<1>1. ASSUME NEW s \in Scheduler PROVE [wd[s] EXCEPT !.todo = @ \ S] \in WatchdogRecord
  BY WatchdogUpdate, WatchdogFields
<1> QED
  BY <1>1 DEF RenewedFor

LEMMA KilledType ==
    ASSUME exec \in [Attempt -> [Claim -> ExecRecord]], NEW w, NEW pcs
    PROVE  Killed(w, pcs) \in [Attempt -> [Claim -> ExecRecord]]
<1>1. ASSUME NEW a \in Attempt, NEW n \in Claim PROVE [exec[a][n] EXCEPT !.pc = "lost"] \in ExecRecord
  BY ExecUpdate, PcTypes
<1>2. ASSUME NEW a \in Attempt
      PROVE  [n \in Claim |-> IF exec[a][n].worker = w /\ exec[a][n].pc \in pcs
                              THEN [exec[a][n] EXCEPT !.pc = "lost"] ELSE exec[a][n]]
                 \in [Claim -> ExecRecord]
  <2>1. ASSUME NEW n \in Claim PROVE exec[a][n] \in ExecRecord
    OBVIOUS
  <2> QED
    BY <1>1, <2>1
<1> QED
  BY <1>2 DEF Killed

LEMMA AttemptsFinite == ASSUME NEW S \in SUBSET Attempt PROVE IsFiniteSet(S)
<1>1. IsFiniteSet(Attempt)
  BY ConstantsAssumption, FS_Interval DEF Attempt
<1> QED
  BY <1>1, FS_Subset

LEMMA CountType == ASSUME NEW r PROVE Cardinality(AttemptsOf(r)) \in Nat
<1>1. AttemptsOf(r) \in SUBSET Attempt
  BY DEF AttemptsOf
<1> QED
  BY <1>1, AttemptsFinite, FS_CardinalityType

LEMMA TypeInit == Init => TypeInv
<1> SUFFICES ASSUME Init PROVE TypeInv
  OBVIOUS
<1>1. 0 \in 0..MaxClaims /\ 0 \in 0..MaxFaults
  BY ConstantsAssumption
<1>4. TypeOK
  BY <1>1, RowTypes DEF Init, TypeOK, RunStatus
<1>2. RowsHaveRuns
  BY DEF Init, RowsHaveRuns, Free, NoAttempt
<1>3. PointersValid
  BY DEF Init, PointersValid, NoExec, IdleWatchdog, TimingOut, MarkingRun, CallbackPc
<1> QED
  BY <1>2, <1>3, <1>4 DEF TypeInv

LEMMA TypeCreate == TypeOK /\ CreateNext => TypeOK'
<1> SUFFICES ASSUME TypeOK, CreateNext PROVE TypeOK'
  OBVIOUS
<1>1. ASSUME NEW r \in Run, TriggerRun(r) PROVE TypeOK'
  BY <1>1 DEF TriggerRun, TypeOK, RunStatus
<1>2. ASSUME NEW r \in Run, NEW a \in Attempt, CreateRunForJob(r, a) PROVE TypeOK'
  BY <1>2, RowTypes DEF CreateRunForJob, TypeOK, RunStatus
<1>3. ASSUME NEW r \in Run, NEW a \in Attempt, TriggerAttempt(r, a) PROVE TypeOK'
  BY <1>3, RowTypes DEF TriggerAttempt, TypeOK
<1> QED
  BY <1>1, <1>2, <1>3 DEF CreateNext

LEMMA TypeLoop == TypeOK /\ (\E w \in Worker : LoopNext(w)) => TypeOK'
<1> SUFFICES ASSUME TypeOK, NEW w \in Worker, LoopNext(w) PROVE TypeOK'
  OBVIOUS
<1>1. CASE HeartbeatStart(w)
  BY <1>1 DEF HeartbeatStart, ValidLeases, TypeOK
<1>2. CASE HeartbeatExtend(w)
  <2>1. attempt' \in [Attempt -> AttemptRow]
    BY <1>2, RowUpdate DEF HeartbeatExtend, TypeOK
  <2> QED
    BY <1>2, <2>1, RenewedType DEF HeartbeatExtend, TypeOK
<1>3. ASSUME NEW a \in Attempt, ClaimAttempt(w, a) PROVE TypeOK'
  <2>1. claims[a] \in Nat /\ claims[a] + 1 \in Claim
    BY <1>3, ConstantsAssumption DEF ClaimAttempt, TypeOK, Claim
  <2>2. attempt[a].token + 1 \in Nat
    BY DEF TypeOK, AttemptRow
  <2>3. attempt' \in [Attempt -> AttemptRow]
    BY <1>3, <2>2, RowUpdate DEF ClaimAttempt, TypeOK
  <2>4. [worker |-> w, token |-> attempt[a].token + 1, pc |-> "claimed", result |-> "none"]
            \in ExecRecord
    BY <2>2, PcTypes DEF ExecRecord
  <2>5. exec' \in [Attempt -> [Claim -> ExecRecord]]
    BY <1>3, <2>1, <2>4 DEF ClaimAttempt, TypeOK
  <2>6. claims' \in [Attempt -> 0..MaxClaims]
    BY <1>3, <2>1, ConstantsAssumption DEF ClaimAttempt, TypeOK, Claim
  <2> QED
    BY <1>3, <2>3, <2>5, <2>6, RenewedType DEF ClaimAttempt, TypeOK
<1> QED
  BY <1>1, <1>2, <1>3 DEF LoopNext

LEMMA TypeExpires == TypeOK /\ (\E a \in Attempt : LeaseExpires(a)) => TypeOK'
<1> SUFFICES ASSUME TypeOK, NEW a \in Attempt, LeaseExpires(a) PROVE TypeOK'
  OBVIOUS
<1> QED
  BY RowUpdate DEF LeaseExpires, TypeOK

LEMMA TypeExec ==
    TypeInv /\ (\E a \in Attempt, n \in Claim : ExecNext(a, n) \/ HandlerNext(a, n)) => TypeOK'
<1> SUFFICES ASSUME TypeInv, NEW a \in Attempt, NEW n \in Claim,
                    ExecNext(a, n) \/ HandlerNext(a, n)
             PROVE  TypeOK'
  OBVIOUS
<1>a. TypeOK
  BY DEF TypeInv
<1>e. exec \in [Attempt -> [Claim -> ExecRecord]] /\ exec[a][n] \in ExecRecord
  BY <1>a DEF TypeOK
<1> USE PcTypes, ExecPcUpdate, <1>a
<1>1. CASE SubmitJob(a, n)
  BY <1>1 DEF SubmitJob, TypeOK
<1>2. CASE StartHandler(a, n)
  BY <1>2 DEF StartHandler, TypeOK
<1>3. ASSUME NEW outcome \in {"SUCCESS", "FAILED"}, HandlerReturns(a, n, outcome)
      PROVE  TypeOK'
  <2>1. [exec[a][n] EXCEPT !.pc = "returned", !.result = outcome] \in ExecRecord
    BY <1>e, ExecUpdate
  <2> QED
    BY <1>3, <2>1 DEF HandlerReturns, TypeOK
<1>4. CASE ReportAttempt(a, n)
  <2>1. exec[a][n].result \in AttemptStatus \cup {"none"}
    BY <1>e DEF ExecRecord, AttemptStatus
  <2>2. CASE attempt[a].token = exec[a][n].token
    <3>1. attempt' = [attempt EXCEPT ![a].status = exec[a][n].result]
          /\ exec' = [exec EXCEPT ![a][n].pc = "anySuccess"]
      BY <1>4, <2>2 DEF ReportAttempt
    <3>2. [attempt[a] EXCEPT !.status = exec[a][n].result] \in AttemptRow
      BY <2>1, RowUpdate DEF TypeOK
    <3> QED
      BY <1>4, <1>e, <3>1, <3>2 DEF ReportAttempt, TypeOK
  <2>3. CASE attempt[a].token # exec[a][n].token
    <3>1. attempt' = attempt /\ exec' = [exec EXCEPT ![a][n].pc = "done"]
      BY <1>4, <2>3 DEF ReportAttempt
    <3> QED
      BY <1>4, <1>e, <3>1 DEF ReportAttempt, TypeOK
  <2> QED
    BY <2>2, <2>3
<1>5. CASE UpdateRunAnySuccess(a, n)
  BY <1>5 DEF UpdateRunAnySuccess, TypeOK
<1>6. CASE UpdateRunAnyActive(a, n)
  BY <1>6 DEF UpdateRunAnyActive, TypeOK
<1>7. CASE UpdateRunSave(a, n)
  BY <1>7 DEF UpdateRunSave, Saved, TypeOK, RunStatus
<1> QED
  BY <1>1, <1>2, <1>3, <1>4, <1>5, <1>6, <1>7 DEF ExecNext, HandlerNext

LEMMA TypeWatchdog == TypeInv /\ (\E s \in Scheduler : WatchdogNext(s)) => TypeOK'
<1> SUFFICES ASSUME TypeInv, NEW s \in Scheduler, WatchdogNext(s) PROVE TypeOK'
  OBVIOUS
<1>a. TypeOK
  BY DEF TypeInv
<1>w. wd \in [Scheduler -> WatchdogRecord] /\ wd[s] \in WatchdogRecord
  BY <1>a DEF TypeOK
<1>f. wd[s].todo \in SUBSET Attempt /\ wd[s].runs \in SUBSET Run /\ wd[s].total \in Nat
  BY <1>w, WatchdogFields
<1>1. CASE FindExpiredLeases(s)
  <2>1. [wd[s] EXCEPT !.pc = "handle", !.todo = Expired] \in WatchdogRecord
    BY <1>w, WatchdogUpdate DEF Expired, WdPc
  <2> QED
    BY <1>1, <1>a, <2>1 DEF FindExpiredLeases, TypeOK
<1>2. ASSUME NEW a \in Attempt, RefreshExpired(s, a) PROVE TypeOK'
  <2>1. ASSUME NEW p \in {"timeout", "handle"}, NEW c \in {a, None}
        PROVE  [wd[s] EXCEPT !.todo = @ \ {a}, !.pc = p, !.cur = c] \in WatchdogRecord
    BY <1>w, <1>f, WatchdogUpdate DEF WdPc
  <2>2. wd' \in [Scheduler -> WatchdogRecord]
    BY <1>2, <1>w, <2>1 DEF RefreshExpired
  <2> QED
    BY <1>2, <1>a, <2>2 DEF RefreshExpired, TypeOK
<1>3. CASE TimeOutAndCount(s)
  <2>1. [wd[s] EXCEPT !.pc = "commit", !.total = Cardinality(AttemptsOf(attempt[wd[s].cur].run))]
            \in WatchdogRecord
    BY <1>w, CountType, WatchdogUpdate DEF WdPc
  <2> QED
    BY <1>3, <1>a, <2>1 DEF TimeOutAndCount, TypeOK
<1>h. Handled(s) \in [Scheduler -> WatchdogRecord]
  BY <1>w, WatchdogUpdate DEF Handled, WdPc
<1>4. ASSUME NEW b \in Attempt, CommitWithRetry(s, b) PROVE TypeOK'
  <2>1. wd[s].cur \in Attempt /\ ~Free(wd[s].cur)
    BY <1>4 DEF CommitWithRetry, TypeInv, PointersValid, TimingOut
  <2>2. attempt[wd[s].cur].run \in Run
    BY <2>1, <1>a DEF TypeInv, RowsHaveRuns, TypeOK, AttemptRow
  <2>3. NewAttempt(attempt[wd[s].cur].run, wd[s].total + 1) \in AttemptRow
    BY <1>f, <2>2, RowTypes
  <2>4. TimedOut(wd[s].cur) \in AttemptRow
    BY <1>a, <2>1, TimedOutRow DEF TypeOK
  <2>5. attempt' \in [Attempt -> AttemptRow]
    BY <1>4, <1>a, <2>1, <2>3, <2>4 DEF CommitWithRetry, TypeOK
  <2> QED
    BY <1>4, <1>a, <1>h, <2>5 DEF CommitWithRetry, TypeOK
<1>5. CASE CommitExhausted(s)
  <2>1. wd[s].cur \in Attempt
    BY <1>5 DEF CommitExhausted, TypeInv, PointersValid, TimingOut
  <2>2. TimedOut(wd[s].cur) \in AttemptRow
    BY <1>a, <2>1, TimedOutRow DEF TypeOK
  <2> QED
    BY <1>5, <1>a, <1>h, <2>1, <2>2 DEF CommitExhausted, TypeOK
<1>6. CASE ListOpenRuns(s)
  <2>1. Remaining({r \in Run : run[r] = "QUEUED"}) \in WatchdogRecord
    BY RemainingType
  <2> QED
    BY <1>6, <1>a, <2>1 DEF ListOpenRuns, TypeOK
<1>7. ASSUME NEW r \in Run, MarkRunAnyActive(s, r) PROVE TypeOK'
  <2>1. Remaining(wd[s].runs \ {r}) \in WatchdogRecord
    BY <1>f, RemainingType
  <2>2. [IdleWatchdog EXCEPT !.pc = "anySuccess", !.runs = wd[s].runs \ {r}, !.curRun = r]
            \in WatchdogRecord
    <3>1. IdleWatchdog \in WatchdogRecord /\ "anySuccess" \in WdPc
          /\ wd[s].runs \ {r} \in SUBSET Run
      BY <1>f, RowTypes DEF WdPc
    <3> QED
      BY <3>1, WatchdogUpdate
  <2>3. wd' \in [Scheduler -> WatchdogRecord]
    <3>1. CASE SomeAttempt(r, ActiveStatus)
      BY <1>7, <1>w, <2>1, <3>1 DEF MarkRunAnyActive
    <3>2. CASE ~SomeAttempt(r, ActiveStatus)
      <4>1. wd' = [wd EXCEPT ![s] = [IdleWatchdog EXCEPT !.pc = "anySuccess",
                                         !.runs = wd[s].runs \ {r}, !.curRun = r]]
        BY <1>7, <3>2 DEF MarkRunAnyActive
      <4> QED
        BY <4>1, <1>w, <2>2
    <3> QED
      BY <3>1, <3>2
  <2> QED
    BY <1>7, <1>a, <2>3 DEF MarkRunAnyActive, TypeOK
<1>8. CASE MarkRunAnySuccess(s)
  <2>1. \A p \in {"saveSuccess", "saveFailed"} : [wd[s] EXCEPT !.pc = p] \in WatchdogRecord
    BY <1>w, WatchdogUpdate DEF WdPc
  <2> QED
    BY <1>8, <1>a, <2>1 DEF MarkRunAnySuccess, TypeOK
<1>9. CASE MarkRunSave(s)
  <2>1. Remaining(wd[s].runs) \in WatchdogRecord
    BY <1>f, RemainingType
  <2> QED
    BY <1>9, <1>a, <2>1 DEF MarkRunSave, Saved, TypeOK, RunStatus
<1> QED
  BY <1>1, <1>2, <1>3, <1>4, <1>5, <1>6, <1>7, <1>8, <1>9 DEF WatchdogNext

LEMMA TypeFault ==
    TypeOK /\ (ProcessFaultNext \/ DatabaseFaultNext \/ \E w \in Worker : RestartWorker(w)) => TypeOK'
<1> SUFFICES ASSUME TypeOK, ProcessFaultNext \/ DatabaseFaultNext \/ \E w \in Worker : RestartWorker(w)
             PROVE  TypeOK'
  OBVIOUS
<1>f. Fault => faults' \in 0..MaxFaults
  BY ConstantsAssumption DEF Fault, TypeOK
<1>k. ASSUME NEW w, NEW pcs PROVE Killed(w, pcs) \in [Attempt -> [Claim -> ExecRecord]]
  BY KilledType DEF TypeOK
<1>1. ASSUME NEW w \in Worker, CrashWorker(w) PROVE TypeOK'
  BY <1>1, <1>f, <1>k DEF CrashWorker, TypeOK
<1>2. ASSUME NEW w \in Worker, ShutdownWorker(w) PROVE TypeOK'
  BY <1>2, <1>f, <1>k DEF ShutdownWorker, TypeOK
<1>3. ASSUME NEW s \in Scheduler, WatchdogFails(s) PROVE TypeOK'
  BY <1>3, <1>f, RowTypes DEF WatchdogFails, TypeOK
<1>4. ASSUME NEW w \in Worker, HeartbeatFails(w) PROVE TypeOK'
  BY <1>4, <1>f DEF HeartbeatFails, TypeOK
<1>5. ASSUME NEW a \in Attempt, NEW n \in Claim, SubmitFails(a, n) PROVE TypeOK'
  BY <1>5, <1>f, PcTypes, ExecPcUpdate DEF SubmitFails, TypeOK
<1>6. ASSUME NEW a \in Attempt, NEW n \in Claim, CallbackFails(a, n) PROVE TypeOK'
  BY <1>6, <1>f, PcTypes, ExecPcUpdate DEF CallbackFails, TypeOK
<1>7. ASSUME NEW w \in Worker, RestartWorker(w) PROVE TypeOK'
  BY <1>7, <1>f DEF RestartWorker, TypeOK
<1> QED
  BY <1>1, <1>2, <1>3, <1>4, <1>5, <1>6, <1>7 DEF ProcessFaultNext, DatabaseFaultNext

LEMMA TypeReset == TypeOK /\ (\E S \in SUBSET Attempt : ResetStuck(S)) => TypeOK'
<1> SUFFICES ASSUME TypeOK, NEW S \in SUBSET Attempt, ResetStuck(S) PROVE TypeOK'
  OBVIOUS
<1>0. Fault
  BY DEF ResetStuck
<1>f. faults' \in 0..MaxFaults
  BY <1>0, ConstantsAssumption DEF Fault, TypeOK
<1>1. attempt' \in [Attempt -> AttemptRow]
  BY RowUpdate DEF ResetStuck, TypeOK
<1> QED
  BY <1>f, <1>1 DEF ResetStuck, TypeOK

LEMMA TypeStep == TypeInv /\ [Next]_vars => TypeOK'
<1> SUFFICES ASSUME TypeInv, [Next]_vars PROVE TypeOK'
  OBVIOUS
<1>1. TypeOK
  BY DEF TypeInv
<1>2. CASE UNCHANGED vars
  BY <1>1, <1>2 DEF vars, TypeOK
<1> QED
  BY <1>1, <1>2, TypeCreate, TypeLoop, TypeExpires, TypeExec, TypeWatchdog, TypeFault, TypeReset
  DEF Next, NoResetNext, CoreNext

-----------------------------------------------------------------------------
(* Who writes what: the variables that each group of steps leaves alone,   *)
(* and from that the steps that write a given variable.                    *)

LEMMA CreateWrites ==
    ASSUME CreateNext
    PROVE  /\ UNCHANGED <<main, beat, exec, claims, wd, faults>>
           /\ \/ attempt' = attempt
              \/ \E r \in Run, a \in Attempt : CreateRunForJob(r, a) \/ TriggerAttempt(r, a)
           /\ \/ run' = run
              \/ \E r \in Run : TriggerRun(r) \/ \E a \in Attempt : CreateRunForJob(r, a)
           /\ \/ trigger' = trigger
              \/ \E r \in Run : TriggerRun(r) \/ \E a \in Attempt : TriggerAttempt(r, a)
<1>1. ASSUME NEW r \in Run, TriggerRun(r)
      PROVE  UNCHANGED <<attempt, main, beat, exec, claims, wd, faults>>
  BY <1>1 DEF TriggerRun
<1>2. ASSUME NEW r \in Run, NEW a \in Attempt, CreateRunForJob(r, a)
      PROVE  UNCHANGED <<trigger, main, beat, exec, claims, wd, faults>>
  BY <1>2 DEF CreateRunForJob
<1>3. ASSUME NEW r \in Run, NEW a \in Attempt, TriggerAttempt(r, a)
      PROVE  UNCHANGED <<run, main, beat, exec, claims, wd, faults>>
  BY <1>3 DEF TriggerAttempt
<1> QED
  BY <1>1, <1>2, <1>3 DEF CreateNext

LEMMA LoopWrites ==
    ASSUME NEW w \in Worker, LoopNext(w)
    PROVE  /\ UNCHANGED <<run, trigger, faults>>
           /\ attempt' = attempt \/ HeartbeatExtend(w) \/ \E a \in Attempt : ClaimAttempt(w, a)
           /\ claims' = claims \/ \E a \in Attempt : ClaimAttempt(w, a)
           /\ wd' = wd \/ \E S : wd' = RenewedFor(S)
<1>1. CASE HeartbeatStart(w)
  BY <1>1 DEF HeartbeatStart
<1>2. CASE HeartbeatExtend(w)
  BY <1>2 DEF HeartbeatExtend
<1>3. ASSUME NEW a \in Attempt, ClaimAttempt(w, a)
      PROVE  UNCHANGED <<run, trigger, faults>> /\ wd' = RenewedFor({a})
  BY <1>3 DEF ClaimAttempt
<1> QED
  BY <1>1, <1>2, <1>3 DEF LoopNext

LEMMA ExpiryWrites ==
    ASSUME NEW a \in Attempt, LeaseExpires(a)
    PROVE  UNCHANGED <<run, trigger, main, beat, exec, claims, wd, faults>>
  BY DEF LeaseExpires

LEMMA ExecWrites ==
    ASSUME NEW a \in Attempt, NEW n \in Claim, ExecNext(a, n) \/ HandlerNext(a, n)
    PROVE  /\ UNCHANGED <<trigger, beat, claims, wd, faults>>
           /\ attempt' = attempt \/ ReportAttempt(a, n)
           /\ run' = run \/ UpdateRunSave(a, n)
           /\ main' = main \/ SubmitJob(a, n)
<1>1. CASE SubmitJob(a, n)
  BY <1>1 DEF SubmitJob
<1>2. CASE StartHandler(a, n)
  BY <1>2 DEF StartHandler
<1>3. CASE HandlerNext(a, n)
  BY <1>3 DEF HandlerNext, HandlerReturns
<1>4. CASE ReportAttempt(a, n)
  BY <1>4 DEF ReportAttempt
<1>5. CASE UpdateRunAnySuccess(a, n) \/ UpdateRunAnyActive(a, n)
  BY <1>5 DEF UpdateRunAnySuccess, UpdateRunAnyActive
<1>6. CASE UpdateRunSave(a, n)
  BY <1>6 DEF UpdateRunSave
<1> QED
  BY <1>1, <1>2, <1>3, <1>4, <1>5, <1>6 DEF ExecNext

LEMMA WatchdogWrites ==
    ASSUME NEW s \in Scheduler, WatchdogNext(s)
    PROVE  /\ UNCHANGED <<trigger, main, beat, exec, claims, faults>>
           /\ attempt' = attempt \/ CommitExhausted(s) \/ \E b \in Attempt : CommitWithRetry(s, b)
           /\ run' = run \/ MarkRunSave(s)
<1>1. CASE FindExpiredLeases(s) \/ TimeOutAndCount(s) \/ ListOpenRuns(s) \/ MarkRunAnySuccess(s)
  BY <1>1 DEF FindExpiredLeases, TimeOutAndCount, ListOpenRuns, MarkRunAnySuccess
<1>2. ASSUME NEW a \in Attempt, RefreshExpired(s, a)
      PROVE  UNCHANGED <<run, attempt, trigger, main, beat, exec, claims, faults>>
  BY <1>2 DEF RefreshExpired
<1>3. ASSUME NEW r \in Run, MarkRunAnyActive(s, r)
      PROVE  UNCHANGED <<run, attempt, trigger, main, beat, exec, claims, faults>>
  BY <1>3 DEF MarkRunAnyActive
<1>4. ASSUME NEW a \in Attempt, CommitWithRetry(s, a)
      PROVE  UNCHANGED <<run, trigger, main, beat, exec, claims, faults>>
  BY <1>4 DEF CommitWithRetry
<1>5. CASE CommitExhausted(s)
  BY <1>5 DEF CommitExhausted
<1>6. CASE MarkRunSave(s)
  BY <1>6 DEF MarkRunSave
<1> QED
  BY <1>1, <1>2, <1>3, <1>4, <1>5, <1>6 DEF WatchdogNext

LEMMA FaultWrites ==
    ASSUME ProcessFaultNext \/ DatabaseFaultNext \/ \E w \in Worker : RestartWorker(w)
    PROVE  /\ UNCHANGED <<run, attempt, trigger, claims>>
           /\ wd' = wd \/ \E s \in Scheduler : WatchdogFails(s)
           /\ \/ main' = main
              \/ \E a \in Attempt, n \in Claim : SubmitFails(a, n)
              \/ \E w \in Worker : \/ CrashWorker(w) \/ ShutdownWorker(w)
                                   \/ HeartbeatFails(w) \/ RestartWorker(w)
<1>1. ASSUME NEW w \in Worker, CrashWorker(w) \/ ShutdownWorker(w)
      PROVE  UNCHANGED <<run, attempt, trigger, claims, wd>>
  BY <1>1 DEF CrashWorker, ShutdownWorker
<1>2. ASSUME NEW w \in Worker, HeartbeatFails(w) \/ RestartWorker(w)
      PROVE  UNCHANGED <<run, attempt, trigger, claims, wd>>
  BY <1>2 DEF HeartbeatFails, RestartWorker
<1>3. ASSUME NEW a \in Attempt, NEW n \in Claim, SubmitFails(a, n)
      PROVE  UNCHANGED <<run, attempt, trigger, claims, wd>>
  BY <1>3 DEF SubmitFails
<1>4. ASSUME NEW a \in Attempt, NEW n \in Claim, CallbackFails(a, n)
      PROVE  UNCHANGED <<run, attempt, trigger, claims, wd, main>>
  BY <1>4 DEF CallbackFails
<1>5. ASSUME NEW s \in Scheduler, WatchdogFails(s)
      PROVE  UNCHANGED <<run, attempt, trigger, claims, main>>
  BY <1>5 DEF WatchdogFails
<1> QED
  BY <1>1, <1>2, <1>3, <1>4, <1>5 DEF ProcessFaultNext, DatabaseFaultNext

LEMMA ResetWrites ==
    ASSUME NEW S, ResetStuck(S)
    PROVE  UNCHANGED <<run, trigger, main, beat, exec, claims, wd>>
  BY DEF ResetStuck

\* A watchdog's own record is changed by nobody else's cycle.
LEMMA OtherWatchdog ==
    ASSUME TypeOK, NEW s \in Scheduler, NEW t \in Scheduler, t # s,
           WatchdogNext(t) \/ WatchdogFails(t)
    PROVE  wd'[s] = wd[s]
<1>1. \E x : wd' = [wd EXCEPT ![t] = x]
  BY DEF WatchdogNext, WatchdogFails, FindExpiredLeases, RefreshExpired, TimeOutAndCount,
     CommitWithRetry, CommitExhausted, Handled, ListOpenRuns, MarkRunAnyActive,
     MarkRunAnySuccess, MarkRunSave
<1> QED
  BY <1>1 DEF TypeOK

\* The groups a step can be of.
LEMMA StepGroups ==
    ASSUME [Next]_vars
    PROVE  \/ UNCHANGED vars
           \/ CreateNext
           \/ \E w \in Worker : LoopNext(w)
           \/ \E a \in Attempt : LeaseExpires(a)
           \/ \E a \in Attempt, n \in Claim : ExecNext(a, n) \/ HandlerNext(a, n)
           \/ \E s \in Scheduler : WatchdogNext(s)
           \/ ProcessFaultNext \/ DatabaseFaultNext \/ \E w \in Worker : RestartWorker(w)
           \/ ~[NoResetNext]_vars /\ \E S \in SUBSET Attempt : ResetStuck(S)
  BY DEF Next, NoResetNext, CoreNext

\* The steps that write attempt rows.
LEMMA AttemptWriters ==
    ASSUME [Next]_vars
    PROVE  \/ attempt' = attempt
           \/ \E w \in Worker : HeartbeatExtend(w) \/ \E b \in Attempt : ClaimAttempt(w, b)
           \/ \E b \in Attempt : LeaseExpires(b) \/ \E n \in Claim : ReportAttempt(b, n)
           \/ \E s \in Scheduler : CommitExhausted(s) \/ \E b \in Attempt : CommitWithRetry(s, b)
           \/ \E r \in Run, b \in Attempt : CreateRunForJob(r, b) \/ TriggerAttempt(r, b)
           \/ ~[NoResetNext]_vars /\ \E S \in SUBSET Attempt : ResetStuck(S)
<1>1. CASE UNCHANGED vars
  BY <1>1 DEF vars
<1> QED
  BY <1>1, StepGroups, CreateWrites, LoopWrites, ExecWrites, WatchdogWrites, FaultWrites

\* The steps that write runs.
LEMMA RunWriters ==
    ASSUME [Next]_vars
    PROVE  \/ run' = run
           \/ \E q \in Run : TriggerRun(q) \/ \E a \in Attempt : CreateRunForJob(q, a)
           \/ \E a \in Attempt, n \in Claim : UpdateRunSave(a, n)
           \/ \E s \in Scheduler : MarkRunSave(s)
<1>1. CASE UNCHANGED vars
  BY <1>1 DEF vars
<1> QED
  BY <1>1, StepGroups, CreateWrites, LoopWrites, ExpiryWrites, ExecWrites, WatchdogWrites,
     FaultWrites, ResetWrites

\* The steps that open or close a trigger request.
LEMMA TriggerWriters ==
    ASSUME [Next]_vars
    PROVE  \/ trigger' = trigger
           \/ \E r \in Run : TriggerRun(r) \/ \E a \in Attempt : TriggerAttempt(r, a)
<1>1. CASE UNCHANGED vars
  BY <1>1 DEF vars
<1> QED
  BY <1>1, StepGroups, CreateWrites, LoopWrites, ExpiryWrites, ExecWrites, WatchdogWrites,
     FaultWrites, ResetWrites

\* Only a claim counts a claim.
LEMMA ClaimsWriters ==
    ASSUME [Next]_vars
    PROVE  claims' = claims \/ \E w \in Worker, b \in Attempt : ClaimAttempt(w, b)
<1>1. CASE UNCHANGED vars
  BY <1>1 DEF vars
<1> QED
  BY <1>1, StepGroups, CreateWrites, LoopWrites, ExpiryWrites, ExecWrites, WatchdogWrites,
     FaultWrites, ResetWrites

\* The steps that change what a watchdog holds.
LEMMA WatchdogWriters ==
    ASSUME [Next]_vars
    PROVE  \/ wd' = wd
           \/ \E S : wd' = RenewedFor(S)
           \/ \E s \in Scheduler : WatchdogNext(s) \/ WatchdogFails(s)
<1>1. CASE UNCHANGED vars
  BY <1>1 DEF vars
<1> QED
  BY <1>1, StepGroups, CreateWrites, LoopWrites, ExpiryWrites, ExecWrites, FaultWrites, ResetWrites

\* The steps that move a worker's main loop.
LEMMA MainWriters ==
    ASSUME [Next]_vars
    PROVE  \/ main' = main
           \/ \E b \in Attempt, m \in Claim : SubmitJob(b, m) \/ SubmitFails(b, m)
           \/ \E v \in Worker : CrashWorker(v) \/ ShutdownWorker(v)
           \/ \E v \in Worker : \/ HeartbeatStart(v) \/ HeartbeatExtend(v) \/ HeartbeatFails(v)
                                \/ RestartWorker(v) \/ \E b \in Attempt : ClaimAttempt(v, b)
<1>1. CASE UNCHANGED vars
  BY <1>1 DEF vars
<1>2. CASE \E w \in Worker : LoopNext(w)
  BY <1>2 DEF LoopNext
<1> QED
  BY <1>1, <1>2, StepGroups, CreateWrites, ExpiryWrites, ExecWrites, WatchdogWrites,
     FaultWrites, ResetWrites

-----------------------------------------------------------------------------
(* How rows and executions may change.  No step takes a row away, moves it *)
(* to another run, renumbers it or makes a finished attempt active again,  *)
(* and only three steps add a row.                                         *)

RowKept(a) ==
    /\ attempt'[a].run = attempt[a].run
    /\ attempt'[a].number = attempt[a].number
    /\ Free(a)' <=> Free(a)
    /\ Active(a)' => Active(a)

RowsKept == \A a \in Attempt : RowKept(a)

Adds(r, a, k) ==
    /\ Free(a)
    /\ attempt'[a] = NewAttempt(r, k)
    /\ \A b \in Attempt \ {a} : RowKept(b)

AddsRow ==
    \/ \E r \in Run, a \in Attempt : CreateRunForJob(r, a) \/ TriggerAttempt(r, a)
    \/ \E s \in Scheduler, b \in Attempt : CommitWithRetry(s, b)

USE DEF RowKept, RowsKept

LEMMA RowsUnchanged == ASSUME attempt' = attempt PROVE RowsKept
  BY DEF Free, Active

LEMMA RowsStep == TypeInv /\ [Next]_vars => RowsKept \/ AddsRow
<1> SUFFICES ASSUME TypeInv, [Next]_vars, ~AddsRow PROVE RowsKept
  OBVIOUS
<1>t. attempt \in [Attempt -> AttemptRow]
  BY DEF TypeInv, TypeOK
<1>1. ASSUME NEW w \in Worker, HeartbeatExtend(w) PROVE RowsKept
  BY <1>t, <1>1 DEF HeartbeatExtend, Free, Active, AttemptRow
<1>2. ASSUME NEW w \in Worker, NEW a \in Attempt, ClaimAttempt(w, a) PROVE RowsKept
  BY <1>t, <1>2 DEF ClaimAttempt, Claimable, Free, Active, ActiveStatus, AttemptRow
<1>3. ASSUME NEW a \in Attempt, LeaseExpires(a) PROVE RowsKept
  BY <1>t, <1>3 DEF LeaseExpires, Free, Active, AttemptRow
<1>4. ASSUME NEW a \in Attempt, NEW n \in Claim, ReportAttempt(a, n) PROVE RowsKept
  <2>1. exec[a][n].result \in {"SUCCESS", "FAILED"} /\ ~Free(a)
    <3>1. exec[a][n] \in ExecRecord
      BY DEF TypeInv, TypeOK
    <3>2. exec[a][n].result \in {"none", "SUCCESS", "FAILED"}
      BY <3>1 DEF ExecRecord
    <3> QED
      BY <1>4, <3>2 DEF ReportAttempt, TypeInv, PointersValid, CallbackPc
  <2> QED
    BY <1>t, <1>4, <2>1 DEF ReportAttempt, Free, Active, ActiveStatus, AttemptRow
<1>5. ASSUME NEW s \in Scheduler, CommitExhausted(s) PROVE RowsKept
  <2>1. wd[s].cur \in Attempt /\ ~Free(wd[s].cur)
    BY <1>5 DEF CommitExhausted, TypeInv, PointersValid, TimingOut
  <2> QED
    BY <1>t, <1>5, <2>1 DEF CommitExhausted, TimedOut, Free, Active, ActiveStatus, AttemptRow
<1>6. ASSUME NEW S \in SUBSET Attempt, ResetStuck(S) PROVE RowsKept
  BY <1>t, <1>6 DEF ResetStuck, StuckAttempts, Free, Active, ActiveStatus, AttemptRow
<1>7. \/ attempt' = attempt
      \/ \E w \in Worker : HeartbeatExtend(w) \/ \E a \in Attempt : ClaimAttempt(w, a)
      \/ \E a \in Attempt : LeaseExpires(a) \/ \E n \in Claim : ReportAttempt(a, n)
      \/ \E s \in Scheduler : CommitExhausted(s)
      \/ \E S \in SUBSET Attempt : ResetStuck(S)
  BY AttemptWriters DEF AddsRow
<1> QED
  BY <1>1, <1>2, <1>3, <1>4, <1>5, <1>6, <1>7, RowsUnchanged

\* What a watchdog commits with a retry: the row it has timed out, and a new
\* row of the same run.
LEMMA CommitAdds ==
    ASSUME TypeInv, NEW s \in Scheduler, NEW b \in Attempt, CommitWithRetry(s, b)
    PROVE  \E a \in Attempt, r \in Run, k \in Nat :
             /\ a = wd[s].cur /\ r = attempt[a].run /\ k = wd[s].total + 1
             /\ ~Free(a) /\ a # b /\ ~Active(a)'
             /\ attempt' = [attempt EXCEPT ![a] = TimedOut(a), ![b] = NewAttempt(r, k)]
             /\ \A c \in Attempt \ {a, b} : attempt'[c] = attempt[c]
             /\ Adds(r, b, k)
<1>t. attempt \in [Attempt -> AttemptRow]
  BY DEF TypeInv, TypeOK
<1>1. PICK a \in Attempt : a = wd[s].cur /\ ~Free(a)
  BY DEF CommitWithRetry, TypeInv, PointersValid, TimingOut
<1>2. PICK r \in Run : r = attempt[a].run
  BY <1>1, <1>t DEF TypeInv, RowsHaveRuns, AttemptRow
<1>3. PICK k \in Nat : k = wd[s].total + 1
  <2>1. wd[s] \in WatchdogRecord
    BY DEF TypeInv, TypeOK
  <2> QED
    BY <2>1, WatchdogFields
<1>4. Free(b) /\ a # b
  BY <1>1 DEF CommitWithRetry, NextRow
<1>5. attempt' = [attempt EXCEPT ![a] = TimedOut(a), ![b] = NewAttempt(r, k)]
  BY <1>1, <1>2, <1>3 DEF CommitWithRetry
<1>6. /\ attempt'[a] = TimedOut(a) /\ attempt'[b] = NewAttempt(r, k)
      /\ \A c \in Attempt \ {a, b} : attempt'[c] = attempt[c]
  BY <1>t, <1>4, <1>5
<1>7. RowKept(a) /\ ~Active(a)'
  BY <1>t, <1>1, <1>6 DEF TimedOut, Free, Active, ActiveStatus, AttemptRow
<1>8. \A c \in Attempt \ {b} : c # a => RowKept(c)
  BY <1>6 DEF Free, Active
<1>9. Adds(r, b, k)
  BY <1>4, <1>6, <1>7, <1>8 DEF Adds
<1> QED
  BY <1>1, <1>2, <1>3, <1>4, <1>5, <1>6, <1>7, <1>9

LEMMA CreateAdds ==
    ASSUME TypeInv, NEW r \in Run, NEW a \in Attempt, CreateRunForJob(r, a) \/ TriggerAttempt(r, a)
    PROVE  Adds(r, a, 1)
  BY DEF CreateRunForJob, TriggerAttempt, NextRow, Adds, Free, Active, TypeInv, TypeOK

LEMMA AddsStep ==
    ASSUME TypeInv, AddsRow
    PROVE  \E r \in Run, a \in Attempt, k \in Nat : Adds(r, a, k)
<1>1. ASSUME NEW r \in Run, NEW a \in Attempt, CreateRunForJob(r, a) \/ TriggerAttempt(r, a)
      PROVE  Adds(r, a, 1)
  BY <1>1, CreateAdds
<1>2. ASSUME NEW s \in Scheduler, NEW b \in Attempt, CommitWithRetry(s, b)
      PROVE  \E r \in Run, k \in Nat : Adds(r, b, k)
  BY <1>2, CommitAdds
<1> QED
  BY <1>1, <1>2 DEF AddsRow

LEMMA RowsHaveRunsStep ==
    ASSUME TypeInv, [Next]_vars
    PROVE  RowsHaveRuns' /\ \A a \in Attempt : ~Free(a) => ~Free(a)'
<1>1. CASE RowsKept
  BY <1>1 DEF TypeInv, RowsHaveRuns
<1>2. ASSUME NEW r \in Run, NEW a \in Attempt, NEW k \in Nat, Adds(r, a, k)
      PROVE  RowsHaveRuns' /\ \A b \in Attempt : ~Free(b) => ~Free(b)'
  <2>1. ~Free(a)' /\ attempt'[a].run # None
    BY <1>2, RowTypes, ConstantsAssumption DEF Adds, Free
  <2> QED
    BY <1>2, <2>1 DEF Adds, TypeInv, RowsHaveRuns
<1> QED
  BY <1>1, <1>2, RowsStep, AddsStep

WatchdogPointer(s) ==
    /\ wd[s].pc \in TimingOut => wd[s].cur \in Attempt /\ ~Free(wd[s].cur)
    /\ wd[s].pc \in MarkingRun => wd[s].curRun \in Run
    /\ \A a \in wd[s].todo : ~Free(a)

ExecPointer(a, n) ==
    /\ exec[a][n].pc # "none" => ~Free(a)
    /\ exec[a][n].pc \in CallbackPc => exec[a][n].result # "none"

LEMMA PointersSplit ==
    PointersValid <=> /\ \A s \in Scheduler : WatchdogPointer(s)
                      /\ \A a \in Attempt, n \in Claim : ExecPointer(a, n)
  BY DEF PointersValid, WatchdogPointer, ExecPointer

LEMMA WatchdogPointerStep ==
    ASSUME TypeInv, [Next]_vars, NEW s \in Scheduler
    PROVE  WatchdogPointer(s)'
<1>t. wd \in [Scheduler -> WatchdogRecord] /\ wd[s] \in WatchdogRecord
  BY DEF TypeInv, TypeOK
<1>p. WatchdogPointer(s)
  BY PointersSplit DEF TypeInv
<1>f. \A a \in Attempt : ~Free(a) => ~Free(a)'
  BY RowsHaveRunsStep
<1>i. ASSUME wd'[s] = IdleWatchdog PROVE WatchdogPointer(s)'
  BY <1>i DEF WatchdogPointer, IdleWatchdog, TimingOut, MarkingRun
<1>r. ASSUME NEW rs, wd'[s] = Remaining(rs) PROVE WatchdogPointer(s)'
  BY <1>r DEF WatchdogPointer, Remaining, IdleWatchdog, TimingOut, MarkingRun
<1>d. wd[s].todo \subseteq Attempt
  BY <1>t, WatchdogFields
<1>0. CASE wd'[s] = wd[s]
  BY <1>0, <1>p, <1>f, <1>d DEF WatchdogPointer
<1>1. ASSUME NEW S, wd' = RenewedFor(S) PROVE WatchdogPointer(s)'
  <2>1. wd'[s] = [wd[s] EXCEPT !.todo = @ \ S]
    BY <1>1 DEF RenewedFor
  <2>2. wd'[s].pc = wd[s].pc /\ wd'[s].cur = wd[s].cur /\ wd'[s].curRun = wd[s].curRun
        /\ wd'[s].todo \subseteq wd[s].todo
    BY <1>t, <2>1 DEF WatchdogRecord
  <2> QED
    BY <1>p, <1>f, <1>d, <2>2 DEF WatchdogPointer
<1>2. CASE WatchdogFails(s)
  BY <1>2, <1>t, <1>i DEF WatchdogFails
<1>3. CASE FindExpiredLeases(s)
  <2>1. wd'[s] = [wd[s] EXCEPT !.pc = "handle", !.todo = Expired]
    BY <1>3, <1>t DEF FindExpiredLeases
  <2>2. wd'[s].pc = "handle" /\ wd'[s].todo = Expired
    BY <1>t, <2>1 DEF WatchdogRecord
  <2>3. \A a \in Expired : a \in Attempt /\ ~Free(a)
    BY DEF Expired, Free
  <2> QED
    BY <1>f, <2>2, <2>3 DEF WatchdogPointer, TimingOut, MarkingRun
<1>4. ASSUME NEW a \in Attempt, RefreshExpired(s, a) PROVE WatchdogPointer(s)'
  <2> DEFINE running == attempt[a].status = "RUNNING"
  <2>1. wd'[s] = [wd[s] EXCEPT !.todo = @ \ {a}, !.pc = IF running THEN "timeout" ELSE "handle",
                               !.cur = IF running THEN a ELSE None]
    BY <1>4, <1>t DEF RefreshExpired
  <2>2. /\ wd'[s].todo \subseteq wd[s].todo
        /\ wd'[s].pc = IF running THEN "timeout" ELSE "handle"
        /\ wd'[s].cur = IF running THEN a ELSE None
    BY <1>t, <2>1 DEF WatchdogRecord
  <2>3. running => ~Free(a)
    BY DEF Free
  <2> QED
    BY <1>p, <1>f, <1>d, <2>2, <2>3 DEF WatchdogPointer, TimingOut, MarkingRun
<1>5. CASE TimeOutAndCount(s)
  <2>1. wd'[s] = [wd[s] EXCEPT !.pc = "commit",
                               !.total = Cardinality(AttemptsOf(attempt[wd[s].cur].run))]
    BY <1>5, <1>t DEF TimeOutAndCount
  <2>2. wd'[s].pc = "commit" /\ wd'[s].cur = wd[s].cur /\ wd'[s].todo = wd[s].todo
    BY <1>t, <2>1 DEF WatchdogRecord
  <2>3. wd[s].cur \in Attempt /\ ~Free(wd[s].cur)
    BY <1>5, <1>p DEF TimeOutAndCount, WatchdogPointer, TimingOut
  <2> QED
    BY <1>p, <1>f, <1>d, <2>2, <2>3 DEF WatchdogPointer, TimingOut, MarkingRun
<1>6. ASSUME wd' = Handled(s) PROVE WatchdogPointer(s)'
  <2>1. wd'[s] = [wd[s] EXCEPT !.pc = "handle", !.cur = None, !.total = 0]
    BY <1>6, <1>t DEF Handled
  <2>2. wd'[s].pc = "handle" /\ wd'[s].todo = wd[s].todo
    BY <1>t, <2>1 DEF WatchdogRecord
  <2> QED
    BY <1>p, <1>f, <1>d, <2>2 DEF WatchdogPointer, TimingOut, MarkingRun
<1>7. CASE ListOpenRuns(s)
  BY <1>7, <1>t, <1>r DEF ListOpenRuns
<1>8. ASSUME NEW r \in Run, MarkRunAnyActive(s, r) PROVE WatchdogPointer(s)'
  <2>1. CASE SomeAttempt(r, ActiveStatus)
    BY <1>8, <1>t, <1>r, <2>1 DEF MarkRunAnyActive
  <2>2. CASE ~SomeAttempt(r, ActiveStatus)
    <3>1. wd'[s] = [IdleWatchdog EXCEPT !.pc = "anySuccess", !.runs = wd[s].runs \ {r},
                                        !.curRun = r]
      BY <1>8, <1>t, <2>2 DEF MarkRunAnyActive
    <3>2. wd'[s].pc = "anySuccess" /\ wd'[s].curRun = r /\ wd'[s].todo = {}
      BY <3>1 DEF IdleWatchdog
    <3> QED
      BY <3>2 DEF WatchdogPointer, TimingOut
  <2> QED
    BY <2>1, <2>2
<1>9. CASE MarkRunAnySuccess(s)
  <2>1. \E p \in {"saveSuccess", "saveFailed"} : wd'[s] = [wd[s] EXCEPT !.pc = p]
    BY <1>9, <1>t DEF MarkRunAnySuccess
  <2>2. wd'[s].pc \in MarkingRun /\ wd'[s].pc \notin TimingOut
        /\ wd'[s].curRun = wd[s].curRun /\ wd'[s].todo = wd[s].todo
    BY <1>t, <2>1 DEF WatchdogRecord, MarkingRun, TimingOut
  <2>3. wd[s].curRun \in Run
    BY <1>9, <1>p DEF MarkRunAnySuccess, WatchdogPointer, MarkingRun
  <2> QED
    BY <1>p, <1>f, <1>d, <2>2, <2>3 DEF WatchdogPointer
<1>10. CASE MarkRunSave(s)
  BY <1>10, <1>t, <1>r DEF MarkRunSave
<1>11. ASSUME NEW t \in Scheduler, WatchdogNext(t) \/ WatchdogFails(t), t # s
       PROVE  wd'[s] = wd[s]
  BY <1>11, OtherWatchdog DEF TypeInv
<1>12. CASE WatchdogNext(s)
  BY <1>12, <1>3, <1>4, <1>5, <1>6, <1>7, <1>8, <1>9, <1>10 DEF WatchdogNext, CommitWithRetry,
     CommitExhausted
<1>14. \/ wd' = wd
       \/ \E S : wd' = RenewedFor(S)
       \/ \E t \in Scheduler : WatchdogNext(t) \/ WatchdogFails(t)
  BY WatchdogWriters
<1> QED
  BY <1>0, <1>1, <1>2, <1>11, <1>12, <1>14

LEMMA ExecPointerStep ==
    ASSUME TypeInv, [Next]_vars, NEW a \in Attempt, NEW n \in Claim
    PROVE  ExecPointer(a, n)'
<1>t. exec \in [Attempt -> [Claim -> ExecRecord]] /\ exec[a] \in [Claim -> ExecRecord]
      /\ exec[a][n] \in ExecRecord
  BY DEF TypeInv, TypeOK
<1>p. ExecPointer(a, n)
  BY PointersSplit DEF TypeInv
<1>f. ~Free(a) => ~Free(a)'
  BY RowsHaveRunsStep
<1>0. CASE exec'[a][n] = exec[a][n]
  BY <1>0, <1>p, <1>f DEF ExecPointer
<1>1. ASSUME NEW p \in ExecPc, exec'[a][n] = [exec[a][n] EXCEPT !.pc = p],
             p \in CallbackPc => exec[a][n].pc \in CallbackPc, exec[a][n].pc # "none"
      PROVE  ExecPointer(a, n)'
  <2>1. exec'[a][n].pc = p /\ exec'[a][n].result = exec[a][n].result
    BY <1>t, <1>1 DEF ExecRecord
  <2> QED
    BY <1>1, <1>p, <1>f, <2>1 DEF ExecPointer
<1>2. ASSUME NEW w, NEW pcs \in SUBSET LivePc, exec' = Killed(w, pcs) PROVE ExecPointer(a, n)'
  <2>1. CASE exec[a][n].worker = w /\ exec[a][n].pc \in pcs
    <3>1. exec'[a][n] = [exec[a][n] EXCEPT !.pc = "lost"]
      BY <1>2, <2>1 DEF Killed
    <3>2. exec[a][n].pc # "none"
      BY <2>1 DEF LivePc, QueuedPc, CallbackPc
    <3> QED
      BY <1>1, <3>1, <3>2, PcTypes DEF CallbackPc
  <2>2. CASE ~(exec[a][n].worker = w /\ exec[a][n].pc \in pcs)
    BY <1>0, <1>2, <2>2 DEF Killed
  <2> QED
    BY <2>1, <2>2
<1>3. ASSUME NEW w \in Worker, NEW b \in Attempt, ClaimAttempt(w, b) PROVE ExecPointer(a, n)'
  <2> DEFINE e == [worker |-> w, token |-> attempt[b].token + 1, pc |-> "claimed", result |-> "none"]
  <2>1. CASE b = a /\ claims[b] + 1 = n
    <3>1. exec' = [exec EXCEPT ![b][claims[b] + 1] = e]
      BY <1>3 DEF ClaimAttempt
    <3>2. exec'[a][n] = e
      BY <1>t, <2>1, <3>1
    <3>3. ~Free(a)
      BY <1>3, <2>1 DEF ClaimAttempt, Claimable, Free
    <3> QED
      BY <1>f, <3>2, <3>3 DEF ExecPointer, CallbackPc
  <2>2. CASE ~(b = a /\ claims[b] + 1 = n)
    <3>1. exec' = [exec EXCEPT ![b][claims[b] + 1] = e]
      BY <1>3 DEF ClaimAttempt
    <3>2. exec'[a][n] = exec[a][n]
      BY <1>t, <2>2, <3>1
    <3> QED
      BY <1>0, <3>2
  <2> QED
    BY <2>1, <2>2
<1>4. ASSUME NEW b \in Attempt, NEW m \in Claim,
             \/ ExecNext(b, m) \/ HandlerNext(b, m) \/ SubmitFails(b, m) \/ CallbackFails(b, m),
             <<b, m>> # <<a, n>>
      PROVE  exec'[a][n] = exec[a][n]
  <2>1. \E e : exec' = [exec EXCEPT ![b][m] = e]
    BY <1>4 DEF ExecNext, HandlerNext, SubmitFails, CallbackFails, SubmitJob, StartHandler,
       HandlerReturns, ReportAttempt, UpdateRunAnySuccess, UpdateRunAnyActive, UpdateRunSave
  <2> QED
    BY <1>4, <1>t, <2>1
<1>5. ASSUME NEW outcome \in {"SUCCESS", "FAILED"}, HandlerReturns(a, n, outcome)
      PROVE  ExecPointer(a, n)'
  <2>1. exec'[a][n] = [exec[a][n] EXCEPT !.pc = "returned", !.result = outcome]
    BY <1>5, <1>t DEF HandlerReturns
  <2>2. exec'[a][n].result = outcome
    BY <1>t, <2>1 DEF ExecRecord
  <2> QED
    BY <1>5, <1>p, <1>f, <2>2 DEF ExecPointer, HandlerReturns
<1>6. ASSUME ExecNext(a, n) \/ SubmitFails(a, n) \/ CallbackFails(a, n)
      PROVE  ExecPointer(a, n)'
  <2>1. \E p \in ExecPc : /\ exec'[a][n] = [exec[a][n] EXCEPT !.pc = p]
                          /\ p \in CallbackPc => exec[a][n].pc \in CallbackPc
                          /\ exec[a][n].pc # "none"
    <3>1. CASE SubmitJob(a, n)
      BY <1>t, <3>1, PcTypes DEF SubmitJob, CallbackPc
    <3>2. CASE StartHandler(a, n)
      BY <1>t, <3>2, PcTypes DEF StartHandler, CallbackPc
    <3>3. CASE ReportAttempt(a, n)
      BY <1>t, <3>3, PcTypes DEF ReportAttempt, CallbackPc
    <3>4. CASE UpdateRunAnySuccess(a, n)
      BY <1>t, <3>4, PcTypes DEF UpdateRunAnySuccess, CallbackPc
    <3>5. CASE UpdateRunAnyActive(a, n)
      BY <1>t, <3>5, PcTypes DEF UpdateRunAnyActive, CallbackPc
    <3>6. CASE UpdateRunSave(a, n)
      BY <1>t, <3>6, PcTypes DEF UpdateRunSave, CallbackPc
    <3>7. CASE SubmitFails(a, n)
      BY <1>t, <3>7, PcTypes DEF SubmitFails, CallbackPc
    <3>8. CASE CallbackFails(a, n)
      BY <1>t, <3>8, PcTypes DEF CallbackFails, CallbackPc
    <3> QED
      BY <1>6, <3>1, <3>2, <3>3, <3>4, <3>5, <3>6, <3>7, <3>8 DEF ExecNext
  <2> QED
    BY <1>1, <2>1
<1>7. ASSUME NEW w \in Worker, CrashWorker(w) PROVE ExecPointer(a, n)'
  BY <1>2, <1>7 DEF CrashWorker
<1>8. ASSUME NEW w \in Worker, ShutdownWorker(w) PROVE ExecPointer(a, n)'
  <2>1. {"claimed"} \in SUBSET LivePc
    BY DEF LivePc
  <2> QED
    BY <1>2, <1>8, <2>1 DEF ShutdownWorker
<1>9. \/ exec' = exec
      \/ \E w \in Worker : CrashWorker(w) \/ ShutdownWorker(w)
      \/ \E w \in Worker, b \in Attempt : ClaimAttempt(w, b)
      \/ \E b \in Attempt, m \in Claim :
            \/ ExecNext(b, m) \/ HandlerNext(b, m) \/ SubmitFails(b, m) \/ CallbackFails(b, m)
  BY DEF vars, Next, NoResetNext, CoreNext, CreateNext, CreateRunForJob, TriggerRun, TriggerAttempt,
     LoopNext, HeartbeatStart, HeartbeatExtend, LeaseExpires, WatchdogNext, FindExpiredLeases,
     RefreshExpired, TimeOutAndCount, CommitWithRetry, CommitExhausted, ListOpenRuns,
     MarkRunAnyActive, MarkRunAnySuccess, MarkRunSave, ProcessFaultNext, WatchdogFails,
     DatabaseFaultNext, HeartbeatFails, RestartWorker, ResetStuck
<1> QED
  BY <1>0, <1>3, <1>4, <1>5, <1>6, <1>7, <1>8, <1>9 DEF HandlerNext

LEMMA TypeInvStep == TypeInv /\ [Next]_vars => TypeInv'
<1> SUFFICES ASSUME TypeInv, [Next]_vars PROVE TypeInv'
  OBVIOUS
<1>1. \A s \in Scheduler : WatchdogPointer(s)'
  BY WatchdogPointerStep
<1>2. \A a \in Attempt, n \in Claim : ExecPointer(a, n)'
  BY ExecPointerStep
<1>3. PointersValid'
  BY <1>1, <1>2 DEF PointersValid, WatchdogPointer, ExecPointer
<1> QED
  BY <1>3, TypeStep, RowsHaveRunsStep DEF TypeInv

\* Where a watchdog that is timing an attempt out has come from.
LEMMA TimingOutStep ==
    ASSUME TypeInv, [Next]_vars, NEW s \in Scheduler, wd'[s].pc \in TimingOut
    PROVE  \/ /\ wd[s].pc = wd'[s].pc /\ wd[s].cur = wd'[s].cur /\ wd[s].total = wd'[s].total
              /\ \A b \in Attempt : ~CommitWithRetry(s, b)
           \/ \E a \in Attempt : RefreshExpired(s, a) /\ attempt[a].status = "RUNNING"
                                 /\ wd'[s].pc = "timeout" /\ wd'[s].cur = a
           \/ TimeOutAndCount(s) /\ wd'[s].cur = wd[s].cur
              /\ wd'[s].total = Cardinality(AttemptsOf(attempt[wd[s].cur].run))
<1>t. wd \in [Scheduler -> WatchdogRecord] /\ wd[s] \in WatchdogRecord
  BY DEF TypeInv, TypeOK
<1>i. wd'[s] # IdleWatchdog /\ \A rs : wd'[s] # Remaining(rs)
  <2>1. IdleWatchdog.pc \notin TimingOut
    BY DEF IdleWatchdog, TimingOut
  <2>2. ASSUME NEW rs PROVE Remaining(rs).pc \notin TimingOut
    BY DEF Remaining, IdleWatchdog, TimingOut
  <2> QED
    BY <2>1, <2>2
<1>h. ASSUME wd' = Handled(s) PROVE FALSE
  <2>1. wd'[s] = [wd[s] EXCEPT !.pc = "handle", !.cur = None, !.total = 0]
    BY <1>h, <1>t DEF Handled
  <2>2. wd'[s].pc = "handle"
    BY <1>t, <2>1 DEF WatchdogRecord
  <2> QED
    BY <2>2 DEF TimingOut
<1>c. \A b \in Attempt : ~CommitWithRetry(s, b)
  BY <1>h DEF CommitWithRetry
<1>0. CASE wd'[s] = wd[s]
  BY <1>0, <1>c
<1>1. ASSUME NEW S, wd' = RenewedFor(S)
      PROVE  wd[s].pc = wd'[s].pc /\ wd[s].cur = wd'[s].cur /\ wd[s].total = wd'[s].total
  <2>1. wd'[s] = [wd[s] EXCEPT !.todo = @ \ S]
    BY <1>1 DEF RenewedFor
  <2> QED
    BY <1>t, <2>1 DEF WatchdogRecord
<1>2. ASSUME NEW a \in Attempt, RefreshExpired(s, a)
      PROVE  attempt[a].status = "RUNNING" /\ wd'[s].pc = "timeout" /\ wd'[s].cur = a
  <2> DEFINE running == attempt[a].status = "RUNNING"
  <2>1. wd'[s] = [wd[s] EXCEPT !.todo = @ \ {a}, !.pc = IF running THEN "timeout" ELSE "handle",
                               !.cur = IF running THEN a ELSE None]
    BY <1>2, <1>t DEF RefreshExpired
  <2>2. /\ wd'[s].pc = IF running THEN "timeout" ELSE "handle"
        /\ wd'[s].cur = IF running THEN a ELSE None
    BY <1>t, <2>1 DEF WatchdogRecord
  <2> QED
    BY <2>2 DEF TimingOut
<1>3. ASSUME TimeOutAndCount(s)
      PROVE  /\ wd'[s].cur = wd[s].cur
             /\ wd'[s].total = Cardinality(AttemptsOf(attempt[wd[s].cur].run))
  <2>1. wd'[s] = [wd[s] EXCEPT !.pc = "commit",
                               !.total = Cardinality(AttemptsOf(attempt[wd[s].cur].run))]
    BY <1>3, <1>t DEF TimeOutAndCount
  <2> QED
    BY <1>t, <2>1 DEF WatchdogRecord
<1>4. ~FindExpiredLeases(s)
  <2> SUFFICES ASSUME FindExpiredLeases(s) PROVE FALSE
    OBVIOUS
  <2>1. wd'[s] = [wd[s] EXCEPT !.pc = "handle", !.todo = Expired]
    BY <1>t DEF FindExpiredLeases
  <2>2. wd'[s].pc = "handle"
    BY <1>t, <2>1 DEF WatchdogRecord
  <2> QED
    BY <2>2 DEF TimingOut
<1>5. ~ListOpenRuns(s) /\ ~MarkRunSave(s) /\ ~WatchdogFails(s)
  BY <1>t, <1>i DEF ListOpenRuns, MarkRunSave, WatchdogFails
<1>6. ASSUME NEW r \in Run, MarkRunAnyActive(s, r) PROVE FALSE
  <2>1. CASE SomeAttempt(r, ActiveStatus)
    BY <1>6, <1>t, <1>i, <2>1 DEF MarkRunAnyActive
  <2>2. CASE ~SomeAttempt(r, ActiveStatus)
    <3>1. wd'[s] = [IdleWatchdog EXCEPT !.pc = "anySuccess", !.runs = wd[s].runs \ {r},
                                        !.curRun = r]
      BY <1>6, <1>t, <2>2 DEF MarkRunAnyActive
    <3>2. wd'[s].pc = "anySuccess"
      BY <3>1 DEF IdleWatchdog
    <3> QED
      BY <3>2 DEF TimingOut
  <2> QED
    BY <2>1, <2>2
<1>7. ~MarkRunAnySuccess(s)
  <2> SUFFICES ASSUME MarkRunAnySuccess(s) PROVE FALSE
    OBVIOUS
  <2>1. \E p \in {"saveSuccess", "saveFailed"} : wd'[s] = [wd[s] EXCEPT !.pc = p]
    BY <1>t DEF MarkRunAnySuccess
  <2>2. wd'[s].pc \notin TimingOut
    BY <1>t, <2>1 DEF WatchdogRecord, TimingOut
  <2> QED
    BY <2>2
<1>8. \/ wd' = wd
      \/ \E S : wd' = RenewedFor(S)
      \/ \E t \in Scheduler : WatchdogNext(t) \/ WatchdogFails(t)
  BY WatchdogWriters
<1>10. CASE WatchdogNext(s)
  BY <1>10, <1>c, <1>h, <1>2, <1>3, <1>4, <1>5, <1>6, <1>7 DEF WatchdogNext, CommitExhausted
<1>11. ASSUME NEW t \in Scheduler, WatchdogNext(t) \/ WatchdogFails(t), t # s
       PROVE  wd'[s] = wd[s]
  BY <1>11, OtherWatchdog DEF TypeInv
<1> QED
  BY <1>0, <1>1, <1>5, <1>8, <1>10, <1>11, <1>c

\* The values of every table and process variable stay well formed: all the
\* statuses, pointers and counters the code writes are ones it can read back.
THEOREM TypeCorrect == Spec => []TypeOK
<1>1. Spec => []TypeInv
  BY TypeInit, TypeInvStep, PTL DEF Spec
<1>2. TypeInv => TypeOK
  BY DEF TypeInv
<1> QED
  BY <1>1, <1>2, PTL
=============================================================================
