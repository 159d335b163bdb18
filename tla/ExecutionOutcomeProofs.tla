----------------------- MODULE ExecutionOutcomeProofs -----------------------
(* Theorems about what claims and outcomes of Execution mean, for every     *)
(* number of runs, workers, schedulers, claims and faults: without resets a *)
(* row is claimed once, the attempts are a queue, and SUCCESS is never       *)
(* written without a success.                                               *)
EXTENDS ExecutionTypeProofs

-----------------------------------------------------------------------------
(* Rows are claimed once *)

Unclaimed(a) == attempt[a].status \in {"none", "QUEUED"}

ClaimInv ==
    /\ TypeInv
    /\ \A a \in Attempt : Unclaimed(a) => claims[a] = 0
    /\ ClaimedOnce

LEMMA NoResetIsNext == [NoResetNext]_vars => [Next]_vars
  BY DEF Next

\* The steps that write attempt rows.
LEMMA RowWriters ==
    ASSUME [NoResetNext]_vars
    PROVE  \/ attempt' = attempt
           \/ \E w \in Worker : HeartbeatExtend(w) \/ \E b \in Attempt : ClaimAttempt(w, b)
           \/ \E b \in Attempt : LeaseExpires(b) \/ \E n \in Claim : ReportAttempt(b, n)
           \/ \E s \in Scheduler : CommitExhausted(s) \/ \E b \in Attempt : CommitWithRetry(s, b)
           \/ \E r \in Run, b \in Attempt : CreateRunForJob(r, b) \/ TriggerAttempt(r, b)
<1>1. [Next]_vars
  BY NoResetIsNext
<1> QED
  BY <1>1, AttemptWriters

\* A row that is unclaimed after a step was so before, with the worker it has now or none.
OnlyAdded(a) == Unclaimed(a) /\ attempt'[a].worker \in {attempt[a].worker, None}

\* Without a reset no row that was claimed is QUEUED again, or gets a worker otherwise.
LEMMA UnclaimedStep ==
    ASSUME TypeInv, [NoResetNext]_vars, NEW a \in Attempt, Unclaimed(a)'
    PROVE  OnlyAdded(a)
<1>t. attempt \in [Attempt -> AttemptRow]
  BY DEF TypeInv, TypeOK
<1>1. ASSUME NEW w \in Worker, HeartbeatExtend(w) PROVE OnlyAdded(a)
  BY <1>t, <1>1 DEF HeartbeatExtend, OnlyAdded, Unclaimed, AttemptRow
<1>2. ASSUME NEW w \in Worker, NEW b \in Attempt, ClaimAttempt(w, b) PROVE OnlyAdded(a)
  BY <1>t, <1>2 DEF ClaimAttempt, OnlyAdded, Unclaimed, AttemptRow
<1>3. ASSUME NEW b \in Attempt, LeaseExpires(b) PROVE OnlyAdded(a)
  BY <1>t, <1>3 DEF LeaseExpires, OnlyAdded, Unclaimed, AttemptRow
<1>4. ASSUME NEW b \in Attempt, NEW n \in Claim, ReportAttempt(b, n) PROVE OnlyAdded(a)
  <2>1. exec[b][n].result \in {"SUCCESS", "FAILED"}
    <3>1. exec[b][n] \in ExecRecord
      BY DEF TypeInv, TypeOK
    <3>2. exec[b][n].result \in {"none", "SUCCESS", "FAILED"}
      BY <3>1 DEF ExecRecord
    <3> QED
      BY <1>4, <3>2 DEF ReportAttempt, TypeInv, PointersValid, CallbackPc
  <2> QED
    BY <1>t, <1>4, <2>1 DEF ReportAttempt, OnlyAdded, Unclaimed, AttemptRow
<1>5. ASSUME NEW s \in Scheduler, CommitExhausted(s) PROVE OnlyAdded(a)
  <2>1. wd[s].cur \in Attempt
    BY <1>5 DEF CommitExhausted, TypeInv, PointersValid, TimingOut
  <2> QED
    BY <1>t, <1>5, <2>1 DEF CommitExhausted, TimedOut, OnlyAdded, Unclaimed, AttemptRow
<1>6. ASSUME NEW r \in Run, NEW b \in Attempt, CreateRunForJob(r, b) \/ TriggerAttempt(r, b)
      PROVE  OnlyAdded(a)
  <2>1. attempt[b].status = "none" /\ attempt' = [attempt EXCEPT ![b] = NewAttempt(r, 1)]
    BY <1>6 DEF CreateRunForJob, TriggerAttempt, NextRow, Free
  <2>2. NewAttempt(r, 1).worker = None
    BY DEF NewAttempt, NoAttempt
  <2>3. CASE a = b
    BY <1>t, <2>1, <2>2, <2>3 DEF OnlyAdded, Unclaimed
  <2>4. CASE a # b
    BY <1>t, <2>1, <2>4 DEF OnlyAdded, Unclaimed
  <2> QED
    BY <2>3, <2>4
<1>7. ASSUME NEW s \in Scheduler, NEW b \in Attempt, CommitWithRetry(s, b) PROVE OnlyAdded(a)
  <2>1. PICK c \in Attempt : c = wd[s].cur
    BY <1>7 DEF CommitWithRetry, TypeInv, PointersValid, TimingOut
  <2>2. attempt' = [attempt EXCEPT ![c] = TimedOut(c), ![b] = NewAttempt(attempt[c].run, wd[s].total + 1)]
    BY <1>7, <2>1 DEF CommitWithRetry
  <2>3. CASE a = b
    BY <1>t, <1>7, <2>2, <2>3 DEF CommitWithRetry, NextRow, Free, NewAttempt, NoAttempt, OnlyAdded, Unclaimed
  <2>4. CASE a # b /\ a = c
    BY <1>t, <2>2, <2>4 DEF TimedOut, OnlyAdded, Unclaimed, AttemptRow
  <2>5. CASE a # b /\ a # c
    BY <1>t, <2>2, <2>5 DEF OnlyAdded, Unclaimed
  <2> QED
    BY <2>3, <2>4, <2>5
<1>8. CASE attempt' = attempt
  BY <1>8 DEF OnlyAdded, Unclaimed
<1>9. \/ attempt' = attempt
      \/ \E w \in Worker : HeartbeatExtend(w) \/ \E b \in Attempt : ClaimAttempt(w, b)
      \/ \E b \in Attempt : LeaseExpires(b) \/ \E n \in Claim : ReportAttempt(b, n)
      \/ \E s \in Scheduler : CommitExhausted(s) \/ \E b \in Attempt : CommitWithRetry(s, b)
      \/ \E r \in Run, b \in Attempt : CreateRunForJob(r, b) \/ TriggerAttempt(r, b)
  BY RowWriters
<1> QED
  BY <1>1, <1>2, <1>3, <1>4, <1>5, <1>6, <1>7, <1>8, <1>9

LEMMA ClaimsStep ==
    ASSUME TypeInv, [Next]_vars, NEW a \in Attempt
    PROVE  \/ claims'[a] = claims[a]
           \/ /\ \E w \in Worker : ClaimAttempt(w, a)
              /\ claims'[a] = claims[a] + 1
              /\ attempt[a].status = "QUEUED" /\ attempt'[a].status = "RUNNING"
<1>t. attempt \in [Attempt -> AttemptRow] /\ claims \in [Attempt -> 0..MaxClaims]
  BY DEF TypeInv, TypeOK
<1>1. ASSUME NEW w \in Worker, ClaimAttempt(w, a)
      PROVE  /\ claims'[a] = claims[a] + 1
             /\ attempt[a].status = "QUEUED" /\ attempt'[a].status = "RUNNING"
  BY <1>t, <1>1 DEF ClaimAttempt, Claimable, AttemptRow
<1>2. ASSUME NEW w \in Worker, NEW b \in Attempt \ {a}, ClaimAttempt(w, b)
      PROVE  claims'[a] = claims[a]
  BY <1>t, <1>2 DEF ClaimAttempt
<1>3. claims' = claims \/ \E w \in Worker, b \in Attempt : ClaimAttempt(w, b)
  BY ClaimsWriters
<1> QED
  BY <1>1, <1>2, <1>3

LEMMA ClaimInvStep == ClaimInv /\ [NoResetNext]_vars => ClaimInv'
<1> SUFFICES ASSUME ClaimInv, [NoResetNext]_vars PROVE ClaimInv'
  OBVIOUS
<1>1. TypeInv /\ TypeInv' /\ [Next]_vars
  BY NoResetIsNext, TypeInvStep DEF ClaimInv
<1>2. ASSUME NEW a \in Attempt
      PROVE  (Unclaimed(a)' => claims'[a] = 0) /\ claims'[a] <= 1
  <2>1. CASE claims'[a] = claims[a]
    BY <1>1, <2>1, UnclaimedStep DEF ClaimInv, ClaimedOnce, OnlyAdded
  <2>2. CASE /\ claims'[a] = claims[a] + 1
             /\ attempt[a].status = "QUEUED" /\ attempt'[a].status = "RUNNING"
    BY <2>2 DEF ClaimInv, Unclaimed
  <2> QED
    BY <1>1, <2>1, <2>2, ClaimsStep
<1> QED
  BY <1>1, <1>2 DEF ClaimInv, ClaimedOnce

\* However many workers poll the same rows, crash and come back, a row is
\* handed to one execution unless an operator resets it.
THEOREM RowsClaimedOnce == NoResetSpec => []ClaimedOnce
<1>1. Init => ClaimInv
  BY TypeInit DEF Init, ClaimInv, ClaimedOnce
<1>2. ClaimInv => ClaimedOnce
  BY DEF ClaimInv
<1> QED
  BY <1>1, <1>2, ClaimInvStep, PTL DEF NoResetSpec

-----------------------------------------------------------------------------
(* SUCCESS is earned *)

\* An execution whose handler has not returned.
Early == {"none", "claimed", "pooled", "running"}

\* Executions begin with a claim, and have no result before their handler
\* has returned one.
ExecutionsBegin ==
    \A a \in Attempt, n \in Claim :
        /\ n > claims[a] => exec[a][n].pc = "none"
        /\ exec[a][n].pc \in Early => exec[a][n].result = "none"

\* Whoever is about to save SUCCESS for a run has seen one of its attempts succeed.
SavesEarned ==
    /\ \A a \in Attempt, n \in Claim : exec[a][n].pc = "saveSuccess" => Earned(attempt[a].run)
    /\ \A s \in Scheduler : wd[s].pc = "saveSuccess" => Earned(wd[s].curRun)

EarnInv == TypeInv /\ ExecutionsBegin /\ SavesEarned /\ SuccessIsEarned

\* The possible changes of one execution.
Moves(a, n, p) ==
    /\ exec[a][n].pc # "none"
    /\ exec'[a][n] = [exec[a][n] EXCEPT !.pc = p]
    /\ p # "none"
    /\ p \in Early => exec[a][n].pc \in Early
    /\ p = "saveSuccess" => UpdateRunAnySuccess(a, n)

Begins(a, n) ==
    /\ n = claims[a] + 1
    /\ exec'[a][n].pc = "claimed" /\ exec'[a][n].result = "none"

Returns(a, n) ==
    /\ exec[a][n].pc = "running"
    /\ exec'[a][n].pc = "returned"

LEMMA ExecStep ==
    ASSUME TypeInv, [Next]_vars, NEW a \in Attempt, NEW n \in Claim
    PROVE  \/ exec'[a][n] = exec[a][n]
           \/ \E p \in ExecPc : Moves(a, n, p)
           \/ Returns(a, n)
           \/ Begins(a, n) /\ claims'[a] = claims[a] + 1
<1>t. exec \in [Attempt -> [Claim -> ExecRecord]] /\ exec[a] \in [Claim -> ExecRecord]
      /\ exec[a][n] \in ExecRecord /\ claims \in [Attempt -> 0..MaxClaims]
  BY DEF TypeInv, TypeOK
<1>2. ASSUME NEW w, NEW pcs \in SUBSET LivePc, exec' = Killed(w, pcs)
      PROVE  exec'[a][n] = exec[a][n] \/ Moves(a, n, "lost")
  <2>1. CASE exec[a][n].worker = w /\ exec[a][n].pc \in pcs
    <3>1. exec'[a][n] = [exec[a][n] EXCEPT !.pc = "lost"]
      BY <1>2, <2>1 DEF Killed
    <3>2. exec[a][n].pc # "none"
      BY <2>1 DEF LivePc, QueuedPc, CallbackPc
    <3> QED
      BY <3>1, <3>2 DEF Moves, Early
  <2>2. CASE ~(exec[a][n].worker = w /\ exec[a][n].pc \in pcs)
    BY <1>2, <2>2 DEF Killed
  <2> QED
    BY <2>1, <2>2
<1>3. ASSUME NEW w \in Worker, NEW b \in Attempt, ClaimAttempt(w, b)
      PROVE  exec'[a][n] = exec[a][n] \/ (Begins(a, n) /\ claims'[a] = claims[a] + 1)
  <2> DEFINE e == [worker |-> w, token |-> attempt[b].token + 1, pc |-> "claimed", result |-> "none"]
  <2>1. exec' = [exec EXCEPT ![b][claims[b] + 1] = e] /\ claims' = [claims EXCEPT ![b] = @ + 1]
    BY <1>3 DEF ClaimAttempt
  <2>2. CASE b = a /\ claims[b] + 1 = n
    <3>1. exec'[a][n] = e
      BY <1>t, <2>1, <2>2
    <3> QED
      BY <1>t, <2>1, <2>2, <3>1 DEF Begins
  <2>3. CASE ~(b = a /\ claims[b] + 1 = n)
    BY <1>t, <2>1, <2>3
  <2> QED
    BY <2>2, <2>3
<1>4. ASSUME NEW b \in Attempt, NEW m \in Claim,
             \/ ExecNext(b, m) \/ HandlerNext(b, m) \/ SubmitFails(b, m) \/ CallbackFails(b, m),
             <<b, m>> # <<a, n>>
      PROVE  exec'[a][n] = exec[a][n]
  <2>1. \E e : exec' = [exec EXCEPT ![b][m] = e]
    BY <1>4 DEF ExecNext, HandlerNext, SubmitFails, CallbackFails, SubmitJob, StartHandler,
       HandlerReturns, ReportAttempt, UpdateRunAnySuccess, UpdateRunAnyActive, UpdateRunSave
  <2> QED
    BY <1>4, <1>t, <2>1
<1>5. ASSUME NEW outcome, HandlerReturns(a, n, outcome) PROVE Returns(a, n)
  <2>1. exec'[a][n] = [exec[a][n] EXCEPT !.pc = "returned", !.result = outcome]
    BY <1>5, <1>t DEF HandlerReturns
  <2>2. exec'[a][n].pc = "returned"
    BY <1>t, <2>1 DEF ExecRecord
  <2> QED
    BY <1>5, <2>2 DEF HandlerReturns, Returns
<1>6. ASSUME ExecNext(a, n) \/ SubmitFails(a, n) \/ CallbackFails(a, n)
      PROVE  \E p \in ExecPc : Moves(a, n, p)
  <2>1. CASE SubmitJob(a, n)
    BY <1>t, <2>1, PcTypes DEF SubmitJob, Moves, Early
  <2>2. CASE StartHandler(a, n)
    BY <1>t, <2>2, PcTypes DEF StartHandler, Moves, Early
  <2>3. CASE ReportAttempt(a, n)
    BY <1>t, <2>3, PcTypes DEF ReportAttempt, Moves, Early
  <2>4. CASE UpdateRunAnySuccess(a, n)
    <3>1. PICK p \in {"saveSuccess", "anyActive"} : exec' = [exec EXCEPT ![a][n].pc = p]
      BY <2>4 DEF UpdateRunAnySuccess
    <3>2. exec'[a][n] = [exec[a][n] EXCEPT !.pc = p]
      BY <1>t, <3>1
    <3>3. Moves(a, n, p)
      BY <2>4, <3>2 DEF UpdateRunAnySuccess, Moves, Early
    <3> QED
      BY <3>3, PcTypes
  <2>5. CASE UpdateRunAnyActive(a, n)
    <3>1. PICK p \in {"done", "saveFailed"} : exec' = [exec EXCEPT ![a][n].pc = p]
      BY <2>5 DEF UpdateRunAnyActive
    <3>2. exec'[a][n] = [exec[a][n] EXCEPT !.pc = p]
      BY <1>t, <3>1
    <3>3. Moves(a, n, p)
      BY <2>5, <3>2 DEF UpdateRunAnyActive, Moves, Early
    <3> QED
      BY <3>3, PcTypes
  <2>6. CASE UpdateRunSave(a, n)
    BY <1>t, <2>6, PcTypes DEF UpdateRunSave, Moves, Early
  <2>7. CASE SubmitFails(a, n)
    BY <1>t, <2>7, PcTypes DEF SubmitFails, Moves, Early
  <2>8. CASE CallbackFails(a, n)
    BY <1>t, <2>8, PcTypes DEF CallbackFails, CallbackPc, Moves, Early
  <2> QED
    BY <1>6, <2>1, <2>2, <2>3, <2>4, <2>5, <2>6, <2>7, <2>8 DEF ExecNext
<1>7. ASSUME NEW w \in Worker, CrashWorker(w) \/ ShutdownWorker(w)
      PROVE  exec'[a][n] = exec[a][n] \/ Moves(a, n, "lost")
  <2>1. {"claimed"} \in SUBSET LivePc
    BY DEF LivePc
  <2> QED
    BY <1>2, <1>7, <2>1 DEF CrashWorker, ShutdownWorker
<1>8. "lost" \in ExecPc
  BY PcTypes
<1>9. \/ exec' = exec
      \/ \E w \in Worker : CrashWorker(w) \/ ShutdownWorker(w)
      \/ \E w \in Worker, b \in Attempt : ClaimAttempt(w, b)
      \/ \E b \in Attempt, m \in Claim :
            \/ ExecNext(b, m) \/ HandlerNext(b, m) \/ SubmitFails(b, m) \/ CallbackFails(b, m)
  BY DEF vars, Next, NoResetNext, CoreNext, CreateNext, CreateRunForJob, TriggerRun, TriggerAttempt,
     LoopNext, HeartbeatStart, HeartbeatExtend, LeaseExpires, WatchdogNext, FindExpiredLeases,
     RefreshExpired, TimeOutAndCount, CommitWithRetry, CommitExhausted, ListOpenRuns,
     MarkRunAnyActive, MarkRunAnySuccess, MarkRunSave, ProcessFaultNext, WatchdogFails,
     DatabaseFaultNext, HeartbeatFails, RestartWorker, ResetStuck
<1> QED
  BY <1>3, <1>4, <1>5, <1>6, <1>7, <1>8, <1>9 DEF HandlerNext

LEMMA ExecutionsBeginStep ==
    ASSUME TypeInv, ExecutionsBegin, [Next]_vars
    PROVE  /\ ExecutionsBegin'
           /\ \A a \in Attempt, n \in Claim :
                exec[a][n].result = "SUCCESS" => exec'[a][n].result = "SUCCESS"
<1>t. exec \in [Attempt -> [Claim -> ExecRecord]] /\ claims \in [Attempt -> 0..MaxClaims]
      /\ claims' \in [Attempt -> 0..MaxClaims]
  BY TypeInvStep DEF TypeInv, TypeOK
<1> SUFFICES ASSUME NEW a \in Attempt, NEW n \in Claim
             PROVE  /\ n > claims'[a] => exec'[a][n].pc = "none"
                    /\ exec'[a][n].pc \in Early => exec'[a][n].result = "none"
                    /\ exec[a][n].result = "SUCCESS" => exec'[a][n].result = "SUCCESS"
  BY DEF ExecutionsBegin
<1>1. claims[a] \in Nat /\ claims'[a] \in Nat /\ claims'[a] >= claims[a] /\ n \in Nat
  BY <1>t, ClaimsStep, ConstantsAssumption DEF Claim
<1>2. exec[a][n] \in ExecRecord
  BY <1>t
<1>3. CASE exec'[a][n] = exec[a][n]
  BY <1>1, <1>3 DEF ExecutionsBegin
<1>4. ASSUME NEW p \in ExecPc, Moves(a, n, p)
      PROVE  /\ n <= claims'[a]
             /\ exec'[a][n].pc \in Early => exec'[a][n].result = "none"
             /\ exec'[a][n].result = exec[a][n].result
  <2>1. exec'[a][n].pc = p /\ exec'[a][n].result = exec[a][n].result
    BY <1>2, <1>4 DEF Moves, ExecRecord
  <2>2. n <= claims[a]
    BY <1>1, <1>4 DEF Moves, ExecutionsBegin
  <2> QED
    BY <1>1, <1>4, <2>1, <2>2 DEF Moves, ExecutionsBegin
<1>5. CASE Returns(a, n)
  <2>1. exec[a][n].result = "none" /\ n <= claims[a]
    BY <1>1, <1>5 DEF Returns, ExecutionsBegin, Early
  <2> QED
    BY <1>1, <1>5, <2>1 DEF Returns, Early
<1>6. CASE Begins(a, n) /\ claims'[a] = claims[a] + 1
  BY <1>1, <1>6 DEF Begins, ExecutionsBegin, Early
<1> QED
  BY <1>1, <1>3, <1>4, <1>5, <1>6, ExecStep

LEMMA RunKept ==
    ASSUME TypeInv, [Next]_vars, NEW a \in Attempt, ~Free(a)
    PROVE  attempt'[a].run = attempt[a].run
  BY RowsStep, AddsStep DEF Adds, RowsKept, RowKept

LEMMA EarnedKept ==
    ASSUME TypeInv, ExecutionsBegin, [Next]_vars, NEW r \in Run, Earned(r)
    PROVE  Earned(r)'
<1>1. PICK a \in AttemptsOf(r), n \in Claim : exec[a][n].result = "SUCCESS"
  BY DEF Earned
<1>2. a \in Attempt /\ attempt[a].run = r
  BY DEF AttemptsOf
<1>3. ~Free(a)
  BY <1>2, ConstantsAssumption DEF TypeInv, RowsHaveRuns
<1>4. attempt'[a].run = r
  BY <1>2, <1>3, RunKept
<1>5. exec'[a][n].result = "SUCCESS"
  BY <1>1, <1>2, ExecutionsBeginStep
<1> QED
  BY <1>2, <1>4, <1>5 DEF Earned, AttemptsOf

\* A SUCCESS that is read in attempts of a run is one that was earned.
LEMMA ReadIsEarned ==
    ASSUME SuccessIsEarned, NEW r, SomeAttempt(r, {"SUCCESS"})
    PROVE  Earned(r)
  BY DEF SomeAttempt, SuccessIsEarned, Earned, AttemptsOf

LEMMA AttemptSuccessStep ==
    ASSUME TypeInv, [Next]_vars, NEW a \in Attempt, attempt'[a].status = "SUCCESS"
    PROVE  \/ attempt[a].status = "SUCCESS"
           \/ \E n \in Claim : exec[a][n].result = "SUCCESS"
<1>t. attempt \in [Attempt -> AttemptRow]
  BY DEF TypeInv, TypeOK
<1>1. ASSUME NEW w \in Worker, HeartbeatExtend(w) PROVE attempt[a].status = "SUCCESS"
  BY <1>t, <1>1 DEF HeartbeatExtend, AttemptRow
<1>2. ASSUME NEW w \in Worker, NEW b \in Attempt, ClaimAttempt(w, b) PROVE attempt[a].status = "SUCCESS"
  BY <1>t, <1>2 DEF ClaimAttempt, AttemptRow
<1>3. ASSUME NEW b \in Attempt, LeaseExpires(b) PROVE attempt[a].status = "SUCCESS"
  BY <1>t, <1>3 DEF LeaseExpires, AttemptRow
<1>4. ASSUME NEW b \in Attempt, NEW n \in Claim, ReportAttempt(b, n)
      PROVE  attempt[a].status = "SUCCESS" \/ (a = b /\ exec[a][n].result = "SUCCESS")
  BY <1>t, <1>4 DEF ReportAttempt, AttemptRow
<1>5. ASSUME NEW s \in Scheduler, CommitExhausted(s) PROVE attempt[a].status = "SUCCESS"
  <2>1. wd[s].cur \in Attempt
    BY <1>5 DEF CommitExhausted, TypeInv, PointersValid, TimingOut
  <2> QED
    BY <1>t, <1>5, <2>1 DEF CommitExhausted, TimedOut, AttemptRow
<1>6. ASSUME NEW r \in Run, NEW b \in Attempt, CreateRunForJob(r, b) \/ TriggerAttempt(r, b)
      PROVE  attempt[a].status = "SUCCESS"
  BY <1>t, <1>6 DEF CreateRunForJob, TriggerAttempt, NewAttempt, NoAttempt
<1>7. ASSUME NEW s \in Scheduler, NEW b \in Attempt, CommitWithRetry(s, b)
      PROVE  attempt[a].status = "SUCCESS"
  <2>1. PICK c \in Attempt : c = wd[s].cur
    BY <1>7 DEF CommitWithRetry, TypeInv, PointersValid, TimingOut
  <2>2. attempt' = [attempt EXCEPT ![c] = TimedOut(c), ![b] = NewAttempt(attempt[c].run, wd[s].total + 1)]
    BY <1>7, <2>1 DEF CommitWithRetry
  <2>3. a # b
    BY <1>t, <2>2 DEF NewAttempt, NoAttempt
  <2>4. a # c
    BY <1>t, <2>2, <2>3 DEF TimedOut, AttemptRow
  <2> QED
    BY <1>t, <2>2, <2>3, <2>4
<1>8. ASSUME NEW S, ResetStuck(S) PROVE attempt[a].status = "SUCCESS"
  BY <1>t, <1>8 DEF ResetStuck, AttemptRow
<1>9. \/ attempt' = attempt
      \/ \E w \in Worker : HeartbeatExtend(w) \/ \E b \in Attempt : ClaimAttempt(w, b)
      \/ \E b \in Attempt : LeaseExpires(b) \/ \E n \in Claim : ReportAttempt(b, n)
      \/ \E s \in Scheduler : CommitExhausted(s) \/ \E b \in Attempt : CommitWithRetry(s, b)
      \/ \E r \in Run, b \in Attempt : CreateRunForJob(r, b) \/ TriggerAttempt(r, b)
      \/ \E S \in SUBSET Attempt : ResetStuck(S)
  BY AttemptWriters
<1> QED
  BY <1>1, <1>2, <1>3, <1>4, <1>5, <1>6, <1>7, <1>8, <1>9

LEMMA RunSuccessStep ==
    ASSUME TypeInv, SavesEarned, [Next]_vars, NEW r \in Run, run'[r] = "SUCCESS"
    PROVE  run[r] = "SUCCESS" \/ Earned(r)
<1>t. run \in [Run -> RunStatus \cup {"none"}]
  BY DEF TypeInv, TypeOK
<1>1. ASSUME NEW q \in Run, TriggerRun(q) \/ \E a \in Attempt : CreateRunForJob(q, a)
      PROVE  run[r] = "SUCCESS"
  BY <1>t, <1>1 DEF TriggerRun, CreateRunForJob
<1>2. ASSUME NEW q, NEW pc, run' = [run EXCEPT ![q] = Saved(pc)]
      PROVE  run[r] = "SUCCESS" \/ (q = r /\ pc = "saveSuccess")
  BY <1>t, <1>2 DEF Saved
<1>3. ASSUME NEW a \in Attempt, NEW n \in Claim, UpdateRunSave(a, n)
      PROVE  run[r] = "SUCCESS" \/ Earned(r)
  BY <1>2, <1>3 DEF UpdateRunSave, SavesEarned
<1>4. ASSUME NEW s \in Scheduler, MarkRunSave(s)
      PROVE  run[r] = "SUCCESS" \/ Earned(r)
  BY <1>2, <1>4 DEF MarkRunSave, SavesEarned
<1>5. \/ run' = run
      \/ \E q \in Run : TriggerRun(q) \/ \E a \in Attempt : CreateRunForJob(q, a)
      \/ \E a \in Attempt, n \in Claim : UpdateRunSave(a, n)
      \/ \E s \in Scheduler : MarkRunSave(s)
  BY RunWriters
<1> QED
  BY <1>1, <1>3, <1>4, <1>5

\* A watchdog comes to save SUCCESS by reading it.
LEMMA WatchdogSavesStep ==
    ASSUME TypeInv, [Next]_vars, NEW s \in Scheduler, wd'[s].pc = "saveSuccess"
    PROVE  /\ wd'[s].curRun = wd[s].curRun
           /\ wd[s].pc = "saveSuccess" \/ SomeAttempt(wd[s].curRun, {"SUCCESS"})
           /\ wd[s].pc \in MarkingRun
<1>t. wd \in [Scheduler -> WatchdogRecord] /\ wd[s] \in WatchdogRecord
  BY DEF TypeInv, TypeOK
<1>g. \A rs : Remaining(rs).pc \in {"idle", "runs"}
  BY DEF Remaining, IdleWatchdog
<1>0. ASSUME wd'[s].pc = wd[s].pc, wd'[s].curRun = wd[s].curRun
      PROVE  /\ wd'[s].curRun = wd[s].curRun
             /\ wd[s].pc = "saveSuccess" \/ SomeAttempt(wd[s].curRun, {"SUCCESS"})
             /\ wd[s].pc \in MarkingRun
  BY <1>0 DEF MarkingRun
<1>1. ASSUME NEW S, wd' = RenewedFor(S)
      PROVE  wd'[s].pc = wd[s].pc /\ wd'[s].curRun = wd[s].curRun
  BY <1>t, <1>1 DEF RenewedFor, WatchdogRecord
<1>2. CASE MarkRunAnySuccess(s)
  <2>1. PICK p \in {"saveSuccess", "saveFailed"} : wd' = [wd EXCEPT ![s].pc = p]
    BY <1>2 DEF MarkRunAnySuccess
  <2>2. wd'[s].curRun = wd[s].curRun
    BY <1>t, <2>1 DEF WatchdogRecord
  <2>3. SomeAttempt(wd[s].curRun, {"SUCCESS"})
    BY <1>t, <1>2 DEF MarkRunAnySuccess, WatchdogRecord
  <2> QED
    BY <1>2, <2>2, <2>3 DEF MarkRunAnySuccess, MarkingRun
<1>3. ASSUME NEW t \in Scheduler, WatchdogNext(t) \/ WatchdogFails(t), t # s
      PROVE  wd'[s] = wd[s]
  BY <1>3, OtherWatchdog DEF TypeInv
<1>4. ASSUME WatchdogNext(s) \/ WatchdogFails(s) PROVE MarkRunAnySuccess(s)
  <2>1. ~FindExpiredLeases(s)
    BY <1>t DEF FindExpiredLeases, WatchdogRecord
  <2>2. \A a \in Attempt : ~RefreshExpired(s, a)
    BY <1>t DEF RefreshExpired, WatchdogRecord
  <2>3. ~TimeOutAndCount(s)
    BY <1>t DEF TimeOutAndCount, WatchdogRecord
  <2>4. ~CommitExhausted(s) /\ \A a \in Attempt : ~CommitWithRetry(s, a)
    BY <1>t DEF CommitExhausted, CommitWithRetry, Handled, WatchdogRecord
  <2>5. ~ListOpenRuns(s) /\ ~MarkRunSave(s)
    BY <1>t, <1>g DEF ListOpenRuns, MarkRunSave
  <2>6. \A r \in Run : ~MarkRunAnyActive(s, r)
    BY <1>t, <1>g DEF MarkRunAnyActive, IdleWatchdog
  <2>7. ~WatchdogFails(s)
    BY <1>t DEF WatchdogFails, IdleWatchdog
  <2> QED
    BY <1>4, <2>1, <2>2, <2>3, <2>4, <2>5, <2>6, <2>7 DEF WatchdogNext
<1>5. \/ wd' = wd
      \/ \E S : wd' = RenewedFor(S)
      \/ \E t \in Scheduler : WatchdogNext(t) \/ WatchdogFails(t)
  BY WatchdogWriters
<1> QED
  BY <1>0, <1>1, <1>2, <1>3, <1>4, <1>5

LEMMA EarnInvStep == EarnInv /\ [Next]_vars => EarnInv'
<1> SUFFICES ASSUME EarnInv, [Next]_vars PROVE EarnInv'
  OBVIOUS
<1>i. TypeInv /\ ExecutionsBegin /\ SavesEarned /\ SuccessIsEarned /\ TypeInv' /\ ExecutionsBegin'
  BY TypeInvStep, ExecutionsBeginStep DEF EarnInv
<1>1. \A r \in Run : run'[r] = "SUCCESS" => Earned(r)'
  BY <1>i, RunSuccessStep, EarnedKept DEF SuccessIsEarned
<1>2. \A a \in Attempt : attempt'[a].status = "SUCCESS" =>
        \E n \in Claim : exec'[a][n].result = "SUCCESS"
  BY <1>i, AttemptSuccessStep, ExecutionsBeginStep DEF SuccessIsEarned
<1>3. ASSUME NEW a \in Attempt, NEW n \in Claim, exec'[a][n].pc = "saveSuccess"
      PROVE  Earned(attempt[a].run)'
  <2>1. exec[a][n].pc # "none" /\ Earned(attempt[a].run)
    <3>1. exec[a][n] \in ExecRecord
      BY <1>i DEF TypeInv, TypeOK
    <3>2. CASE exec'[a][n] = exec[a][n]
      BY <1>3, <1>i, <3>2 DEF SavesEarned
    <3>3. ASSUME NEW p \in ExecPc, Moves(a, n, p) PROVE UpdateRunAnySuccess(a, n)
      BY <1>3, <3>1, <3>3 DEF Moves, ExecRecord
    <3>4. ASSUME UpdateRunAnySuccess(a, n)
          PROVE  exec[a][n].pc # "none" /\ SomeAttempt(attempt[a].run, {"SUCCESS"})
      BY <1>3, <1>i, <3>4 DEF UpdateRunAnySuccess, TypeInv, TypeOK, ExecRecord
    <3> QED
      BY <1>3, <1>i, <3>2, <3>3, <3>4, ExecStep, ReadIsEarned DEF Returns, Begins
  <2>2. ~Free(a)
    BY <1>i, <2>1 DEF TypeInv, PointersValid
  <2>3. attempt[a].run \in Run /\ attempt'[a].run = attempt[a].run
    <3>1. attempt[a] \in AttemptRow
      BY <1>i DEF TypeInv, TypeOK
    <3>2. attempt[a].run \in Run
      BY <1>i, <2>2, <3>1 DEF TypeInv, RowsHaveRuns, AttemptRow
    <3> QED
      BY <1>i, <2>2, <3>2, RunKept
  <2>4. PICK r \in Run : r = attempt[a].run
    BY <2>3
  <2>5. Earned(r)'
    BY <1>i, <2>1, <2>4, EarnedKept
  <2> QED
    BY <2>3, <2>4, <2>5
<1>4. ASSUME NEW s \in Scheduler, wd'[s].pc = "saveSuccess"
      PROVE  Earned(wd[s].curRun)'
  <2>1. PICK r \in Run : r = wd[s].curRun /\ wd'[s].curRun = r
    BY <1>4, <1>i, WatchdogSavesStep DEF TypeInv, PointersValid
  <2>2. Earned(r)
    BY <1>4, <1>i, <2>1, WatchdogSavesStep, ReadIsEarned DEF SavesEarned
  <2>3. Earned(r)'
    BY <1>i, <2>2, EarnedKept
  <2> QED
    BY <2>1, <2>3
<1> QED
  BY <1>i, <1>1, <1>2, <1>3, <1>4 DEF EarnInv, SavesEarned, SuccessIsEarned

\* With resets, restarts, two executions of one row and any number of
\* watchdogs, SUCCESS is never written for an attempt or a run unless a handler
\* execution of it returned without an exception.
THEOREM SuccessEarned == Spec => []SuccessIsEarned
<1>1. Init => EarnInv
  <2> SUFFICES ASSUME Init PROVE ExecutionsBegin /\ SavesEarned /\ SuccessIsEarned
    BY TypeInit DEF EarnInv
  <2>1. \A a \in Attempt, n \in Claim : exec[a][n].pc = "none" /\ exec[a][n].result = "none"
    BY DEF Init, NoExec
  <2>2. \A s \in Scheduler : wd[s].pc = "idle"
    BY DEF Init, IdleWatchdog
  <2>3. \A a \in Attempt : attempt[a].status = "none"
    BY DEF Init, NoAttempt
  <2>4. \A r \in Run : run[r] = "none"
    BY DEF Init
  <2> QED
    BY <2>1, <2>2, <2>3, <2>4 DEF ExecutionsBegin, SavesEarned, SuccessIsEarned
<1>2. EarnInv => SuccessIsEarned
  BY DEF EarnInv
<1> QED
  BY <1>1, <1>2, EarnInvStep, PTL DEF Spec

-----------------------------------------------------------------------------
(* The backlog of a worker *)

\* Claims whose handler has not returned.
Pending(w) == Owned(w, {"claimed"} \cup QueuedPc)

\* Each claim waits for its submission before the next poll, the poll counts
\* the futures that are not done, and the pool has as many threads.
BacklogInv ==
    /\ ClaimInv
    /\ ExecutionsBegin
    /\ \A w \in Worker :
         /\ main[w] # "submit" => Owned(w, {"claimed"}) = {}
         /\ \A e, f \in Owned(w, {"claimed"}) : e = f
         /\ Cardinality(Pending(w)) <= MaxConcurrent
         /\ Cardinality(BusyThreads(w)) <= MaxConcurrent

LEMMA OwnedFinite ==
    ASSUME NEW w, NEW pcs
    PROVE  IsFiniteSet(Owned(w, pcs)) /\ Cardinality(Owned(w, pcs)) \in Nat
<1>1. IsFiniteSet(Attempt) /\ IsFiniteSet(Claim)
  BY ConstantsAssumption, FS_Interval DEF Attempt, Claim
<1>2. IsFiniteSet(Attempt \X Claim)
  BY <1>1, FS_Product
<1>3. Owned(w, pcs) \in SUBSET (Attempt \X Claim)
  BY DEF Owned
<1> QED
  BY <1>2, <1>3, FS_Subset, FS_CardinalityType

\* The possible changes of one execution, with the actions that make them.
LEMMA ThreadStep ==
    ASSUME TypeInv, [Next]_vars, NEW a \in Attempt, NEW n \in Claim
    PROVE  \/ exec'[a][n] = exec[a][n]
           \/ exec'[a][n].pc = "claimed" /\ \E w \in Worker : ClaimAttempt(w, a) /\ exec'[a][n].worker = w
           \/ /\ exec'[a][n].worker = exec[a][n].worker
              /\ \/ exec'[a][n].pc = "running" /\ StartHandler(a, n)
                 \/ exec'[a][n].pc = "pooled" /\ exec[a][n].pc = "claimed"
                 \/ exec'[a][n].pc = "lost"
                 \/ /\ exec[a][n].pc \in {"running"} \cup CallbackPc
                    /\ exec'[a][n].pc \in {"done"} \cup CallbackPc
<1>t. exec \in [Attempt -> [Claim -> ExecRecord]] /\ exec[a] \in [Claim -> ExecRecord]
      /\ exec[a][n] \in ExecRecord /\ claims \in [Attempt -> 0..MaxClaims]
  BY DEF TypeInv, TypeOK
<1> DEFINE Goes(P) == exec'[a][n].worker = exec[a][n].worker /\ exec'[a][n].pc \in P
<1>0. ASSUME NEW p, exec' = [exec EXCEPT ![a][n].pc = p] PROVE Goes({p})
  BY <1>t, <1>0 DEF ExecRecord
<1>2. ASSUME NEW w, NEW pcs, exec' = Killed(w, pcs)
      PROVE  exec'[a][n] = exec[a][n] \/ Goes({"lost"})
  <2>1. CASE exec[a][n].worker = w /\ exec[a][n].pc \in pcs
    <3>1. exec'[a][n] = [exec[a][n] EXCEPT !.pc = "lost"]
      BY <1>2, <2>1 DEF Killed
    <3> QED
      BY <1>t, <3>1 DEF ExecRecord
  <2>2. CASE ~(exec[a][n].worker = w /\ exec[a][n].pc \in pcs)
    BY <1>2, <2>2 DEF Killed
  <2> QED
    BY <2>1, <2>2
<1>3. ASSUME NEW w \in Worker, NEW b \in Attempt, ClaimAttempt(w, b)
      PROVE  \/ exec'[a][n] = exec[a][n]
             \/ b = a /\ exec'[a][n].pc = "claimed" /\ exec'[a][n].worker = w
  <2> DEFINE e == [worker |-> w, token |-> attempt[b].token + 1, pc |-> "claimed", result |-> "none"]
  <2>1. exec' = [exec EXCEPT ![b][claims[b] + 1] = e]
    BY <1>3 DEF ClaimAttempt
  <2>2. CASE b = a /\ claims[b] + 1 = n
    <3>1. exec'[a][n] = e
      BY <1>t, <2>1, <2>2
    <3> QED
      BY <2>2, <3>1
  <2>3. CASE ~(b = a /\ claims[b] + 1 = n)
    BY <1>t, <2>1, <2>3
  <2> QED
    BY <2>2, <2>3
<1>4. ASSUME NEW b \in Attempt, NEW m \in Claim,
             \/ ExecNext(b, m) \/ HandlerNext(b, m) \/ SubmitFails(b, m) \/ CallbackFails(b, m),
             <<b, m>> # <<a, n>>
      PROVE  exec'[a][n] = exec[a][n]
  <2>1. \E e : exec' = [exec EXCEPT ![b][m] = e]
    BY <1>4 DEF ExecNext, HandlerNext, SubmitFails, CallbackFails, SubmitJob, StartHandler,
       HandlerReturns, ReportAttempt, UpdateRunAnySuccess, UpdateRunAnyActive, UpdateRunSave
  <2> QED
    BY <1>4, <1>t, <2>1
<1>5. ASSUME NEW outcome, HandlerReturns(a, n, outcome)
      PROVE  exec[a][n].pc = "running" /\ Goes(CallbackPc)
  <2>1. exec'[a][n] = [[exec[a][n] EXCEPT !.pc = "returned"] EXCEPT !.result = outcome]
    BY <1>5, <1>t DEF HandlerReturns
  <2>2. exec'[a][n].pc = "returned" /\ exec'[a][n].worker = exec[a][n].worker
    BY <1>t, <2>1 DEF ExecRecord
  <2> QED
    BY <1>5, <2>2 DEF HandlerReturns, CallbackPc
<1>6. ASSUME ExecNext(a, n) \/ SubmitFails(a, n) \/ CallbackFails(a, n)
      PROVE  \/ Goes({"running"}) /\ StartHandler(a, n)
             \/ Goes({"pooled"}) /\ exec[a][n].pc = "claimed"
             \/ Goes({"lost"})
             \/ exec[a][n].pc \in CallbackPc /\ Goes({"done"} \cup CallbackPc)
  <2>1. CASE SubmitJob(a, n)
    BY <1>0, <2>1 DEF SubmitJob
  <2>2. CASE StartHandler(a, n)
    BY <1>0, <2>2 DEF StartHandler
  <2>3. CASE ReportAttempt(a, n)
    BY <1>0, <2>3 DEF ReportAttempt, CallbackPc
  <2>4. CASE UpdateRunAnySuccess(a, n)
    <3>1. PICK p \in {"saveSuccess", "anyActive"} : exec' = [exec EXCEPT ![a][n].pc = p]
      BY <2>4 DEF UpdateRunAnySuccess
    <3> QED
      BY <1>0, <2>4, <3>1 DEF UpdateRunAnySuccess, CallbackPc
  <2>5. CASE UpdateRunAnyActive(a, n)
    <3>1. PICK p \in {"done", "saveFailed"} : exec' = [exec EXCEPT ![a][n].pc = p]
      BY <2>5 DEF UpdateRunAnyActive
    <3> QED
      BY <1>0, <2>5, <3>1 DEF UpdateRunAnyActive, CallbackPc
  <2>6. CASE UpdateRunSave(a, n)
    BY <1>0, <2>6 DEF UpdateRunSave, CallbackPc
  <2>7. CASE SubmitFails(a, n)
    BY <1>0, <2>7 DEF SubmitFails
  <2>8. CASE CallbackFails(a, n)
    BY <1>0, <2>8 DEF CallbackFails
  <2> QED
    BY <1>6, <2>1, <2>2, <2>3, <2>4, <2>5, <2>6, <2>7, <2>8 DEF ExecNext
<1>7. ASSUME NEW w \in Worker, CrashWorker(w) \/ ShutdownWorker(w)
      PROVE  exec'[a][n] = exec[a][n] \/ Goes({"lost"})
  BY <1>2, <1>7 DEF CrashWorker, ShutdownWorker
<1>9. \/ exec' = exec
      \/ \E w \in Worker : CrashWorker(w) \/ ShutdownWorker(w)
      \/ \E w \in Worker, b \in Attempt : ClaimAttempt(w, b)
      \/ \E b \in Attempt, m \in Claim :
            \/ ExecNext(b, m) \/ HandlerNext(b, m) \/ SubmitFails(b, m) \/ CallbackFails(b, m)
  BY DEF vars, Next, NoResetNext, CoreNext, CreateNext, CreateRunForJob, TriggerRun, TriggerAttempt,
     LoopNext, HeartbeatStart, HeartbeatExtend, LeaseExpires, WatchdogNext, FindExpiredLeases,
     RefreshExpired, TimeOutAndCount, CommitWithRetry, CommitExhausted, ListOpenRuns,
     MarkRunAnyActive, MarkRunAnySuccess, MarkRunSave, ProcessFaultNext, WatchdogFails,
     DatabaseFaultNext, HeartbeatFails, RestartWorker, ResetStuck
<1>10. ASSUME NEW b \in Attempt, NEW m \in Claim,
              \/ ExecNext(b, m) \/ HandlerNext(b, m) \/ SubmitFails(b, m) \/ CallbackFails(b, m)
       PROVE  \/ exec'[a][n] = exec[a][n]
              \/ Goes({"running"}) /\ StartHandler(a, n)
              \/ Goes({"pooled"}) /\ exec[a][n].pc = "claimed"
              \/ Goes({"lost"})
              \/ /\ exec[a][n].pc \in {"running"} \cup CallbackPc
                 /\ Goes({"done"} \cup CallbackPc)
  <2>1. CASE <<b, m>> = <<a, n>>
    <3>1. b = a /\ m = n
      BY <2>1
    <3>2. CASE HandlerNext(a, n)
      BY <1>5, <3>2 DEF HandlerNext
    <3>3. CASE ExecNext(a, n) \/ SubmitFails(a, n) \/ CallbackFails(a, n)
      BY <1>6, <3>3
    <3> QED
      BY <1>10, <3>1, <3>2, <3>3
  <2> QED
    BY <1>4, <1>10, <2>1
<1> QED
  BY <1>3, <1>7, <1>9, <1>10

\* Without resets every execution is the first of its attempt.
LEMMA OnlyFirst ==
    ASSUME BacklogInv, NEW w, NEW e \in Owned(w, ExecPc \ {"none"})
    PROVE  e = <<e[1], 1>> /\ e[1] \in Attempt
<1>1. e[1] \in Attempt /\ e[2] \in Claim /\ e = <<e[1], e[2]>> /\ exec[e[1]][e[2]].pc # "none"
  BY DEF Owned
<1>2. e[2] <= claims[e[1]] /\ claims[e[1]] <= 1 /\ claims[e[1]] \in Nat /\ e[2] \in Nat \ {0}
  BY <1>1, ConstantsAssumption
  DEF BacklogInv, ExecutionsBegin, ClaimInv, ClaimedOnce, TypeInv, TypeOK, Claim
<1> QED
  BY <1>1, <1>2

\* The poll counts every claim whose future is not done.
LEMMA FuturesCounted ==
    ASSUME BacklogInv, NEW w
    PROVE  Cardinality(Owned(w, QueuedPc)) <= Cardinality(RunningFutures(w))
<1> DEFINE S == Owned(w, QueuedPc)
           T == RunningFutures(w)
           f == [e \in S |-> e[1]]
<1>1. ASSUME NEW e \in S PROVE e = <<e[1], 1>> /\ e[1] \in T
  <2>1. e \in Owned(w, ExecPc \ {"none"})
    BY PcTypes DEF Owned, QueuedPc
  <2>2. e = <<e[1], 1>> /\ e[1] \in Attempt
    BY <2>1, OnlyFirst
  <2>3. ASSUME NEW m \in Claim, <<e[1], m>> \in Owned(w, ExecPc \ {"none", "claimed"})
        PROVE  m <= 1
    <3>1. <<e[1], m>> \in Owned(w, ExecPc \ {"none"})
      BY <2>3 DEF Owned
    <3>2. <<e[1], m>> = <<<<e[1], m>>[1], 1>>
      BY <3>1, OnlyFirst
    <3> QED
      BY <3>2
  <2>4. 1 \in Claim
    BY ConstantsAssumption DEF Claim
  <2> QED
    BY <2>2, <2>3, <2>4 DEF RunningFutures
<1>2. f \in Injection(S, T)
  <2>1. f \in [S -> T]
    BY <1>1
  <2>2. \A d, e \in S : f[d] = f[e] => d = e
    BY <1>1
  <2> QED
    BY <2>1, <2>2 DEF Injection, IsInjective
<1>3. IsFiniteSet(T)
  BY AttemptsFinite DEF RunningFutures
<1> QED
  BY <1>2, <1>3, FS_Injection

\* How the executions of a worker change.
LEMMA OwnedStep ==
    ASSUME BacklogInv, [NoResetNext]_vars, NEW w \in Worker,
           NEW a \in Attempt, NEW n \in Claim
    PROVE  LET e == <<a, n>> IN
           /\ e \in Owned(w, {"claimed"})' => e \in Owned(w, {"claimed"}) \/ ClaimAttempt(w, a)
           /\ e \in Pending(w)' => e \in Pending(w) \/ ClaimAttempt(w, a)
           /\ e \in BusyThreads(w)' =>
                e \in BusyThreads(w) \/ (StartHandler(a, n) /\ exec[a][n].worker = w)
<1>1. TypeInv /\ [Next]_vars
  BY NoResetIsNext DEF BacklogInv, ClaimInv
<1>2. ASSUME NEW P, exec'[a][n] = exec[a][n]
      PROVE  <<a, n>> \in Owned(w, P)' => <<a, n>> \in Owned(w, P)
  BY <1>2 DEF Owned
<1>3. CASE exec'[a][n] = exec[a][n]
  BY <1>2, <1>3 DEF Pending, BusyThreads
<1>4. CASE exec'[a][n].pc = "claimed" /\ \E v \in Worker : ClaimAttempt(v, a) /\ exec'[a][n].worker = v
  BY <1>4 DEF Owned, Pending, BusyThreads, CallbackPc
<1>5. CASE /\ exec'[a][n].worker = exec[a][n].worker
           /\ \/ exec'[a][n].pc = "running" /\ StartHandler(a, n)
              \/ exec'[a][n].pc = "pooled" /\ exec[a][n].pc = "claimed"
              \/ exec'[a][n].pc = "lost"
              \/ /\ exec[a][n].pc \in {"running"} \cup CallbackPc
                 /\ exec'[a][n].pc \in {"done"} \cup CallbackPc
  <2>1. StartHandler(a, n) => exec[a][n].pc = "pooled"
    BY DEF StartHandler
  <2> QED
    BY <1>5, <2>1 DEF Owned, Pending, BusyThreads, QueuedPc, CallbackPc
<1> QED
  BY <1>1, <1>3, <1>4, <1>5, ThreadStep

\* A claim is followed by its submission, or lost, before the loop goes on.
LEMMA SubmitFollows ==
    ASSUME BacklogInv, [NoResetNext]_vars, NEW w \in Worker, NEW e \in Owned(w, {"claimed"})'
    PROVE  main'[w] = "submit"
<1> DEFINE a == e[1]
           n == e[2]
<1>t. /\ main \in [Worker -> {"loop", "beat", "submit", "down", "draining"}]
      /\ exec \in [Attempt -> [Claim -> ExecRecord]]
  BY DEF BacklogInv, ClaimInv, TypeInv, TypeOK
<1>1. a \in Attempt /\ n \in Claim /\ e = <<a, n>> /\ exec'[a][n].pc = "claimed" /\ exec'[a][n].worker = w
  BY DEF Owned
<1>2. CASE ClaimAttempt(w, a)
  BY <1>t, <1>2 DEF ClaimAttempt
<1>3. CASE e \in Owned(w, {"claimed"})
  <2>1. main[w] = "submit"
    BY <1>3 DEF BacklogInv
  <2>2. exec[a][n].worker = w /\ exec[a][n].pc = "claimed"
    BY <1>1, <1>3 DEF Owned
  <2>3. ASSUME NEW b \in Attempt, NEW m \in Claim, SubmitJob(b, m) \/ SubmitFails(b, m)
        PROVE  main'[w] = main[w]
    <3>1. CASE exec[b][m].worker = w
      <4>1. <<b, m>> \in Owned(w, {"claimed"})
        BY <2>3, <3>1 DEF SubmitJob, SubmitFails, Owned
      <4>2. <<b, m>> = <<a, n>>
        BY <1>1, <1>3, <4>1 DEF BacklogInv
      <4>3. b = a /\ m = n
        BY <4>2
      <4>4. \E p \in {"pooled", "lost"} : exec' = [exec EXCEPT ![a][n].pc = p]
        BY <2>3, <4>3 DEF SubmitJob, SubmitFails
      <4>5. exec'[a][n].pc # "claimed"
        BY <1>t, <1>1, <4>4 DEF ExecRecord
      <4> QED
        BY <1>1, <4>5
    <3>2. CASE exec[b][m].worker # w
      BY <1>t, <2>3, <3>2 DEF SubmitJob, SubmitFails
    <3> QED
      BY <3>1, <3>2
  <2>4. ASSUME NEW v \in Worker, CrashWorker(v) \/ ShutdownWorker(v)
        PROVE  main'[w] = main[w]
    <3>1. CASE v = w
      <4>1. exec'[a][n] = [exec[a][n] EXCEPT !.pc = "lost"]
        <5>1. \E pcs : "claimed" \in pcs /\ exec' = Killed(w, pcs)
          BY <2>4, <3>1 DEF CrashWorker, ShutdownWorker, LivePc
        <5> QED
          BY <1>1, <2>2, <5>1 DEF Killed
      <4>2. exec'[a][n].pc = "lost"
        BY <1>t, <1>1, <4>1 DEF ExecRecord
      <4> QED
        BY <1>1, <4>2
    <3>2. CASE v # w
      BY <1>t, <2>4, <3>2 DEF CrashWorker, ShutdownWorker
    <3> QED
      BY <3>1, <3>2
  <2>5. ASSUME NEW v \in Worker, \/ HeartbeatStart(v) \/ HeartbeatExtend(v) \/ HeartbeatFails(v)
                                 \/ RestartWorker(v) \/ \E b \in Attempt : ClaimAttempt(v, b)
        PROVE  main'[w] = main[w]
    BY <1>t, <2>1, <2>5
    DEF HeartbeatStart, HeartbeatExtend, HeartbeatFails, RestartWorker, ClaimAttempt
  <2>6. \/ main' = main
        \/ \E b \in Attempt, m \in Claim : SubmitJob(b, m) \/ SubmitFails(b, m)
        \/ \E v \in Worker : CrashWorker(v) \/ ShutdownWorker(v)
        \/ \E v \in Worker : \/ HeartbeatStart(v) \/ HeartbeatExtend(v) \/ HeartbeatFails(v)
                             \/ RestartWorker(v) \/ \E b \in Attempt : ClaimAttempt(v, b)
    BY MainWriters, NoResetIsNext
  <2> QED
    BY <2>1, <2>3, <2>4, <2>5, <2>6
<1> QED
  BY <1>1, <1>2, <1>3, OwnedStep

LEMMA BacklogInvStep == BacklogInv /\ [NoResetNext]_vars => BacklogInv'
<1> SUFFICES ASSUME BacklogInv, [NoResetNext]_vars PROVE BacklogInv'
  OBVIOUS
<1>1. ClaimInv' /\ ExecutionsBegin' /\ TypeInv
  BY NoResetIsNext, ClaimInvStep, ExecutionsBeginStep DEF BacklogInv, ClaimInv
<1>t. MaxConcurrent \in Nat
  BY ConstantsAssumption
<1>p. ASSUME NEW e, NEW w \in Worker, \/ e \in Owned(w, {"claimed"})'
                                      \/ e \in Pending(w)' \/ e \in BusyThreads(w)'
      PROVE  e \in Attempt \X Claim
  BY <1>p DEF Owned, Pending, BusyThreads
<1>f. ASSUME NEW w, NEW P, NEW Q, NEW x, Owned(w, P)' \subseteq Owned(w, Q) \cup {x}
      PROVE  Cardinality(Owned(w, P)') <= Cardinality(Owned(w, Q)) + 1
  <2>1. IsFiniteSet(Owned(w, Q)) /\ Cardinality(Owned(w, Q)) \in Nat
    BY OwnedFinite
  <2>2. IsFiniteSet(Owned(w, Q) \cup {x})
        /\ Cardinality(Owned(w, Q) \cup {x}) <= Cardinality(Owned(w, Q)) + 1
    BY <2>1, FS_AddElement
  <2>3. Cardinality(Owned(w, P)') <= Cardinality(Owned(w, Q) \cup {x})
    BY <1>f, <2>2, FS_Subset
  <2>4. Cardinality(Owned(w, P)') \in Nat /\ Cardinality(Owned(w, Q) \cup {x}) \in Nat
    BY <1>f, <2>2, FS_Subset, FS_CardinalityType
  <2> QED
    BY <2>1, <2>2, <2>3, <2>4
<1>g. ASSUME NEW w, NEW P, Owned(w, P)' \subseteq Owned(w, P)
      PROVE  Cardinality(Owned(w, P)') <= Cardinality(Owned(w, P))
  BY <1>g, OwnedFinite, FS_Subset
<1>2. ASSUME NEW w \in Worker, NEW a \in Attempt, ClaimAttempt(w, a)
      PROVE  /\ \A e, f \in Owned(w, {"claimed"})' : e = f
             /\ Cardinality(Pending(w)') <= MaxConcurrent
  <2> DEFINE x == <<a, claims[a] + 1>>
  <2>1. Owned(w, {"claimed"}) = {} /\ HasCapacity(w)
    BY <1>2 DEF ClaimAttempt, BacklogInv
  <2>2. ASSUME NEW e \in Attempt \X Claim, e # x PROVE exec'[e[1]][e[2]] = exec[e[1]][e[2]]
    <3>1. \E y : exec' = [exec EXCEPT ![a][claims[a] + 1] = y]
      BY <1>2 DEF ClaimAttempt
    <3>2. exec \in [Attempt -> [Claim -> ExecRecord]]
      BY <1>1 DEF TypeInv, TypeOK
    <3> QED
      BY <2>2, <3>1, <3>2
  <2>3. \A e \in Owned(w, {"claimed"})' : e = x
    BY <2>1, <2>2 DEF Owned
  <2>4. Pending(w)' \subseteq Owned(w, QueuedPc) \cup {x}
    BY <2>1, <2>2 DEF Pending, Owned
  <2>5. Cardinality(Pending(w)') <= Cardinality(Owned(w, QueuedPc)) + 1
    BY <1>f, <2>4 DEF Pending
  <2>6. Cardinality(Owned(w, QueuedPc)) < MaxConcurrent
    <3>1. Cardinality(RunningFutures(w)) \in Nat
      BY AttemptsFinite, FS_CardinalityType DEF RunningFutures
    <3> QED
      BY <1>t, <2>1, <3>1, FuturesCounted, OwnedFinite DEF HasCapacity
  <2>7. Cardinality(Pending(w)') \in Nat /\ Cardinality(Owned(w, QueuedPc)) \in Nat
    <3>1. IsFiniteSet(Owned(w, QueuedPc) \cup {x})
      BY OwnedFinite, FS_AddElement
    <3> QED
      BY <2>4, <3>1, OwnedFinite, FS_Subset, FS_CardinalityType
  <2> QED
    BY <1>t, <2>3, <2>5, <2>6, <2>7
<1>3. ASSUME NEW w \in Worker, \A a \in Attempt : ~ClaimAttempt(w, a)
      PROVE  /\ \A e, f \in Owned(w, {"claimed"})' : e = f
             /\ Cardinality(Pending(w)') <= MaxConcurrent
  <2>1. Owned(w, {"claimed"})' \subseteq Owned(w, {"claimed"})
    BY <1>3, <1>p, OwnedStep
  <2>2. Pending(w)' \subseteq Pending(w)
    BY <1>3, <1>p, OwnedStep
  <2>3. Cardinality(Pending(w)') <= Cardinality(Pending(w))
    BY <1>g, <2>2 DEF Pending
  <2>4. Cardinality(Pending(w)) \in Nat /\ Cardinality(Pending(w)') \in Nat
    BY <2>2, OwnedFinite, FS_Subset, FS_CardinalityType DEF Pending
  <2> QED
    BY <1>t, <2>1, <2>3, <2>4 DEF BacklogInv
<1>4. ASSUME NEW w \in Worker PROVE Cardinality(BusyThreads(w)') <= MaxConcurrent
  <2>t. Cardinality(BusyThreads(w)) \in Nat /\ Cardinality(BusyThreads(w)) <= MaxConcurrent
    BY OwnedFinite DEF BusyThreads, BacklogInv
  <2>1. ASSUME NEW a \in Attempt, NEW n \in Claim, StartHandler(a, n), exec[a][n].worker = w
        PROVE  Cardinality(BusyThreads(w)') <= MaxConcurrent
    <3>1. Cardinality(BusyThreads(w)) < MaxConcurrent
      BY <2>1 DEF StartHandler
    <3>2. ASSUME NEW e \in Attempt \X Claim, e # <<a, n>>
          PROVE  exec'[e[1]][e[2]] = exec[e[1]][e[2]]
      <4>1. exec' = [exec EXCEPT ![a][n].pc = "running"]
        BY <2>1 DEF StartHandler
      <4>2. exec \in [Attempt -> [Claim -> ExecRecord]]
        BY <1>1 DEF TypeInv, TypeOK
      <4> QED
        BY <3>2, <4>1, <4>2
    <3>3. BusyThreads(w)' \subseteq BusyThreads(w) \cup {<<a, n>>}
      BY <3>2 DEF BusyThreads, Owned
    <3>4. Cardinality(BusyThreads(w)') <= Cardinality(BusyThreads(w)) + 1
      BY <1>f, <3>3 DEF BusyThreads
    <3>5. Cardinality(BusyThreads(w)') \in Nat
      <4>1. IsFiniteSet(BusyThreads(w) \cup {<<a, n>>})
        BY OwnedFinite, FS_AddElement DEF BusyThreads
      <4> QED
        BY <3>3, <4>1, FS_Subset, FS_CardinalityType
    <3> QED
      BY <1>t, <2>t, <3>1, <3>4, <3>5
  <2>2. ASSUME \A a \in Attempt, n \in Claim : ~(StartHandler(a, n) /\ exec[a][n].worker = w)
        PROVE  Cardinality(BusyThreads(w)') <= MaxConcurrent
    <3>1. BusyThreads(w)' \subseteq BusyThreads(w)
      BY <2>2, <1>p, OwnedStep
    <3>2. Cardinality(BusyThreads(w)') <= Cardinality(BusyThreads(w))
      BY <1>g, <3>1 DEF BusyThreads
    <3>3. Cardinality(BusyThreads(w)') \in Nat
      BY <3>1, OwnedFinite, FS_Subset, FS_CardinalityType DEF BusyThreads
    <3> QED
      BY <1>t, <2>t, <3>2, <3>3
  <2> QED
    BY <2>1, <2>2
<1>5. ASSUME NEW w \in Worker, main'[w] # "submit" PROVE Owned(w, {"claimed"})' = {}
  BY <1>5, SubmitFollows
<1> QED
  BY <1>1, <1>2, <1>3, <1>4, <1>5 DEF BacklogInv

\* Without a reset, a worker's claims whose handler has not returned keep to its
\* limit, and with the callbacks its threads are in to twice that limit, however
\* its loop, its threads, its crashes and its restarts interleave.
THEOREM BacklogKept == NoResetSpec => []BacklogBounded
<1>1. Init => BacklogInv
  <2> SUFFICES ASSUME Init PROVE BacklogInv
    OBVIOUS
  <2>1. ClaimInv
    BY TypeInit DEF Init, ClaimInv, ClaimedOnce
  <2>2. \A a \in Attempt, n \in Claim : exec[a][n].pc = "none" /\ exec[a][n].result = "none"
    BY DEF Init, NoExec
  <2>3. \A w \in Worker : \A P : "none" \notin P => Owned(w, P) = {}
    BY <2>2 DEF Owned
  <2>4. \A w \in Worker : Owned(w, {"claimed"}) = {} /\ Pending(w) = {} /\ BusyThreads(w) = {}
    BY <2>3 DEF Pending, BusyThreads, QueuedPc, CallbackPc
  <2> QED
    BY <2>1, <2>2, <2>4, FS_EmptySet, ConstantsAssumption DEF BacklogInv, ExecutionsBegin
<1>2. BacklogInv => BacklogBounded
  <2> SUFFICES ASSUME BacklogInv, NEW w \in Worker
               PROVE  /\ Cardinality(Pending(w)) <= MaxConcurrent
                      /\ Cardinality(Owned(w, LivePc)) <= 2 * MaxConcurrent
    BY DEF BacklogBounded, Pending
  <2>1. Owned(w, LivePc) = Pending(w) \cup BusyThreads(w)
    BY DEF Owned, Pending, BusyThreads, LivePc, QueuedPc
  <2>2. IsFiniteSet(Pending(w)) /\ IsFiniteSet(BusyThreads(w))
        /\ Cardinality(Pending(w)) \in Nat /\ Cardinality(BusyThreads(w)) \in Nat
    BY OwnedFinite DEF Pending, BusyThreads
  <2>3. /\ Cardinality(Pending(w) \cup BusyThreads(w)) =
             Cardinality(Pending(w)) + Cardinality(BusyThreads(w))
               - Cardinality(Pending(w) \cap BusyThreads(w))
    BY <2>2, FS_Union
  <2>4. Cardinality(Pending(w) \cap BusyThreads(w)) \in Nat
    BY <2>2, FS_Subset, FS_CardinalityType
  <2> QED
    BY <2>1, <2>2, <2>3, <2>4, ConstantsAssumption DEF BacklogInv
<1> QED
  BY <1>1, <1>2, BacklogInvStep, PTL DEF NoResetSpec

-----------------------------------------------------------------------------
(* The attempts implement AttemptQueue.  Reports and watchdogs check no      *)
(* status when they write theirs: that the row has been taken by then, if it *)
(* has not ended, follows from where the execution or the watchdog is.       *)

QueueInv ==
    /\ ClaimInv
    /\ ExecutionsBegin
    /\ \A a \in Attempt : Unclaimed(a) => attempt[a].worker = None
    /\ \A s \in Scheduler : wd[s].pc \in TimingOut => ~Unclaimed(wd[s].cur)

LEMMA QueueInvInit == Init => QueueInv
<1> SUFFICES ASSUME Init PROVE QueueInv
  OBVIOUS
<1>1. ClaimInv
  BY TypeInit DEF Init, ClaimInv, ClaimedOnce
<1>2. ExecutionsBegin
  BY DEF Init, ExecutionsBegin, NoExec
<1>3. \A a \in Attempt : attempt[a].worker = None
  BY DEF Init, NoAttempt
<1>4. \A s \in Scheduler : wd[s].pc \notin TimingOut
  BY DEF Init, IdleWatchdog, TimingOut
<1> QED
  BY <1>1, <1>2, <1>3, <1>4 DEF QueueInv

LEMMA QueueInvStep == QueueInv /\ [NoResetNext]_vars => QueueInv'
<1> SUFFICES ASSUME QueueInv, [NoResetNext]_vars PROVE QueueInv'
  OBVIOUS
<1>1. TypeInv /\ [Next]_vars /\ ClaimInv' /\ ExecutionsBegin'
  BY NoResetIsNext, ClaimInvStep, ExecutionsBeginStep DEF QueueInv, ClaimInv
<1>2. ASSUME NEW a \in Attempt, Unclaimed(a)' PROVE attempt'[a].worker = None
  BY <1>1, <1>2, UnclaimedStep DEF QueueInv, OnlyAdded
<1>3. ASSUME NEW s \in Scheduler, wd'[s].pc \in TimingOut PROVE ~Unclaimed(wd[s].cur)'
  <2>1. wd'[s].cur \in Attempt
    BY <1>1, <1>3, TypeInvStep DEF TypeInv, PointersValid
  <2>2. ~Unclaimed(wd'[s].cur)
    BY <1>1, <1>3, TimingOutStep DEF QueueInv, TimeOutAndCount, TimingOut, Unclaimed
  <2>3. PICK a \in Attempt : a = wd'[s].cur /\ ~Unclaimed(a)
    BY <2>1, <2>2
  <2>4. ~Unclaimed(a)'
    BY <1>1, <2>3, UnclaimedStep DEF OnlyAdded
  <2> QED
    BY <2>3, <2>4 DEF Unclaimed
<1> QED
  BY <1>1, <1>2, <1>3 DEF QueueInv

QueueStates == {"none", "waiting", "taken", "ended"}

\* Functions over one set that differ in two places at most.
LEMMA TwoEntries ==
    ASSUME NEW S, NEW T, NEW f \in [S -> T], NEW g \in [S -> T], NEW x \in S, NEW y \in S, x # y,
           \A z \in S \ {x, y} : g[z] = f[z]
    PROVE  g = [f EXCEPT ![x] = g[x], ![y] = g[y]]
<1>1. \A z \in S : g[z] = [f EXCEPT ![x] = g[x], ![y] = g[y]][z]
  OBVIOUS
<1> QED
  BY <1>1

LEMMA QueueUnchanged ==
    ASSUME \A a \in Attempt : attempt'[a].status = attempt[a].status
                              /\ attempt'[a].worker = attempt[a].worker
    PROVE  UNCHANGED Queue!vars
  BY DEF Queue!vars, QueueState

\* An attempt that has been claimed gets a final status, for the first time or again.
LEMMA QueueEnds ==
    ASSUME TypeInv, NEW a \in Attempt, ~Unclaimed(a),
           NEW status \in AttemptStatus \ ActiveStatus,
           attempt' = [attempt EXCEPT ![a] = [attempt[a] EXCEPT !.status = status]]
    PROVE  [Queue!Next]_(Queue!vars)
<1>1. /\ attempt'[a] = [attempt[a] EXCEPT !.status = status]
      /\ \A b \in Attempt \ {a} : attempt'[b] = attempt[b]
      /\ attempt[a] \in AttemptRow
  BY DEF TypeInv, TypeOK
<1>2. attempt'[a].status = status /\ attempt'[a].worker = attempt[a].worker
  BY <1>1 DEF AttemptRow
<1>3. QueueState(attempt'[a]) = "ended" /\ \A b \in Attempt : attempt'[b].worker = attempt[b].worker
  BY <1>1, <1>2 DEF QueueState, AttemptStatus, ActiveStatus
<1>4. CASE attempt[a].status = "RUNNING"
  <2>1. QueueState(attempt[a]) = "taken"
    BY <1>4 DEF QueueState
  <2>2. \A b \in Attempt \ {a} : QueueState(attempt'[b]) = QueueState(attempt[b])
    BY <1>1
  <2>3. UNCHANGED [b \in Attempt |-> attempt[b].worker]
    BY <1>3
  <2>4. [b \in Attempt |-> QueueState(attempt[b])]'
          = [[b \in Attempt |-> QueueState(attempt[b])] EXCEPT ![a] = "ended"]
    BY <1>3, <2>2
  <2>5. Queue!End(a)
    BY <2>1, <2>3, <2>4 DEF Queue!End
  <2> QED
    BY <2>5 DEF Queue!Next
<1>5. CASE attempt[a].status # "RUNNING"
  <2>1. QueueState(attempt[a]) = "ended"
    BY <1>5 DEF Unclaimed, QueueState
  <2> QED
    BY <1>1, <1>3, <2>1 DEF Queue!vars
<1> QED
  BY <1>4, <1>5

LEMMA QueueStep ==
    ASSUME QueueInv, [NoResetNext]_vars
    PROVE  [Queue!Next]_(Queue!vars)
<1>i. TypeInv /\ attempt \in [Attempt -> AttemptRow]
  BY DEF QueueInv, ClaimInv, TypeInv, TypeOK
<1>1. ASSUME NEW r \in Run, NEW b \in Attempt, CreateRunForJob(r, b) \/ TriggerAttempt(r, b)
      PROVE  Queue!Next
  <2>1. Free(b) /\ attempt' = [attempt EXCEPT ![b] = NewAttempt(r, 1)]
    BY <1>1 DEF CreateRunForJob, TriggerAttempt, NextRow
  <2>2. QueueState(attempt[b]) = "none" /\ attempt[b].worker = None
    BY <2>1 DEF QueueInv, Free, Unclaimed, QueueState
  <2>3. QueueState(NewAttempt(r, 1)) = "waiting" /\ NewAttempt(r, 1).worker = None
    BY DEF NewAttempt, NoAttempt, QueueState
  <2>4. Queue!Insert(b)
    BY <1>i, <2>1, <2>2, <2>3 DEF Queue!Insert
  <2> QED
    BY <2>4 DEF Queue!Next
<1>2. ASSUME NEW w \in Worker, NEW a \in Attempt, ClaimAttempt(w, a) PROVE Queue!Next
  <2>1. QueueState(attempt[a]) = "waiting"
    BY <1>2 DEF ClaimAttempt, Claimable, QueueState
  <2>2. attempt'[a].status = "RUNNING" /\ attempt'[a].worker = w
    BY <1>i, <1>2 DEF ClaimAttempt, AttemptRow
  <2>3. \A b \in Attempt \ {a} : attempt'[b] = attempt[b]
    BY <1>i, <1>2 DEF ClaimAttempt
  <2>4. QueueState(attempt'[a]) = "taken"
    BY <2>2 DEF QueueState
  <2>5. Queue!Take(w, a)
    BY <2>1, <2>2, <2>3, <2>4 DEF Queue!Take
  <2> QED
    BY <2>5 DEF Queue!Next
<1>3. ASSUME NEW w \in Worker, HeartbeatExtend(w) PROVE UNCHANGED Queue!vars
  <2>1. ASSUME NEW a \in Attempt
        PROVE  attempt'[a].status = attempt[a].status /\ attempt'[a].worker = attempt[a].worker
    BY <1>i, <1>3 DEF HeartbeatExtend, AttemptRow
  <2> QED
    BY <2>1, QueueUnchanged
<1>4. ASSUME NEW b \in Attempt, LeaseExpires(b) PROVE UNCHANGED Queue!vars
  <2>1. ASSUME NEW a \in Attempt
        PROVE  attempt'[a].status = attempt[a].status /\ attempt'[a].worker = attempt[a].worker
    BY <1>i, <1>4 DEF LeaseExpires, AttemptRow
  <2> QED
    BY <2>1, QueueUnchanged
<1>5. ASSUME NEW a \in Attempt, NEW n \in Claim, ReportAttempt(a, n)
      PROVE  [Queue!Next]_(Queue!vars)
  <2>1. ~Unclaimed(a)
    BY <1>5, ConstantsAssumption
       DEF ReportAttempt, QueueInv, ClaimInv, ExecutionsBegin, Claim
  <2>2. exec[a][n].result \in AttemptStatus \ ActiveStatus
    <3>1. exec[a][n] \in ExecRecord
      BY <1>i DEF TypeInv, TypeOK
    <3>2. exec[a][n].result \in {"none", "SUCCESS", "FAILED"}
      BY <3>1 DEF ExecRecord
    <3> QED
      BY <1>i, <1>5, <3>2
         DEF ReportAttempt, TypeInv, PointersValid, CallbackPc, AttemptStatus, ActiveStatus
  <2>3. CASE attempt' = attempt
    BY <2>3, QueueUnchanged
  <2>4. CASE attempt' # attempt
    <3>1. attempt' = [attempt EXCEPT ![a] = [attempt[a] EXCEPT !.status = exec[a][n].result]]
      BY <1>5, <2>4 DEF ReportAttempt
    <3> QED
      BY <1>i, <2>1, <2>2, <3>1, QueueEnds
  <2> QED
    BY <2>3, <2>4
<1>6. ASSUME NEW s \in Scheduler, CommitExhausted(s) PROVE [Queue!Next]_(Queue!vars)
  <2>1. PICK a \in Attempt : a = wd[s].cur /\ ~Unclaimed(a)
    BY <1>i, <1>6 DEF CommitExhausted, QueueInv, TypeInv, PointersValid, TimingOut
  <2>2. attempt' = [attempt EXCEPT ![a] = [attempt[a] EXCEPT !.status = "TIMED_OUT"]]
    BY <1>6, <2>1 DEF CommitExhausted, TimedOut
  <2>3. "TIMED_OUT" \in AttemptStatus \ ActiveStatus
    BY DEF AttemptStatus, ActiveStatus
  <2> QED
    BY <1>i, <2>1, <2>2, <2>3, QueueEnds
<1>7. ASSUME NEW s \in Scheduler, NEW b \in Attempt, CommitWithRetry(s, b) PROVE Queue!Next
  <2>1. PICK a \in Attempt, r \in Run, k \in Nat :
             /\ a = wd[s].cur /\ a # b
             /\ attempt' = [attempt EXCEPT ![a] = TimedOut(a), ![b] = NewAttempt(r, k)]
             /\ \A c \in Attempt \ {a, b} : attempt'[c] = attempt[c]
    BY <1>i, <1>7, CommitAdds
  <2>2. attempt'[a] = TimedOut(a) /\ attempt'[b] = NewAttempt(r, k)
    BY <1>i, <2>1
  <2>3. QueueState(attempt'[a]) = "ended" /\ attempt'[a].worker = attempt[a].worker
    BY <1>i, <2>2 DEF TimedOut, QueueState, AttemptRow
  <2>4. QueueState(attempt'[b]) = "waiting" /\ attempt'[b].worker = None
    BY <2>2 DEF NewAttempt, NoAttempt, QueueState
  <2>5. QueueState(attempt[b]) = "none" /\ attempt[b].worker = None
    BY <1>7 DEF CommitWithRetry, NextRow, Free, QueueInv, Unclaimed, QueueState
  <2>6. UNCHANGED [c \in Attempt |-> attempt[c].worker]
    <3>1. \A c \in Attempt : attempt'[c].worker = attempt[c].worker
      BY <2>1, <2>3, <2>4, <2>5
    <3> QED
      BY <3>1
  <2> DEFINE before == [c \in Attempt |-> QueueState(attempt[c])]
             after == [c \in Attempt |-> QueueState(attempt'[c])]
  <2>f. before \in [Attempt -> QueueStates] /\ after \in [Attempt -> QueueStates]
    BY DEF QueueState, QueueStates
  <2>e. \A c \in Attempt : before[c] = QueueState(attempt[c]) /\ after[c] = QueueState(attempt'[c])
    OBVIOUS
  <2>o. \A c \in Attempt \ {a, b} : after[c] = before[c]
    BY <2>1, <2>e
  <2> HIDE DEF before, after
  <2>7. after = [before EXCEPT ![a] = "ended", ![b] = "waiting"]
    <3>1. after = [before EXCEPT ![a] = after[a], ![b] = after[b]]
      BY <2>1, <2>f, <2>o, TwoEntries
    <3>2. after[a] = "ended" /\ after[b] = "waiting"
      BY <2>3, <2>4, <2>e
    <3> QED
      BY <3>1, <3>2
  <2>8. CASE attempt[a].status = "RUNNING"
    <3>1. QueueState(attempt[a]) = "taken"
      BY <2>8 DEF QueueState
    <3>2. Queue!Retry(a, b)
      BY <2>5, <2>6, <2>7, <3>1 DEF Queue!Retry, before, after
    <3> QED
      BY <3>2 DEF Queue!Next
  <2>9. CASE attempt[a].status # "RUNNING"
    <3>1. ~Unclaimed(a)
      BY <1>7, <2>1 DEF CommitWithRetry, QueueInv, TimingOut
    <3>2. QueueState(attempt[a]) = "ended"
      BY <2>9, <3>1 DEF Unclaimed, QueueState
    <3>3. after = [before EXCEPT ![b] = "waiting"]
      <4>1. before[a] = "ended"
        BY <2>e, <3>2
      <4>2. [before EXCEPT ![a] = "ended"] = before
        BY <2>f, <4>1
      <4> QED
        BY <2>7, <4>2
    <3>4. Queue!Insert(b)
      BY <2>5, <2>6, <3>3 DEF Queue!Insert, before, after
    <3> QED
      BY <3>4 DEF Queue!Next
  <2> QED
    BY <2>8, <2>9
<1>8. CASE attempt' = attempt
  BY <1>8, QueueUnchanged
<1>9. \/ attempt' = attempt
      \/ \E w \in Worker : HeartbeatExtend(w) \/ \E b \in Attempt : ClaimAttempt(w, b)
      \/ \E b \in Attempt : LeaseExpires(b) \/ \E n \in Claim : ReportAttempt(b, n)
      \/ \E s \in Scheduler : CommitExhausted(s) \/ \E b \in Attempt : CommitWithRetry(s, b)
      \/ \E r \in Run, b \in Attempt : CreateRunForJob(r, b) \/ TriggerAttempt(r, b)
  BY RowWriters
<1> QED
  BY <1>1, <1>2, <1>3, <1>4, <1>5, <1>6, <1>7, <1>8, <1>9

\* Unless an operator resets it, every attempt goes the way of the queue:
\* inserted once, taken once, by the worker that keeps it, and ended once.
THEOREM AttemptsAreQueued == NoResetSpec => ImplementsQueue
<1>1. Init => Queue!Init
  BY DEF Init, Queue!Init, NoAttempt, QueueState
<1> QED
  BY <1>1, QueueInvInit, QueueInvStep, QueueStep, PTL
     DEF NoResetSpec, ImplementsQueue, Queue!Spec

=============================================================================
