----------------------- MODULE ExecutionSafetyProofs -----------------------
(* Safety theorems about Execution.  The attempts of a run are sequential   *)
(* and never more than job.retry_limit, for every number of runs, workers,  *)
(* claims, faults and resets, PROVIDED one scheduler process runs: the      *)
(* watchdogs of two may both time one attempt out and both retry it.        *)
EXTENDS ExecutionTypeProofs

-----------------------------------------------------------------------------
(* The inductive invariant *)

OneScheduler == \A s, t \in Scheduler : s = t

\* A run has no attempt before its creation is complete.
RunsBegin ==
    \A r \in Run : /\ run[r] = "none" => ~trigger[r]
                   /\ run[r] = "none" \/ trigger[r] => AttemptsOf(r) = {}

\* The number a watchdog gives next is larger than all numbers given.
NumbersWithinCount ==
    \A a \in Attempt : attempt[a].run \in Run =>
        attempt[a].number <= Cardinality(AttemptsOf(attempt[a].run))

\* While a watchdog times an attempt out, no other attempt of the run is
\* active, and what it has counted stays the count.
Alone(a, total, committing) ==
    /\ \A b \in Attempt : attempt[b].run = attempt[a].run /\ b # a => ~Active(b)
    /\ committing => total = Cardinality(AttemptsOf(attempt[a].run))

TimingOutAlone ==
    \A s \in Scheduler : wd[s].pc \in TimingOut =>
        Alone(wd[s].cur, wd[s].total, wd[s].pc = "commit")

SeqInv ==
    /\ TypeInv
    /\ OneScheduler
    /\ RunsBegin
    /\ NumbersWithinCount
    /\ AttemptsSequential
    /\ TimingOutAlone

-----------------------------------------------------------------------------
(* How the attempts of a run are counted *)

USE DEF RowKept, RowsKept

LEMMA CountKept ==
    ASSUME RowsKept, NEW r
    PROVE  AttemptsOf(r)' = AttemptsOf(r)
  BY DEF AttemptsOf

LEMMA CountAdds ==
    ASSUME TypeInv, NEW r \in Run, NEW a \in Attempt, NEW k \in Nat, Adds(r, a, k)
    PROVE  /\ attempt'[a].run = r /\ attempt'[a].number = k
           /\ a \notin AttemptsOf(r)
           /\ Cardinality(AttemptsOf(r))' = Cardinality(AttemptsOf(r)) + 1
           /\ \A q \in Run \ {r} : AttemptsOf(q)' = AttemptsOf(q)
<1>1. attempt'[a].run = r /\ attempt'[a].number = k
  BY RowTypes DEF Adds
<1>2. attempt[a].run = None
  BY DEF Adds, TypeInv, RowsHaveRuns
<1>3. a \notin AttemptsOf(r)
  BY <1>2, ConstantsAssumption DEF AttemptsOf
<1>4. AttemptsOf(r)' = AttemptsOf(r) \cup {a}
  BY <1>1 DEF Adds, AttemptsOf
<1>5. IsFiniteSet(AttemptsOf(r))
  BY AttemptsFinite DEF AttemptsOf
<1>6. Cardinality(AttemptsOf(r) \cup {a}) = Cardinality(AttemptsOf(r)) + 1
  BY <1>3, <1>5, FS_AddElement
<1>7. \A q \in Run \ {r} : AttemptsOf(q)' = AttemptsOf(q)
  BY <1>1, <1>2, ConstantsAssumption DEF Adds, AttemptsOf
<1> QED
  BY <1>1, <1>3, <1>4, <1>6, <1>7

\* A row that is added is the run's newest, and the others have finished.
AddsNewest(r, a) ==
    /\ Adds(r, a, Cardinality(AttemptsOf(r)) + 1)
    /\ \A b \in AttemptsOf(r) : ~Active(b)'

LEMMA AddsNewestStep ==
    ASSUME SeqInv, AddsRow
    PROVE  \E r \in Run, a \in Attempt : AddsNewest(r, a)
<1>1. ASSUME NEW r \in Run, NEW a \in Attempt, CreateRunForJob(r, a) \/ TriggerAttempt(r, a)
      PROVE  AddsNewest(r, a)
  <2>1. AttemptsOf(r) = {}
    BY <1>1 DEF SeqInv, RunsBegin, CreateRunForJob, TriggerAttempt
  <2>2. Cardinality(AttemptsOf(r)) = 0
    BY <2>1, FS_EmptySet
  <2>3. Adds(r, a, 1)
    BY <1>1, CreateAdds DEF SeqInv
  <2> QED
    BY <2>1, <2>2, <2>3 DEF AddsNewest
<1>2. ASSUME NEW s \in Scheduler, NEW b \in Attempt, CommitWithRetry(s, b)
      PROVE  \E r \in Run : AddsNewest(r, b)
  <2>1. PICK a \in Attempt, r \in Run, k \in Nat :
             /\ a = wd[s].cur /\ r = attempt[a].run /\ k = wd[s].total + 1
             /\ ~Free(a) /\ a # b /\ ~Active(a)'
             /\ \A c \in Attempt \ {a, b} : attempt'[c] = attempt[c]
             /\ Adds(r, b, k)
    BY <1>2, CommitAdds DEF SeqInv
  <2>2. wd[s].total = Cardinality(AttemptsOf(r)) /\ \A c \in AttemptsOf(r) : c # a => ~Active(c)
    BY <1>2, <2>1 DEF CommitWithRetry, SeqInv, TimingOutAlone, Alone, TimingOut, AttemptsOf
  <2>3. \A c \in AttemptsOf(r) : ~Active(c)'
    <3>1. b \notin AttemptsOf(r)
      BY <2>1, ConstantsAssumption DEF Adds, SeqInv, TypeInv, RowsHaveRuns, AttemptsOf
    <3> QED
      BY <2>1, <2>2, <3>1 DEF AttemptsOf, Active
  <2> QED
    BY <2>1, <2>2, <2>3 DEF AddsNewest
<1> QED
  BY <1>1, <1>2 DEF AddsRow

-----------------------------------------------------------------------------
(* The conjuncts are preserved *)

LEMMA SequentialStep ==
    ASSUME SeqInv, [Next]_vars
    PROVE  AttemptsSequential' /\ NumbersWithinCount'
<1>i. TypeInv /\ AttemptsSequential /\ NumbersWithinCount
  BY DEF SeqInv
<1>t. attempt \in [Attempt -> AttemptRow]
  BY <1>i DEF TypeInv, TypeOK
<1>1. CASE RowsKept
  <2>1. \A r : AttemptsOf(r)' = AttemptsOf(r)
    BY <1>1, CountKept
  <2>3. NumbersWithinCount'
    BY <1>1, <1>i, <2>1 DEF NumbersWithinCount
  <2>4. AttemptsSequential'
    BY <1>1, <1>i DEF AttemptsSequential
  <2> QED
    BY <2>3, <2>4
<1>2. ASSUME NEW r \in Run, NEW a \in Attempt, AddsNewest(r, a)
      PROVE  AttemptsSequential' /\ NumbersWithinCount'
  <2>k. PICK c \in Nat : c = Cardinality(AttemptsOf(r))
    BY CountType
  <2>1. Adds(r, a, c + 1)
    BY <1>2, <2>k DEF AddsNewest
  <2>2. /\ attempt'[a].run = r /\ attempt'[a].number = c + 1
        /\ a \notin AttemptsOf(r)
        /\ Cardinality(AttemptsOf(r))' = c + 1
        /\ \A q \in Run \ {r} : AttemptsOf(q)' = AttemptsOf(q)
    BY <1>i, <2>1, <2>k, CountAdds
  <2>3. \A b \in Attempt \ {a} : RowKept(b)
    BY <2>1 DEF Adds
  <2>n. \A b \in Attempt : attempt[b].number \in Nat
    BY <1>t DEF AttemptRow
  <2>5. \A b \in AttemptsOf(r) : attempt'[b].number <= c
    BY <1>i, <2>2, <2>3, <2>k DEF NumbersWithinCount, AttemptsOf
  <2>6. ASSUME NEW b \in Attempt, NEW q \in Run, attempt'[b].run = q
        PROVE  attempt'[b].number <= Cardinality(AttemptsOf(q))'
    <3>1. CASE b = a
      BY <2>2, <2>6, <3>1
    <3>2. CASE b # a /\ q = r
      <4>1. attempt'[b].number <= c /\ attempt'[b].number \in Nat
        BY <2>3, <2>5, <2>6, <2>n, <3>2 DEF AttemptsOf
      <4> QED
        BY <2>2, <3>2, <4>1
    <3>3. CASE b # a /\ q # r
      BY <1>i, <2>2, <2>3, <2>6, <3>3 DEF NumbersWithinCount
    <3> QED
      BY <3>1, <3>2, <3>3
  <2>7. NumbersWithinCount'
    BY <2>6 DEF NumbersWithinCount, AttemptsOf
  <2>8. AttemptsSequential'
    <3> SUFFICES ASSUME NEW b \in Attempt, NEW d \in Attempt, b # d,
                        attempt'[b].run \in Run, attempt'[d].run = attempt'[b].run
                 PROVE  /\ attempt'[b].number # attempt'[d].number
                        /\ Active(b)' => attempt'[d].number < attempt'[b].number
      BY DEF AttemptsSequential
    <3>1. CASE b = a
      <4>1. attempt'[d].number <= c /\ attempt'[d].number \in Nat
        BY <2>2, <2>3, <2>5, <2>n, <3>1 DEF AttemptsOf
      <4> QED
        BY <2>2, <3>1, <4>1
    <3>2. CASE d = a
      <4>1. b \in AttemptsOf(r)
        BY <2>2, <2>3, <3>2 DEF AttemptsOf
      <4>2. attempt'[b].number <= c /\ attempt'[b].number \in Nat
        BY <2>3, <2>5, <2>n, <3>2, <4>1
      <4>3. ~Active(b)'
        BY <1>2, <4>1 DEF AddsNewest
      <4> QED
        BY <2>2, <3>2, <4>2, <4>3
    <3>3. CASE b # a /\ d # a
      BY <1>i, <2>3, <3>3 DEF AttemptsSequential
    <3> QED
      BY <3>1, <3>2, <3>3
  <2> QED
    BY <2>7, <2>8
<1> QED
  BY <1>i, <1>1, <1>2, RowsStep, AddsNewestStep

LEMMA RunsBeginStep ==
    ASSUME TypeInv, RunsBegin, [Next]_vars
    PROVE  RunsBegin'
<1>i. run \in [Run -> RunStatus \cup {"none"}] /\ trigger \in [Run -> BOOLEAN]
      /\ attempt \in [Attempt -> AttemptRow]
  BY DEF TypeInv, TypeOK
<1>1. ASSUME NEW r \in Run, TriggerRun(r) PROVE RunsBegin'
  <2>1. \A q : AttemptsOf(q)' = AttemptsOf(q)
    BY <1>1 DEF TriggerRun, AttemptsOf
  <2> QED
    BY <1>i, <1>1, <2>1 DEF TriggerRun, RunsBegin
<1>2. ASSUME NEW r \in Run, NEW a \in Attempt, CreateRunForJob(r, a) \/ TriggerAttempt(r, a)
      PROVE  RunsBegin'
  <2>1. Adds(r, a, 1)
    BY <1>2, CreateAdds
  <2>2. \A q \in Run \ {r} : AttemptsOf(q)' = AttemptsOf(q)
    BY <2>1, CountAdds
  <2>3. run'[r] # "none" /\ ~trigger'[r]
    BY <1>i, <1>2 DEF CreateRunForJob, TriggerAttempt, RunsBegin
  <2>4. \A q \in Run \ {r} : run'[q] = run[q] /\ trigger'[q] = trigger[q]
    BY <1>i, <1>2 DEF CreateRunForJob, TriggerAttempt
  <2> QED
    BY <2>2, <2>3, <2>4 DEF RunsBegin
<1>3. ASSUME NEW s \in Scheduler, NEW b \in Attempt, CommitWithRetry(s, b) PROVE RunsBegin'
  <2>1. PICK a \in Attempt, r \in Run, k \in Nat : r = attempt[a].run /\ Adds(r, b, k)
    BY <1>3, CommitAdds
  <2>2. \A q \in Run \ {r} : AttemptsOf(q)' = AttemptsOf(q)
    BY <2>1, CountAdds
  <2>3. run[r] # "none" /\ ~trigger[r]
    BY <2>1 DEF RunsBegin, AttemptsOf
  <2> QED
    BY <1>3, <2>2, <2>3 DEF RunsBegin, CommitWithRetry
<1>4. ASSUME NEW a \in Attempt, NEW n \in Claim, UpdateRunSave(a, n) PROVE RunsBegin'
  <2>1. \A q : AttemptsOf(q)' = AttemptsOf(q)
    BY <1>4 DEF UpdateRunSave, AttemptsOf
  <2>2. ~Free(a) /\ a \in AttemptsOf(attempt[a].run) /\ attempt[a].run \in Run
    <3>1. ~Free(a)
      BY <1>4 DEF UpdateRunSave, TypeInv, PointersValid
    <3> QED
      BY <1>i, <3>1 DEF TypeInv, RowsHaveRuns, AttemptRow, AttemptsOf
  <2>3. ~trigger[attempt[a].run]
    BY <1>i, <2>2 DEF RunsBegin
  <2>4. \A q \in Run : q # attempt[a].run => run'[q] = run[q]
    BY <1>i, <1>4 DEF UpdateRunSave
  <2>5. run'[attempt[a].run] # "none" /\ trigger' = trigger
    BY <1>i, <1>4, <2>2 DEF UpdateRunSave, Saved
  <2> QED
    BY <1>i, <2>1, <2>2, <2>3, <2>4, <2>5 DEF RunsBegin
<1>5. ASSUME NEW s \in Scheduler, MarkRunSave(s) PROVE RunsBegin'
  <2>1. \A q : AttemptsOf(q)' = AttemptsOf(q)
    BY <1>5 DEF MarkRunSave, AttemptsOf
  <2>2. \A q \in Run : run'[q] = run[q] \/ run'[q] # "none"
    BY <1>i, <1>5 DEF MarkRunSave, Saved
  <2>3. \A q \in Run : run'[q] = "none" => run[q] = "none"
    BY <2>2
  <2> QED
    BY <1>i, <1>5, <2>1, <2>3 DEF RunsBegin, MarkRunSave
<1>6. ASSUME RowsKept, run' = run, trigger' = trigger PROVE RunsBegin'
  BY <1>i, <1>6, CountKept DEF RunsBegin
<1>7. \/ run' = run
      \/ \E r \in Run : TriggerRun(r) \/ \E a \in Attempt : CreateRunForJob(r, a)
      \/ \E a \in Attempt, n \in Claim : UpdateRunSave(a, n)
      \/ \E s \in Scheduler : MarkRunSave(s)
  BY RunWriters
<1>8. \/ trigger' = trigger
      \/ \E r \in Run : TriggerRun(r) \/ \E a \in Attempt : TriggerAttempt(r, a)
  BY TriggerWriters
<1> QED
  BY <1>i, <1>1, <1>2, <1>3, <1>4, <1>5, <1>6, <1>7, <1>8, RowsStep DEF AddsRow

\* In a run whose attempts are sequential an active attempt is the only one.
LEMMA ActiveIsAlone ==
    ASSUME TypeOK, AttemptsSequential, NEW a \in Attempt, Active(a), attempt[a].run \in Run
    PROVE  \A b \in Attempt : attempt[b].run = attempt[a].run /\ b # a => ~Active(b)
<1>t. \A b \in Attempt : attempt[b].number \in Nat
  BY DEF TypeOK, AttemptRow
<1> SUFFICES ASSUME NEW b \in Attempt, attempt[b].run = attempt[a].run, b # a, Active(b)
             PROVE  FALSE
  OBVIOUS
<1>1. attempt[b].number < attempt[a].number /\ attempt[a].number < attempt[b].number
  BY DEF AttemptsSequential
<1> QED
  BY <1>t, <1>1

LEMMA TimingOutAloneStep ==
    ASSUME SeqInv, [Next]_vars
    PROVE  TimingOutAlone'
<1> SUFFICES ASSUME NEW s \in Scheduler, wd'[s].pc \in TimingOut
             PROVE  Alone(wd[s].cur, wd[s].total, wd[s].pc = "commit")'
  BY DEF TimingOutAlone
<1>i. TypeInv /\ TypeOK /\ attempt \in [Attempt -> AttemptRow]
  BY DEF SeqInv, TypeInv, TypeOK
<1>o. \A t \in Scheduler : t = s
  BY DEF SeqInv, OneScheduler
<1>1. CASE /\ wd[s].pc = wd'[s].pc /\ wd[s].cur = wd'[s].cur /\ wd[s].total = wd'[s].total
           /\ \A b \in Attempt : ~CommitWithRetry(s, b)
  <2>1. PICK a \in Attempt : a = wd[s].cur /\ ~Free(a)
    BY <1>1 DEF SeqInv, TypeInv, PointersValid
  <2>2. PICK q \in Run : attempt[a].run = q
    BY <1>i, <2>1 DEF TypeInv, RowsHaveRuns, AttemptRow
  <2>3. /\ \A b \in Attempt : attempt[b].run = q /\ b # a => ~Active(b)
        /\ wd[s].pc = "commit" => wd[s].total = Cardinality(AttemptsOf(q))
    BY <1>1, <2>1, <2>2 DEF SeqInv, TimingOutAlone, Alone
  <2>4. /\ attempt'[a].run = q
        /\ \A b \in Attempt : attempt'[b].run = q /\ b # a => ~Active(b)'
        /\ AttemptsOf(q)' = AttemptsOf(q)
    <3>1. CASE RowsKept
      BY <2>2, <2>3, <3>1, CountKept
    <3>2. CASE AddsRow
      <4>1. PICK r \in Run, b \in Attempt : CreateRunForJob(r, b) \/ TriggerAttempt(r, b)
        BY <1>1, <1>o, <3>2 DEF AddsRow
      <4>2. AttemptsOf(r) = {}
        BY <4>1 DEF SeqInv, RunsBegin, CreateRunForJob, TriggerAttempt
      <4>3. r # q
        BY <2>2, <4>2 DEF AttemptsOf
      <4>4. Adds(r, b, 1)
        BY <1>i, <4>1 DEF CreateRunForJob, TriggerAttempt, NextRow, Adds, Free, Active
      <4>5. attempt'[b].run = r /\ AttemptsOf(q)' = AttemptsOf(q)
        BY <1>i, <4>3, <4>4, CountAdds
      <4>6. a # b
        BY <2>1, <4>4 DEF Adds
      <4> QED
        BY <2>2, <2>3, <4>3, <4>4, <4>5, <4>6 DEF Adds
    <3> QED
      BY <1>i, <3>1, <3>2, RowsStep
  <2>5. wd'[s].cur = a
    BY <1>1, <2>1
  <2> QED
    BY <1>1, <2>3, <2>4, <2>5 DEF Alone
<1>2. ASSUME NEW a \in Attempt, RefreshExpired(s, a), attempt[a].status = "RUNNING",
             wd'[s].pc = "timeout", wd'[s].cur = a
      PROVE  Alone(wd[s].cur, wd[s].total, wd[s].pc = "commit")'
  <2>1. Active(a) /\ ~Free(a)
    BY <1>2 DEF Active, ActiveStatus, Free
  <2>2. attempt[a].run \in Run
    BY <1>i, <2>1 DEF TypeInv, RowsHaveRuns, AttemptRow
  <2>3. \A b \in Attempt : attempt[b].run = attempt[a].run /\ b # a => ~Active(b)
    BY <1>i, <2>1, <2>2, ActiveIsAlone DEF SeqInv
  <2>4. attempt' = attempt
    BY <1>2 DEF RefreshExpired
  <2> QED
    BY <1>2, <2>3, <2>4 DEF Alone, Active
<1>3. CASE TimeOutAndCount(s) /\ wd'[s].cur = wd[s].cur
           /\ wd'[s].total = Cardinality(AttemptsOf(attempt[wd[s].cur].run))
  <2>1. attempt' = attempt /\ wd[s].pc \in TimingOut
    BY <1>3 DEF TimeOutAndCount, TimingOut
  <2>2. \A b \in Attempt : attempt[b].run = attempt[wd[s].cur].run /\ b # wd[s].cur => ~Active(b)
    BY <2>1 DEF SeqInv, TimingOutAlone, Alone
  <2> QED
    BY <1>3, <2>1, <2>2 DEF Alone, Active, AttemptsOf
<1> QED
  BY <1>i, <1>1, <1>2, <1>3, TimingOutStep

-----------------------------------------------------------------------------
(* The theorems *)

LEMMA SeqInvInit == Init /\ OneScheduler => SeqInv
<1> SUFFICES ASSUME Init, OneScheduler PROVE SeqInv
  OBVIOUS
<1>1. \A r \in Run : AttemptsOf(r) = {}
  BY ConstantsAssumption DEF Init, AttemptsOf, NoAttempt
<1>2. RunsBegin
  BY <1>1 DEF Init, RunsBegin
<1>3. NumbersWithinCount /\ AttemptsSequential
  BY ConstantsAssumption DEF Init, NoAttempt, NumbersWithinCount, AttemptsSequential
<1>5. TimingOutAlone
  BY DEF Init, TimingOutAlone, TimingOut, IdleWatchdog
<1> QED
  BY <1>2, <1>3, <1>5, TypeInit DEF SeqInv

LEMMA SeqInvStep == SeqInv /\ [Next]_vars => SeqInv'
<1> SUFFICES ASSUME SeqInv, [Next]_vars PROVE SeqInv'
  OBVIOUS
<1>1. TypeInv'
  BY TypeInvStep DEF SeqInv
<1>2. OneScheduler'
  BY DEF SeqInv, OneScheduler
<1> QED
  BY <1>1, <1>2, SequentialStep, RunsBeginStep, TimingOutAloneStep DEF SeqInv

LEMMA SeqInvAlways == Spec /\ OneScheduler => []SeqInv
<1>1. Init /\ OneScheduler /\ [][Next]_vars => []SeqInv
  BY SeqInvInit, SeqInvStep, PTL
<1> QED
  BY <1>1, PTL DEF Spec

\* With one scheduler process the attempts of a run come one after the other:
\* numbers never repeat and only the newest attempt can be claimed or running,
\* through crashes, late reports, restarts and operator resets.
THEOREM SequentialAttempts == Spec /\ OneScheduler => []AttemptsSequential
<1>1. SeqInv => AttemptsSequential
  BY DEF SeqInv
<1> QED
  BY <1>1, SeqInvAlways, PTL

\* With any number of schedulers a finished attempt never becomes claimable or
\* running again and a settled run never reopens.
THEOREM TerminalIsTerminal == Spec => NeverReopened
<1>1. Spec => []TypeInv
  BY TypeInit, TypeInvStep, PTL DEF Spec
<1>2. TypeInv /\ [Next]_vars =>
        [/\ \A a \in Attempt : ~Active(a) /\ ~Free(a) => ~Active(a)'
         /\ \A r \in Run : run[r] \in FinalRunStatus => run'[r] \in FinalRunStatus]_vars
  <2> SUFFICES ASSUME TypeInv, [Next]_vars
               PROVE  /\ \A a \in Attempt : ~Active(a) /\ ~Free(a) => ~Active(a)'
                      /\ \A r \in Run : run[r] \in FinalRunStatus => run'[r] \in FinalRunStatus
    OBVIOUS
  <2>1. \A a \in Attempt : ~Active(a) /\ ~Free(a) => ~Active(a)'
    BY RowsStep, AddsStep DEF Adds
  <2>2. ASSUME NEW r \in Run, run[r] \in FinalRunStatus PROVE run'[r] \in FinalRunStatus
    <3>1. run \in [Run -> RunStatus \cup {"none"}]
      BY DEF TypeInv, TypeOK
    <3>2. CASE run' = run
      BY <2>2, <3>2
    <3>3. ASSUME NEW q \in Run, TriggerRun(q) \/ \E a \in Attempt : CreateRunForJob(q, a)
          PROVE  run'[r] \in FinalRunStatus
      <4>1. q # r
        BY <2>2, <3>3 DEF TriggerRun, CreateRunForJob, FinalRunStatus, RunStatus
      <4> QED
        BY <2>2, <3>1, <3>3, <4>1 DEF TriggerRun, CreateRunForJob
    <3>4. ASSUME NEW q, NEW pc, run' = [run EXCEPT ![q] = Saved(pc)]
          PROVE  run'[r] \in FinalRunStatus
      BY <2>2, <3>1, <3>4 DEF Saved, FinalRunStatus, RunStatus
    <3>5. \/ run' = run
          \/ \E q \in Run : TriggerRun(q) \/ \E a \in Attempt : CreateRunForJob(q, a)
          \/ \E a \in Attempt, n \in Claim : UpdateRunSave(a, n)
          \/ \E s \in Scheduler : MarkRunSave(s)
      BY RunWriters
    <3> QED
      BY <3>2, <3>3, <3>4, <3>5 DEF UpdateRunSave, MarkRunSave
  <2> QED
    BY <2>1, <2>2
<1> QED
  BY <1>1, <1>2, PTL DEF Spec, NeverReopened
-----------------------------------------------------------------------------
(* Several schedulers.  A watchdog that will insert a retry has counted the *)
(* attempts of the run while it held the lock of one of them: there are not *)
(* more such watchdogs than schedulers, nor than attempts, and each adds    *)
(* one attempt to a number that was within the limit.                       *)

Retriers(r) ==
    {s \in Scheduler : /\ wd[s].pc = "commit" /\ RetriesLeft(wd[s].total)
                       /\ attempt[wd[s].cur].run = r}

WithinBound(total) ==
    \/ total <= RetryLimit
    \/ total < RetryLimit + Cardinality(Scheduler) /\ total <= 2 * (RetryLimit - 1)

LocksExclusive ==
    \A s, t \in Scheduler :
        wd[s].pc = "commit" /\ wd[t].pc = "commit" /\ wd[s].cur = wd[t].cur => s = t

RetriesCounted ==
    \A r \in Run : WithinBound(Cardinality(AttemptsOf(r)) + Cardinality(Retriers(r)))

RetryInv == TypeInv /\ RunsBegin /\ LocksExclusive /\ RetriesCounted

LEMMA RetriersCount ==
    ASSUME NEW r
    PROVE  /\ IsFiniteSet(Retriers(r)) /\ Cardinality(Retriers(r)) \in Nat
           /\ Cardinality(Retriers(r)) <= Cardinality(Scheduler) /\ Cardinality(Scheduler) \in Nat
<1>1. Retriers(r) \in SUBSET Scheduler
  BY DEF Retriers
<1> QED
  BY <1>1, SchedulersFinite, FS_Subset, FS_CardinalityType

\* Schedulers that each hold an attempt of their own of the run.
LEMMA HoldersCount ==
    ASSUME NEW r \in Run, NEW S \in SUBSET Scheduler,
           \A s \in S : wd[s].cur \in AttemptsOf(r),
           \A s, t \in S : wd[s].cur = wd[t].cur => s = t
    PROVE  Cardinality(S) <= Cardinality(AttemptsOf(r))
<1> DEFINE held == [s \in S |-> wd[s].cur]
<1>1. held \in [S -> AttemptsOf(r)]
  OBVIOUS
<1>2. \A s, t \in S : held[s] = held[t] => s = t
  OBVIOUS
<1>3. held \in Injection(S, AttemptsOf(r))
  <2> HIDE DEF held
  <2> QED
    BY <1>1, <1>2 DEF Injection, IsInjective
<1>4. IsFiniteSet(AttemptsOf(r))
  BY AttemptsFinite DEF AttemptsOf
<1> QED
  BY <1>3, <1>4, FS_Injection

LEMMA LocksExclusiveStep ==
    ASSUME TypeInv, LocksExclusive, [Next]_vars
    PROVE  LocksExclusive'
<1> SUFFICES ASSUME NEW s \in Scheduler, NEW t \in Scheduler, s # t,
                    wd'[s].pc = "commit", wd'[t].pc = "commit", wd'[s].cur = wd'[t].cur
             PROVE  FALSE
  BY DEF LocksExclusive
<1>1. ASSUME NEW u \in Scheduler, wd'[u].pc = "commit"
      PROVE  \/ wd[u].pc = "commit" /\ wd[u].cur = wd'[u].cur
             \/ TimeOutAndCount(u) /\ wd[u].cur = wd'[u].cur
  BY <1>1, TimingOutStep DEF TimingOut
<1>2. ASSUME NEW u \in Scheduler, NEW v \in Scheduler, u # v, TimeOutAndCount(u)
      PROVE  wd'[v] = wd[v] /\ ~Locked(wd[u].cur)
  BY <1>2 DEF TimeOutAndCount, TypeInv, TypeOK
<1>3. CASE TimeOutAndCount(s)
  <2>1. wd'[t] = wd[t] /\ ~Locked(wd[s].cur)
    BY <1>2, <1>3
  <2>2. wd[s].cur = wd'[s].cur
    BY <1>3 DEF TimeOutAndCount, TypeInv, TypeOK, WatchdogRecord
  <2> QED
    BY <2>1, <2>2 DEF Locked
<1>4. CASE TimeOutAndCount(t)
  <2>1. wd'[s] = wd[s] /\ ~Locked(wd[t].cur)
    BY <1>2, <1>4
  <2>2. wd[t].cur = wd'[t].cur
    BY <1>4 DEF TimeOutAndCount, TypeInv, TypeOK, WatchdogRecord
  <2> QED
    BY <2>1, <2>2 DEF Locked
<1> QED
  BY <1>1, <1>3, <1>4 DEF LocksExclusive

\* Who will insert a retry after a step would have done so before it, or has
\* just counted.
LEMMA RetriersStep ==
    ASSUME TypeInv, [Next]_vars, NEW r \in Run, NEW s \in Retriers(r)'
    PROVE  \/ s \in Retriers(r) /\ \A b \in Attempt : ~CommitWithRetry(s, b)
           \/ /\ TimeOutAndCount(s) /\ attempt[wd[s].cur].run = r
              /\ Cardinality(AttemptsOf(r)) < RetryLimit
<1>1. /\ s \in Scheduler /\ wd'[s].pc = "commit" /\ RetriesLeft(wd'[s].total)
      /\ attempt'[wd'[s].cur].run = r
  BY DEF Retriers, RetriesLeft
<1>2. ASSUME wd[s].pc \in TimingOut, wd'[s].cur = wd[s].cur PROVE attempt[wd[s].cur].run = r
  <2>1. wd[s].cur \in Attempt /\ ~Free(wd[s].cur)
    BY <1>1, <1>2 DEF TypeInv, PointersValid
  <2> QED
    BY <1>1, <1>2, <2>1, RowsStep, AddsStep DEF Adds
<1>3. CASE TimeOutAndCount(s) /\ wd'[s].cur = wd[s].cur
           /\ wd'[s].total = Cardinality(AttemptsOf(attempt[wd[s].cur].run))
  <2>1. attempt[wd[s].cur].run = r
    BY <1>2, <1>3 DEF TimeOutAndCount, TimingOut
  <2> QED
    BY <1>1, <1>3, <2>1 DEF RetriesLeft
<1>4. CASE /\ wd[s].pc = wd'[s].pc /\ wd[s].cur = wd'[s].cur /\ wd[s].total = wd'[s].total
           /\ \A b \in Attempt : ~CommitWithRetry(s, b)
  <2>1. attempt[wd[s].cur].run = r
    BY <1>1, <1>2, <1>4 DEF TimingOut
  <2> QED
    BY <1>1, <1>4, <2>1 DEF Retriers
<1> QED
  BY <1>1, <1>3, <1>4, TimingOutStep DEF TimingOut

LEMMA RetriesCountedStep ==
    ASSUME RetryInv, [Next]_vars
    PROVE  RetriesCounted'
<1> SUFFICES ASSUME NEW r \in Run
             PROVE  WithinBound(Cardinality(AttemptsOf(r)) + Cardinality(Retriers(r)))'
  BY DEF RetriesCounted
<1>i. TypeInv /\ RunsBegin /\ LocksExclusive
  BY DEF RetryInv
<1>n. PICK n \in Nat, k \in Nat, m \in Nat :
        /\ n = Cardinality(AttemptsOf(r)) /\ k = Cardinality(Retriers(r))
        /\ m = Cardinality(Scheduler)
        /\ n + k <= RetryLimit \/ (n + k < RetryLimit + m /\ n + k <= 2 * (RetryLimit - 1))
  BY <1>i, CountType, RetriersCount DEF RetryInv, RetriesCounted, WithinBound
<1>f. /\ AttemptsOf(r)' \in SUBSET Attempt /\ Retriers(r)' \in SUBSET Scheduler
      /\ IsFiniteSet(AttemptsOf(r)') /\ IsFiniteSet(Retriers(r)')
  <2>1. AttemptsOf(r)' \in SUBSET Attempt /\ Retriers(r)' \in SUBSET Scheduler
    BY DEF AttemptsOf, Retriers
  <2> QED
    BY <2>1, AttemptsFinite, SchedulersFinite, FS_Subset
<1>p. PICK n1 \in Nat, k1 \in Nat :
        n1 = Cardinality(AttemptsOf(r))' /\ k1 = Cardinality(Retriers(r))' /\ k1 <= m
  BY <1>f, <1>n, SchedulersFinite, FS_Subset, FS_CardinalityType
<1>q. WithinBound(n1 + k1)' <=> WithinBound(n1 + k1)
  BY DEF WithinBound
<1>r. SUFFICES WithinBound(n1 + k1)
  BY <1>p, <1>q DEF WithinBound
<1>1. ASSUME NEW s \in Scheduler, TimeOutAndCount(s), attempt[wd[s].cur].run = r, n < RetryLimit
      PROVE  WithinBound(n1 + k1)
  <2>1. n1 = n
    BY <1>1, <1>n, <1>p DEF TimeOutAndCount, AttemptsOf
  <2> DEFINE S == Retriers(r) \cup {s}
  <2>2. S \in SUBSET Scheduler
    BY DEF Retriers
  <2>3. \A t \in S : wd[t].cur \in AttemptsOf(r)
    BY <1>i, <1>1 DEF Retriers, AttemptsOf, TimeOutAndCount, TypeInv, PointersValid, TimingOut
  <2>4. \A t \in Retriers(r) : wd[t].pc = "commit" /\ wd[t].cur # wd[s].cur
    BY <1>1 DEF Retriers, TimeOutAndCount, Locked
  <2>5. \A t, u \in S : wd[t].cur = wd[u].cur => t = u
    BY <1>i, <2>2, <2>4 DEF LocksExclusive
  <2>6. Cardinality(S) <= n
    BY <1>n, <2>2, <2>3, <2>5, HoldersCount
  <2>7. Retriers(r)' \subseteq S
    <3>1. ASSUME NEW t \in Retriers(r)' PROVE t \in S
      <4>1. t \in Scheduler /\ wd'[t].pc = "commit"
        BY DEF Retriers
      <4>2. t # s => ~TimeOutAndCount(t)
        <5>1. ASSUME t # s, TimeOutAndCount(t) PROVE FALSE
          <6>1. wd'[t].pc = "commit" /\ wd'[t] = wd[t]
            BY <1>i, <1>1, <4>1, <5>1 DEF TimeOutAndCount, TypeInv, TypeOK
          <6> QED
            BY <5>1, <6>1 DEF TimeOutAndCount
        <5> QED
          BY <5>1
      <4> QED
        BY <1>i, <4>2, RetriersStep
    <3> QED
      BY <3>1
  <2>8. k1 <= Cardinality(S) /\ Cardinality(S) \in Nat
    BY <1>p, <2>2, <2>7, SchedulersFinite, FS_Subset, FS_CardinalityType
  <2>9. k1 <= n
    BY <2>6, <2>8, <1>n
  <2> HIDE DEF S
  <2> QED
    BY <1>n, <1>p, <1>1, <2>1, <2>9, ConstantsAssumption DEF WithinBound
<1>2. ASSUME Retriers(r)' \subseteq Retriers(r), n1 = n PROVE WithinBound(n1 + k1)
  <2>1. k1 <= k
    BY <1>2, <1>n, <1>p, RetriersCount, FS_Subset
  <2> QED
    BY <1>n, <1>2, <2>1, ConstantsAssumption DEF WithinBound
<1>3. ASSUME NEW s \in Scheduler, NEW b \in Attempt, CommitWithRetry(s, b),
             Retriers(r)' \subseteq Retriers(r) \ {s}
      PROVE  WithinBound(n1 + k1)
  <2>1. PICK a \in Attempt, q \in Run, c \in Nat :
          /\ a = wd[s].cur /\ q = attempt[a].run /\ c = wd[s].total + 1 /\ Adds(q, b, c)
    BY <1>3, <1>i, CommitAdds
  <2>2. CASE q = r
    <3>1. n1 = n + 1
      BY <1>i, <1>n, <1>p, <2>1, <2>2, CountAdds
    <3>2. s \in Retriers(r)
      BY <1>3, <2>1, <2>2 DEF Retriers, CommitWithRetry
    <3>3. Cardinality(Retriers(r) \ {s}) = k - 1
      BY <1>n, <3>2, RetriersCount, FS_RemoveElement
    <3>4. k1 <= k - 1
      BY <1>3, <1>p, <3>3, RetriersCount, FS_RemoveElement, FS_Subset
    <3> QED
      BY <1>n, <3>1, <3>4, ConstantsAssumption DEF WithinBound
  <2>3. CASE q # r
    <3>1. n1 = n
      BY <1>i, <1>n, <1>p, <2>1, <2>3, CountAdds
    <3> QED
      BY <1>2, <1>3, <3>1
  <2> QED
    BY <2>2, <2>3
<1>4. ASSUME NEW q \in Run, NEW b \in Attempt, CreateRunForJob(q, b) \/ TriggerAttempt(q, b),
             Retriers(r)' \subseteq Retriers(r)
      PROVE  WithinBound(n1 + k1)
  <2>1. Adds(q, b, 1)
    BY <1>4, <1>i, CreateAdds
  <2>2. CASE q = r
    <3>1. n = 0
      BY <1>i, <1>4, <1>n, <2>2, FS_EmptySet DEF RunsBegin, CreateRunForJob, TriggerAttempt
    <3>2. n1 = n + 1
      BY <1>i, <1>n, <1>p, <2>1, <2>2, CountAdds
    <3>3. Retriers(r) = {}
      <4>1. \A s \in Retriers(r) : wd[s].cur \in AttemptsOf(r)
        BY <1>i DEF Retriers, AttemptsOf, TypeInv, PointersValid, TimingOut
      <4>2. AttemptsOf(r) = {}
        BY <1>i, <1>4, <2>2 DEF RunsBegin, CreateRunForJob, TriggerAttempt
      <4> QED
        BY <4>1, <4>2
    <3>4. k1 = 0
      BY <1>4, <1>p, <3>3, FS_EmptySet
    <3> QED
      BY <3>1, <3>2, <3>4, ConstantsAssumption DEF WithinBound
  <2>3. CASE q # r
    <3>1. n1 = n
      BY <1>i, <1>n, <1>p, <2>1, <2>3, CountAdds
    <3> QED
      BY <1>2, <1>4, <3>1
  <2> QED
    BY <2>2, <2>3
<1>5. CASE \E s \in Scheduler : /\ TimeOutAndCount(s) /\ attempt[wd[s].cur].run = r
                                /\ n < RetryLimit
  BY <1>1, <1>5
<1>6. CASE ~\E s \in Scheduler : /\ TimeOutAndCount(s) /\ attempt[wd[s].cur].run = r
                                 /\ n < RetryLimit
  <2>1. \A s \in Retriers(r)' : s \in Retriers(r) /\ \A b \in Attempt : ~CommitWithRetry(s, b)
    <3>1. \A s \in Retriers(r)' : s \in Scheduler
      BY DEF Retriers
    <3> QED
      BY <1>i, <1>n, <1>6, <3>1, RetriersStep
  <2>2. CASE RowsKept
    <3>1. n1 = n
      BY <1>n, <1>p, <2>2, CountKept
    <3> QED
      BY <1>2, <2>1, <3>1
  <2>3. CASE AddsRow
    BY <1>3, <1>4, <2>1, <2>3 DEF AddsRow
  <2> QED
    BY <1>i, <2>2, <2>3, RowsStep
<1> QED
  BY <1>5, <1>6

LEMMA RetryInvInit == Init => RetryInv
<1> SUFFICES ASSUME Init PROVE RetryInv
  OBVIOUS
<1>1. \A r \in Run : AttemptsOf(r) = {}
  BY ConstantsAssumption DEF Init, AttemptsOf, NoAttempt
<1>2. \A s \in Scheduler : wd[s].pc # "commit"
  BY DEF Init, IdleWatchdog
<1>3. \A r \in Run : Retriers(r) = {}
  BY <1>2 DEF Retriers
<1>4. RetriesCounted
  <2>1. \A r \in Run : Cardinality(AttemptsOf(r)) = 0 /\ Cardinality(Retriers(r)) = 0
    BY <1>1, <1>3, FS_EmptySet
  <2> QED
    BY <2>1, ConstantsAssumption DEF RetriesCounted, WithinBound
<1>5. RunsBegin /\ LocksExclusive
  BY <1>1, <1>2 DEF Init, RunsBegin, LocksExclusive
<1> QED
  BY <1>4, <1>5, TypeInit DEF RetryInv

\* However many schedulers run, a run gets more attempts than retry_limit only
\* by watchdogs that time out different attempts of it at once: fewer extra ones
\* than there are schedulers, and at most twice the limit less two in all.
THEOREM RetriesAreBounded == Spec => []RetriesBounded
<1>1. RetryInv /\ [Next]_vars => RetryInv'
  BY TypeInvStep, RunsBeginStep, LocksExclusiveStep, RetriesCountedStep DEF RetryInv
<1>2. Spec => []RetryInv
  BY <1>1, RetryInvInit, PTL DEF Spec
<1>3. RetryInv => RetriesBounded
  <2> SUFFICES ASSUME RetryInv, NEW r \in Run PROVE WithinBound(Cardinality(AttemptsOf(r)))
    BY DEF RetriesBounded, WithinBound
  <2>1. PICK n \in Nat, k \in Nat, m \in Nat :
          /\ n = Cardinality(AttemptsOf(r)) /\ k = Cardinality(Retriers(r))
          /\ m = Cardinality(Scheduler) /\ WithinBound(n + k)
    BY CountType, RetriersCount DEF RetryInv, RetriesCounted
  <2> QED
    BY <2>1, ConstantsAssumption DEF WithinBound
<1> QED
  BY <1>2, <1>3, PTL

\* In particular one scheduler process never gives a run more attempts than
\* retry_limit.
COROLLARY RetryLimitKept ==
    ASSUME OneScheduler
    PROVE  Spec => [](\A r \in Run : Cardinality(AttemptsOf(r)) <= RetryLimit)
<1>1. Cardinality(Scheduler) <= 1
  <2>1. CASE Scheduler = {}
    BY <2>1, FS_EmptySet
  <2>2. ASSUME NEW s \in Scheduler PROVE Cardinality(Scheduler) <= 1
    <3>1. Scheduler = {s}
      BY DEF OneScheduler
    <3>2. Cardinality({s}) = 1
      BY FS_Singleton
    <3> QED
      BY <3>1, <3>2
  <2> QED
    BY <2>1, <2>2
<1>2. RetriesBounded => \A r \in Run : Cardinality(AttemptsOf(r)) <= RetryLimit
  <2> SUFFICES ASSUME RetriesBounded, NEW r \in Run PROVE Cardinality(AttemptsOf(r)) <= RetryLimit
    OBVIOUS
  <2>1. Cardinality(Scheduler) \in Nat /\ Cardinality(AttemptsOf(r)) \in Nat
    BY CountType, SchedulersFinite, FS_CardinalityType
  <2> QED
    BY <1>1, <2>1, ConstantsAssumption DEF RetriesBounded
<1> QED
  BY <1>2, RetriesAreBounded, PTL
=============================================================================
