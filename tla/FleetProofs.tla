---------------------------- MODULE FleetProofs ----------------------------
(***************************************************************************)
(* What the intervals guarantee, for any number of workers and attempts    *)
(* and any intervals that FleetAssumption allows.                          *)
(***************************************************************************)
EXTENDS Fleet, TLAPS

Beats(n) == n * (Interval + Lag)
Cycles(n) == n * (Period + WatchdogLag)

\* Heartbeats that the worker's leases have had to do without: those that have
\* failed, unless they are too many and only attempts claimed since are counted,
\* and the one that is under way.
UnderWay(w) == IF main[w] \in BeatPc THEN 1 ELSE 0
Behind(w) == (IF missed[w] <= Misses THEN missed[w] ELSE 0) + UnderWay(w)

\* Watchdog cycles that have begun and not been completed.
Late == skipped + (IF wd.pc = "idle" THEN 0 ELSE 1)

\* The clocks stay within what the loops allow.
Timely ==
    /\ \A w \in Worker : /\ main[w] = "loop" => beatAge[w] <= Interval + Lag
                         /\ main[w] \in BeatPc => beatAge[w] <= Lag
    /\ wd.age <= IF wd.pc = "idle" THEN Period + WatchdogLag ELSE WatchdogLag

Protected(a) == exec[a] /\ ~excused[a]

\* A protected attempt has a lease as long as its heartbeats are behind.
LongLease(a) ==
    LET w == attempt[a].worker IN
    /\ Up(w)
    /\ attempt[a].status = "RUNNING"
    /\ attempt[a].left >= Lease - beatAge[w] - Beats(Behind(w))

LeaseLong ==
    \A a \in Attempt :
        /\ exec[a] => attempt[a].worker \in Worker /\ main[attempt[a].worker] # "down"
        /\ Protected(a) => LongLease(a)

\* The row of a live process is as fresh as its heartbeats.
FreshRow(w) ==
    /\ missed[w] <= Misses =>
         row[w].status = "ACTIVE" /\ row[w].age <= beatAge[w] + Beats(Behind(w))
    /\ main[w] = "leases" => row[w].status = "ACTIVE" /\ row[w].age <= beatAge[w]

RowFresh == \A w \in Worker : Up(w) => FreshRow(w)

\* What the watchdog has not seen yet is no older than the cycles it is late,
\* and what it does not have on its list has not expired before its `now`.
Watched ==
    /\ \A a \in Attempt : attempt[a].status = "RUNNING" =>
         /\ -attempt[a].left <= wd.age + Cycles(Late)
         /\ wd.pc # "idle" /\ a \notin wd.todo \cup {wd.cur} => attempt[a].left + wd.age >= 0
    /\ \A w \in Worker : row[w].status = "ACTIVE" => row[w].age <= DeadAfter + wd.age + Cycles(Late)

\* The attempt the watchdog is about to time out is not a protected one.
Chosen ==
    /\ wd.pc = "timeout" => /\ wd.cur \in Attempt
                            /\ ~Protected(wd.cur)
                            /\ attempt[wd.cur].status # "QUEUED"
    /\ wd.pc # "timeout" => wd.cur = None

\* Nothing a process has left behind is renewed while it is down.
Fading ==
    /\ \A w \in Worker : /\ main[w] # "down" => downFor[w] = 0
                         /\ row[w].status = "ACTIVE" => downFor[w] <= row[w].age
    /\ \A a \in Attempt : attempt[a].status = "RUNNING" =>
         /\ attempt[a].worker \in Worker
         /\ attempt[a].left + downFor[attempt[a].worker] <= Lease

FleetInv == TypeOK /\ Timely /\ LeaseLong /\ RowFresh /\ Watched /\ Chosen /\ Fading

-----------------------------------------------------------------------------
(* Arithmetic *)

LEMMA ConstantTypes ==
    /\ Interval \in Nat /\ Lag \in Nat /\ Lease \in Nat /\ DeadAfter \in Nat
    /\ Period \in Nat /\ WatchdogLag \in Nat /\ Misses \in Nat /\ MaxFaults \in Nat
    /\ None \notin Worker /\ None \notin Attempt
BY FleetAssumption

LEMMA NextMultiple == \A n \in Nat, x \in Nat : (n + 1) * x = n * x + x /\ n * x \in Nat /\ 0 * x = 0
OBVIOUS

LEMMA Multiples == \A m \in Nat, x \in Nat : \A n \in 0..m : n * x <= m * x
OBVIOUS

LEMMA BeatsFacts ==
    /\ Beats(0) = 0
    /\ \A n \in Nat : Beats(n) \in Nat /\ Beats(n + 1) = Beats(n) + Interval + Lag
    /\ \A n \in 0..(Misses + 1) : Beats(n) <= Beats(Misses + 1)
    /\ \A n \in 0..Misses : Beats(n) + Interval + Lag <= Beats(Misses + 1)
    /\ Beats(Misses + 1) < Lease /\ Beats(Misses + 1) + Lag <= Lease
<1>1. Interval + Lag \in Nat /\ Misses \in Nat /\ Misses + 1 \in Nat
  BY ConstantTypes
<1>2. Beats(0) = 0 /\ \A n \in Nat : Beats(n) \in Nat /\ Beats(n + 1) = Beats(n) + Interval + Lag
  BY <1>1, ConstantTypes, NextMultiple DEF Beats
<1>3. \A n \in 0..(Misses + 1) : Beats(n) <= Beats(Misses + 1)
  BY <1>1, Multiples DEF Beats
<1>4. \A n \in 0..Misses : Beats(n) + Interval + Lag <= Beats(Misses + 1)
  <2> TAKE n \in 0..Misses
  <2>1. n \in Nat /\ n + 1 \in 0..(Misses + 1)
    BY <1>1
  <2>2. Beats(n + 1) = Beats(n) + Interval + Lag /\ Beats(n + 1) <= Beats(Misses + 1)
    BY <1>2, <1>3, <2>1
  <2>3. QED
    BY <2>2
<1>5. QED
  BY <1>2, <1>3, <1>4, FleetAssumption DEF Beats

LEMMA CyclesFacts ==
    /\ Cycles(0) = 0
    /\ \A n \in Nat : Cycles(n) \in Nat /\ Cycles(n + 1) = Cycles(n) + Period + WatchdogLag
<1>1. Period + WatchdogLag \in Nat
  BY ConstantTypes
<1>2. QED
  BY <1>1, ConstantTypes, NextMultiple DEF Cycles

-----------------------------------------------------------------------------
(* Types *)

LEMMA FleetInitial == Init => FleetInv
<1> SUFFICES ASSUME Init PROVE FleetInv
  OBVIOUS
<1> USE DEF Init
<1>1. TypeOK
  BY ConstantTypes DEF TypeOK, AttemptRow, NoRow, UpPc, BeatPc
<1>2. Timely
  BY ConstantTypes DEF Timely, BeatPc
<1>3. LeaseLong /\ Chosen /\ RowFresh
  BY DEF LeaseLong, LongLease, Protected, Chosen, RowFresh, FreshRow, Up, UpPc, BeatPc
<1>4. Watched /\ Fading
  BY DEF Watched, Fading, NoRow
<1>5. QED
  BY <1>1, <1>2, <1>3, <1>4 DEF FleetInv

\* Every step is one of these.
LEMMA FleetSteps ==
    ASSUME [Next]_vars
    PROVE  \/ Advance
           \/ \E w \in Worker :
                \/ StartWorker(w) \/ CrashWorker(w) \/ ShutdownWorker(w) \/ ExitWorker(w)
                \/ HeartbeatStart(w) \/ HeartbeatWorker(w) \/ HeartbeatLeases(w)
                \/ HeartbeatFails(w) \/ \E a \in Attempt : ClaimAttempt(w, a)
           \/ \E a \in Attempt : QueueAttempt(a) \/ FinishAttempt(a) \/ WatchdogRefresh(a)
           \/ WatchdogStart \/ WatchdogTimeOut \/ WatchdogMarkDead \/ WatchdogFails
           \/ UNCHANGED vars
BY DEF Next, WorkerNext, AttemptNext, WatchdogNext

LEMMA FleetTypeStep == FleetInv /\ [Next]_vars => TypeOK'
<1> SUFFICES ASSUME FleetInv, [Next]_vars PROVE TypeOK'
  OBVIOUS
<1> USE ConstantTypes DEF FleetInv, TypeOK, AttemptRow, UpPc, BeatPc, history, Fault, NoRow
<1>1. CASE Advance
  <2>1. beatAge' \in [Worker -> Nat] /\ downFor' \in [Worker -> Nat]
    BY <1>1 DEF Advance
  <2>2. row' \in [Worker -> [status : {"none", "ACTIVE", "DEAD"}, age : Nat]]
    BY <1>1 DEF Advance
  <2>3. attempt' \in [Attempt -> AttemptRow]
    <3>1. ASSUME NEW a \in Attempt PROVE attempt'[a] \in AttemptRow
      <4>1. attempt[a] \in AttemptRow /\ attempt[a].left - 1 \in Int
        OBVIOUS
      <4>2. attempt'[a] \in {attempt[a], [attempt[a] EXCEPT !.left = attempt[a].left - 1]}
        BY <1>1 DEF Advance
      <4>3. QED
        BY <4>1, <4>2
    <3>2. attempt' = [a \in Attempt |-> attempt'[a]]
      BY <1>1 DEF Advance
    <3>3. QED
      BY <3>1, <3>2
  <2>4. wd' \in [pc : {"idle", "handle", "timeout"}, age : Nat,
                 todo : SUBSET Attempt, cur : Attempt \cup {None}]
    <3>1. wd' = [wd EXCEPT !.age = wd.age + 1] /\ wd.age + 1 \in Nat
      BY <1>1 DEF Advance
    <3>2. QED
      BY <3>1
  <2>5. QED
    BY <1>1, <2>1, <2>2, <2>3, <2>4 DEF Advance
<1>2. ASSUME NEW w \in Worker, StartWorker(w) PROVE TypeOK'
  BY <1>2 DEF StartWorker
<1>3. ASSUME NEW w \in Worker, CrashWorker(w) PROVE TypeOK'
  BY <1>3 DEF CrashWorker, Gone
<1>4. ASSUME NEW w \in Worker, ShutdownWorker(w) PROVE TypeOK'
  BY <1>4 DEF ShutdownWorker, Excuse, DeadRow
<1>5. ASSUME NEW w \in Worker, ExitWorker(w) PROVE TypeOK'
  BY <1>5 DEF ExitWorker
<1>6. ASSUME NEW w \in Worker, HeartbeatStart(w) PROVE TypeOK'
  BY <1>6 DEF HeartbeatStart
<1>7. ASSUME NEW w \in Worker, HeartbeatWorker(w) PROVE TypeOK'
  BY <1>7 DEF HeartbeatWorker
<1>8. ASSUME NEW w \in Worker, HeartbeatFails(w) PROVE TypeOK'
  BY <1>8 DEF HeartbeatFails, Excuse
<1>9. ASSUME NEW w \in Worker, HeartbeatLeases(w) PROVE TypeOK'
  <2>1. Lease - beatAge[w] \in Int
    OBVIOUS
  <2>2. QED
    BY <1>9, <2>1 DEF HeartbeatLeases
<1>10. ASSUME NEW w \in Worker, NEW a \in Attempt, ClaimAttempt(w, a) PROVE TypeOK'
  BY <1>10 DEF ClaimAttempt
<1>11. ASSUME NEW a \in Attempt, QueueAttempt(a) PROVE TypeOK'
  BY <1>11 DEF QueueAttempt
<1>12. ASSUME NEW a \in Attempt, FinishAttempt(a) PROVE TypeOK'
  <2>1. Settled(a, "reported") \in AttemptRow
    BY DEF Settled
  <2>2. attempt' \in [Attempt -> AttemptRow] /\ exec' \in [Attempt -> BOOLEAN]
    <3>1. attempt' = [attempt EXCEPT ![a] = Settled(a, "reported")] \/ attempt' = attempt
      BY <1>12 DEF FinishAttempt
    <3>2. attempt' \in [Attempt -> AttemptRow]
      BY <2>1, <3>1
    <3>3. exec' = [exec EXCEPT ![a] = FALSE]
      BY <1>12 DEF FinishAttempt
    <3>4. QED
      BY <3>2, <3>3
  <2>3. faults' \in 0..MaxFaults
    BY <1>12 DEF FinishAttempt
  <2>4. QED
    BY <1>12, <2>2, <2>3 DEF FinishAttempt
<1>13. ASSUME NEW a \in Attempt, WatchdogRefresh(a) PROVE TypeOK'
  BY <1>13 DEF WatchdogRefresh
<1>14. CASE WatchdogStart
  BY <1>14 DEF WatchdogStart, Expired
<1>15. CASE WatchdogMarkDead
  BY <1>15 DEF WatchdogMarkDead, DeadRow
<1>16. CASE WatchdogFails
  <2>1. wd' = [[[wd EXCEPT !.pc = "idle"] EXCEPT !.todo = {}] EXCEPT !.cur = None]
    BY <1>16 DEF WatchdogFails
  <2>2. wd' \in [pc : {"idle", "handle", "timeout"}, age : Nat,
                 todo : SUBSET Attempt, cur : Attempt \cup {None}]
    BY <2>1
  <2>3. QED
    BY <1>16, <2>2 DEF WatchdogFails
<1>17. CASE WatchdogTimeOut
  <2>1. attempt' = [attempt EXCEPT ![wd.cur] = Settled(wd.cur, "TIMED_OUT")]
    BY <1>17 DEF WatchdogTimeOut
  <2>2. wd.cur \in Attempt
    BY <1>17 DEF WatchdogTimeOut, Chosen
  <2>3. Settled(wd.cur, "TIMED_OUT") \in AttemptRow
    BY <2>2 DEF Settled
  <2>4. attempt' \in [Attempt -> AttemptRow]
    BY <2>1, <2>3
  <2>5. wd' \in [pc : {"idle", "handle", "timeout"}, age : Nat,
                 todo : SUBSET Attempt, cur : Attempt \cup {None}]
    BY <1>17 DEF WatchdogTimeOut
  <2>6. QED
    BY <1>17, <2>4, <2>5 DEF WatchdogTimeOut
<1>18. CASE UNCHANGED vars
  BY <1>18 DEF vars
<1>19. QED
  BY <1>1, <1>2, <1>3, <1>4, <1>5, <1>6, <1>7, <1>8, <1>9, <1>10, <1>11, <1>12, <1>13, <1>14, <1>15, <1>16, <1>17, <1>18, FleetSteps

LEMMA TimelyStep == FleetInv /\ [Next]_vars => Timely'
<1> SUFFICES ASSUME FleetInv, [Next]_vars PROVE Timely'
  OBVIOUS
<1>1. /\ main \in [Worker -> UpPc \cup {"draining", "down"}] /\ beatAge \in [Worker -> Nat]
      /\ wd \in [pc : {"idle", "handle", "timeout"}, age : Nat,
                 todo : SUBSET Attempt, cur : Attempt \cup {None}]
      /\ Timely
  BY DEF FleetInv, TypeOK
<1>2. CASE Advance
  BY <1>1, <1>2, ConstantTypes
  DEF Advance, Timely, WorkerWaits, WatchdogWaits, Up, UpPc, BeatPc
<1>3. ASSUME NEW w \in Worker,
             \/ StartWorker(w) \/ CrashWorker(w) \/ ShutdownWorker(w) \/ ExitWorker(w)
             \/ HeartbeatStart(w) \/ HeartbeatWorker(w) \/ HeartbeatLeases(w)
             \/ HeartbeatFails(w) \/ \E a \in Attempt : ClaimAttempt(w, a)
      PROVE  Timely'
  BY <1>1, <1>3, ConstantTypes
  DEF StartWorker, CrashWorker, ShutdownWorker, ExitWorker, HeartbeatStart, HeartbeatWorker,
      HeartbeatLeases, HeartbeatFails, ClaimAttempt, Timely, Up, UpPc, BeatPc
<1>4. CASE WatchdogStart \/ WatchdogTimeOut \/ WatchdogMarkDead \/ WatchdogFails
           \/ \E a \in Attempt : QueueAttempt(a) \/ FinishAttempt(a) \/ WatchdogRefresh(a)
  <2>1. UNCHANGED <<main, beatAge>>
    BY <1>4
    DEF WatchdogStart, WatchdogTimeOut, WatchdogMarkDead, WatchdogFails, WatchdogRefresh,
        QueueAttempt, FinishAttempt
  <2>2. \/ wd'.age = 0
        \/ /\ wd'.age = wd.age
           /\ wd'.pc = "idle" => wd.pc = "idle" \/ wd.age <= WatchdogLag
           /\ wd'.pc # "idle" => wd.pc # "idle"
    <3>1. CASE WatchdogStart
      BY <3>1 DEF WatchdogStart
    <3>2. CASE \E a \in Attempt : QueueAttempt(a) \/ FinishAttempt(a)
      BY <3>2 DEF QueueAttempt, FinishAttempt
    <3>3. CASE WatchdogTimeOut \/ WatchdogMarkDead \/ WatchdogFails
      BY <1>1, <3>3 DEF WatchdogTimeOut, WatchdogMarkDead, WatchdogFails, Timely
    <3>4. CASE \E a \in Attempt : WatchdogRefresh(a)
      BY <1>1, <3>4 DEF WatchdogRefresh
    <3>5. QED
      BY <1>4, <3>1, <3>2, <3>3, <3>4
  <2>3. QED
    BY <1>1, <2>1, <2>2, ConstantTypes DEF Timely
<1>5. CASE UNCHANGED vars
  BY <1>1, <1>5 DEF vars, Timely
<1>6. QED
  BY <1>2, <1>3, <1>4, <1>5, FleetSteps

-----------------------------------------------------------------------------
(* Leases of live processes *)

LEMMA BehindFacts ==
    TypeOK => \A w \in Worker :
        /\ UnderWay(w) \in 0..1
        /\ Behind(w) \in 0..(Misses + 1)
        /\ main[w] = "loop" => Behind(w) \in 0..Misses
BY ConstantTypes DEF TypeOK, Behind, UnderWay, BeatPc

\* What a lease that is as long as it has to be amounts to.
LEMMA LongEnough ==
    FleetInv => \A a \in Attempt : Protected(a) =>
        LET w == attempt[a].worker IN
        /\ w \in Worker /\ Up(w) /\ attempt[a].status = "RUNNING"
        /\ attempt[a].left >= 0
        /\ main[w] \in BeatPc => attempt[a].left + beatAge[w] > 0
<1> SUFFICES ASSUME FleetInv, NEW a \in Attempt, Protected(a)
             PROVE  LET w == attempt[a].worker IN
                    /\ w \in Worker /\ Up(w) /\ attempt[a].status = "RUNNING"
                    /\ attempt[a].left >= 0
                    /\ main[w] \in BeatPc => attempt[a].left + beatAge[w] > 0
  OBVIOUS
<1> DEFINE w == attempt[a].worker
<1>1. /\ w \in Worker /\ Up(w) /\ attempt[a].status = "RUNNING"
      /\ attempt[a].left >= Lease - beatAge[w] - Beats(Behind(w))
  BY DEF FleetInv, LeaseLong, LongLease, Protected
<1>2. attempt[a].left \in Int /\ beatAge[w] \in Nat
  BY <1>1 DEF FleetInv, TypeOK, AttemptRow
<1>3. CASE main[w] = "loop"
  <2>1. /\ Beats(Behind(w)) \in Nat /\ Beats(Misses + 1) \in Nat
        /\ Beats(Behind(w)) + Interval + Lag <= Beats(Misses + 1)
        /\ Beats(Misses + 1) < Lease
    BY <1>1, <1>3, BehindFacts, BeatsFacts, ConstantTypes DEF FleetInv
  <2>2. beatAge[w] <= Interval + Lag
    BY <1>1, <1>3 DEF FleetInv, Timely
  <2>3. QED
    BY <1>1, <1>2, <1>3, <2>1, <2>2, ConstantTypes DEF BeatPc
<1>4. CASE main[w] \in BeatPc
  <2>1. /\ Beats(Behind(w)) \in Nat /\ Beats(Misses + 1) \in Nat
        /\ Beats(Behind(w)) <= Beats(Misses + 1)
        /\ Beats(Misses + 1) < Lease /\ Beats(Misses + 1) + Lag <= Lease
    BY <1>1, BehindFacts, BeatsFacts, ConstantTypes DEF FleetInv
  <2>2. beatAge[w] <= Lag
    BY <1>1, <1>4 DEF FleetInv, Timely
  <2>3. QED
    BY <1>1, <1>2, <2>1, <2>2, ConstantTypes
<1>5. QED
  BY <1>1, <1>3, <1>4 DEF Up, UpPc

\* A step that makes no attempt protected, moves no lease of a protected one and
\* no clock of its worker.
LEMMA LeasesUntouched ==
    ASSUME FleetInv,
           \A a \in Attempt :
               exec'[a] => /\ exec[a]
                           /\ attempt'[a].worker = attempt[a].worker
                           /\ attempt[a].worker \in Worker => main'[attempt[a].worker] # "down",
           \A a \in Attempt :
               Protected(a)' /\ Protected(a) =>
                   /\ attempt'[a] = attempt[a]
                   /\ LET w == attempt[a].worker IN
                      beatAge'[w] = beatAge[w] /\ missed'[w] = missed[w]
                      /\ (main'[w] = main[w] \/ (main[w] \in BeatPc /\ main'[w] \in BeatPc)),
           \A a \in Attempt : Protected(a)' => Protected(a)
    PROVE  LeaseLong'
<1>1. ASSUME NEW a \in Attempt, exec'[a]
      PROVE  attempt'[a].worker \in Worker /\ main'[attempt'[a].worker] # "down"
  BY <1>1 DEF FleetInv, LeaseLong, LongLease
<1>2. ASSUME NEW a \in Attempt, Protected(a)' PROVE LongLease(a)'
  <2> DEFINE w == attempt[a].worker
  <2>1. Protected(a) /\ attempt'[a] = attempt[a]
    BY <1>2
  <2>2. LongLease(a)
    BY <2>1 DEF FleetInv, LeaseLong
  <2>3. /\ beatAge'[w] = beatAge[w] /\ missed'[w] = missed[w]
        /\ main'[w] = main[w] \/ (main[w] \in BeatPc /\ main'[w] \in BeatPc)
    BY <1>2, <2>1
  <2>4. QED
    BY <2>1, <2>2, <2>3 DEF LongLease, Up, UpPc, Beats, Behind, UnderWay
<1>3. QED
  BY <1>1, <1>2 DEF LeaseLong

LEMMA LeaseLongStep == FleetInv /\ [Next]_vars => LeaseLong'
<1> SUFFICES ASSUME FleetInv, [Next]_vars PROVE LeaseLong'
  OBVIOUS
<1>1. /\ TypeOK /\ LeaseLong /\ TypeOK'
      /\ main \in [Worker -> UpPc \cup {"draining", "down"}] /\ beatAge \in [Worker -> Nat]
      /\ missed \in [Worker -> Nat] /\ attempt \in [Attempt -> AttemptRow]
      /\ exec \in [Attempt -> BOOLEAN] /\ excused \in [Attempt -> BOOLEAN]
  BY FleetTypeStep DEF FleetInv, TypeOK
<1>2. \A a \in Attempt : exec[a] => attempt[a].worker \in Worker /\ main[attempt[a].worker] # "down"
  BY <1>1 DEF LeaseLong, LongLease
<1>3. CASE Advance
  <2>1. /\ UNCHANGED <<main, exec, excused, missed>>
        /\ \A a \in Attempt : attempt'[a].worker = attempt[a].worker
        /\ \A a \in Attempt : attempt'[a].status = attempt[a].status
        /\ \A a \in Attempt : attempt[a].status = "RUNNING" => attempt'[a].left = attempt[a].left - 1
        /\ \A w \in Worker : Up(w) => beatAge'[w] = beatAge[w] + 1
    BY <1>1, <1>3 DEF Advance, AttemptRow
  <2>2. ASSUME NEW a \in Attempt, Protected(a)
        PROVE  LET w == attempt[a].worker IN
               attempt'[a].left >= Lease - beatAge'[w] - Beats(Behind(w))
    <3> DEFINE w == attempt[a].worker
    <3>1. /\ w \in Worker /\ Up(w) /\ attempt[a].status = "RUNNING"
          /\ attempt[a].left >= Lease - beatAge[w] - Beats(Behind(w))
      BY <1>1, <2>2 DEF LeaseLong, LongLease, Protected
    <3>2. Beats(Behind(w)) \in Nat /\ beatAge[w] \in Nat /\ attempt[a].left \in Int
      BY <1>1, <3>1, BehindFacts, BeatsFacts, ConstantTypes DEF AttemptRow
    <3>3. QED
      BY <2>1, <3>1, <3>2, ConstantTypes
  <2>3. QED
    BY <1>1, <2>1, <2>2 DEF LeaseLong, LongLease, Protected, Up, Beats, Behind, UnderWay
<1>4. ASSUME NEW v \in Worker, StartWorker(v) PROVE LeaseLong'
  BY <1>1, <1>2, <1>4, LeasesUntouched DEF StartWorker, Protected
<1>5. ASSUME NEW v \in Worker, CrashWorker(v) PROVE LeaseLong'
  BY <1>1, <1>2, <1>5, LeasesUntouched DEF CrashWorker, Gone, Protected, history
<1>6. ASSUME NEW v \in Worker, ShutdownWorker(v) PROVE LeaseLong'
  BY <1>1, <1>2, <1>6, LeasesUntouched DEF ShutdownWorker, Excuse, Protected
<1>7. ASSUME NEW v \in Worker, ExitWorker(v) PROVE LeaseLong'
  BY <1>1, <1>2, <1>7, LeasesUntouched DEF ExitWorker, ExecutedBy, Protected, history
<1>8. ASSUME NEW b \in Attempt, QueueAttempt(b) \/ FinishAttempt(b) \/ WatchdogRefresh(b)
      PROVE  LeaseLong'
  BY <1>1, <1>2, <1>8, LeasesUntouched
  DEF QueueAttempt, FinishAttempt, WatchdogRefresh, Protected, history
<1>9. ASSUME NEW v \in Worker, NEW b \in Attempt, ClaimAttempt(v, b) PROVE LeaseLong'
  <2>1. /\ UNCHANGED <<main, beatAge, missed>> /\ main[v] = "loop"
        /\ attempt' = [attempt EXCEPT ![b] = [status |-> "RUNNING", worker |-> v, left |-> Lease]]
        /\ exec' = [exec EXCEPT ![b] = TRUE] /\ excused' = [excused EXCEPT ![b] = FALSE]
    BY <1>9 DEF ClaimAttempt
  <2>2. \A a \in Attempt \ {b} : /\ attempt'[a] = attempt[a]
                                 /\ Protected(a)' <=> Protected(a)
                                 /\ exec'[a] = exec[a]
    BY <1>1, <2>1 DEF Protected
  <2>3. /\ attempt'[b].worker = v /\ attempt'[b].status = "RUNNING" /\ attempt'[b].left = Lease
    BY <1>1, <2>1
  <2>4. Lease >= Lease - beatAge[v] - Beats(Behind(v))
    <3>1. Beats(Behind(v)) \in Nat /\ beatAge[v] \in Nat
      BY <1>1, BehindFacts, BeatsFacts, ConstantTypes
    <3>2. QED
      BY <3>1, ConstantTypes
  <2>5. \A w \in Worker : Beats(Behind(w))' = Beats(Behind(w)) /\ (Up(w)' <=> Up(w))
    BY <2>1 DEF Beats, Behind, UnderWay, Up
  <2>6. Up(v)
    BY <2>1 DEF Up, UpPc
  <2>7. QED
    BY <1>1, <2>1, <2>2, <2>3, <2>4, <2>5, <2>6 DEF LeaseLong, LongLease, Beats, Protected
<1>10. ASSUME NEW v \in Worker, HeartbeatStart(v) PROVE LeaseLong'
  <2>1. /\ main[v] = "loop" /\ main' = [main EXCEPT ![v] = "worker"]
        /\ beatAge' = [beatAge EXCEPT ![v] = 0]
        /\ UNCHANGED <<attempt, exec, excused, missed>>
    BY <1>10 DEF HeartbeatStart, history
  <2>2. Beats(Behind(v))' = Beats(Behind(v)) + Interval + Lag
    <3>1. Behind(v)' = Behind(v) + 1 /\ Behind(v) \in Nat
      BY <1>1, <2>1, BehindFacts, ConstantTypes DEF Behind, UnderWay, BeatPc, UpPc
    <3>2. QED
      BY <3>1, BeatsFacts DEF Beats
  <2>3. beatAge[v] <= Interval + Lag /\ Beats(Behind(v)) \in Nat
    BY <1>1, <2>1, BehindFacts, BeatsFacts, ConstantTypes DEF FleetInv, Timely
  <2>4. ASSUME NEW a \in Attempt, Protected(a)
        PROVE  LET w == attempt[a].worker IN
               Up(w)' /\ attempt[a].left >= Lease - beatAge'[w] - Beats(Behind(w))'
    <3> DEFINE w == attempt[a].worker
    <3>1. /\ w \in Worker /\ Up(w) /\ attempt[a].left \in Int
          /\ attempt[a].left >= Lease - beatAge[w] - Beats(Behind(w))
      BY <1>1, <2>4 DEF LeaseLong, LongLease, Protected, AttemptRow
    <3>2. CASE w = v
      BY <1>1, <2>1, <2>2, <2>3, <3>1, <3>2, ConstantTypes DEF Up, UpPc, BeatPc
    <3>3. CASE w # v
      BY <1>1, <2>1, <3>1, <3>3 DEF Up, Beats, Behind, UnderWay
    <3>4. QED
      BY <3>2, <3>3
  <2>5. \A a \in Attempt : Protected(a)' => Protected(a)
    BY <2>1 DEF Protected
  <2>6. \A w \in Worker : main'[w] = "down" => main[w] = "down"
    BY <1>1, <2>1
  <2>7. QED
    BY <1>1, <2>1, <2>4, <2>5, <2>6 DEF LeaseLong, LongLease, Beats, Protected
<1>11. ASSUME NEW v \in Worker, HeartbeatWorker(v) PROVE LeaseLong'
  BY <1>1, <1>2, <1>11, LeasesUntouched DEF HeartbeatWorker, Protected, history, BeatPc
<1>12. ASSUME NEW v \in Worker, HeartbeatLeases(v) PROVE LeaseLong'
  <2>1. /\ main[v] = "leases" /\ main' = [main EXCEPT ![v] = "loop"]
        /\ missed' = [missed EXCEPT ![v] = 0]
        /\ UNCHANGED <<beatAge, exec, excused>>
    BY <1>12 DEF HeartbeatLeases
  <2>2. \A a \in Attempt :
          /\ attempt'[a].worker = attempt[a].worker /\ attempt'[a].status = attempt[a].status
          /\ a \in Extended(v) => attempt'[a].left = Lease - beatAge[v]
          /\ a \notin Extended(v) => attempt'[a] = attempt[a]
    BY <1>1, <1>12 DEF HeartbeatLeases, AttemptRow
  <2>3. Beats(Behind(v))' = 0 /\ Up(v)'
    <3>1. Behind(v)' = 0
      BY <1>1, <2>1, ConstantTypes DEF Behind, UnderWay, BeatPc, UpPc
    <3>2. QED
      BY <1>1, <2>1, <3>1, BeatsFacts DEF Beats, Up, UpPc
  <2>4. ASSUME NEW a \in Attempt, Protected(a)
        PROVE  LET w == attempt[a].worker IN
               Up(w)' /\ attempt'[a].left >= Lease - beatAge[w] - Beats(Behind(w))'
    <3> DEFINE w == attempt[a].worker
    <3>1. /\ w \in Worker /\ Up(w) /\ attempt[a].left \in Int
          /\ attempt[a].left >= Lease - beatAge[w] - Beats(Behind(w))
      BY <1>1, <2>4 DEF LeaseLong, LongLease, Protected, AttemptRow
    <3>2. CASE w = v
      <4>1. a \in Extended(v)
        BY <2>1, <2>4, <3>2, LongEnough DEF Extended, RunningOf, BeatPc
      <4>2. QED
        BY <1>1, <2>2, <2>3, <3>1, <3>2, <4>1, ConstantTypes
    <3>3. CASE w # v
      <4>1. attempt'[a] = attempt[a]
        BY <2>2, <3>3 DEF Extended, RunningOf
      <4>2. QED
        BY <1>1, <2>1, <3>1, <3>3, <4>1 DEF Up, Beats, Behind, UnderWay
    <3>4. QED
      BY <3>2, <3>3
  <2>5. \A a \in Attempt : Protected(a)' => Protected(a)
    BY <2>1 DEF Protected
  <2>6. \A w \in Worker : main'[w] = "down" => main[w] = "down"
    BY <1>1, <2>1
  <2>7. QED
    BY <1>1, <2>1, <2>2, <2>4, <2>5, <2>6 DEF LeaseLong, LongLease, Beats, Protected
<1>13. ASSUME NEW v \in Worker, HeartbeatFails(v) PROVE LeaseLong'
  <2>1. /\ main[v] \in BeatPc /\ main' = [main EXCEPT ![v] = "loop"]
        /\ missed' = [missed EXCEPT ![v] = @ + 1]
        /\ excused' = IF missed[v] < Misses THEN excused ELSE Excuse(v)
        /\ UNCHANGED <<beatAge, attempt, exec>>
    BY <1>13 DEF HeartbeatFails
  <2>2. ASSUME NEW a \in Attempt, Protected(a)'
        PROVE  LET w == attempt[a].worker IN
               /\ Protected(a) /\ Up(w)' /\ attempt[a].left >= Lease - beatAge[w] - Beats(Behind(w))'
    <3> DEFINE w == attempt[a].worker
    <3>1. Protected(a) /\ (w = v => missed[v] < Misses)
      BY <1>1, <2>1, <2>2 DEF Protected, Excuse
    <3>2. /\ w \in Worker /\ Up(w) /\ attempt[a].left \in Int
          /\ attempt[a].left >= Lease - beatAge[w] - Beats(Behind(w))
      BY <1>1, <3>1 DEF LeaseLong, LongLease, Protected, AttemptRow
    <3>3. CASE w = v
      <4>1. Behind(v)' = Behind(v) /\ Up(v)'
        BY <1>1, <2>1, <3>1, <3>3, ConstantTypes DEF Behind, UnderWay, BeatPc, Up, UpPc
      <4>2. QED
        BY <2>1, <3>1, <3>2, <3>3, <4>1 DEF Beats
    <3>4. CASE w # v
      BY <1>1, <2>1, <3>1, <3>2, <3>4 DEF Up, Beats, Behind, UnderWay
    <3>5. QED
      BY <3>3, <3>4
  <2>3. \A w \in Worker : main'[w] = "down" => main[w] = "down"
    BY <1>1, <2>1
  <2>4. QED
    BY <1>1, <2>1, <2>2, <2>3 DEF LeaseLong, LongLease, Beats, Protected
<1>14. CASE WatchdogStart \/ WatchdogMarkDead \/ WatchdogFails \/ UNCHANGED vars
  BY <1>1, <1>2, <1>14, LeasesUntouched
  DEF WatchdogStart, WatchdogMarkDead, WatchdogFails, vars, history, Protected
<1>15. CASE WatchdogTimeOut
  <2>1. wd.cur \in Attempt /\ ~Protected(wd.cur)
    BY <1>15 DEF WatchdogTimeOut, FleetInv, Chosen
  <2>2. /\ UNCHANGED <<main, beatAge, missed, exec, excused>>
        /\ \A a \in Attempt : /\ attempt'[a].worker = attempt[a].worker
                              /\ a # wd.cur => attempt'[a] = attempt[a]
    BY <1>1, <1>15, <2>1 DEF WatchdogTimeOut, Settled, history
  <2>3. QED
    BY <1>2, <2>1, <2>2, LeasesUntouched DEF Protected
<1>16. QED
  BY <1>3, <1>4, <1>5, <1>6, <1>7, <1>8, <1>9, <1>10, <1>11, <1>12, <1>13, <1>14, <1>15, FleetSteps

-----------------------------------------------------------------------------
(* Rows of live processes *)

\* The watchdog does not find a fresh row silent.
LEMMA FreshIsNotSilent ==
    FleetInv => \A w \in Worker :
        Up(w) /\ (missed[w] <= Misses \/ main[w] = "leases") => ~Silent(w)
<1> SUFFICES ASSUME FleetInv, NEW w \in Worker, Up(w), missed[w] <= Misses \/ main[w] = "leases"
             PROVE  ~Silent(w)
  OBVIOUS
<1>1. /\ TypeOK /\ FreshRow(w)
      /\ row[w].age \in Nat /\ beatAge[w] \in Nat /\ wd.age \in Nat
  BY DEF FleetInv, RowFresh, TypeOK
<1>2. CASE main[w] = "leases"
  <2>1. row[w].age <= Lag
    BY <1>1, <1>2, ConstantTypes DEF FreshRow, FleetInv, Timely, BeatPc
  <2>2. Beats(Misses + 1) \in Nat /\ Beats(Misses + 1) + Lag <= Lease
    BY BeatsFacts, ConstantTypes
  <2>3. QED
    BY <1>1, <2>1, <2>2, FleetAssumption, ConstantTypes DEF Silent
<1>3. CASE main[w] # "leases"
  <2>1. row[w].age <= beatAge[w] + Beats(Behind(w))
    BY <1>1, <1>3 DEF FreshRow
  <2>2. beatAge[w] + Beats(Behind(w)) <= Lease
    <3>1. Beats(Behind(w)) \in Nat /\ Beats(Misses + 1) \in Nat
      BY <1>1, BehindFacts, BeatsFacts, ConstantTypes
    <3>2. CASE main[w] = "loop"
      <4>1. beatAge[w] <= Interval + Lag
        BY <3>2 DEF FleetInv, Timely
      <4>2. Beats(Behind(w)) + Interval + Lag <= Beats(Misses + 1) /\ Beats(Misses + 1) < Lease
        BY <1>1, <3>2, BehindFacts, BeatsFacts
      <4>3. QED
        BY <1>1, <3>1, <4>1, <4>2, ConstantTypes
    <3>3. CASE main[w] \in BeatPc
      <4>1. beatAge[w] <= Lag
        BY <3>3 DEF FleetInv, Timely
      <4>2. Beats(Behind(w)) <= Beats(Misses + 1) /\ Beats(Misses + 1) + Lag <= Lease
        BY <1>1, BehindFacts, BeatsFacts
      <4>3. QED
        BY <1>1, <3>1, <4>1, <4>2, ConstantTypes
    <3>4. QED
      BY <3>2, <3>3 DEF Up, UpPc
  <2>3. Beats(Behind(w)) \in Nat
    BY <1>1, BehindFacts, BeatsFacts, ConstantTypes
  <2>4. QED
    BY <1>1, <2>1, <2>2, <2>3, FleetAssumption, ConstantTypes DEF Silent
<1>4. QED
  BY <1>2, <1>3

LEMMA RowFreshStep == FleetInv /\ [Next]_vars => RowFresh'
<1> SUFFICES ASSUME FleetInv, [Next]_vars PROVE RowFresh'
  OBVIOUS
<1>1. /\ TypeOK /\ RowFresh
      /\ main \in [Worker -> UpPc \cup {"draining", "down"}] /\ beatAge \in [Worker -> Nat]
      /\ missed \in [Worker -> Nat]
      /\ row \in [Worker -> [status : {"none", "ACTIVE", "DEAD"}, age : Nat]]
  BY DEF FleetInv, TypeOK
<1>2. ASSUME NEW w \in Worker,
             main'[w] = main[w], beatAge'[w] = beatAge[w],
             missed'[w] = missed[w], row'[w] = row[w], Up(w)'
      PROVE  FreshRow(w)'
  BY <1>1, <1>2 DEF RowFresh, FreshRow, Up, Beats, Behind, UnderWay
<1>3. CASE Advance
  <2> SUFFICES ASSUME NEW w \in Worker, Up(w)' PROVE FreshRow(w)'
    BY DEF RowFresh
  <2>1. /\ main' = main /\ missed' = missed /\ Up(w)
        /\ beatAge'[w] = beatAge[w] + 1
        /\ row'[w].status = row[w].status
        /\ row[w].status = "ACTIVE" => row'[w].age = row[w].age + 1
    BY <1>1, <1>3 DEF Advance, Up
  <2>2. FreshRow(w) /\ row[w].age \in Nat /\ beatAge[w] \in Nat /\ Beats(Behind(w)) \in Nat
    BY <1>1, <2>1, BehindFacts, BeatsFacts, ConstantTypes DEF RowFresh
  <2>3. Beats(Behind(w))' = Beats(Behind(w))
    BY <2>1 DEF Beats, Behind, UnderWay
  <2>4. QED
    BY <2>1, <2>2, <2>3 DEF FreshRow
<1>4. ASSUME NEW v \in Worker, StartWorker(v) PROVE RowFresh'
  <2>1. FreshRow(v)'
    <3>1. /\ beatAge'[v] = Interval /\ missed'[v] = 0 /\ main'[v] = "loop"
          /\ row'[v] = [status |-> "ACTIVE", age |-> 0]
      BY <1>1, <1>4 DEF StartWorker
    <3>2. Behind(v)' = 0
      BY <3>1, ConstantTypes DEF Behind, UnderWay, BeatPc
    <3>3. Beats(Behind(v))' = 0
      BY <3>2, BeatsFacts DEF Beats
    <3>4. QED
      BY <3>1, <3>3, ConstantTypes DEF FreshRow
  <2>2. \A w \in Worker \ {v} : /\ main'[w] = main[w] /\ beatAge'[w] = beatAge[w]
                                /\ missed'[w] = missed[w] /\ row'[w] = row[w]
    BY <1>1, <1>4 DEF StartWorker
  <2>3. QED
    BY <1>2, <2>1, <2>2 DEF RowFresh
<1>5. ASSUME NEW v \in Worker, CrashWorker(v) \/ ShutdownWorker(v) \/ ExitWorker(v)
      PROVE  RowFresh'
  <2>1. ~Up(v)'
    BY <1>1, <1>5 DEF CrashWorker, ShutdownWorker, ExitWorker, Up, UpPc, BeatPc
  <2>2. \A w \in Worker \ {v} : /\ main'[w] = main[w] /\ beatAge'[w] = beatAge[w]
                                /\ missed'[w] = missed[w] /\ row'[w] = row[w]
    BY <1>1, <1>5 DEF CrashWorker, ShutdownWorker, ExitWorker, history
  <2>3. QED
    BY <1>2, <2>1, <2>2 DEF RowFresh
<1>6. ASSUME NEW v \in Worker, HeartbeatStart(v) PROVE RowFresh'
  <2>1. /\ main[v] = "loop" /\ main'[v] = "worker" /\ beatAge'[v] = 0
        /\ missed'[v] = missed[v] /\ row'[v] = row[v]
    BY <1>1, <1>6 DEF HeartbeatStart, history
  <2>2. Beats(Behind(v))' = Beats(Behind(v)) + Interval + Lag
    <3>1. Behind(v)' = Behind(v) + 1 /\ Behind(v) \in Nat
      BY <1>1, <2>1, BehindFacts, ConstantTypes DEF Behind, UnderWay, BeatPc, UpPc
    <3>2. QED
      BY <3>1, BeatsFacts DEF Beats
  <2>3. FreshRow(v) /\ beatAge[v] <= Interval + Lag
    BY <1>1, <2>1 DEF RowFresh, FleetInv, Timely, Up, UpPc
  <2>4. Beats(Behind(v)) \in Nat /\ row[v].age \in Nat /\ beatAge[v] \in Nat
    BY <1>1, BehindFacts, BeatsFacts, ConstantTypes
  <2>5. FreshRow(v)'
    BY <2>1, <2>2, <2>3, <2>4, ConstantTypes DEF FreshRow
  <2>6. \A w \in Worker \ {v} : /\ main'[w] = main[w] /\ beatAge'[w] = beatAge[w]
                                /\ missed'[w] = missed[w] /\ row'[w] = row[w]
    BY <1>1, <1>6 DEF HeartbeatStart, history
  <2>7. QED
    BY <1>2, <2>5, <2>6 DEF RowFresh
<1>7. ASSUME NEW v \in Worker, HeartbeatWorker(v) \/ HeartbeatLeases(v) \/ HeartbeatFails(v)
      PROVE  RowFresh'
  <2>1. FreshRow(v)'
    <3>1. Up(v) /\ FreshRow(v) /\ beatAge'[v] = beatAge[v] /\ beatAge[v] \in Nat
      BY <1>1, <1>7
      DEF HeartbeatWorker, HeartbeatLeases, HeartbeatFails, RowFresh, Up, UpPc, BeatPc, history
    <3>2. Beats(Behind(v))' \in Nat
      <4>1. TypeOK'
        BY FleetTypeStep
      <4>2. Behind(v)' \in Nat
        BY <4>1, ConstantTypes DEF TypeOK, Behind, UnderWay
      <4>3. QED
        BY <4>2, BeatsFacts DEF Beats
    <3>3. CASE HeartbeatWorker(v)
      BY <1>1, <3>1, <3>2, <3>3 DEF HeartbeatWorker, FreshRow
    <3>4. CASE HeartbeatLeases(v)
      <4>1. row'[v] = row[v] /\ main'[v] = "loop" /\ main[v] = "leases"
        BY <1>1, <3>4 DEF HeartbeatLeases
      <4>2. QED
        BY <1>1, <3>1, <3>2, <4>1 DEF FreshRow
    <3>5. CASE HeartbeatFails(v)
      <4>1. /\ row'[v] = row[v] /\ main'[v] = "loop" /\ main[v] \in BeatPc
            /\ missed'[v] = missed[v] + 1
        BY <1>1, <3>5 DEF HeartbeatFails
      <4>2. missed'[v] <= Misses => Beats(Behind(v))' = Beats(Behind(v)) /\ missed[v] <= Misses
        BY <1>1, <4>1, ConstantTypes DEF Beats, Behind, UnderWay, BeatPc
      <4>3. QED
        BY <3>1, <4>1, <4>2 DEF FreshRow
    <3>6. QED
      BY <1>7, <3>3, <3>4, <3>5
  <2>2. \A w \in Worker \ {v} : /\ main'[w] = main[w] /\ beatAge'[w] = beatAge[w]
                                /\ missed'[w] = missed[w] /\ row'[w] = row[w]
    BY <1>1, <1>7 DEF HeartbeatWorker, HeartbeatLeases, HeartbeatFails, history
  <2>3. QED
    BY <1>2, <2>1, <2>2 DEF RowFresh
<1>8. CASE WatchdogMarkDead
  <2> SUFFICES ASSUME NEW w \in Worker, Up(w)' PROVE FreshRow(w)'
    BY DEF RowFresh
  <2>1. /\ main' = main /\ beatAge' = beatAge /\ missed' = missed /\ Up(w)
        /\ row'[w] = IF Silent(w) THEN DeadRow ELSE row[w]
    BY <1>8 DEF WatchdogMarkDead, Up
  <2>2. CASE missed[w] <= Misses \/ main[w] = "leases"
    BY <1>2, <2>1, <2>2, FreshIsNotSilent
  <2>3. CASE ~(missed[w] <= Misses \/ main[w] = "leases")
    BY <2>1, <2>3 DEF FreshRow
  <2>4. QED
    BY <2>2, <2>3
<1>9. CASE UNCHANGED <<main, beatAge, missed, row>>
  BY <1>2, <1>9 DEF RowFresh
<1>10. QED
  BY <1>3, <1>4, <1>5, <1>6, <1>7, <1>8, <1>9, FleetSteps
  DEF ClaimAttempt, QueueAttempt, FinishAttempt, WatchdogStart, WatchdogRefresh, WatchdogTimeOut,
      WatchdogFails, vars, history

-----------------------------------------------------------------------------
(* The watchdog *)

LEMMA LateFacts ==
    TypeOK => Late \in Nat /\ Cycles(Late) \in Nat /\ wd.age \in Nat /\ skipped \in Nat
BY CyclesFacts DEF TypeOK, Late

\* The step of a worker or an attempt that moves no expired lease further away
\* and no ACTIVE row's age up.
LEMMA WatchdogUntouched ==
    ASSUME FleetInv, wd' = wd, skipped' = skipped,
           \A a \in Attempt : attempt'[a].status = "RUNNING" =>
               attempt'[a] = attempt[a] \/ (attempt'[a].left \in Int /\ attempt'[a].left >= 0),
           \A w \in Worker : row'[w].status = "ACTIVE" =>
               row'[w] = row[w] \/ (row'[w].age \in Nat /\ row'[w].age <= DeadAfter)
    PROVE  Watched'
<1>1. /\ Late' = Late /\ Cycles(Late)' = Cycles(Late)
      /\ Cycles(Late) \in Nat /\ wd.age \in Nat /\ DeadAfter \in Nat
  BY LateFacts, ConstantTypes DEF FleetInv, Late, Cycles
<1>2. Watched
  BY DEF FleetInv
<1>3. ASSUME NEW a \in Attempt, attempt'[a].status = "RUNNING"
      PROVE  /\ -attempt'[a].left <= wd.age + Cycles(Late)
             /\ wd.pc # "idle" /\ a \notin wd.todo \cup {wd.cur} => attempt'[a].left + wd.age >= 0
  <2>1. CASE attempt'[a] = attempt[a]
    BY <1>2, <1>3, <2>1 DEF Watched
  <2>2. CASE attempt'[a].left \in Int /\ attempt'[a].left >= 0
    BY <1>1, <2>2
  <2>3. QED
    BY <1>3, <2>1, <2>2
<1>4. ASSUME NEW w \in Worker, row'[w].status = "ACTIVE"
      PROVE  row'[w].age <= DeadAfter + wd.age + Cycles(Late)
  <2>1. CASE row'[w] = row[w]
    BY <1>2, <1>4, <2>1 DEF Watched
  <2>2. CASE row'[w].age \in Nat /\ row'[w].age <= DeadAfter
    BY <1>1, <2>2
  <2>3. QED
    BY <1>4, <2>1, <2>2
<1>5. QED
  BY <1>1, <1>3, <1>4 DEF Watched

LEMMA WatchedStep == FleetInv /\ [Next]_vars => Watched'
<1> SUFFICES ASSUME FleetInv, [Next]_vars PROVE Watched'
  OBVIOUS
<1>1. /\ TypeOK /\ Watched /\ Timely /\ Chosen /\ TypeOK'
      /\ beatAge \in [Worker -> Nat] /\ attempt \in [Attempt -> AttemptRow]
      /\ row \in [Worker -> [status : {"none", "ACTIVE", "DEAD"}, age : Nat]]
      /\ Late \in Nat /\ Cycles(Late) \in Nat /\ wd.age \in Nat /\ skipped \in Nat
  BY FleetTypeStep, LateFacts DEF FleetInv, TypeOK
<1>2. Lag <= Lease /\ Lease <= DeadAfter
  <2>1. Beats(Misses + 1) \in Nat /\ Beats(Misses + 1) + Lag <= Lease
    BY BeatsFacts, ConstantTypes
  <2>2. QED
    BY <2>1, FleetAssumption, ConstantTypes
<1>3. \A w \in Worker : main[w] \in BeatPc => beatAge[w] <= Lag
  BY <1>1 DEF Timely
<1>4. CASE Advance
  <2>1. wd'.age = wd.age + 1 /\ wd'.pc = wd.pc /\ wd'.todo = wd.todo /\ wd'.cur = wd.cur
    BY <1>1, <1>4 DEF Advance, TypeOK
  <2>2. Late' = Late /\ Cycles(Late)' = Cycles(Late)
    BY <1>4, <2>1 DEF Late, Cycles, Advance
  <2>3. \A a \in Attempt : attempt'[a].status = "RUNNING" =>
          attempt[a].status = "RUNNING" /\ attempt'[a].left = attempt[a].left - 1
          /\ attempt[a].left \in Int
    BY <1>1, <1>4 DEF Advance, AttemptRow
  <2>4. \A w \in Worker : row'[w].status = "ACTIVE" =>
          row[w].status = "ACTIVE" /\ row'[w].age = row[w].age + 1 /\ row[w].age \in Nat
    BY <1>1, <1>4 DEF Advance
  <2>5. ASSUME NEW a \in Attempt, attempt'[a].status = "RUNNING"
        PROVE  /\ -attempt'[a].left <= wd'.age + Cycles(Late)
               /\ wd.pc # "idle" /\ a \notin wd.todo \cup {wd.cur} => attempt'[a].left + wd'.age >= 0
    BY <1>1, <2>1, <2>3, <2>5 DEF Watched
  <2>6. ASSUME NEW w \in Worker, row'[w].status = "ACTIVE"
        PROVE  row'[w].age <= DeadAfter + wd'.age + Cycles(Late)
    BY <1>1, <2>1, <2>4, <2>6, ConstantTypes DEF Watched
  <2>7. QED
    BY <2>1, <2>2, <2>5, <2>6 DEF Watched
<1>5. ASSUME NEW v \in Worker,
             \/ StartWorker(v) \/ CrashWorker(v) \/ ShutdownWorker(v) \/ ExitWorker(v)
             \/ HeartbeatStart(v) \/ HeartbeatFails(v)
      PROVE  Watched'
  <2>1. wd' = wd /\ skipped' = skipped /\ attempt' = attempt
    BY <1>5
    DEF StartWorker, CrashWorker, ShutdownWorker, ExitWorker, HeartbeatStart, HeartbeatFails, history
  <2>2. \A w \in Worker : row'[w].status = "ACTIVE" => row'[w] = row[w] \/ row'[w].age = 0
    BY <1>1, <1>5
    DEF StartWorker, CrashWorker, ShutdownWorker, ExitWorker, HeartbeatStart, HeartbeatFails, DeadRow
  <2>3. QED
    BY <2>1, <2>2, WatchdogUntouched, ConstantTypes
<1>6. ASSUME NEW v \in Worker, HeartbeatWorker(v) PROVE Watched'
  <2>1. wd' = wd /\ skipped' = skipped /\ attempt' = attempt
    BY <1>6 DEF HeartbeatWorker, history
  <2>2. beatAge[v] \in Nat /\ beatAge[v] <= DeadAfter
    BY <1>1, <1>2, <1>3, <1>6, ConstantTypes DEF HeartbeatWorker, BeatPc
  <2>3. \A w \in Worker : row'[w].status = "ACTIVE" => row'[w] = row[w] \/ row'[w].age = beatAge[v]
    BY <1>1, <1>6 DEF HeartbeatWorker
  <2>4. QED
    BY <2>1, <2>2, <2>3, WatchdogUntouched
<1>7. ASSUME NEW v \in Worker, HeartbeatLeases(v) PROVE Watched'
  <2>1. wd' = wd /\ skipped' = skipped /\ row' = row
    BY <1>7 DEF HeartbeatLeases
  <2>2. Lease - beatAge[v] \in Int /\ Lease - beatAge[v] >= 0
    BY <1>1, <1>2, <1>3, <1>7, ConstantTypes DEF HeartbeatLeases, BeatPc
  <2>3. \A a \in Attempt : attempt'[a] = attempt[a] \/ attempt'[a].left = Lease - beatAge[v]
    BY <1>1, <1>7 DEF HeartbeatLeases, AttemptRow
  <2>4. QED
    BY <2>1, <2>2, <2>3, WatchdogUntouched
<1>8. ASSUME NEW v \in Worker, NEW b \in Attempt, ClaimAttempt(v, b) PROVE Watched'
  <2>1. wd' = wd /\ skipped' = skipped /\ row' = row
    BY <1>8 DEF ClaimAttempt
  <2>2. \A a \in Attempt : attempt'[a] = attempt[a] \/ attempt'[a].left = Lease
    BY <1>1, <1>8 DEF ClaimAttempt
  <2>3. QED
    BY <2>1, <2>2, WatchdogUntouched, ConstantTypes
<1>9. ASSUME NEW b \in Attempt, QueueAttempt(b) \/ FinishAttempt(b) PROVE Watched'
  <2>1. wd' = wd /\ skipped' = skipped /\ row' = row
    BY <1>9 DEF QueueAttempt, FinishAttempt, history
  <2>2. \A a \in Attempt : attempt'[a] = attempt[a] \/ attempt'[a].status # "RUNNING"
    <3>1. CASE QueueAttempt(b)
      BY <1>1, <3>1 DEF QueueAttempt, NoRow
    <3>2. CASE FinishAttempt(b)
      BY <1>1, <3>2 DEF FinishAttempt, Settled
    <3>3. QED
      BY <1>9, <3>1, <3>2
  <2>3. QED
    BY <2>1, <2>2, WatchdogUntouched
<1>10. CASE WatchdogStart
  <2>1. /\ wd.pc = "idle" /\ wd' = [pc |-> "handle", age |-> 0, todo |-> Expired, cur |-> None]
        /\ attempt' = attempt /\ row' = row /\ skipped' = skipped
    BY <1>10 DEF WatchdogStart, history
  <2>2. Cycles(Late)' = Cycles(Late) + Period + WatchdogLag
    <3>1. Late' = Late + 1
      BY <1>1, <2>1 DEF Late
    <3>2. QED
      BY <1>1, <3>1, CyclesFacts DEF Cycles
  <2>3. wd.age <= Period + WatchdogLag
    BY <1>1, <2>1 DEF Timely
  <2>4. ASSUME NEW a \in Attempt, attempt[a].status = "RUNNING"
        PROVE  /\ -attempt[a].left <= wd'.age + Cycles(Late)'
               /\ a \notin Expired => attempt[a].left + wd'.age >= 0
    <3>1. attempt[a].left \in Int
      BY <1>1 DEF AttemptRow
    <3>2. -attempt[a].left <= wd.age + Cycles(Late)
      BY <1>1, <2>4 DEF Watched
    <3>3. QED
      BY <1>1, <2>1, <2>2, <2>3, <2>4, <3>1, <3>2, ConstantTypes DEF Expired
  <2>5. ASSUME NEW w \in Worker, row[w].status = "ACTIVE"
        PROVE  row[w].age <= DeadAfter + wd'.age + Cycles(Late)'
    BY <1>1, <2>1, <2>2, <2>3, <2>5, ConstantTypes DEF Watched
  <2>6. QED
    BY <2>1, <2>4, <2>5 DEF Watched
<1>11. ASSUME NEW b \in Attempt, WatchdogRefresh(b) PROVE Watched'
  <2>1. /\ wd.pc = "handle" /\ wd'.pc # "idle" /\ wd'.age = wd.age
        /\ wd'.todo = wd.todo \ {b}
        /\ wd'.cur = IF StillExpired(b) THEN b ELSE None
        /\ attempt' = attempt /\ row' = row /\ skipped' = skipped
    BY <1>1, <1>11 DEF WatchdogRefresh, history, TypeOK
  <2>2. Late' = Late /\ Cycles(Late)' = Cycles(Late)
    BY <2>1 DEF Late, Cycles
  <2>3. ASSUME NEW a \in Attempt, attempt[a].status = "RUNNING", a \notin wd'.todo \cup {wd'.cur}
        PROVE  attempt[a].left + wd.age >= 0
    <3>1. CASE a = b
      BY <1>1, <2>1, <2>3, <3>1 DEF StillExpired, AttemptRow
    <3>2. CASE a # b
      <4>1. a \notin wd.todo /\ a # wd.cur
        BY <1>1, <2>1, <2>3, <3>2, ConstantTypes DEF Chosen
      <4>2. QED
        BY <1>1, <2>1, <2>3, <4>1 DEF Watched
    <3>3. QED
      BY <3>1, <3>2
  <2>4. QED
    BY <1>1, <2>1, <2>2, <2>3 DEF Watched
<1>12. CASE WatchdogTimeOut
  <2>1. /\ wd.pc = "timeout" /\ wd'.pc = "handle" /\ wd'.age = wd.age /\ wd'.todo = wd.todo
        /\ row' = row /\ skipped' = skipped /\ wd.cur \in Attempt
        /\ attempt' = [attempt EXCEPT ![wd.cur] = Settled(wd.cur, "TIMED_OUT")]
    BY <1>1, <1>12 DEF WatchdogTimeOut, history, TypeOK, Chosen
  <2>2. Late' = Late /\ Cycles(Late)' = Cycles(Late)
    BY <2>1 DEF Late, Cycles
  <2>3. \A a \in Attempt : attempt'[a].status = "RUNNING" => a # wd.cur /\ attempt'[a] = attempt[a]
    BY <1>1, <2>1 DEF Settled
  <2>4. QED
    BY <1>1, <2>1, <2>2, <2>3 DEF Watched
<1>13. CASE WatchdogMarkDead
  <2>1. /\ wd.pc = "handle" /\ wd.todo = {} /\ wd'.pc = "idle" /\ wd'.age = wd.age
        /\ attempt' = attempt /\ skipped' = 0 /\ wd.cur = None
        /\ row' = [w \in Worker |-> IF Silent(w) THEN DeadRow ELSE row[w]]
    BY <1>1, <1>13 DEF WatchdogMarkDead, TypeOK, Chosen
  <2>2. Late' = 0 /\ Cycles(Late)' = 0
    BY <2>1, CyclesFacts DEF Late, Cycles
  <2>3. ASSUME NEW a \in Attempt, attempt[a].status = "RUNNING"
        PROVE  -attempt[a].left <= wd.age
    <3>1. attempt[a].left + wd.age >= 0 /\ attempt[a].left \in Int
      BY <1>1, <2>1, <2>3, ConstantTypes DEF Watched, AttemptRow
    <3>2. QED
      BY <1>1, <3>1
  <2>4. ASSUME NEW w \in Worker, row'[w].status = "ACTIVE"
        PROVE  row'[w].age <= DeadAfter + wd.age
    <3>1. row'[w] = row[w] /\ ~Silent(w)
      BY <2>1, <2>4 DEF DeadRow
    <3>2. QED
      BY <1>1, <2>4, <3>1, ConstantTypes DEF Silent
  <2>5. \A a \in Attempt : attempt[a].status = "RUNNING" => -attempt[a].left <= wd.age + 0
    BY <1>1, <2>3
  <2>6. \A w \in Worker : row'[w].status = "ACTIVE" => row'[w].age <= DeadAfter + wd.age + 0
    BY <1>1, <2>4, ConstantTypes
  <2>7. QED
    BY <2>1, <2>2, <2>5, <2>6 DEF Watched
<1>14. CASE WatchdogFails
  <2>1. /\ wd.pc # "idle" /\ wd'.pc = "idle" /\ wd'.age = wd.age
        /\ attempt' = attempt /\ skipped' = skipped + 1 /\ row' = row
    BY <1>1, <1>14 DEF WatchdogFails, TypeOK
  <2>2. Late' = Late /\ Cycles(Late)' = Cycles(Late)
    BY <1>1, <2>1 DEF Late, Cycles
  <2>3. QED
    BY <1>1, <2>1, <2>2 DEF Watched
<1>15. CASE UNCHANGED vars
  BY <1>15, WatchdogUntouched DEF vars
<1>16. QED
  BY <1>4, <1>5, <1>6, <1>7, <1>8, <1>9, <1>10, <1>11, <1>12, <1>13, <1>14, <1>15, FleetSteps

LEMMA ChosenStep == FleetInv /\ [Next]_vars => Chosen'
<1> SUFFICES ASSUME FleetInv, [Next]_vars PROVE Chosen'
  OBVIOUS
<1>1. /\ TypeOK /\ Chosen /\ exec \in [Attempt -> BOOLEAN] /\ excused \in [Attempt -> BOOLEAN]
      /\ attempt \in [Attempt -> AttemptRow] /\ None \notin Attempt
      /\ wd \in [pc : {"idle", "handle", "timeout"}, age : Nat,
                 todo : SUBSET Attempt, cur : Attempt \cup {None}]
  BY ConstantTypes DEF FleetInv, TypeOK
<1>2. ASSUME wd'.pc = wd.pc, wd'.cur = wd.cur,
             wd.cur \in Attempt =>
                 /\ exec'[wd.cur] => exec[wd.cur]
                 /\ excused[wd.cur] => excused'[wd.cur]
                 /\ attempt'[wd.cur].status = "QUEUED" => attempt[wd.cur].status = "QUEUED"
      PROVE  Chosen'
  BY <1>1, <1>2 DEF Chosen, Protected
<1>3. CASE Advance
  BY <1>1, <1>2, <1>3 DEF Advance, Chosen
<1>4. ASSUME NEW v \in Worker,
             \/ StartWorker(v) \/ CrashWorker(v) \/ ShutdownWorker(v) \/ ExitWorker(v)
             \/ HeartbeatStart(v) \/ HeartbeatWorker(v) \/ HeartbeatFails(v)
      PROVE  Chosen'
  <2>1. wd' = wd /\ attempt' = attempt
    BY <1>4
    DEF StartWorker, CrashWorker, ShutdownWorker, ExitWorker, HeartbeatStart, HeartbeatWorker,
        HeartbeatFails, history
  <2>2. \A a \in Attempt : (exec'[a] => exec[a]) /\ (excused[a] => excused'[a])
    BY <1>1, <1>4
    DEF StartWorker, CrashWorker, ShutdownWorker, ExitWorker, HeartbeatStart, HeartbeatWorker,
        HeartbeatFails, Gone, Excuse, history
  <2>3. QED
    BY <1>2, <2>1, <2>2
<1>5. ASSUME NEW v \in Worker, HeartbeatLeases(v) PROVE Chosen'
  BY <1>1, <1>2, <1>5 DEF HeartbeatLeases, AttemptRow
<1>6. ASSUME NEW v \in Worker, NEW b \in Attempt, ClaimAttempt(v, b) PROVE Chosen'
  <2>1. wd' = wd /\ attempt[b].status = "QUEUED"
    BY <1>6 DEF ClaimAttempt
  <2>2. CASE wd.pc = "timeout"
    <3>1. wd.cur \in Attempt /\ wd.cur # b
      BY <1>1, <2>1, <2>2 DEF Chosen
    <3>2. /\ exec'[wd.cur] = exec[wd.cur] /\ excused'[wd.cur] = excused[wd.cur]
          /\ attempt'[wd.cur] = attempt[wd.cur]
      BY <1>1, <1>6, <3>1 DEF ClaimAttempt
    <3>3. QED
      BY <1>2, <2>1, <3>2
  <2>3. CASE wd.pc # "timeout"
    BY <1>1, <2>1, <2>3 DEF Chosen
  <2>4. QED
    BY <2>2, <2>3
<1>7. ASSUME NEW b \in Attempt, QueueAttempt(b) PROVE Chosen'
  BY <1>1, <1>2, <1>7 DEF QueueAttempt, history
<1>8. ASSUME NEW b \in Attempt, FinishAttempt(b) PROVE Chosen'
  BY <1>1, <1>2, <1>8 DEF FinishAttempt, Settled, history
<1>9. ASSUME NEW b \in Attempt, WatchdogRefresh(b) PROVE Chosen'
  <2>1. /\ wd'.pc = IF StillExpired(b) THEN "timeout" ELSE "handle"
        /\ wd'.cur = IF StillExpired(b) THEN b ELSE None
        /\ exec' = exec /\ excused' = excused /\ attempt' = attempt
    BY <1>1, <1>9 DEF WatchdogRefresh, history
  <2>2. ASSUME StillExpired(b) PROVE ~Protected(b) /\ attempt[b].status # "QUEUED"
    <3>1. attempt[b].status = "RUNNING" /\ attempt[b].left \in Int /\ attempt[b].left < 0
      BY <1>1, <2>2 DEF StillExpired, AttemptRow
    <3>2. QED
      BY <3>1, LongEnough
  <2>3. QED
    BY <2>1, <2>2 DEF Chosen, Protected
<1>10. CASE WatchdogStart \/ WatchdogTimeOut \/ WatchdogMarkDead \/ WatchdogFails
  <2>1. wd'.pc # "timeout" /\ wd'.cur = None
    <3>1. CASE WatchdogStart
      BY <3>1 DEF WatchdogStart
    <3>2. CASE WatchdogTimeOut
      BY <1>1, <3>2 DEF WatchdogTimeOut
    <3>3. CASE WatchdogMarkDead
      BY <1>1, <3>3 DEF WatchdogMarkDead, Chosen
    <3>4. CASE WatchdogFails
      <4>1. wd' = [[[wd EXCEPT !.pc = "idle"] EXCEPT !.todo = {}] EXCEPT !.cur = None]
        BY <3>4 DEF WatchdogFails
      <4>2. QED
        BY <1>1, <4>1
    <3>5. QED
      BY <1>10, <3>1, <3>2, <3>3, <3>4
  <2>2. QED
    BY <2>1 DEF Chosen
<1>11. CASE UNCHANGED vars
  BY <1>2, <1>11 DEF vars
<1>12. QED
  BY <1>3, <1>4, <1>5, <1>6, <1>7, <1>8, <1>9, <1>10, <1>11, FleetSteps

\* A step that gives no worker a longer absence and no ACTIVE row or lease more
\* time than it has.
LEMMA FadingUntouched ==
    ASSUME FleetInv,
           \A w \in Worker :
               /\ main'[w] # "down" => downFor'[w] = 0
               /\ downFor'[w] \in {0, downFor[w]}
               /\ row'[w].status = "ACTIVE" => row'[w] = row[w] \/ downFor'[w] = 0,
           \A a \in Attempt : attempt'[a].status = "RUNNING" => attempt'[a] = attempt[a],
           \A w \in Worker : row'[w].age \in Nat
    PROVE  Fading'
<1>1. /\ Fading /\ downFor \in [Worker -> Nat] /\ attempt \in [Attempt -> AttemptRow]
      /\ row \in [Worker -> [status : {"none", "ACTIVE", "DEAD"}, age : Nat]] /\ Lease \in Nat
  BY ConstantTypes DEF FleetInv, TypeOK
<1>2. ASSUME NEW w \in Worker, row'[w].status = "ACTIVE" PROVE downFor'[w] <= row'[w].age
  BY <1>1, <1>2 DEF Fading
<1>3. ASSUME NEW a \in Attempt, attempt'[a].status = "RUNNING"
      PROVE  /\ attempt'[a].worker \in Worker
             /\ attempt'[a].left + downFor'[attempt'[a].worker] <= Lease
  <2>1. /\ attempt'[a] = attempt[a] /\ attempt[a].worker \in Worker /\ attempt[a].left \in Int
        /\ attempt[a].left + downFor[attempt[a].worker] <= Lease
    BY <1>1, <1>3 DEF Fading, AttemptRow
  <2>2. downFor'[attempt[a].worker] <= downFor[attempt[a].worker]
        /\ downFor'[attempt[a].worker] \in Nat
    BY <1>1, <2>1
  <2>3. QED
    BY <1>1, <2>1, <2>2
<1>4. QED
  BY <1>2, <1>3 DEF Fading

LEMMA FadingStep == FleetInv /\ [Next]_vars => Fading'
<1> SUFFICES ASSUME FleetInv, [Next]_vars PROVE Fading'
  OBVIOUS
<1>1. /\ TypeOK /\ Fading /\ downFor \in [Worker -> Nat] /\ attempt \in [Attempt -> AttemptRow]
      /\ main \in [Worker -> UpPc \cup {"draining", "down"}] /\ beatAge \in [Worker -> Nat]
      /\ row \in [Worker -> [status : {"none", "ACTIVE", "DEAD"}, age : Nat]] /\ Lease \in Nat
      /\ \A w \in Worker : row'[w].age \in Nat
  BY FleetTypeStep, ConstantTypes DEF FleetInv, TypeOK
<1>2. CASE Advance
  <2>1. /\ main' = main
        /\ \A w \in Worker :
             downFor'[w] = IF main[w] = "down" /\ Trace(w) THEN downFor[w] + 1 ELSE downFor[w]
    BY <1>2 DEF Advance
  <2>2. ASSUME NEW w \in Worker, row'[w].status = "ACTIVE" PROVE downFor'[w] <= row'[w].age
    <3>1. row[w].status = "ACTIVE" /\ row'[w].age = row[w].age + 1
      BY <1>1, <1>2, <2>2 DEF Advance
    <3>2. QED
      BY <1>1, <2>1, <3>1 DEF Fading
  <2>3. ASSUME NEW a \in Attempt, attempt'[a].status = "RUNNING"
        PROVE  /\ attempt'[a].worker \in Worker
               /\ attempt'[a].left + downFor'[attempt'[a].worker] <= Lease
    <3>1. /\ attempt[a].status = "RUNNING" /\ attempt'[a].left = attempt[a].left - 1
          /\ attempt'[a].worker = attempt[a].worker /\ attempt[a].left \in Int
      BY <1>1, <1>2, <2>3 DEF Advance, AttemptRow
    <3>2. /\ attempt[a].worker \in Worker
          /\ attempt[a].left + downFor[attempt[a].worker] <= Lease
      BY <1>1, <3>1 DEF Fading
    <3>3. downFor'[attempt[a].worker] <= downFor[attempt[a].worker] + 1
          /\ downFor'[attempt[a].worker] \in Nat /\ downFor[attempt[a].worker] \in Nat
      BY <1>1, <2>1, <3>2
    <3>4. QED
      BY <1>1, <3>1, <3>2, <3>3
  <2>4. QED
    BY <1>1, <2>1, <2>2, <2>3 DEF Fading
<1>3. ASSUME NEW v \in Worker, StartWorker(v) PROVE Fading'
  <2>1. attempt' = attempt /\ downFor' = [downFor EXCEPT ![v] = 0]
    BY <1>3 DEF StartWorker
  <2>2. \A w \in Worker : /\ main'[w] # "down" => downFor'[w] = 0
                          /\ row'[w] = row[w] \/ downFor'[w] = 0
    BY <1>1, <1>3 DEF StartWorker, Fading
  <2>3. QED
    BY <1>1, <2>1, <2>2, FadingUntouched
<1>4. ASSUME NEW v \in Worker, CrashWorker(v) \/ ShutdownWorker(v) \/ ExitWorker(v)
      PROVE  Fading'
  <2>1. attempt' = attempt /\ downFor' = downFor
    BY <1>4 DEF CrashWorker, ShutdownWorker, ExitWorker, history
  <2>2. \A w \in Worker : main'[w] # "down" => main[w] # "down"
    BY <1>1, <1>4 DEF CrashWorker, ShutdownWorker, ExitWorker, Up, UpPc, BeatPc
  <2>3. \A w \in Worker : row'[w].status = "ACTIVE" => row'[w] = row[w]
    BY <1>1, <1>4 DEF CrashWorker, ShutdownWorker, ExitWorker, DeadRow
  <2>4. QED
    BY <1>1, <2>1, <2>2, <2>3, FadingUntouched DEF Fading
<1>5. ASSUME NEW v \in Worker, HeartbeatStart(v) \/ HeartbeatWorker(v) \/ HeartbeatFails(v)
      PROVE  Fading'
  <2>1. attempt' = attempt /\ downFor' = downFor
    BY <1>5 DEF HeartbeatStart, HeartbeatWorker, HeartbeatFails, history
  <2>2. \A w \in Worker : main'[w] # "down" => main[w] # "down"
    BY <1>1, <1>5 DEF HeartbeatStart, HeartbeatWorker, HeartbeatFails, BeatPc
  <2>3. \A w \in Worker : row'[w] = row[w] \/ main[w] # "down"
    BY <1>1, <1>5 DEF HeartbeatStart, HeartbeatWorker, HeartbeatFails
  <2>4. QED
    BY <1>1, <2>1, <2>2, <2>3, FadingUntouched DEF Fading
<1>6. ASSUME NEW v \in Worker, HeartbeatLeases(v) PROVE Fading'
  <2>1. downFor' = downFor /\ row' = row /\ main[v] = "leases" /\ downFor[v] = 0
    BY <1>1, <1>6 DEF HeartbeatLeases, Fading
  <2>2. \A w \in Worker : main'[w] # "down" => main[w] # "down"
    BY <1>1, <1>6 DEF HeartbeatLeases
  <2>3. ASSUME NEW a \in Attempt, attempt'[a].status = "RUNNING"
        PROVE  /\ attempt'[a].worker \in Worker
               /\ attempt'[a].left + downFor[attempt'[a].worker] <= Lease
    <3>1. CASE a \in Extended(v)
      <4>1. attempt[a] \in AttemptRow /\ attempt[a].worker = v
        BY <1>1, <3>1 DEF Extended, RunningOf
      <4>2. attempt'[a] = [attempt[a] EXCEPT !.left = Lease - beatAge[v]]
        BY <1>6, <3>1 DEF HeartbeatLeases
      <4>3. attempt'[a].worker = v /\ attempt'[a].left = Lease - beatAge[v]
        BY <4>1, <4>2 DEF AttemptRow
      <4>4. QED
        BY <1>1, <2>1, <4>3
    <3>2. CASE a \notin Extended(v)
      BY <1>1, <1>6, <2>3, <3>2 DEF HeartbeatLeases, Fading
    <3>3. QED
      BY <3>1, <3>2
  <2>4. QED
    BY <1>1, <2>1, <2>2, <2>3 DEF Fading
<1>7. ASSUME NEW v \in Worker, NEW b \in Attempt, ClaimAttempt(v, b) PROVE Fading'
  <2>1. /\ downFor' = downFor /\ row' = row /\ main' = main /\ downFor[v] = 0
        /\ attempt' = [attempt EXCEPT ![b] = [status |-> "RUNNING", worker |-> v, left |-> Lease]]
    BY <1>1, <1>7 DEF ClaimAttempt, Fading
  <2>2. ASSUME NEW a \in Attempt, attempt'[a].status = "RUNNING"
        PROVE  /\ attempt'[a].worker \in Worker
               /\ attempt'[a].left + downFor[attempt'[a].worker] <= Lease
    <3>1. CASE a = b
      BY <1>1, <2>1, <3>1
    <3>2. CASE a # b
      BY <1>1, <2>1, <2>2, <3>2 DEF Fading
    <3>3. QED
      BY <3>1, <3>2
  <2>3. QED
    BY <1>1, <2>1, <2>2 DEF Fading
<1>8. ASSUME NEW b \in Attempt, QueueAttempt(b) \/ FinishAttempt(b) PROVE Fading'
  <2>1. main' = main /\ downFor' = downFor /\ row' = row
    BY <1>8 DEF QueueAttempt, FinishAttempt, history
  <2>2. \A a \in Attempt : attempt'[a].status = "RUNNING" => attempt'[a] = attempt[a]
    BY <1>1, <1>8 DEF QueueAttempt, FinishAttempt, NoRow, Settled
  <2>3. QED
    BY <1>1, <2>1, <2>2, FadingUntouched DEF Fading
<1>9. CASE WatchdogStart \/ WatchdogFails \/ \E b \in Attempt : WatchdogRefresh(b)
  <2>1. main' = main /\ downFor' = downFor /\ row' = row /\ attempt' = attempt
    BY <1>9 DEF WatchdogStart, WatchdogFails, WatchdogRefresh, history
  <2>2. QED
    BY <1>1, <2>1, FadingUntouched DEF Fading
<1>10. CASE WatchdogTimeOut
  <2>1. main' = main /\ downFor' = downFor /\ row' = row
    BY <1>10 DEF WatchdogTimeOut, history
  <2>2. \A a \in Attempt : attempt'[a].status = "RUNNING" => attempt'[a] = attempt[a]
    BY <1>1, <1>10 DEF WatchdogTimeOut, Settled
  <2>3. QED
    BY <1>1, <2>1, <2>2, FadingUntouched DEF Fading
<1>11. CASE WatchdogMarkDead
  <2>1. main' = main /\ downFor' = downFor /\ attempt' = attempt
    BY <1>11 DEF WatchdogMarkDead
  <2>2. \A w \in Worker : row'[w].status = "ACTIVE" => row'[w] = row[w]
    BY <1>1, <1>11 DEF WatchdogMarkDead, DeadRow
  <2>3. QED
    BY <1>1, <2>1, <2>2, FadingUntouched DEF Fading
<1>12. CASE UNCHANGED vars
  BY <1>1, <1>12, FadingUntouched DEF vars, Fading
<1>13. QED
  BY <1>2, <1>3, <1>4, <1>5, <1>6, <1>7, <1>8, <1>9, <1>10, <1>11, <1>12, FleetSteps

-----------------------------------------------------------------------------
(* The invariant and what it says *)

LEMMA FleetStep == FleetInv /\ [Next]_vars => FleetInv'
BY FleetTypeStep, TimelyStep, LeaseLongStep, RowFreshStep, WatchedStep, ChosenStep, FadingStep
DEF FleetInv

LEMMA FleetInvariant == Spec => []FleetInv
BY FleetInitial, FleetStep, PTL DEF Spec

\* A whole cycle more than those that are late is what Delay stands for.
LEMMA WithinDelay == FleetInv => Delay \in Nat /\ wd.age + Cycles(Late) <= Delay
<1> SUFFICES ASSUME FleetInv PROVE Delay \in Nat /\ wd.age + Cycles(Late) <= Delay
  OBVIOUS
<1>1. Late \in Nat /\ Cycles(Late) \in Nat /\ wd.age \in Nat /\ skipped \in Nat
  BY LateFacts DEF FleetInv
<1>2. wd.age <= Period + WatchdogLag
  BY <1>1, ConstantTypes DEF FleetInv, Timely
<1>3. Delay = Cycles(Late + 1)
  <2>1. skipped + (IF wd.pc = "idle" THEN 1 ELSE 2) = Late + 1
    BY <1>1 DEF Late
  <2>2. QED
    BY <2>1 DEF Delay, Cycles
<1>4. Cycles(Late + 1) = Cycles(Late) + Period + WatchdogLag /\ Cycles(Late + 1) \in Nat
  BY <1>1, CyclesFacts
<1>5. QED
  BY <1>1, <1>2, <1>3, <1>4, ConstantTypes

LEMMA FleetInvImplies ==
    FleetInv => TypeOK /\ LeaseKept /\ LiveWorkerActive /\ LapsesNoticed /\ CrashNoticed
<1> SUFFICES ASSUME FleetInv
             PROVE  TypeOK /\ LeaseKept /\ LiveWorkerActive /\ LapsesNoticed /\ CrashNoticed
  OBVIOUS
<1>1. /\ TypeOK /\ Watched /\ Fading /\ downFor \in [Worker -> Nat]
      /\ attempt \in [Attempt -> AttemptRow]
      /\ row \in [Worker -> [status : {"none", "ACTIVE", "DEAD"}, age : Nat]]
  BY DEF FleetInv, TypeOK
<1>2. Delay \in Nat /\ wd.age + Cycles(Late) <= Delay /\ wd.age + Cycles(Late) \in Nat
  BY WithinDelay, LateFacts DEF FleetInv
<1>3. LeaseKept
  BY LongEnough DEF LeaseKept, Protected
<1>4. LiveWorkerActive
  BY DEF FleetInv, RowFresh, FreshRow, LiveWorkerActive
<1>5. ASSUME NEW a \in Attempt, attempt[a].status = "RUNNING"
      PROVE  attempt[a].left \in Int /\ -attempt[a].left <= Delay
  <2>1. attempt[a].left \in Int /\ -attempt[a].left <= wd.age + Cycles(Late)
    BY <1>1, <1>5 DEF Watched, AttemptRow
  <2>2. QED
    BY <1>2, <2>1
<1>6. LapsesNoticed
  BY <1>5 DEF LapsesNoticed
<1>7. ASSUME NEW w \in Worker
      PROVE  /\ row[w].status = "ACTIVE" => downFor[w] <= DeadAfter + Delay
             /\ RunningOf(w) # {} => downFor[w] <= Lease + Delay
  <2>1. ASSUME row[w].status = "ACTIVE" PROVE downFor[w] <= DeadAfter + Delay
    <3>1. downFor[w] <= row[w].age /\ row[w].age <= DeadAfter + (wd.age + Cycles(Late))
      BY <1>1, <2>1, LateFacts, ConstantTypes DEF Fading, Watched
    <3>2. QED
      BY <1>1, <1>2, <3>1, ConstantTypes
  <2>2. ASSUME NEW a \in RunningOf(w) PROVE downFor[w] <= Lease + Delay
    <3>1. a \in Attempt /\ attempt[a].status = "RUNNING" /\ attempt[a].worker = w
      BY DEF RunningOf
    <3>2. attempt[a].left + downFor[w] <= Lease
      BY <1>1, <3>1 DEF Fading
    <3>3. attempt[a].left \in Int /\ -attempt[a].left <= Delay
      BY <1>5, <3>1
    <3>4. QED
      BY <1>1, <1>2, <3>2, <3>3, ConstantTypes
  <2>3. QED
    BY <2>1, <2>2
<1>8. CrashNoticed
  BY <1>7 DEF CrashNoticed
<1>9. QED
  BY <1>1, <1>3, <1>4, <1>6, <1>8

\* The variables have their types: in particular, no age is negative, although
\* both loops write times they took some statements earlier.
THEOREM FleetTypeCorrect == Spec => []TypeOK
BY FleetInvariant, FleetInvImplies, PTL

\* worker/heartbeat.py against scheduler/watchdog.py:83-112: whatever the order
\* of heartbeats, failures and watchdog cycles, an attempt that is being executed
\* is not timed out unless more than Misses heartbeats in a row have failed.
THEOREM LeasesKept == Spec => []LeaseKept
BY FleetInvariant, FleetInvImplies, PTL

\* worker/heartbeat.py:41-62 against scheduler/watchdog.py:179-194: the row of a
\* process whose heartbeats get through says ACTIVE.
THEOREM LiveWorkersActive == Spec => []LiveWorkerActive
BY FleetInvariant, FleetInvImplies, PTL

\* scheduler/watchdog.py:45-54: the cycle that fails postpones an expired lease by
\* one cycle, and nothing else keeps it from being noticed.
THEOREM ExpiryNoticed == Spec => []LapsesNoticed
BY FleetInvariant, FleetInvImplies, PTL

\* scheduler/watchdog.py:83-112, 179-194: the same for what a process that is down
\* has left behind, counted from the moment it went down.
THEOREM CrashesNoticed == Spec => []CrashNoticed
BY FleetInvariant, FleetInvImplies, PTL

=============================================================================
