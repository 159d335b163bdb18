----------------------------- MODULE ClaimOrder -----------------------------
(***************************************************************************)
(* Which attempt a worker claims (worker/claim.py).  claim_attempt locks   *)
(* the Window oldest QUEUED rows that no other transaction has locked,     *)
(* sorts them by priority in Python, takes the first and releases the      *)
(* others at its commit.  Between its SELECT and its commit the other      *)
(* workers see the rest of the queue only.                                 *)
(*                                                                         *)
(* Rows are inserted with a scheduled_for that has passed, the older ones  *)
(* not always first: a tick inserts the slot's time, the trigger and the   *)
(* watchdog their own.  What becomes of a claimed row, and the workers'    *)
(* limit on claims, are in Execution.                                      *)
(***************************************************************************)
EXTENDS Integers, FiniteSets

CONSTANTS
    Worker,      \* worker ids
    Window,      \* the slice [:50] of the candidates
    Priorities,  \* the priorities rows are inserted with
    MaxRows,     \* bound on the rows ever inserted
    MaxDue,      \* bound: scheduled_for is a number in 1..MaxDue
    MaxFaults,   \* bound on claims that fail
    None

Row == 1..MaxRows

\* PRIORITY_ORDER
PriorityOrder == [CRITICAL |-> 4, HIGH |-> 3, MEDIUM |-> 2, LOW |-> 1]

ASSUME ClaimAssumption ==
    /\ Window \in Nat \ {0}
    /\ MaxRows \in Nat /\ MaxDue \in Nat /\ MaxFaults \in Nat
    /\ Priorities \subseteq DOMAIN PriorityOrder
    /\ None \notin Worker

VARIABLES
    row,      \* row[r]: the JobAttempt row r
    locked,   \* locked[w]: the rows the claim transaction of w has locked
    looked,   \* history: the rows that were free to be locked when w looked
    passed,   \* history: how often a claim that could have locked r took a less
              \* urgent row while r waited
    faults

vars == <<row, locked, looked, passed, faults>>

-----------------------------------------------------------------------------

NoRow == [status |-> "none", priority |-> None, due |-> 0, worker |-> None]

Waiting(r) == row[r].status = "QUEUED"
Locked(r) == \E w \in Worker : r \in locked[w]
LessUrgent(x, r) == PriorityOrder[row[x].priority] < PriorityOrder[row[r].priority]

Init ==
    /\ row = [r \in Row |-> NoRow]
    /\ locked = [w \in Worker |-> {}]
    /\ looked = [w \in Worker |-> {}]
    /\ passed = [r \in Row |-> 0]
    /\ faults = 0

\* A tick, the trigger or the watchdog inserts a row.
InsertRow(r, priority, due) ==
    /\ row[r] = NoRow
    /\ \A x \in 1..(r - 1) : row[x] # NoRow
    /\ row' = [row EXCEPT ![r] = [status |-> "QUEUED", priority |-> priority,
                                  due |-> due, worker |-> None]]
    /\ UNCHANGED <<locked, looked, passed, faults>>

-----------------------------------------------------------------------------
(* The claim transaction *)

Lockable_NoSkipLocked(r) == Waiting(r)
Lockable(r) == Waiting(r) /\ ~Locked(r)

Older(x, r) == row[x].due < row[r].due

Candidates_FullWindowOnly ==
    LET rows == {r \in Row : Lockable(r)} IN
    {batch \in SUBSET rows :
        /\ Cardinality(batch) = Window
        /\ \A r \in batch, x \in rows \ batch : ~Older(x, r)}

\* The rows ORDER BY scheduled_for and the slice may leave; ties are broken
\* arbitrarily.
Candidates ==
    LET rows == {r \in Row : Lockable(r)} IN
    {batch \in SUBSET rows :
        /\ Cardinality(batch) <= Window
        /\ batch # rows => Cardinality(batch) = Window
        /\ \A r \in batch, x \in rows \ batch : ~Older(x, r)}

\* SELECT ... FOR UPDATE SKIP LOCKED.  Without candidates the claim is over.
LockCandidates(w) ==
    /\ locked[w] = {}
    /\ \E batch \in Candidates \ {{}} : locked' = [locked EXCEPT ![w] = batch]
    /\ looked' = [looked EXCEPT ![w] = {r \in Row : Waiting(r) /\ ~Locked(r)}]
    /\ UNCHANGED <<row, passed, faults>>

Before_NotReversed(x, r) == LessUrgent(x, r) \/ (~LessUrgent(r, x) /\ Older(x, r))
Before(x, r) == LessUrgent(r, x) \/ (~LessUrgent(x, r) /\ Older(x, r))

\* candidates[0] after the sort, which is stable.
First(batch) == {r \in batch : \A x \in batch : ~Before(x, r)}

\* The row r after the UPDATE.
Claimed_StatusKept(w, r) == [row[r] EXCEPT !.worker = w]
Claimed(w, r) == [row[r] EXCEPT !.status = "RUNNING", !.worker = w]

\* The UPDATE and the commit.  Its WHERE status = QUEUED cannot fail: the row
\* is locked (see TypeOK).
CommitClaim(w) ==
    /\ \E r \in First(locked[w]) :
         /\ row' = [row EXCEPT ![r] = Claimed(w, r)]
         /\ passed' = [x \in Row |-> IF x \in looked[w] /\ Waiting(x) /\ LessUrgent(r, x)
                                     THEN passed[x] + 1 ELSE passed[x]]
    /\ locked' = [locked EXCEPT ![w] = {}]
    /\ looked' = [looked EXCEPT ![w] = {}]
    /\ UNCHANGED faults

\* A statement raises, or the process dies: the transaction rolls back.
ClaimFails(w) ==
    /\ locked[w] # {}
    /\ faults < MaxFaults
    /\ faults' = faults + 1
    /\ locked' = [locked EXCEPT ![w] = {}]
    /\ looked' = [looked EXCEPT ![w] = {}]
    /\ UNCHANGED <<row, passed>>

ClaimNext(w) == LockCandidates(w) \/ CommitClaim(w)

Next ==
    \/ \E r \in Row, priority \in Priorities, due \in 1..MaxDue : InsertRow(r, priority, due)
    \/ \E w \in Worker : ClaimNext(w) \/ ClaimFails(w)

Spec == Init /\ [][Next]_vars

\* The main loop of a worker polls again and again.
FairSpec == Spec /\ \A w \in Worker : WF_vars(ClaimNext(w))

-----------------------------------------------------------------------------

\* Rows and locks: only waiting rows are locked, each by one transaction, which
\* is why an attempt goes to one worker and the UPDATE finds it QUEUED.
TypeOK ==
    /\ row \in [Row -> [status : {"none", "QUEUED", "RUNNING"}, priority : Priorities \cup {None},
                        due : 0..MaxDue, worker : Worker \cup {None}]]
    /\ locked \in [Worker -> SUBSET {r \in Row : Waiting(r)}]
    /\ \A v, w \in Worker : v # w => locked[v] \cap locked[w] = {}
    /\ looked \in [Worker -> SUBSET Row]
    /\ passed \in [Row -> Nat]
    /\ faults \in 0..MaxFaults

\* The rows that may stand before r when the candidates are cut off.
Ahead(r) == {x \in Row \ {r} : row[x] # NoRow /\ row[x].due <= row[r].due}

\* A claim that could have locked a row takes a less urgent one only while the
\* window is full of older rows, so that all such claims together take no more
\* than the rows ahead of it that do not fit the window, and one.  (Claims that
\* looked while another held the row, or before it was there, take what they find.)
PassesBounded ==
    \A r \in Row :
        LET beyond == Cardinality(Ahead(r)) - Window + 1 IN
        passed[r] <= IF beyond > 0 THEN beyond ELSE 0

\* Every row is claimed, though polls find nothing while others hold the whole
\* queue and claims fail.
RowsClaimed == \A r \in Row : Waiting(r) ~> ~Waiting(r)

-----------------------------------------------------------------------------

QueueState(r) ==
    CASE r.status = "none" -> "none"
      [] r.status = "QUEUED" -> "waiting"
      [] r.status = "RUNNING" -> "taken"

Queue == INSTANCE AttemptQueue WITH
           Attempt <- Row,
           state <- [r \in Row |-> QueueState(row[r])],
           owner <- [r \in Row |-> row[r].worker]

\* Though several claims look at the queue before any of them commits, no row is
\* taken twice or by another worker than the one that locked it.
ImplementsQueue == Queue!Spec

=============================================================================
