-------------------------- MODULE ClaimOrderProofs --------------------------
(* Theorems about ClaimOrder, for every number of workers and rows, every   *)
(* window and every set of priorities.                                      *)
EXTENDS ClaimOrder, FiniteSetTheorems, TLAPS

\* A row is blank or has a priority, and only rows that are there are looked at
\* or passed over.
RowsFilled ==
    /\ \A r \in Row :
         \/ row[r] = NoRow /\ passed[r] = 0
         \/ row[r].status # "none" /\ row[r].priority \in Priorities
    /\ \A w \in Worker : \A r \in looked[w] : row[r].status # "none"

\* A claim that looked at a row without locking it has a full window of rows
\* that are not newer.
WindowsFull ==
    \A w \in Worker : \A r \in looked[w] \ locked[w] :
        /\ Cardinality(locked[w]) = Window
        /\ \A x \in locked[w] : row[x].due <= row[r].due

\* The rows ahead of r that have been claimed: each of them can have passed r once.
Gone(r) == {x \in Ahead(r) : row[x].status = "RUNNING"}

PassesPaid == \A r \in Row : passed[r] <= Cardinality(Gone(r))

ClaimOrderInv ==
    TypeOK /\ RowsFilled /\ WindowsFull /\ PassesPaid /\ PassesBounded

LEMMA RowsFinite ==
    ASSUME NEW S \in SUBSET Row
    PROVE  IsFiniteSet(S) /\ Cardinality(S) \in Nat
<1>1. IsFiniteSet(Row)
  BY ClaimAssumption, FS_Interval DEF Row
<1> QED
  BY <1>1, FS_Subset, FS_CardinalityType

LEMMA Ranks == \A p \in Priorities : PriorityOrder[p] \in Nat
  BY ClaimAssumption DEF PriorityOrder

\* More rows ahead, and more of them gone, make the bounds weaker.
LEMMA BoundsGrow ==
    ASSUME TypeOK, PassesPaid, PassesBounded, NEW r \in Row,
           passed'[r] = passed[r],
           Ahead(r) \subseteq Ahead(r)', Gone(r) \subseteq Gone(r)'
    PROVE  /\ passed'[r] <= Cardinality(Gone(r)')
           /\ LET beyond == Cardinality(Ahead(r)') - Window + 1 IN
              passed'[r] <= IF beyond > 0 THEN beyond ELSE 0
<1>1. Ahead(r)' \in SUBSET Row /\ Gone(r)' \in SUBSET Row /\ Ahead(r) \in SUBSET Row /\ Gone(r) \in SUBSET Row
  BY DEF Ahead, Gone
<1>2. /\ Cardinality(Ahead(r)) <= Cardinality(Ahead(r)')
      /\ Cardinality(Gone(r)) <= Cardinality(Gone(r)')
  BY <1>1, RowsFinite, FS_Subset
<1>3. Cardinality(Ahead(r)) \in Nat /\ Cardinality(Ahead(r)') \in Nat
      /\ Cardinality(Gone(r)) \in Nat /\ Cardinality(Gone(r)') \in Nat /\ passed[r] \in Nat
  BY <1>1, RowsFinite DEF TypeOK
<1> QED
  BY <1>2, <1>3, ClaimAssumption DEF PassesPaid, PassesBounded

\* Steps that claim nothing and insert nothing leave the rows and the counts alone.
LEMMA CountsUntouched ==
    ClaimOrderInv /\ UNCHANGED <<row, passed>> => (PassesPaid /\ PassesBounded)'
  BY DEF ClaimOrderInv, PassesPaid, PassesBounded, Gone, Ahead

LEMMA InsertKeeps ==
    ASSUME ClaimOrderInv, NEW z \in Row, NEW priority \in Priorities, NEW due \in 1..MaxDue,
           InsertRow(z, priority, due)
    PROVE  ClaimOrderInv'
<1> DEFINE new == [status |-> "QUEUED", priority |-> priority, due |-> due, worker |-> None]
<1>t. TypeOK /\ RowsFilled /\ WindowsFull /\ MaxDue \in Nat
  BY ClaimAssumption DEF ClaimOrderInv
<1>1. row'[z] = new /\ \A r \in Row \ {z} : row'[r] = row[r]
  BY <1>t DEF InsertRow, TypeOK
<1>2. row[z].status = "none" /\ row[z] = NoRow /\ UNCHANGED <<locked, looked, passed, faults>>
  BY DEF InsertRow, NoRow
<1>3. \A w \in Worker : z \notin locked[w] /\ z \notin looked[w]
  BY <1>t, <1>2 DEF TypeOK, Waiting, RowsFilled
<1>4. TypeOK'
  <2>1. row' \in [Row -> [status : {"none", "QUEUED", "RUNNING"}, priority : Priorities \cup {None},
                          due : 0..MaxDue, worker : Worker \cup {None}]]
    BY <1>t DEF InsertRow, TypeOK
  <2>2. locked' \in [Worker -> SUBSET {r \in Row : Waiting(r)}']
    <3>1. \A w \in Worker : \A r \in locked[w] : r \in Row /\ row'[r].status = "QUEUED"
      BY <1>t, <1>1, <1>3 DEF TypeOK, Waiting
    <3> QED
      BY <1>t, <1>2, <3>1 DEF TypeOK, Waiting
  <2> QED
    BY <1>t, <1>2, <2>1, <2>2 DEF TypeOK
<1>5. RowsFilled'
  <2>1. ASSUME NEW r \in Row
        PROVE  \/ row'[r] = NoRow /\ passed'[r] = 0
               \/ row'[r].status # "none" /\ row'[r].priority \in Priorities
    BY <1>t, <1>1, <1>2 DEF RowsFilled
  <2>2. ASSUME NEW w \in Worker, NEW r \in looked'[w] PROVE row'[r].status # "none"
    BY <1>t, <1>1, <1>2, <1>3 DEF RowsFilled, TypeOK
  <2> QED
    BY <2>1, <2>2 DEF RowsFilled
<1>6. WindowsFull'
  <2>1. \A w \in Worker : \A r \in looked[w] : r \in Row /\ row'[r] = row[r]
    BY <1>t, <1>1, <1>3 DEF TypeOK
  <2>2. \A w \in Worker : \A x \in locked[w] : x \in Row /\ row'[x] = row[x]
    BY <1>t, <1>1, <1>3 DEF TypeOK
  <2> QED
    BY <1>t, <1>2, <2>1, <2>2 DEF WindowsFull
<1>7. ASSUME NEW r \in Row
      PROVE  /\ passed'[r] <= Cardinality(Gone(r)')
             /\ LET beyond == Cardinality(Ahead(r)') - Window + 1 IN
                passed'[r] <= IF beyond > 0 THEN beyond ELSE 0
  <2>1. CASE r = z
    <3>1. passed'[r] = 0
      BY <1>t, <1>2, <2>1 DEF RowsFilled
    <3>2. Gone(r)' \in SUBSET Row /\ Ahead(r)' \in SUBSET Row
      BY DEF Gone, Ahead
    <3>3. Cardinality(Gone(r)') \in Nat /\ Cardinality(Ahead(r)') \in Nat
      BY <3>2, RowsFinite
    <3> QED
      BY <3>1, <3>3, ClaimAssumption
  <2>2. CASE r # z
    <3>1. Ahead(r) \subseteq Ahead(r)'
      BY <1>1, <1>2, <2>2 DEF Ahead
    <3>2. Gone(r) \subseteq Gone(r)'
      BY <1>1, <1>2, <3>1 DEF Gone, Ahead
    <3> QED
      BY <1>t, <1>2, <3>1, <3>2, BoundsGrow DEF ClaimOrderInv
  <2> QED
    BY <2>1, <2>2
<1> QED
  BY <1>4, <1>5, <1>6, <1>7 DEF ClaimOrderInv, PassesPaid, PassesBounded

LEMMA LockKeeps ==
    ASSUME ClaimOrderInv, NEW w \in Worker, LockCandidates(w)
    PROVE  ClaimOrderInv'
<1> DEFINE rows == {r \in Row : Lockable(r)}
<1>t. TypeOK /\ RowsFilled /\ WindowsFull
  BY DEF ClaimOrderInv
<1>1. PICK batch \in Candidates : locked' = [locked EXCEPT ![w] = batch]
  BY DEF LockCandidates
<1>2. UNCHANGED <<row, passed, faults>> /\ looked' = [looked EXCEPT ![w] = rows]
  BY DEF LockCandidates, Lockable
<1>3. /\ batch \subseteq rows
      /\ batch # rows => Cardinality(batch) = Window
      /\ \A r \in batch, x \in rows \ batch : ~Older(x, r)
  BY DEF Candidates
<1>4. TypeOK'
  <2>1. \A v \in Worker \ {w} : batch \cap locked[v] = {}
    BY <1>3 DEF Lockable, Locked
  <2>2. locked' \in [Worker -> SUBSET {r \in Row : Waiting(r)}]
    BY <1>t, <1>1, <1>3 DEF TypeOK, Lockable
  <2>3. \A u, v \in Worker : u # v => locked'[u] \cap locked'[v] = {}
    BY <1>t, <1>1, <2>1 DEF TypeOK
  <2>4. looked' \in [Worker -> SUBSET Row]
    BY <1>t, <1>2 DEF TypeOK
  <2> QED
    BY <1>t, <1>2, <2>2, <2>3, <2>4 DEF TypeOK, Waiting
<1>5. RowsFilled'
  <2>1. ASSUME NEW v \in Worker, NEW r \in looked'[v] PROVE row[r].status # "none"
    <3>1. CASE v = w
      BY <1>t, <1>2, <3>1, <2>1 DEF TypeOK, Lockable, Waiting
    <3>2. CASE v # w
      BY <1>t, <1>2, <3>2, <2>1 DEF TypeOK, RowsFilled
    <3> QED
      BY <3>1, <3>2
  <2> QED
    BY <1>t, <1>2, <2>1 DEF RowsFilled
<1>6. ASSUME NEW v \in Worker, NEW r \in looked'[v] \ locked'[v]
      PROVE  /\ Cardinality(locked'[v]) = Window
             /\ \A x \in locked'[v] : row[x].due <= row[r].due
  <2>1. CASE v = w
    <3>1. looked'[v] = rows /\ locked'[v] = batch /\ r \in rows \ batch
      BY <1>t, <1>1, <1>2, <1>6, <2>1 DEF TypeOK
    <3>2. ASSUME NEW x \in batch PROVE row[x].due <= row[r].due
      <4>1. ~Older(r, x) /\ x \in Row /\ r \in Row
        BY <1>3, <3>1
      <4>2. row[x].due \in 0..MaxDue /\ row[r].due \in 0..MaxDue
        BY <1>t, <4>1 DEF TypeOK
      <4> QED
        BY <4>1, <4>2, ClaimAssumption DEF Older
    <3> QED
      BY <1>3, <3>1, <3>2
  <2>2. CASE v # w
    <3>1. looked'[v] = looked[v] /\ locked'[v] = locked[v]
      BY <1>t, <1>1, <1>2, <2>2 DEF TypeOK
    <3> QED
      BY <1>t, <1>6, <3>1 DEF WindowsFull
  <2> QED
    BY <2>1, <2>2
<1>7. WindowsFull'
  BY <1>2, <1>6 DEF WindowsFull
<1> QED
  BY <1>2, <1>4, <1>5, <1>7, CountsUntouched DEF ClaimOrderInv

LEMMA FailKeeps ==
    ASSUME ClaimOrderInv, NEW w \in Worker, ClaimFails(w)
    PROVE  ClaimOrderInv'
<1>t. TypeOK /\ RowsFilled /\ WindowsFull /\ MaxFaults \in Nat
  BY ClaimAssumption DEF ClaimOrderInv
<1>1. /\ locked' = [locked EXCEPT ![w] = {}] /\ looked' = [looked EXCEPT ![w] = {}]
      /\ UNCHANGED <<row, passed>> /\ faults' \in 0..MaxFaults
  BY <1>t DEF ClaimFails, TypeOK
<1>2. /\ looked'[w] = {} /\ locked'[w] = {}
      /\ \A v \in Worker \ {w} : looked'[v] = looked[v] /\ locked'[v] = locked[v]
  BY <1>t, <1>1 DEF TypeOK
<1>3. TypeOK'
  BY <1>t, <1>1, <1>2 DEF TypeOK, Waiting
<1>4. RowsFilled'
  BY <1>t, <1>1, <1>2 DEF RowsFilled
<1>5. WindowsFull'
  BY <1>t, <1>1, <1>2 DEF WindowsFull
<1> QED
  BY <1>1, <1>3, <1>4, <1>5, CountsUntouched DEF ClaimOrderInv

\* The row a claim takes is passed by nothing it has locked, so that a more
\* urgent one it saw was cut off behind a full window of older rows.
LEMMA CommitKeeps ==
    ASSUME ClaimOrderInv, NEW w \in Worker, CommitClaim(w)
    PROVE  ClaimOrderInv'
<1>t. TypeOK /\ RowsFilled /\ WindowsFull /\ PassesPaid /\ PassesBounded
  BY DEF ClaimOrderInv
<1>1. PICK p \in First(locked[w]) :
        /\ row' = [row EXCEPT ![p] = Claimed(w, p)]
        /\ passed' = [x \in Row |-> IF x \in looked[w] /\ Waiting(x) /\ LessUrgent(p, x)
                                    THEN passed[x] + 1 ELSE passed[x]]
  BY DEF CommitClaim
<1>2. p \in locked[w] /\ p \in Row /\ Waiting(p) /\ \A x \in locked[w] : ~Before(x, p)
  BY <1>t DEF First, TypeOK
<1>3. locked' = [locked EXCEPT ![w] = {}] /\ looked' = [looked EXCEPT ![w] = {}] /\ faults' = faults
  BY DEF CommitClaim
<1>4. /\ looked'[w] = {} /\ locked'[w] = {}
      /\ \A v \in Worker \ {w} : looked'[v] = looked[v] /\ locked'[v] = locked[v]
  BY <1>t, <1>3 DEF TypeOK
<1>5. /\ row'[p] = [row[p] EXCEPT !.status = "RUNNING", !.worker = w]
      /\ \A r \in Row \ {p} : row'[r] = row[r]
  BY <1>t, <1>1, <1>2 DEF TypeOK, Claimed
<1>6. row'[p].status = "RUNNING" /\ row'[p].due = row[p].due /\ row'[p].priority = row[p].priority
      /\ row'[p].worker = w
  BY <1>t, <1>2, <1>5 DEF TypeOK
<1>7. TypeOK'
  <2>1. row' \in [Row -> [status : {"none", "QUEUED", "RUNNING"}, priority : Priorities \cup {None},
                          due : 0..MaxDue, worker : Worker \cup {None}]]
    <3>1. Claimed(w, p) \in [status : {"none", "QUEUED", "RUNNING"}, priority : Priorities \cup {None},
                             due : 0..MaxDue, worker : Worker \cup {None}]
      BY <1>t, <1>2 DEF TypeOK, Claimed
    <3> QED
      BY <1>t, <1>1, <3>1 DEF TypeOK
  <2>2. \A v \in Worker : \A r \in locked'[v] : r \in Row /\ Waiting(r)'
    <3> SUFFICES ASSUME NEW v \in Worker, NEW r \in locked'[v] PROVE r \in Row /\ Waiting(r)'
      OBVIOUS
    <3>1. v # w /\ r \in locked[v]
      BY <1>4
    <3>2. r # p /\ r \in Row /\ Waiting(r)
      BY <1>t, <1>2, <3>1 DEF TypeOK
    <3> QED
      BY <1>5, <3>2 DEF Waiting
  <2>3. locked' \in [Worker -> SUBSET {r \in Row : Waiting(r)}']
    BY <1>t, <1>3, <2>2 DEF TypeOK
  <2>4. \A u, v \in Worker : u # v => locked'[u] \cap locked'[v] = {}
    BY <1>t, <1>4 DEF TypeOK
  <2>5. looked' \in [Worker -> SUBSET Row] /\ passed' \in [Row -> Nat]
    BY <1>t, <1>1, <1>3 DEF TypeOK
  <2> QED
    BY <1>t, <1>3, <2>1, <2>3, <2>4, <2>5 DEF TypeOK
<1>8. RowsFilled'
  <2>1. ASSUME NEW r \in Row
        PROVE  \/ row'[r] = NoRow /\ passed'[r] = 0
               \/ row'[r].status # "none" /\ row'[r].priority \in Priorities
    <3>1. CASE r = p
      BY <1>t, <1>2, <1>6, <3>1 DEF RowsFilled, Waiting, NoRow
    <3>2. CASE r # p /\ row[r] = NoRow
      <4>1. row[r].status = "none"
        BY <3>2 DEF NoRow
      <4>2. passed[r] = 0 /\ ~Waiting(r)
        BY <1>t, <4>1 DEF RowsFilled, Waiting
      <4>3. passed'[r] = 0
        BY <1>1, <4>2
      <4> QED
        BY <1>5, <3>2, <4>3
    <3>3. CASE r # p /\ row[r] # NoRow
      BY <1>t, <1>5, <3>3 DEF RowsFilled
    <3> QED
      BY <3>1, <3>2, <3>3
  <2>2. ASSUME NEW v \in Worker, NEW r \in looked'[v] PROVE row'[r].status # "none"
    <3>1. v # w /\ r \in looked[v]
      BY <1>4, <2>2
    <3>2. r \in Row /\ row[r].status # "none"
      BY <1>t, <3>1 DEF RowsFilled, TypeOK
    <3>3. CASE r = p
      BY <1>6, <3>3
    <3>4. CASE r # p
      BY <1>5, <3>2, <3>4
    <3> QED
      BY <3>3, <3>4
  <2> QED
    BY <2>1, <2>2 DEF RowsFilled
<1>9. WindowsFull'
  <2>1. \A r \in Row : row'[r].due = row[r].due
    BY <1>5, <1>6
  <2>2. ASSUME NEW v \in Worker, NEW r \in looked'[v] \ locked'[v]
        PROVE  /\ Cardinality(locked'[v]) = Window
               /\ \A x \in locked'[v] : row'[x].due <= row'[r].due
    <3>1. v # w /\ looked'[v] = looked[v] /\ locked'[v] = locked[v]
      BY <1>4, <2>2
    <3>2. r \in Row /\ \A x \in locked[v] : x \in Row
      BY <1>t, <2>2, <3>1 DEF TypeOK
    <3> QED
      BY <1>t, <2>1, <2>2, <3>1, <3>2 DEF WindowsFull
  <2> QED
    BY <2>2 DEF WindowsFull
<1>10. ASSUME NEW r \in Row
       PROVE  /\ passed'[r] <= Cardinality(Gone(r)')
              /\ LET beyond == Cardinality(Ahead(r)') - Window + 1 IN
                 passed'[r] <= IF beyond > 0 THEN beyond ELSE 0
  <2>1. Ahead(r)' = Ahead(r)
    <3>0. NoRow.status = "none" /\ row[p].status = "QUEUED"
      BY <1>2 DEF NoRow, Waiting
    <3>1. \A x \in Row : row'[x].due = row[x].due /\ (row'[x] = NoRow <=> row[x] = NoRow)
      BY <1>5, <1>6, <3>0
    <3> QED
      BY <3>1 DEF Ahead
  <2>2. Gone(r) \subseteq Gone(r)'
    BY <2>1, <1>5, <1>6 DEF Gone, Ahead
  <2>3. CASE ~(r \in looked[w] /\ Waiting(r) /\ LessUrgent(p, r))
    <3>1. passed'[r] = passed[r]
      BY <1>1, <2>3
    <3> QED
      BY <1>t, <2>1, <2>2, <3>1, BoundsGrow
  <2>4. CASE r \in looked[w] /\ Waiting(r) /\ LessUrgent(p, r)
    <3>1. passed'[r] = passed[r] + 1
      BY <1>1, <2>4
    <3>2. r \notin locked[w]
      BY <1>2, <2>4 DEF Before
    <3>3. Cardinality(locked[w]) = Window /\ \A x \in locked[w] : row[x].due <= row[r].due
      BY <1>t, <2>4, <3>2 DEF WindowsFull
    <3>4. locked[w] \subseteq Ahead(r) /\ locked[w] \cap Gone(r) = {}
      BY <1>t, <3>2, <3>3 DEF Ahead, Gone, TypeOK, Waiting, NoRow
    <3>5. Gone(r)' = Gone(r) \cup {p} /\ p \notin Gone(r)
      <4>1. p \in Ahead(r) /\ p \notin Gone(r)
        BY <1>2, <3>4
      <4>2. \A x \in Ahead(r) \ {p} : row'[x] = row[x]
        BY <1>5 DEF Ahead
      <4> QED
        BY <1>6, <2>1, <4>1, <4>2 DEF Gone
    <3>6. Gone(r) \in SUBSET Row /\ Ahead(r) \in SUBSET Row /\ locked[w] \in SUBSET Row
      BY <3>4 DEF Gone, Ahead
    <3>7. IsFiniteSet(Gone(r)) /\ IsFiniteSet(Ahead(r)) /\ IsFiniteSet(locked[w])
          /\ Cardinality(Gone(r)) \in Nat /\ Cardinality(Ahead(r)) \in Nat
      BY <3>6, RowsFinite
    <3>8. Cardinality(Gone(r)') = Cardinality(Gone(r)) + 1
      BY <3>5, <3>7, FS_AddElement
    <3>9. Cardinality(Gone(r)) + Window <= Cardinality(Ahead(r))
      <4>1. Cardinality(Gone(r) \cup locked[w]) = Cardinality(Gone(r)) + Cardinality(locked[w])
        <5>1. Cardinality(Gone(r) \cap locked[w]) = 0
          BY <3>4, FS_EmptySet
        <5>2. Cardinality(Gone(r) \cup locked[w])
                = Cardinality(Gone(r)) + Cardinality(locked[w]) - Cardinality(Gone(r) \cap locked[w])
          BY <3>7, FS_Union
        <5> QED
          BY <3>3, <3>7, <5>1, <5>2, ClaimAssumption
      <4>2. Gone(r) \cup locked[w] \in SUBSET Ahead(r)
        BY <3>4 DEF Gone
      <4>3. Cardinality(Gone(r) \cup locked[w]) <= Cardinality(Ahead(r))
        BY <3>7, <4>2, FS_Subset
      <4> QED
        BY <3>3, <4>1, <4>3
    <3>10. passed[r] \in Nat /\ passed[r] <= Cardinality(Gone(r)) /\ Window \in Nat
      BY <1>t, ClaimAssumption DEF PassesPaid, TypeOK
    <3> QED
      BY <2>1, <3>1, <3>7, <3>8, <3>9, <3>10
  <2> QED
    BY <2>3, <2>4
<1> QED
  BY <1>7, <1>8, <1>9, <1>10 DEF ClaimOrderInv, PassesPaid, PassesBounded

LEMMA ClaimOrderInitial == Init => ClaimOrderInv
<1> SUFFICES ASSUME Init PROVE ClaimOrderInv
  OBVIOUS
<1>a. MaxDue \in Nat /\ MaxFaults \in Nat /\ Window \in Nat
  BY ClaimAssumption
<1>1. TypeOK
  BY <1>a DEF Init, TypeOK, NoRow
<1>2. RowsFilled /\ WindowsFull
  BY DEF Init, RowsFilled, WindowsFull
<1>3. ASSUME NEW r \in Row
      PROVE  passed[r] = 0 /\ Cardinality(Gone(r)) \in Nat /\ Cardinality(Ahead(r)) \in Nat
  <2>1. Gone(r) \in SUBSET Row /\ Ahead(r) \in SUBSET Row
    BY DEF Gone, Ahead
  <2> QED
    BY <2>1, RowsFinite DEF Init
<1> QED
  BY <1>a, <1>1, <1>2, <1>3 DEF ClaimOrderInv, PassesPaid, PassesBounded

LEMMA ClaimOrderStep == ClaimOrderInv /\ [Next]_vars => ClaimOrderInv'
<1> SUFFICES ASSUME ClaimOrderInv, [Next]_vars PROVE ClaimOrderInv'
  OBVIOUS
<1>1. CASE UNCHANGED vars
  <2>1. (PassesPaid /\ PassesBounded)'
    BY <1>1, CountsUntouched DEF vars
  <2> QED
    BY <1>1, <2>1 DEF ClaimOrderInv, vars, TypeOK, RowsFilled, WindowsFull, Waiting
<1> QED
  BY <1>1, InsertKeeps, LockKeeps, CommitKeeps, FailKeeps DEF Next, ClaimNext

\* Rows are well formed, and only waiting rows are locked, each by one
\* transaction: a claim's UPDATE finds its row QUEUED, and no row goes to two.
THEOREM ClaimOrderTypeCorrect == Spec => []TypeOK
<1>1. ClaimOrderInv => TypeOK
  BY DEF ClaimOrderInv
<1> QED
  BY <1>1, ClaimOrderInitial, ClaimOrderStep, PTL DEF Spec

\* However many workers look at the queue at once, claims that could have taken
\* a row pass it over for less urgent ones no more often than the rows ahead of
\* it exceed the window.
THEOREM PassesAreBounded == Spec => []PassesBounded
<1>1. ClaimOrderInv => PassesBounded
  BY DEF ClaimOrderInv
<1> QED
  BY <1>1, ClaimOrderInitial, ClaimOrderStep, PTL DEF Spec

-----------------------------------------------------------------------------
(* The claims implement AttemptQueue                                        *)

LEMMA QueueStep ==
    ASSUME ClaimOrderInv, [Next]_vars
    PROVE  [Queue!Next]_(Queue!vars)
<1>t. TypeOK
  BY DEF ClaimOrderInv
<1>1. ASSUME NEW r \in Row, NEW priority \in Priorities, NEW due \in 1..MaxDue,
             InsertRow(r, priority, due)
      PROVE  Queue!Next
  <2>1. QueueState(row[r]) = "none" /\ row[r].worker = None
    BY <1>1 DEF InsertRow, NoRow, QueueState
  <2>2. row'[r].status = "QUEUED" /\ row'[r].worker = None
    BY <1>t, <1>1 DEF InsertRow, TypeOK
  <2>3. \A x \in Row \ {r} : row'[x] = row[x]
    BY <1>t, <1>1 DEF InsertRow, TypeOK
  <2>4. QueueState(row'[r]) = "waiting"
    BY <2>2 DEF QueueState
  <2>5. Queue!Insert(r)
    BY <2>1, <2>2, <2>3, <2>4 DEF Queue!Insert
  <2> QED
    BY <2>5 DEF Queue!Next
<1>2. ASSUME NEW w \in Worker, CommitClaim(w) PROVE Queue!Next
  <2>1. PICK r \in First(locked[w]) : row' = [row EXCEPT ![r] = Claimed(w, r)]
    BY <1>2 DEF CommitClaim
  <2>2. r \in Row /\ Waiting(r)
    BY <1>t, <2>1 DEF First, TypeOK
  <2>3. row'[r].status = "RUNNING" /\ row'[r].worker = w
    <3>1. row'[r] = [row[r] EXCEPT !.status = "RUNNING", !.worker = w]
      BY <1>t, <2>1, <2>2 DEF TypeOK, Claimed
    <3> QED
      BY <1>t, <2>2, <3>1 DEF TypeOK
  <2>4. \A x \in Row \ {r} : row'[x] = row[x]
    BY <1>t, <2>1, <2>2 DEF TypeOK
  <2>5. QueueState(row[r]) = "waiting" /\ QueueState(row'[r]) = "taken"
    BY <2>2, <2>3 DEF Waiting, QueueState
  <2>6. Queue!Take(w, r)
    BY <2>2, <2>3, <2>4, <2>5 DEF Queue!Take
  <2> QED
    BY <2>2, <2>6 DEF Queue!Next
<1>3. CASE row' = row
  BY <1>3 DEF Queue!vars
<1> QED
  BY <1>1, <1>2, <1>3 DEF vars, Next, ClaimNext, LockCandidates, ClaimFails

\* With the locks of SELECT ... FOR UPDATE SKIP LOCKED, any number of workers
\* that look at the queue before each other's commits take every row once: what
\* Execution does in one step.
THEOREM ClaimsAreQueued == Spec => ImplementsQueue
<1>1. Init => Queue!Init
  BY DEF Init, Queue!Init, NoRow, QueueState
<1> QED
  BY <1>1, ClaimOrderInitial, ClaimOrderStep, QueueStep, PTL DEF Spec, ImplementsQueue, Queue!Spec

=============================================================================
