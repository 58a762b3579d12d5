-------------------------- MODULE QueueStoreProofs --------------------------
(***************************************************************************)
(* Proofs about QueueStore for every set of attempts and owners, every     *)
(* crash limit and every bound.                                            *)
(***************************************************************************)
EXTENDS QueueStore, TLAPS

USE DEF NoToken, Active, Terminal, States

\* What one call does to one row: nothing, or one of the changes below.
Kept(a) == jobs'[a] = jobs[a] /\ issued'[a] = issued[a] /\ dlq'[a] = dlq[a]

Inserted(a) ==
  /\ jobs[a].state = "ABSENT"
  /\ \E c, r \in Nat :
       /\ \A b \in Attempts : jobs[b].created <= c /\ jobs[b].rowid < r
       /\ jobs'[a] = [NoRow EXCEPT !.state = "QUEUED", !.created = c, !.rowid = r]
  /\ issued'[a] = issued[a] /\ dlq'[a] = dlq[a]
  /\ \A b \in Attempts \ {a} : jobs'[b] = jobs[b]

Granted(a) ==
  /\ a \in Grantable
  /\ \E o \in Owners : jobs'[a] = Leased(jobs[a], o, issued[a] + 1)
  /\ issued'[a] = issued[a] + 1 /\ dlq'[a] = dlq[a]

\* A change of an attempt that is in the queue, its lease kept.
Adjusted(a) ==
  /\ jobs[a].state \in {"QUEUED"} \cup Active
  /\ \/ \E x \in {"live", "past"} :
          jobs[a].expires # "none" /\ jobs'[a] = [jobs[a] EXCEPT !.expires = x]
     \/ jobs'[a] = [jobs[a] EXCEPT !.cancel = TRUE]
     \/ jobs[a].state = "LEASED" /\ jobs'[a] = [jobs[a] EXCEPT !.state = "RUNNING"]
  /\ issued'[a] = issued[a] /\ dlq'[a] = dlq[a]

Requeued(a) ==
  /\ jobs[a].state \in Active
  /\ ~CrashesExhausted(a)
  /\ jobs'[a] = Closed(jobs[a], "QUEUED")
  /\ issued'[a] = issued[a] /\ dlq'[a] = dlq[a]

Ended(a) ==
  /\ jobs[a].state \in {"QUEUED"} \cup Active
  /\ \E s \in Terminal :
       /\ s = "SUCCEEDED" => jobs[a].state = "RUNNING"
       /\ jobs'[a] = Closed(jobs[a], s)
  /\ issued'[a] = issued[a]
  /\ dlq'[a] = dlq[a] \/ (CrashesExhausted(a) /\ dlq'[a] = jobs[a].attempts)

Pruned(a) ==
  /\ jobs[a].state \in Terminal
  /\ jobs'[a] = NoRow
  /\ issued'[a] = issued[a] /\ dlq'[a] = dlq[a]

RowStep(a) ==
  Kept(a) \/ Inserted(a) \/ Granted(a) \/ Adjusted(a) \/ Requeued(a) \/ Ended(a)
    \/ Pruned(a)

Inv == StoreTypeOK /\ LeaseShape /\ RetryBudget /\ InsertionOrder

\* Every call of the store changes each row in one of the ways of RowStep and
\* keeps the shape of the tables (all of StoreNext).
LEMMA EveryCallIsRowSteps ==
  ASSUME StoreTypeOK, LeaseShape, [StoreNext]_storeVars
  PROVE  /\ jobs' = [a \in Attempts |-> jobs'[a]]
         /\ dlq' = [a \in Attempts |-> dlq'[a]]
         /\ issued' = [a \in Attempts |-> issued'[a]]
         /\ transient' \subseteq Attempts
         /\ \A a \in Attempts : RowStep(a)
<1> DEFINE Goal == /\ jobs' = [a \in Attempts |-> jobs'[a]]
                   /\ dlq' = [a \in Attempts |-> dlq'[a]]
                   /\ issued' = [a \in Attempts |-> issued'[a]]
                   /\ transient' \subseteq Attempts
                   /\ \A a \in Attempts : RowStep(a)
<1>1. ASSUME NEW a \in Attempts, Enqueue(a) PROVE Goal
  <2>1. CASE Present(a) /\ UNCHANGED jobs
    BY <1>1, <2>1 DEF Enqueue, StoreTypeOK, RowStep, Kept
  <2>2. CASE ~Present(a)
    <3>1. PICK c \in CreationTimes, r \in {jobs[b].rowid + 1 : b \in Attempts} :
             /\ NextRowid(r)
             /\ jobs' = [jobs EXCEPT ![a] =
                           [NoRow EXCEPT !.state = "QUEUED", !.created = c,
                                         !.rowid = r]]
      BY <1>1, <2>2 DEF Enqueue
    <3>2. /\ c \in Nat /\ r \in Nat
          /\ \A b \in Attempts : jobs[b].created <= c /\ jobs[b].rowid < r
      BY <3>1 DEF CreationTimes, NextRowid, StoreTypeOK, Row
    <3>3. Inserted(a)
      BY <1>1, <2>2, <3>1, <3>2 DEF Enqueue, Inserted, Present, StoreTypeOK
    <3>4. \A b \in Attempts \ {a} : Kept(b)
      BY <1>1, <3>1 DEF Enqueue, Kept, StoreTypeOK
    <3> QED BY <1>1, <3>1, <3>3, <3>4 DEF Enqueue, StoreTypeOK, RowStep
  <2> QED BY <1>1, <2>1, <2>2 DEF Enqueue
<1>2. ASSUME NEW a \in Attempts, NEW o \in Owners, AcquireLease(o, a) PROVE Goal
  <2>1. Granted(a)
    BY <1>2 DEF AcquireLease, Granted, StoreTypeOK
  <2>2. ASSUME NEW b \in Attempts \ {a} PROVE Kept(b) \/ Ended(b)
    <3>1. CASE b \in Withdrawn /\ Before(b, a)
      BY <1>2, <2>2, <3>1 DEF AcquireLease, Ended, Withdrawn, Leasable, StoreTypeOK
    <3>2. CASE ~(b \in Withdrawn /\ Before(b, a))
      BY <1>2, <2>2, <3>2 DEF AcquireLease, Kept, StoreTypeOK
    <3> QED BY <3>1, <3>2
  <2> QED BY <1>2, <2>1, <2>2 DEF AcquireLease, StoreTypeOK, RowStep
<1>3. ASSUME AcquireNothing PROVE Goal
  <2>1. ASSUME NEW b \in Attempts PROVE Kept(b) \/ Ended(b)
    <3>1. CASE b \in Withdrawn
      BY <1>3, <3>1 DEF AcquireNothing, Ended, Withdrawn, Leasable, StoreTypeOK
    <3>2. CASE b \notin Withdrawn
      BY <1>3, <3>2 DEF AcquireNothing, Kept, StoreTypeOK
    <3> QED BY <3>1, <3>2
  <2> QED BY <1>3, <2>1 DEF AcquireNothing, StoreTypeOK, RowStep
<1>4. ASSUME NEW a \in Attempts, NEW o \in Owners, NEW t \in 1 .. issued[a],
             RefreshLease(a, o, t)
      PROVE  Goal
  <2>1. Adjusted(a)
    BY <1>4 DEF RefreshLease, CanRefresh, Adjusted, StoreTypeOK, LeaseShape
  <2>2. \A b \in Attempts \ {a} : Kept(b)
    BY <1>4 DEF RefreshLease, Kept, StoreTypeOK
  <2> QED BY <1>4, <2>1, <2>2 DEF RefreshLease, StoreTypeOK, RowStep
<1>5. ASSUME NEW a \in Attempts, NEW o \in Owners, NEW t \in 1 .. issued[a],
             Transition(a, "RUNNING", "LEASED", o, t)
      PROVE  Goal
  <2>1. Adjusted(a)
    BY <1>5 DEF Transition, CanTransition, LegalPreviousStates, Adjusted, StoreTypeOK
  <2>2. \A b \in Attempts \ {a} : Kept(b)
    BY <1>5 DEF Transition, Kept, StoreTypeOK
  <2> QED BY <1>5, <2>1, <2>2 DEF Transition, StoreTypeOK, RowStep
<1>6. ASSUME NEW a \in Attempts, NEW o \in Owners, NEW t \in 1 .. issued[a],
             NEW s \in Terminal, NEW e \in States, Transition(a, s, e, o, t)
      PROVE  Goal
  <2>1. jobs'[a] = Closed(jobs[a], s)
    BY <1>6 DEF Transition, StoreTypeOK
  <2>2. /\ jobs[a].state \in {"QUEUED"} \cup Active
        /\ s = "SUCCEEDED" => jobs[a].state = "RUNNING"
    BY <1>6 DEF Transition, CanTransition, LegalPreviousStates
  <2>3. Ended(a)
    BY <1>6, <2>1, <2>2 DEF Transition, Ended
  <2>4. \A b \in Attempts \ {a} : Kept(b)
    BY <1>6 DEF Transition, Kept, StoreTypeOK
  <2> QED BY <1>6, <2>3, <2>4 DEF Transition, StoreTypeOK, RowStep
<1>7. ASSUME NEW a \in Attempts, NEW o \in Owners, NEW t \in 1 .. issued[a],
             RecordExecutorCrash(a, o, t)
      PROVE  Goal
  <2>1. CASE CrashesExhausted(a)
    <3>1. Ended(a)
      BY <1>7, <2>1 DEF RecordExecutorCrash, CanRecordCrash, Ended, StoreTypeOK
    <3>2. \A b \in Attempts \ {a} : Kept(b)
      BY <1>7 DEF RecordExecutorCrash, Kept, StoreTypeOK
    <3> QED BY <1>7, <3>1, <3>2 DEF RecordExecutorCrash, StoreTypeOK, RowStep
  <2>2. CASE ~CrashesExhausted(a)
    <3>1. Requeued(a)
      BY <1>7, <2>2 DEF RecordExecutorCrash, CanRecordCrash, Requeued, StoreTypeOK
    <3>2. \A b \in Attempts \ {a} : Kept(b)
      BY <1>7 DEF RecordExecutorCrash, Kept, StoreTypeOK
    <3> QED BY <1>7, <3>1, <3>2 DEF RecordExecutorCrash, StoreTypeOK, RowStep
  <2> QED BY <2>1, <2>2
<1>8. ASSUME NEW targets \in CancelTargets, RequestCancel(targets) PROVE Goal
  <2>1. ASSUME NEW b \in Attempts PROVE Kept(b) \/ Adjusted(b)
    BY <1>8, <2>1 DEF RequestCancel, Kept, Adjusted, Present, StoreTypeOK, Row
  <2> QED BY <1>8, <2>1 DEF RequestCancel, StoreTypeOK, RowStep
<1>9. ASSUME NEW old \in SUBSET Attempts, StartStore(old) PROVE Goal
  <2>1. ASSUME NEW b \in Attempts PROVE Kept(b) \/ Pruned(b)
    BY <1>9, <2>1 DEF StartStore, Kept, Pruned, StoreTypeOK
  <2> QED BY <1>9, <2>1 DEF StartStore, StoreTypeOK, RowStep
<1>10. ASSUME NEW a \in Attempts, LeaseExpires(a) PROVE Goal
  <2>1. Adjusted(a)
    BY <1>10 DEF LeaseExpires, Adjusted, StoreTypeOK, LeaseShape, Row
  <2>2. \A b \in Attempts \ {a} : Kept(b)
    BY <1>10 DEF LeaseExpires, Kept, StoreTypeOK
  <2> QED BY <1>10, <2>1, <2>2 DEF LeaseExpires, StoreTypeOK, RowStep
<1>11. CASE UNCHANGED storeVars
  BY <1>11 DEF storeVars, StoreTypeOK, RowStep, Kept
<1> QED
  BY <1>1, <1>2, <1>3, <1>4, <1>5, <1>6, <1>7, <1>8, <1>9, <1>10, <1>11 DEF StoreNext

-----------------------------------------------------------------------------
\* Rows stay rows when their columns are updated.
LEMMA LeaseColumnsType ==
  ASSUME NEW row \in Row, NEW s \in States, NEW o \in Owners \cup {NULL},
         NEW t \in Nat, NEW x \in {"none", "live", "past"}
  PROVE  [row EXCEPT !.state = s, !.owner = o, !.token = t, !.expires = x] \in Row
<1> DEFINE r1 == [row EXCEPT !.state = s]
           r2 == [r1 EXCEPT !.owner = o]
           r3 == [r2 EXCEPT !.token = t]
<1>1. r1 \in Row BY DEF Row
<1> HIDE DEF r1
<1>2. r2 \in Row BY <1>1 DEF Row
<1> HIDE DEF r2
<1>3. r3 \in Row BY <1>2 DEF Row
<1> HIDE DEF r3
<1>4. [r3 EXCEPT !.expires = x] \in Row BY <1>3 DEF Row
<1> QED BY <1>4 DEF r1, r2, r3

\* Closing a lease gives a row (transition, record_executor_crash).
LEMMA ClosedType ==
  ASSUME NEW row \in Row, NEW s \in States
  PROVE  Closed(row, s) \in Row
<1> DEFINE r == [row EXCEPT !.state = s, !.owner = NULL, !.token = 0, !.expires = "none"]
<1>1. r \in Row BY LeaseColumnsType
<1> HIDE DEF r
<1>2. [r EXCEPT !.cancel = FALSE] \in Row BY <1>1 DEF Row
<1> QED BY <1>2 DEF r, Closed

\* Leasing an attempt gives a row (acquire_lease).
LEMMA LeasedType ==
  ASSUME NEW row \in Row, NEW o \in Owners, NEW t \in Nat
  PROVE  Leased(row, o, t) \in Row
<1> DEFINE r == [row EXCEPT !.state = "LEASED", !.owner = o, !.token = t, !.expires = "live"]
<1>1. r \in Row BY LeaseColumnsType
<1>2. r.attempts = row.attempts BY DEF Row
<1> HIDE DEF r
<1>3. [r EXCEPT !.attempts = row.attempts + 1] \in Row BY <1>1 DEF Row
<1> QED BY <1>3 DEF r, Leased

\* enqueue inserts a row.
LEMMA NewRowType ==
  ASSUME NEW c \in Nat, NEW n \in Nat
  PROVE  [NoRow EXCEPT !.state = "QUEUED", !.created = c, !.rowid = n] \in Row
<1> DEFINE r1 == [NoRow EXCEPT !.state = "QUEUED"]
           r2 == [r1 EXCEPT !.created = c]
<1>1. NoRow \in Row BY DEF NoRow, Row
<1>2. r1 \in Row BY <1>1 DEF Row
<1> HIDE DEF r1
<1>3. r2 \in Row BY <1>2 DEF Row
<1> HIDE DEF r2
<1>4. [r2 EXCEPT !.rowid = n] \in Row BY <1>3 DEF Row
<1> QED BY <1>4 DEF r1, r2

\* A row step leaves the row and the counters of the attempt well typed.
LEMMA RowStepType ==
  ASSUME StoreTypeOK, NEW a \in Attempts, RowStep(a)
  PROVE  jobs'[a] \in Row /\ dlq'[a] \in Nat /\ issued'[a] \in Nat
<1>0. jobs[a] \in Row /\ dlq[a] \in Nat /\ issued[a] \in Nat
  BY DEF StoreTypeOK
<1>1. CASE Kept(a) BY <1>0, <1>1 DEF Kept
<1>2. CASE Inserted(a) BY <1>0, <1>2, NewRowType DEF Inserted
<1>3. CASE Granted(a) BY <1>0, <1>3, LeasedType DEF Granted
<1>4. CASE Adjusted(a) BY <1>0, <1>4 DEF Adjusted, Row
<1>5. CASE Requeued(a) BY <1>0, <1>5, ClosedType DEF Requeued
<1>6. CASE Ended(a) BY <1>0, <1>6, ClosedType DEF Ended, Row
<1>7. CASE Pruned(a) BY <1>0, <1>7 DEF Pruned, NoRow, Row
<1> QED BY <1>1, <1>2, <1>3, <1>4, <1>5, <1>6, <1>7 DEF RowStep

\* What LeaseShape says of one attempt, and what RetryBudget does.
LeaseShapeOf(row, n) ==
  /\ row.state \in Active => /\ row.owner \in Owners
                             /\ row.token = n
                             /\ n > 0
                             /\ row.expires # "none"
  /\ row.state \notin Active => /\ row.owner = NULL
                                /\ row.token = NoToken
                                /\ row.expires = "none"
  /\ row.cancel => row.state \in {"QUEUED"} \cup Active

RetryBudgetOf(row, n, entry) ==
  /\ row.attempts <= n
  /\ row.state = "QUEUED" => row.attempts < MAX_LOCAL_CRASHES
  /\ entry # 0 => entry >= MAX_LOCAL_CRASHES

\* A row step keeps the lease columns together and the token the newest one.
LEMMA RowStepLease ==
  ASSUME StoreTypeOK, NEW a \in Attempts, RowStep(a), LeaseShapeOf(jobs[a], issued[a])
  PROVE  LeaseShapeOf(jobs'[a], issued'[a])
<1>0. jobs[a] \in Row /\ issued[a] \in Nat
  BY DEF StoreTypeOK
<1>1. CASE Kept(a) BY <1>1 DEF Kept
<1>2. CASE Inserted(a) BY <1>2 DEF Inserted, NoRow, LeaseShapeOf
<1>3. CASE Granted(a) BY <1>0, <1>3 DEF Granted, Grantable, Leased, Row, LeaseShapeOf
<1>4. CASE Adjusted(a) BY <1>0, <1>4 DEF Adjusted, Row, LeaseShapeOf
<1>5. CASE Requeued(a) BY <1>0, <1>5 DEF Requeued, Closed, Row, LeaseShapeOf
<1>6. CASE Ended(a) BY <1>0, <1>6 DEF Ended, Closed, Row, LeaseShapeOf
<1>7. CASE Pruned(a) BY <1>7 DEF Pruned, NoRow, LeaseShapeOf
<1> QED BY <1>1, <1>2, <1>3, <1>4, <1>5, <1>6, <1>7 DEF RowStep

\* A row step keeps the crash budget (record_executor_crash).
LEMMA RowStepBudget ==
  ASSUME StoreTypeOK, NEW a \in Attempts, RowStep(a),
         RetryBudgetOf(jobs[a], issued[a], dlq[a])
  PROVE  RetryBudgetOf(jobs'[a], issued'[a], dlq'[a])
<1>0. jobs[a] \in Row /\ issued[a] \in Nat /\ dlq[a] \in Nat
  BY DEF StoreTypeOK
<1>1. CASE Kept(a) BY <1>1 DEF Kept
<1>2. CASE Inserted(a)
  BY <1>0, <1>2, CrashLimitAssumption DEF Inserted, NoRow, RetryBudgetOf
<1>3. CASE Granted(a)
  BY <1>0, <1>3, CrashLimitAssumption DEF Granted, Leased, Row, RetryBudgetOf
<1>4. CASE Adjusted(a) BY <1>0, <1>4 DEF Adjusted, Row, RetryBudgetOf
<1>5. CASE Requeued(a)
  BY <1>0, <1>5, CrashLimitAssumption
     DEF Requeued, CrashesExhausted, Closed, Row, RetryBudgetOf
<1>6. CASE Ended(a)
  BY <1>0, <1>6, CrashLimitAssumption DEF Ended, CrashesExhausted, Closed, Row, RetryBudgetOf
<1>7. CASE Pruned(a) BY <1>0, <1>7 DEF Pruned, NoRow, RetryBudgetOf
<1> QED BY <1>1, <1>2, <1>3, <1>4, <1>5, <1>6, <1>7 DEF RowStep

\* Only an insert gives an attempt a row, and only an insert sets the columns
\* that order the rows.
LEMMA RowStepOrder ==
  ASSUME StoreTypeOK, NEW a \in Attempts, RowStep(a), ~Inserted(a), jobs'[a].state # "ABSENT"
  PROVE  /\ jobs[a].state # "ABSENT"
         /\ jobs'[a].created = jobs[a].created
         /\ jobs'[a].rowid = jobs[a].rowid
<1>0. jobs[a] \in Row
  BY DEF StoreTypeOK
<1>1. CASE Kept(a) BY <1>1 DEF Kept
<1>3. CASE Granted(a) BY <1>0, <1>3 DEF Granted, Grantable, Leasable, Leased, Row
<1>4. CASE Adjusted(a) BY <1>0, <1>4 DEF Adjusted, Row
<1>5. CASE Requeued(a) BY <1>0, <1>5 DEF Requeued, Closed, Row
<1>6. CASE Ended(a) BY <1>0, <1>6 DEF Ended, Closed, Row
<1>7. CASE Pruned(a) BY <1>7 DEF Pruned, NoRow
<1> QED BY <1>1, <1>3, <1>4, <1>5, <1>6, <1>7 DEF RowStep

\* The empty tables satisfy the invariant (initialize).
LEMMA InvInit == StoreInit => Inv
<1> SUFFICES ASSUME StoreInit PROVE Inv
  OBVIOUS
<1>1. StoreTypeOK
  BY DEF StoreInit, StoreTypeOK, NoRow, Row
<1>2. LeaseShape
  BY DEF StoreInit, LeaseShape, NoRow
<1>3. RetryBudget
  <2> SUFFICES ASSUME NEW a \in Attempts
               PROVE  /\ jobs[a].attempts <= issued[a]
                      /\ jobs[a].state = "QUEUED" => jobs[a].attempts < MAX_LOCAL_CRASHES
                      /\ dlq[a] # 0 => dlq[a] >= MAX_LOCAL_CRASHES
    BY DEF RetryBudget
  <2>1. jobs[a].attempts = 0 /\ jobs[a].state = "ABSENT"
    BY DEF StoreInit, NoRow
  <2>2. issued[a] = 0 /\ dlq[a] = 0
    BY DEF StoreInit
  <2> QED BY <2>1, <2>2
<1>4. InsertionOrder
  BY DEF StoreInit, InsertionOrder, Present, NoRow
<1> QED BY <1>1, <1>2, <1>3, <1>4 DEF Inv

\* Every call of the store preserves the invariant.
LEMMA InvNext == Inv /\ [StoreNext]_storeVars => Inv'
<1> SUFFICES ASSUME Inv, [StoreNext]_storeVars PROVE Inv'
  OBVIOUS
<1>0. StoreTypeOK /\ LeaseShape /\ RetryBudget /\ InsertionOrder
  BY DEF Inv
<1>1. /\ jobs' = [a \in Attempts |-> jobs'[a]]
      /\ dlq' = [a \in Attempts |-> dlq'[a]]
      /\ issued' = [a \in Attempts |-> issued'[a]]
      /\ transient' \subseteq Attempts
      /\ \A a \in Attempts : RowStep(a)
  BY <1>0, EveryCallIsRowSteps
<1>2. StoreTypeOK'
  <2>1. \A a \in Attempts : jobs'[a] \in Row /\ dlq'[a] \in Nat /\ issued'[a] \in Nat
    BY <1>0, <1>1, RowStepType
  <2> QED BY <1>1, <2>1 DEF StoreTypeOK
<1>3. LeaseShape'
  <2>1. \A a \in Attempts : LeaseShapeOf(jobs[a], issued[a])
    BY <1>0 DEF LeaseShape, LeaseShapeOf
  <2>2. \A a \in Attempts : LeaseShapeOf(jobs'[a], issued'[a])
    BY <1>0, <1>1, <2>1, RowStepLease
  <2> QED BY <2>2 DEF LeaseShape, LeaseShapeOf
<1>4. RetryBudget'
  <2>1. \A a \in Attempts : RetryBudgetOf(jobs[a], issued[a], dlq[a])
    BY <1>0 DEF RetryBudget, RetryBudgetOf
  <2>2. \A a \in Attempts : RetryBudgetOf(jobs'[a], issued'[a], dlq'[a])
    BY <1>0, <1>1, <2>1, RowStepBudget
  <2> QED BY <2>2 DEF RetryBudget, RetryBudgetOf
<1>5. InsertionOrder'
  <2> SUFFICES ASSUME NEW a \in Attempts, NEW b \in Attempts, a # b,
                      jobs'[a].state # "ABSENT", jobs'[b].state # "ABSENT"
               PROVE  /\ jobs'[a].rowid # jobs'[b].rowid
                      /\ jobs'[a].rowid < jobs'[b].rowid =>
                           jobs'[a].created <= jobs'[b].created
    BY DEF InsertionOrder, Present
  <2>0. jobs[a] \in Row /\ jobs[b] \in Row
    BY <1>0 DEF StoreTypeOK
  <2>1. CASE Inserted(a)
    BY <2>0, <2>1 DEF Inserted, NoRow, Row
  <2>2. CASE Inserted(b)
    BY <2>0, <2>2 DEF Inserted, NoRow, Row
  <2>3. CASE ~Inserted(a) /\ ~Inserted(b)
    <3>1. /\ jobs[a].state # "ABSENT"
          /\ jobs'[a].created = jobs[a].created
          /\ jobs'[a].rowid = jobs[a].rowid
      BY <1>0, <1>1, <2>3, RowStepOrder
    <3>2. /\ jobs[b].state # "ABSENT"
          /\ jobs'[b].created = jobs[b].created
          /\ jobs'[b].rowid = jobs[b].rowid
      BY <1>0, <1>1, <2>3, RowStepOrder
    <3> QED BY <1>0, <3>1, <3>2 DEF InsertionOrder, Present
  <2> QED BY <2>1, <2>2, <2>3
<1> QED BY <1>2, <1>3, <1>4, <1>5 DEF Inv

\* Every reachable state of the store is well typed, its leases have the shape
\* the fencing relies on, the crash budget is kept and rows stay in the order
\* they were inserted (SQLiteQueueStore, all methods).
THEOREM StoreInvariant == StoreSpec => [](StoreTypeOK /\ LeaseShape /\ RetryBudget /\ InsertionOrder)
<1>1. StoreInit => Inv BY InvInit
<1>2. Inv /\ [StoreNext]_storeVars => Inv' BY InvNext
<1>3. Inv => StoreTypeOK /\ LeaseShape /\ RetryBudget /\ InsertionOrder BY DEF Inv
<1> QED BY <1>1, <1>2, <1>3, PTL DEF StoreSpec

\* The columns keep their types and the states those of the CHECK constraint, whatever a
\* client calls with whatever lease (store.py:763-804).
THEOREM ColumnsKeepTheirTypes == StoreSpec => []StoreTypeOK
  BY StoreInvariant, PTL

\* A requeued attempt has a lease of its crash budget left, whoever reported the
\* crashes and however often it changed hands (record_executor_crash).
THEOREM RetriesStayInBudget == StoreSpec => []RetryBudget
  BY StoreInvariant, PTL

\* Rows keep the order in which their attempts were inserted, although pruned rowids
\* are used again (enqueue, prune_terminal).
THEOREM RowsKeepTheirOrder == StoreSpec => []InsertionOrder
  BY StoreInvariant, PTL

\* A terminal attempt is never leased, requeued or finished again, whichever
\* lease a client acts on (transition, record_executor_crash, acquire_lease).
THEOREM TerminalAttemptsAreFinal == StoreSpec => TerminalIsFinal
<1>1. StoreInit => Inv BY InvInit
<1>2. Inv /\ [StoreNext]_storeVars => Inv' BY InvNext
<1>3. Inv /\ [StoreNext]_storeVars =>
        [\A a \in Attempts :
           jobs[a].state \in Terminal => jobs'[a] \in {jobs[a], NoRow}]_storeVars
  <2> SUFFICES ASSUME Inv, [StoreNext]_storeVars, NEW a \in Attempts,
                      jobs[a].state \in Terminal
               PROVE  jobs'[a] \in {jobs[a], NoRow}
    OBVIOUS
  <2>1. RowStep(a)
    BY EveryCallIsRowSteps DEF Inv
  <2>2. ~Inserted(a) /\ ~Granted(a) /\ ~Adjusted(a) /\ ~Requeued(a) /\ ~Ended(a)
    BY DEF Inserted, Granted, Grantable, Leasable, Adjusted, Requeued, Ended
  <2> QED BY <2>1, <2>2 DEF RowStep, Kept, Pruned
<1> QED BY <1>1, <1>2, <1>3, PTL DEF StoreSpec, TerminalIsFinal

-----------------------------------------------------------------------------
\* One row step is one step of the attempt's lifecycle.
LEMMA RowStepIsLifecycleStep ==
  ASSUME Inv, NEW a \in Attempts, RowStep(a),
         jobs' = [b \in Attempts |-> jobs'[b]]
  PROVE  Lifecycle!Step(a)
<1> DEFINE ph == PhaseOf(jobs[a])
           php == PhaseOf(jobs'[a])
<1>0. /\ jobs[a] \in Row /\ issued[a] \in Nat
      /\ jobs[a].state \in Active => jobs[a].token = issued[a]
      /\ jobs[a].state \notin Active => jobs[a].token = 0
  BY DEF Inv, StoreTypeOK, LeaseShape
<1>a. /\ [b \in Attempts |-> PhaseOf(jobs[b])][a] = ph
      /\ [b \in Attempts |-> PhaseOf(jobs'[b])][a] = php
      /\ [b \in Attempts |-> jobs[b].token][a] = jobs[a].token
      /\ [b \in Attempts |-> jobs'[b].token][a] = jobs'[a].token
  OBVIOUS
<1> HIDE DEF ph, php
<1>1. CASE Kept(a)
  <2>1. ph = php /\ jobs'[a].token = jobs[a].token /\ issued'[a] = issued[a]
    BY <1>1 DEF Kept, ph, php
  <2> QED BY <1>a, <2>1 DEF Lifecycle!Step, Lifecycle!Rest
<1>2. CASE Inserted(a)
  <2>1. /\ ph = "unknown" /\ php = "waiting"
        /\ jobs'[a].token = jobs[a].token /\ issued'[a] = issued[a]
    BY <1>0, <1>2 DEF Inserted, NoRow, PhaseOf, ph, php
  <2> QED BY <1>a, <2>1 DEF Lifecycle!Step, Lifecycle!Offer
<1>3. CASE Granted(a)
  <2>1. /\ ph \in {"waiting", "held"} /\ php = "held"
        /\ jobs'[a].token = issued[a] + 1 /\ issued'[a] = issued[a] + 1
    BY <1>0, <1>3 DEF Granted, Grantable, Leasable, Leased, PhaseOf, Row, ph, php
  <2> QED BY <1>a, <2>1 DEF Lifecycle!Step, Lifecycle!Grant
<1>4. CASE Adjusted(a)
  <2>1. ph = php /\ jobs'[a].token = jobs[a].token /\ issued'[a] = issued[a]
    BY <1>0, <1>4 DEF Adjusted, PhaseOf, Row, ph, php
  <2> QED BY <1>a, <2>1 DEF Lifecycle!Step, Lifecycle!Rest
<1>5. CASE Requeued(a)
  <2>1. /\ ph = "held" /\ php = "waiting"
        /\ jobs'[a].token = 0 /\ issued'[a] = issued[a]
    BY <1>0, <1>5 DEF Requeued, Closed, PhaseOf, Row, ph, php
  <2> QED BY <1>a, <2>1 DEF Lifecycle!Step, Lifecycle!Release
<1>6. CASE Ended(a)
  <2>1. /\ ph \in {"waiting", "held"} /\ php \in Terminal
        /\ php = "SUCCEEDED" => ph = "held"
        /\ jobs'[a].token = 0 /\ issued'[a] = issued[a]
    BY <1>0, <1>6 DEF Ended, Closed, PhaseOf, Row, ph, php
  <2> QED BY <1>a, <2>1 DEF Lifecycle!Step, Lifecycle!Finish, Lifecycle!Outcomes
<1>7. CASE Pruned(a)
  <2>1. /\ ph \in Terminal /\ php = "unknown"
        /\ jobs'[a].token = jobs[a].token /\ issued'[a] = issued[a]
    BY <1>0, <1>7 DEF Pruned, NoRow, PhaseOf, ph, php
  <2> QED BY <1>a, <2>1 DEF Lifecycle!Step, Lifecycle!Forget, Lifecycle!Outcomes
<1> QED BY <1>1, <1>2, <1>3, <1>4, <1>5, <1>6, <1>7 DEF RowStep

\* The store implements the lifecycle: an attempt has at most one holder, each
\* grant is newer than all before it, and it ends at most once between two
\* inserts of its row (SQLiteQueueStore as a whole).
THEOREM StoreImplementsLifecycle == StoreSpec => FollowsLifecycle
<1>1. StoreInit => Inv BY InvInit
<1>2. Inv /\ [StoreNext]_storeVars => Inv' BY InvNext
<1>3. StoreInit => Lifecycle!Init
  BY DEF StoreInit, Lifecycle!Init, PhaseOf, NoRow
<1>4. Inv /\ [StoreNext]_storeVars => [Lifecycle!Next]_(Lifecycle!lifecycleVars)
  <2> SUFFICES ASSUME Inv, [StoreNext]_storeVars
               PROVE  Lifecycle!Next
    OBVIOUS
  <2>1. /\ \A a \in Attempts : RowStep(a)
        /\ jobs' = [b \in Attempts |-> jobs'[b]]
    BY EveryCallIsRowSteps DEF Inv
  <2>2. \A a \in Attempts : Lifecycle!Step(a)
    BY <2>1, RowStepIsLifecycleStep
  <2> QED BY <2>2 DEF Lifecycle!Next
<1> QED BY <1>1, <1>2, <1>3, <1>4, PTL DEF StoreSpec, FollowsLifecycle, Lifecycle!Spec
=============================================================================
