---------------------------- MODULE JobLoopProofs ----------------------------
(***************************************************************************)
(* Proofs about JobLoop for every pool of workers, every set of attempts   *)
(* and any number of lost leases and restarts: the pool uses the queue as  *)
(* QueueStore says, and the safety properties of the runs loop and         *)
(* loop_pair hold.                                                         *)
(***************************************************************************)
EXTENDS JobLoop, QueueStoreProofs

USE DEF NoToken, Active, Terminal, States

Failures == {"FAILED", "CANCELLED", "TIMED_OUT"}

\* What is true of a worker that acts on a lease.  The token it holds was
\* generated at some time; if it is the one in the row, the row names this
\* worker.  A worker that has given its outcome to the queue, or was refused,
\* no longer has the token of the row.
WorkerOK(w) ==
  pc[w] # "idle" =>
    /\ AttemptOf(w) \in Attempts
    /\ TokenOf(w) \in 1 .. issued[AttemptOf(w)]
    /\ jobs[AttemptOf(w)].token = TokenOf(w) => jobs[AttemptOf(w)].owner = w
    /\ pc[w] = "leased" => /\ jobs[AttemptOf(w)].state = "LEASED"
                           /\ jobs[AttemptOf(w)].token = TokenOf(w)
    /\ pc[w] = "checking" => result[w] \in {"ok"} \cup Failures
    /\ pc[w] = "uploaded" => TokenOf(w) \in uploads[AttemptOf(w)]
    /\ pc[w] = "committed" => jobs[AttemptOf(w)].state = "SUCCEEDED"
    /\ pc[w] = "reporting" => /\ result[w] \in {"none"} \cup Failures
                              /\ jobs[AttemptOf(w)].token # TokenOf(w)

TokensDiffer ==
  \A v, w \in Workers :
    (v # w /\ pc[v] # "idle" /\ pc[w] # "idle" /\ AttemptOf(v) = AttemptOf(w)) =>
      TokenOf(v) # TokenOf(w)

DownIsIdle == proc = "down" => \A w \in Workers : pc[w] = "idle"

LoopInv ==
  /\ Inv
  /\ LoopTypeOK
  /\ \A w \in Workers : WorkerOK(w)
  /\ TokensDiffer
  /\ DownIsIdle
  /\ NoAbandonedLease
  /\ SuccessHasArtifact
  /\ PublishedSuccessIsDurable

-----------------------------------------------------------------------------
(* Every step of the pool is a call of the queue, or none.                 *)

\* The way out of execute_job with a BuildExecutionError uses transition with
\* the lease the worker was given, or is refused (job_loop.py:167).
LEMMA FailCallsStore ==
  ASSUME LoopInv, NEW w \in Workers, pc[w] # "idle", NEW o \in Failures, Fail(w, o)
  PROVE  [StoreNext]_storeVars
<1> DEFINE a == AttemptOf(w)
           t == TokenOf(w)
<1>1. a \in Attempts /\ t \in 1 .. issued[a]
  BY DEF LoopInv, WorkerOK
<1>2. CASE Transition(a, o, jobs[a].state, w, t)
  <2>1. jobs[a].state \in States
    BY <1>2 DEF Transition, CanTransition, LegalPreviousStates, Failures
  <2> QED BY <1>1, <1>2, <2>1 DEF StoreNext, Workers, Failures
<1>3. CASE UNCHANGED storeVars
  BY <1>3
<1> QED BY <1>2, <1>3 DEF Fail

\* Any other exception uses record_executor_crash, or leaves the row alone
\* (job_loop.py:196).
LEMMA CrashCallsStore ==
  ASSUME LoopInv, NEW w \in Workers, pc[w] # "idle", Crash(w)
  PROVE  [StoreNext]_storeVars
<1> DEFINE a == AttemptOf(w)
           t == TokenOf(w)
<1>1. a \in Attempts /\ t \in 1 .. issued[a]
  BY DEF LoopInv, WorkerOK
<1>2. CASE RecordExecutorCrash(a, w, t)
  BY <1>1, <1>2 DEF StoreNext, Workers
<1>3. CASE UNCHANGED storeVars
  BY <1>3
<1> QED BY <1>2, <1>3 DEF Crash

\* What execute_job raises after the build is one of the failures
\* (job_loop.py:375-391).
LEMMA VerdictType ==
  ASSUME LoopInv, NEW w \in Workers, pc[w] = "checking",
         NEW verdict,
         verdict = IF result[w] = "ok" THEN EnsureCurrentAttempt(w) ELSE result[w],
         verdict # "ok"
  PROVE  verdict \in Failures
<1>1. result[w] \in {"ok"} \cup Failures
  BY DEF LoopInv, WorkerOK
<1>2. EnsureCurrentAttempt(w) \in {"ok"} \cup Failures
  BY DEF EnsureCurrentAttempt, Failures
<1> QED BY <1>1, <1>2

\* Every step of a worker, of the backend and of the process is one call of
\* the queue with a lease that was given out, or leaves the queue alone
\* (job_loop.py, handlers.py, commands.py).
LEMMA LoopStepIsStoreStep ==
  ASSUME LoopInv, [Next]_vars
  PROVE  [StoreNext]_storeVars
<1>1. ASSUME NEW a \in Attempts, Assign(a) PROVE [StoreNext]_storeVars
  BY <1>1 DEF Assign, StoreNext
<1>2. ASSUME NEW targets \in CancelTargets, Cancel(targets) PROVE [StoreNext]_storeVars
  BY <1>2 DEF Cancel, StoreNext
<1>3. ASSUME NEW on \in BOOLEAN, Drain(on) PROVE [StoreNext]_storeVars
  BY <1>3 DEF Drain
<1>4. ASSUME NEW w \in Workers, NEW a \in Attempts, Acquire(w, a) PROVE [StoreNext]_storeVars
  BY <1>4 DEF Acquire, StoreNext, Workers
<1>5. ASSUME Poll PROVE [StoreNext]_storeVars
  BY <1>5 DEF Poll, StoreNext
<1>6. ASSUME NEW w \in Workers, WorkerStep(w) \/ ObserveCancel(w) \/ Refresh(w)
      PROVE  [StoreNext]_storeVars
  <2>0. pc[w] # "idle" => AttemptOf(w) \in Attempts /\ TokenOf(w) \in 1 .. issued[AttemptOf(w)]
    BY DEF LoopInv, WorkerOK
  <2>1. CASE Start(w)
    BY <2>0, <2>1 DEF Start, StoreNext, Workers
  <2>2. CASE Prepare(w) \/ Pull(w) \/ FinishBuild(w) \/ Package(w) \/ Upload(w)
    BY <2>2 DEF Prepare, Pull, FinishBuild, Package, Upload, GoTo
  <2>3. CASE CheckBuild(w)
    <3> DEFINE verdict == IF result[w] = "ok" THEN EnsureCurrentAttempt(w) ELSE result[w]
    <3>1. CASE verdict # "ok" /\ Fail(w, verdict)
      <4>1. pc[w] = "checking" BY <2>3 DEF CheckBuild, At
      <4>2. verdict \in Failures BY <3>1, <4>1, VerdictType
      <4> QED BY <3>1, <4>1, <4>2, FailCallsStore
    <3>2. CASE GoTo(w, "packaging")
      BY <3>2 DEF GoTo
    <3> QED BY <2>3, <3>1, <3>2 DEF CheckBuild
  <2>4. CASE Commit(w)
    <3>1. pc[w] # "idle" BY <2>4 DEF Commit, At
    <3>2. CASE Transition(AttemptOf(w), "SUCCEEDED", "RUNNING", w, TokenOf(w))
      BY <2>0, <3>1, <3>2 DEF StoreNext, Workers
    <3>3. CASE Crash(w)
      BY <3>1, <3>3, CrashCallsStore
    <3> QED BY <2>4, <3>2, <3>3 DEF Commit
  <2>5. CASE Acknowledge(w) \/ Report(w)
    BY <2>5 DEF Acknowledge, Report
  <2>6. CASE PhaseFails(w)
    <3>1. pc[w] # "idle" /\ Fail(w, "FAILED")
      BY <2>6 DEF PhaseFails, PrepareFails, PullFails, BuildRefused, PackageFails,
                  UploadFails, At
    <3> QED BY <3>1, FailCallsStore DEF Failures
  <2>7. CASE PhaseCrashes(w)
    <3>1. pc[w] # "idle" /\ Crash(w)
      BY <2>7 DEF PhaseCrashes, At, Executing
    <3> QED BY <3>1, CrashCallsStore
  <2>8. CASE ObserveCancel(w)
    BY <2>8 DEF ObserveCancel
  <2>9. CASE Refresh(w)
    <3>1. pc[w] # "idle" BY <2>9 DEF Refresh, Executing
    <3> QED BY <2>0, <2>9, <3>1 DEF Refresh, StoreNext, Workers
  <2> QED BY <1>6, <2>1, <2>2, <2>3, <2>4, <2>5, <2>6, <2>7, <2>8, <2>9 DEF WorkerStep
<1>7. ASSUME NEW a \in Attempts, ExpireAbandoned(a) \/ ExpireHeld(a)
      PROVE  [StoreNext]_storeVars
  BY <1>7 DEF ExpireAbandoned, ExpireHeld, StoreNext
<1>8. ASSUME Kill \/ Stop \/ Exit PROVE [StoreNext]_storeVars
  BY <1>8 DEF Kill, Stop, Exit, WorkersGone
<1>9. ASSUME NEW old \in SUBSET Attempts, Boot(old) PROVE [StoreNext]_storeVars
  BY <1>9 DEF Boot, StoreNext
<1>10. CASE UNCHANGED vars
  BY <1>10 DEF vars
<1> QED BY <1>1, <1>2, <1>3, <1>4, <1>5, <1>6, <1>7, <1>8, <1>9, <1>10 DEF Next

-----------------------------------------------------------------------------
(* What one step does to one worker, and what it leaves true around it.    *)

Stays(v) ==
  /\ pc'[v] = pc[v] /\ held'[v] = held[v] /\ result'[v] = result[v]
  /\ pc[v] = "leased" => /\ jobs'[AttemptOf(v)].state = "LEASED"
                         /\ jobs'[AttemptOf(v)].token = TokenOf(v)

Moves(v) ==
  /\ pc[v] # "idle" /\ pc'[v] \notin {"idle", "leased"} /\ held'[v] = held[v]
  /\ pc'[v] = "checking" => result'[v] \in {"ok"} \cup Failures
  /\ pc'[v] = "uploaded" => TokenOf(v) \in uploads'[AttemptOf(v)]
  /\ pc'[v] = "committed" => jobs'[AttemptOf(v)].state = "SUCCEEDED"
  /\ pc'[v] = "reporting" => /\ result'[v] \in {"none"} \cup Failures
                             /\ jobs'[AttemptOf(v)].token # TokenOf(v)

Leaves(v) ==
  /\ pc[v] # "idle" /\ pc'[v] = "idle"
  /\ jobs[AttemptOf(v)].token # TokenOf(v)

\* A worker leases an attempt while the others stand still.
Takes(v, a) ==
  /\ pc[v] = "idle" /\ pc'[v] = "leased"
  /\ held'[v].attempt = a
  /\ held'[v].token = issued[a] + 1
  /\ issued'[a] = issued[a] + 1
  /\ jobs'[a].token = issued[a] + 1
  /\ jobs'[a].owner = v
  /\ jobs'[a].state = "LEASED"
  /\ \A u \in Workers \ {v} : pc'[u] = pc[u] /\ held'[u] = held[u]

Vanishes(v) == pc'[v] = "idle" /\ proc' = "down"

WorkerChange(v) ==
  Stays(v) \/ Moves(v) \/ Leaves(v) \/ Vanishes(v) \/ (\E a \in Attempts : Takes(v, a))

\* Around the workers: artifacts are not taken back; rows disappear only while
\* the process is down, and with them what was published; success comes with an
\* artifact and is published only when it is in the row; leases are given only
\* to workers, and whoever loses its worker is remembered as stranded.
Orderly(a) ==
  /\ uploads[a] \subseteq uploads'[a]
  /\ Pruned(a) => proc = "down" /\ published'[a] = {}
  /\ (jobs'[a].state = "SUCCEEDED" /\ jobs[a].state # "SUCCEEDED") =>
       issued'[a] \in uploads'[a]
  /\ "SUCCEEDED" \in published'[a] =>
       "SUCCEEDED" \in published[a] \/ jobs'[a].state = "SUCCEEDED"
  /\ issued'[a] # issued[a] => \E v \in Workers : Takes(v, a)
  /\ jobs'[a].state \in Active =>
       \/ a \in stranded'
       \/ a \notin stranded /\ proc' # "down"
       \/ \E v \in Workers : Takes(v, a)

\* If a step changes every worker and every attempt in these ways, it preserves
\* the invariant.
LEMMA OrderlyStepsPreserve ==
  ASSUME LoopInv, Inv', LoopTypeOK',
         \A a \in Attempts : RowStep(a),
         \A a \in Attempts : Orderly(a),
         \A v \in Workers : WorkerChange(v),
         proc' = "down" => \A v \in Workers : pc'[v] = "idle"
  PROVE  LoopInv'
<1>0. /\ \A a \in Attempts : jobs[a] \in Row /\ issued[a] \in Nat
      /\ \A a \in Attempts : LeaseShapeOf(jobs[a], issued[a])
      /\ \A a \in Attempts : jobs'[a] \in Row /\ issued'[a] \in Nat
      /\ \A a \in Attempts : LeaseShapeOf(jobs'[a], issued'[a])
      /\ \A w \in Workers : WorkerOK(w)
  BY DEF LoopInv, Inv, StoreTypeOK, LeaseShape, LeaseShapeOf
<1>1. ASSUME NEW a \in Attempts
      PROVE  /\ issued[a] <= issued'[a]
             /\ \/ jobs'[a].token = jobs[a].token /\ jobs'[a].owner = jobs[a].owner
                \/ jobs'[a].token = 0
                \/ jobs'[a].token = issued[a] + 1
             /\ jobs[a].state = "SUCCEEDED" =>
                  (jobs'[a].state = "SUCCEEDED" /\ issued'[a] = issued[a]) \/ Pruned(a)
             /\ (jobs'[a].state \in Active /\ issued'[a] = issued[a]) =>
                  jobs[a].state \in Active /\ jobs'[a].token = jobs[a].token
  <2>0. RowStep(a) /\ jobs[a] \in Row /\ issued[a] \in Nat
    BY <1>0
  <2>1. CASE Kept(a) BY <2>0, <2>1 DEF Kept
  <2>2. CASE Inserted(a) BY <2>0, <2>2 DEF Inserted, NoRow
  <2>3. CASE Granted(a) BY <2>0, <2>3 DEF Granted, Grantable, Leasable, Leased, Row
  <2>4. CASE Adjusted(a)
    <3>1. /\ jobs'[a].token = jobs[a].token /\ jobs'[a].owner = jobs[a].owner
          /\ issued'[a] = issued[a]
          /\ jobs[a].state \in {"QUEUED"} \cup Active
          /\ jobs'[a].state \in Active => jobs[a].state \in Active
      BY <2>0, <2>4 DEF Adjusted, Row
    <3> QED BY <2>0, <3>1
  <2>5. CASE Requeued(a) BY <2>0, <2>5 DEF Requeued, Closed, Row
  <2>6. CASE Ended(a) BY <2>0, <2>6 DEF Ended, Closed, Row
  <2>7. CASE Pruned(a) BY <2>0, <2>7 DEF Pruned, NoRow
  <2> QED BY <2>0, <2>1, <2>2, <2>3, <2>4, <2>5, <2>6, <2>7 DEF RowStep
<1>2. ASSUME NEW v \in Workers PROVE WorkerOK(v)'
  <2>0. pc[v] # "idle" =>
          /\ AttemptOf(v) \in Attempts
          /\ TokenOf(v) \in Nat /\ TokenOf(v) > 0
          /\ TokenOf(v) <= issued'[AttemptOf(v)]
          /\ TokenOf(v) < issued[AttemptOf(v)] + 1
          /\ jobs'[AttemptOf(v)].token = TokenOf(v) => jobs'[AttemptOf(v)].owner = v
    BY <1>0, <1>1 DEF WorkerOK
  <2>1. CASE Stays(v)
    <3>1. pc[v] = "uploaded" => TokenOf(v) \in uploads'[AttemptOf(v)]
      BY <1>0, <2>0 DEF WorkerOK, Orderly
    <3>2. pc[v] = "committed" => jobs'[AttemptOf(v)].state = "SUCCEEDED"
      <4> SUFFICES ASSUME pc[v] = "committed" PROVE jobs'[AttemptOf(v)].state = "SUCCEEDED"
        OBVIOUS
      <4>1. jobs[AttemptOf(v)].state = "SUCCEEDED" /\ AttemptOf(v) \in Attempts
        BY <1>0 DEF WorkerOK
      <4>2. ~Pruned(AttemptOf(v))
        BY <4>1 DEF Orderly, LoopInv, DownIsIdle
      <4> QED BY <1>1, <4>1, <4>2
    <3>3. pc[v] = "reporting" => jobs'[AttemptOf(v)].token # TokenOf(v)
      <4> SUFFICES ASSUME pc[v] = "reporting" PROVE jobs'[AttemptOf(v)].token # TokenOf(v)
        OBVIOUS
      <4>1. jobs[AttemptOf(v)].token # TokenOf(v)
        BY <1>0 DEF WorkerOK
      <4> QED BY <1>1, <2>0, <4>1
    <3> QED BY <1>0, <2>0, <2>1, <3>1, <3>2, <3>3 DEF WorkerOK, Stays, AttemptOf, TokenOf
  <2>2. CASE Moves(v)
    BY <2>0, <2>2 DEF WorkerOK, Moves, AttemptOf, TokenOf
  <2>3. CASE Leaves(v) \/ Vanishes(v)
    BY <2>3 DEF WorkerOK, Leaves, Vanishes
  <2>4. ASSUME NEW a \in Attempts, Takes(v, a) PROVE WorkerOK(v)'
    BY <1>0, <2>4 DEF WorkerOK, Takes, AttemptOf, TokenOf
  <2> QED BY <2>1, <2>2, <2>3, <2>4 DEF WorkerChange
<1>3. TokensDiffer'
  <2> SUFFICES ASSUME NEW v \in Workers, NEW w \in Workers, v # w,
                      pc'[v] # "idle", pc'[w] # "idle",
                      held'[v].attempt = held'[w].attempt
               PROVE  held'[v].token # held'[w].token
    BY DEF TokensDiffer, AttemptOf, TokenOf
  <2>1. ASSUME NEW x \in Workers, NEW y \in Workers, x # y, NEW a \in Attempts, Takes(x, a),
               pc'[y] # "idle", held'[x].attempt = held'[y].attempt
        PROVE  held'[x].token # held'[y].token
    <3>1. pc[y] # "idle" /\ AttemptOf(y) = a /\ held'[y].token = TokenOf(y)
      BY <2>1 DEF Takes, AttemptOf, TokenOf
    <3>2. TokenOf(y) <= issued[a] /\ TokenOf(y) \in Nat
      BY <1>0, <3>1 DEF WorkerOK
    <3> QED BY <1>0, <2>1, <3>1, <3>2 DEF Takes
  <2>2. CASE (Stays(v) \/ Moves(v)) /\ (Stays(w) \/ Moves(w))
    <3>1. /\ pc[v] # "idle" /\ pc[w] # "idle"
          /\ held'[v] = held[v] /\ held'[w] = held[w]
      BY <2>2 DEF Stays, Moves
    <3> QED BY <3>1 DEF LoopInv, TokensDiffer, AttemptOf, TokenOf
  <2> QED BY <2>1, <2>2 DEF WorkerChange, Leaves, Vanishes
<1>4. DownIsIdle'
  BY DEF DownIsIdle
<1>5. NoAbandonedLease'
  <2> SUFFICES ASSUME NEW a \in Attempts, jobs'[a].state \in Active
               PROVE  HeldLive(a)' \/ a \in stranded'
    BY DEF NoAbandonedLease
  <2>1. ASSUME NEW v \in Workers, Takes(v, a) PROVE HeldLive(a)'
    BY <2>1 DEF HeldLive, Takes, AttemptOf, TokenOf
  <2>2. CASE a \notin stranded /\ proc' # "down" /\ issued'[a] = issued[a]
    <3>1. jobs[a].state \in Active /\ jobs'[a].token = jobs[a].token
      BY <1>1, <2>2
    <3>2. PICK w \in Workers : pc[w] # "idle" /\ AttemptOf(w) = a /\ TokenOf(w) = jobs[a].token
      BY <2>2, <3>1 DEF LoopInv, NoAbandonedLease, HeldLive
    <3>3. pc'[w] # "idle" /\ held'[w] = held[w]
      BY <2>2, <3>2 DEF WorkerChange, Stays, Moves, Leaves, Vanishes, Takes
    <3> QED BY <3>1, <3>2, <3>3 DEF HeldLive, AttemptOf, TokenOf
  <2> QED BY <2>1, <2>2 DEF Orderly
<1>6. SuccessHasArtifact'
  <2> SUFFICES ASSUME NEW a \in Attempts, jobs'[a].state = "SUCCEEDED"
               PROVE  issued'[a] \in uploads'[a]
    BY DEF SuccessHasArtifact
  <2>1. CASE jobs[a].state # "SUCCEEDED"
    BY <2>1 DEF Orderly
  <2>2. CASE jobs[a].state = "SUCCEEDED"
    <3>1. issued[a] \in uploads[a] BY <2>2 DEF LoopInv, SuccessHasArtifact
    <3>2. ~Pruned(a) BY DEF Pruned, NoRow
    <3> QED BY <1>1, <2>2, <3>1, <3>2 DEF Orderly
  <2> QED BY <2>1, <2>2
<1>7. PublishedSuccessIsDurable'
  <2> SUFFICES ASSUME NEW a \in Attempts, "SUCCEEDED" \in published'[a]
               PROVE  jobs'[a].state = "SUCCEEDED"
    BY DEF PublishedSuccessIsDurable
  <2>1. CASE "SUCCEEDED" \in published[a]
    <3>1. jobs[a].state = "SUCCEEDED" BY <2>1 DEF LoopInv, PublishedSuccessIsDurable
    <3> QED BY <1>1, <3>1 DEF Orderly
  <2> QED BY <2>1 DEF Orderly
<1> QED BY <1>2, <1>3, <1>4, <1>5, <1>6, <1>7 DEF LoopInv

-----------------------------------------------------------------------------
(* The steps, one by one.                                                  *)

Preserved ==
  /\ LoopTypeOK'
  /\ \A a \in Attempts : Orderly(a)
  /\ \A v \in Workers : WorkerChange(v)
  /\ proc' = "down" => \A v \in Workers : pc'[v] = "idle"

\* A step that gives no lease, ends no attempt with success and removes no row
\* is orderly (all steps but acquire_lease, the commit of SUCCEEDED, the death
\* and the start of the process).
LEMMA PlainStepIsOrderly ==
  ASSUME issued' = issued, proc' # "down",
         NEW a \in Attempts,
         uploads[a] \subseteq uploads'[a],
         "SUCCEEDED" \in published'[a] =>
           "SUCCEEDED" \in published[a] \/ jobs'[a].state = "SUCCEEDED",
         jobs'[a].state = "SUCCEEDED" => jobs[a].state = "SUCCEEDED",
         jobs'[a].state = "ABSENT" => jobs[a].state = "ABSENT",
         (jobs'[a].state \in Active /\ a \in stranded) => a \in stranded'
  PROVE  Orderly(a)
<1>1. ~Pruned(a)
  BY DEF Pruned, NoRow
<1> QED BY <1>1 DEF Orderly

\* Workers that a step does not touch stay as they are.
LEMMA OthersStay ==
  ASSUME LoopFree, NEW v \in Workers,
         pc'[v] = pc[v], held'[v] = held[v], result'[v] = result[v]
  PROVE  WorkerChange(v)
BY DEF LoopFree, WorkerChange, Stays

\* Facts about the pool that the steps below start from.
LEMMA PoolFacts ==
  ASSUME LoopInv, NEW w \in Workers, pc[w] # "idle"
  PROVE  /\ AttemptOf(w) \in Attempts
         /\ TokenOf(w) \in Nat /\ TokenOf(w) > 0
         /\ jobs \in [Attempts -> Row]
         /\ LeaseShapeOf(jobs[AttemptOf(w)], issued[AttemptOf(w)])
         /\ jobs[AttemptOf(w)].token = TokenOf(w) => jobs[AttemptOf(w)].owner = w
<1>1. /\ AttemptOf(w) \in Attempts
      /\ TokenOf(w) \in 1 .. issued[AttemptOf(w)]
      /\ jobs[AttemptOf(w)].token = TokenOf(w) => jobs[AttemptOf(w)].owner = w
  BY DEF LoopInv, WorkerOK
<1>2. /\ jobs \in [Attempts -> Row]
      /\ LeaseShapeOf(jobs[AttemptOf(w)], issued[AttemptOf(w)])
      /\ issued[AttemptOf(w)] \in Nat
  BY <1>1 DEF LoopInv, Inv, StoreTypeOK, LeaseShape, LeaseShapeOf
<1> QED BY <1>1, <1>2

\* The state and the token of a row that was closed (transition).
LEMMA ClosedColumns ==
  ASSUME NEW row \in Row, NEW s
  PROVE  Closed(row, s).state = s /\ Closed(row, s).token = 0
BY DEF Closed, Row

\* A build that fails is closed in the row or was taken away before
\* (job_loop.py:167-195).
LEMMA FailPreserves ==
  ASSUME LoopInv, NEW w \in Workers, Running, pc[w] # "idle", NEW o \in Failures, Fail(w, o)
  PROVE  Preserved
<1> DEFINE a == AttemptOf(w)
<1>0. /\ a \in Attempts
      /\ TokenOf(w) \in Nat /\ TokenOf(w) > 0
      /\ jobs \in [Attempts -> Row]
      /\ LeaseShapeOf(jobs[a], issued[a])
      /\ jobs[a].token = TokenOf(w) => jobs[a].owner = w
  BY PoolFacts
<1>1. LoopTypeOK'
  BY <1>0 DEF Fail, RemoveWorkspace, LoopInv, LoopTypeOK, Phases, Results, Failures, processVars
<1>2. /\ issued' = issued
      /\ \A b \in Attempts \ {a} : jobs'[b] = jobs[b]
      /\ jobs'[a] = jobs[a] \/ jobs'[a] = Closed(jobs[a], o)
      /\ jobs'[a].token # TokenOf(w)
  <2>1. CASE Transition(a, o, jobs[a].state, w, TokenOf(w))
    <3>1. jobs'[a] = Closed(jobs[a], o)
      BY <1>0, <2>1 DEF Transition, Failures
    <3>2. jobs'[a].token = 0
      BY <1>0, <3>1, ClosedColumns
    <3> QED BY <1>0, <2>1, <3>1, <3>2 DEF Transition
  <2>2. CASE ~CanTransition(a, o, jobs[a].state, w, TokenOf(w)) /\ UNCHANGED storeVars
    <3>1. jobs[a].token = TokenOf(w) => jobs[a].state \in Active /\ jobs[a].owner = w
      BY <1>0 DEF LeaseShapeOf
    <3>2. jobs[a].token # TokenOf(w)
      BY <2>2, <3>1 DEF CanTransition, Owned, LegalPreviousStates, Failures
    <3> QED BY <2>2, <3>2 DEF storeVars
  <2> QED BY <2>1, <2>2 DEF Fail
<1>3. ASSUME NEW b \in Attempts PROVE Orderly(b)
  <2>1. /\ jobs'[b].state = "SUCCEEDED" => jobs[b].state = "SUCCEEDED"
        /\ jobs'[b].state = "ABSENT" => jobs[b].state = "ABSENT"
    <3>1. CASE b = a BY <1>0, <1>2, <3>1, ClosedColumns DEF Failures
    <3>2. CASE b # a BY <1>2, <3>2
    <3> QED BY <3>1, <3>2
  <2> QED BY <1>2, <2>1, PlainStepIsOrderly DEF Fail, processVars, Running
<1>4. ASSUME NEW v \in Workers PROVE WorkerChange(v)
  <2>1. CASE v = w
    BY <1>2, <2>1 DEF Fail, WorkerChange, Moves, LoopInv, LoopTypeOK
  <2>2. CASE v # w
    BY <2>2, OthersStay DEF Fail, Running, LoopInv, LoopTypeOK
  <2> QED BY <2>1, <2>2
<1> QED BY <1>1, <1>3, <1>4 DEF Preserved, Fail, processVars, Running

\* A crash of the executor requeues or dead-letters the attempt, leaves a
\* terminal one alone, or was refused (job_loop.py:196-226).
LEMMA CrashPreserves ==
  ASSUME LoopInv, NEW w \in Workers, Running, pc[w] # "idle", Crash(w)
  PROVE  Preserved
<1> DEFINE a == AttemptOf(w)
<1>0. /\ a \in Attempts
      /\ TokenOf(w) \in Nat /\ TokenOf(w) > 0
      /\ jobs \in [Attempts -> Row]
      /\ LeaseShapeOf(jobs[a], issued[a])
      /\ jobs[a].token = TokenOf(w) => jobs[a].owner = w
  BY PoolFacts
<1>1. CASE jobs[a].state \in Terminal /\ Release(w) /\ UNCHANGED storeVars
  <2>1. LoopTypeOK'
    BY <1>0, <1>1 DEF Crash, RemoveWorkspace, Release, NoLease, LoopInv, LoopTypeOK,
                      Phases, Results, processVars
  <2>2. ASSUME NEW b \in Attempts PROVE Orderly(b)
    BY <1>1, PlainStepIsOrderly DEF Crash, storeVars, processVars, Running
  <2>3. ASSUME NEW v \in Workers PROVE WorkerChange(v)
    <3>1. CASE v = w
      <4>1. jobs[a].token # TokenOf(w)
        BY <1>0, <1>1 DEF LeaseShapeOf
      <4> QED BY <1>1, <3>1, <4>1 DEF Release, WorkerChange, Leaves, LoopInv, LoopTypeOK
    <3>2. CASE v # w
      BY <1>1, <3>2, OthersStay DEF Release, Running, LoopInv, LoopTypeOK
    <3> QED BY <3>1, <3>2
  <2> QED BY <2>1, <2>2, <2>3 DEF Preserved, Crash, processVars, Running
<1>2. CASE jobs[a].state \notin Terminal
  <2>1. /\ pc' = [pc EXCEPT ![w] = "reporting"]
        /\ \E r \in {"none", "FAILED"} : result' = [result EXCEPT ![w] = r]
        /\ UNCHANGED <<held, cancelSeen, published, uploads, processVars>>
        /\ RemoveWorkspace(w)
    BY <1>2 DEF Crash
  <2>2. LoopTypeOK'
    BY <1>0, <2>1 DEF RemoveWorkspace, LoopInv, LoopTypeOK, Phases, Results, processVars
  <2>3. /\ issued' = issued
        /\ \A b \in Attempts \ {a} : jobs'[b] = jobs[b]
        /\ \/ jobs'[a] = jobs[a]
           \/ \E s \in {"FAILED", "QUEUED"} : jobs'[a] = Closed(jobs[a], s)
        /\ jobs'[a].token # TokenOf(w)
    <3>1. CASE RecordExecutorCrash(a, w, TokenOf(w))
      <4>1. \E s \in {"FAILED", "QUEUED"} : jobs'[a] = Closed(jobs[a], s)
        BY <1>0, <3>1 DEF RecordExecutorCrash
      <4>2. jobs'[a].token = 0
        BY <1>0, <4>1, ClosedColumns
      <4> QED BY <1>0, <3>1, <4>1, <4>2 DEF RecordExecutorCrash
    <3>2. CASE ~CanRecordCrash(a, w, TokenOf(w)) /\ UNCHANGED storeVars
      <4>1. jobs[a].token = TokenOf(w) => jobs[a].state \in Active /\ jobs[a].owner = w
        BY <1>0 DEF LeaseShapeOf
      <4>2. jobs[a].token # TokenOf(w)
        BY <3>2, <4>1 DEF CanRecordCrash, Owned
      <4> QED BY <3>2, <4>2 DEF storeVars
    <3> QED BY <1>2, <3>1, <3>2 DEF Crash
  <2>4. ASSUME NEW b \in Attempts PROVE Orderly(b)
    <3>1. /\ jobs'[b].state = "SUCCEEDED" => jobs[b].state = "SUCCEEDED"
          /\ jobs'[b].state = "ABSENT" => jobs[b].state = "ABSENT"
      <4>1. CASE b = a BY <1>0, <2>3, <4>1, ClosedColumns
      <4>2. CASE b # a BY <2>3, <4>2
      <4> QED BY <4>1, <4>2
    <3> QED BY <2>1, <2>3, <3>1, PlainStepIsOrderly DEF processVars, Running
  <2>5. ASSUME NEW v \in Workers PROVE WorkerChange(v)
    <3>1. CASE v = w
      BY <2>1, <2>3, <3>1 DEF WorkerChange, Moves, Failures, LoopInv, LoopTypeOK
    <3>2. CASE v # w
      BY <2>1, <3>2, OthersStay DEF Running, LoopInv, LoopTypeOK
    <3> QED BY <3>1, <3>2
  <2> QED BY <2>1, <2>2, <2>4, <2>5 DEF Preserved, processVars, Running
<1> QED BY <1>1, <1>2 DEF Crash

-----------------------------------------------------------------------------
\* A phase of execute_job ends and the next one begins; the queue is not used.
LEMMA PhaseStepPreserves ==
  ASSUME LoopInv, NEW w \in Workers,
         Prepare(w) \/ Pull(w) \/ FinishBuild(w) \/ Package(w) \/ Upload(w)
  PROVE  Preserved
<1>0. pc[w] # "idle" /\ Running /\ UNCHANGED <<storeVars, held, processVars>>
  BY DEF Prepare, Pull, FinishBuild, Package, Upload, At, GoTo
<1>1. AttemptOf(w) \in Attempts /\ TokenOf(w) \in Nat
  BY <1>0, PoolFacts
<1>2. PICK p \in {"pulling", "building", "checking", "uploading", "uploaded"} :
        /\ pc' = [pc EXCEPT ![w] = p]
        /\ p = "checking" => \E r \in {"ok"} \cup Failures : result' = [result EXCEPT ![w] = r]
        /\ p # "checking" => result' = result
        /\ p = "uploaded" => uploads' = [uploads EXCEPT ![AttemptOf(w)] = @ \cup {TokenOf(w)}]
        /\ p # "uploaded" => uploads' = uploads
        /\ p = "uploading" => Publish(AttemptOf(w), "ready")
        /\ p # "uploading" => published' = published
        /\ UNCHANGED <<cancelSeen, space>>
  BY DEF Prepare, Pull, FinishBuild, Package, Upload, GoTo, effectVars, Failures
<1>3. LoopTypeOK'
  BY <1>0, <1>1, <1>2 DEF Publish, LoopInv, LoopTypeOK, Phases, Executing, Results, Failures,
                          processVars
<1>4. ASSUME NEW b \in Attempts PROVE Orderly(b)
  <2>1. uploads[b] \subseteq uploads'[b]
    BY <1>1, <1>2 DEF LoopInv, LoopTypeOK
  <2>2. "SUCCEEDED" \in published'[b] => "SUCCEEDED" \in published[b]
    BY <1>1, <1>2 DEF Publish, LoopInv, LoopTypeOK
  <2> QED BY <1>0, <2>1, <2>2, PlainStepIsOrderly DEF storeVars, processVars, Running
<1>5. ASSUME NEW v \in Workers PROVE WorkerChange(v)
  <2>1. CASE v = w
    BY <1>0, <1>1, <1>2, <2>1 DEF WorkerChange, Moves, LoopInv, LoopTypeOK
  <2>2. CASE v # w
    BY <1>0, <1>2, <2>2, OthersStay DEF Running, LoopInv, LoopTypeOK
  <2> QED BY <2>1, <2>2
<1> QED BY <1>0, <1>3, <1>4, <1>5 DEF Preserved, processVars, Running

\* LEASED to RUNNING, with no await since the lease was acquired
\* (job_loop.py:139).
LEMMA StartPreserves ==
  ASSUME LoopInv, NEW w \in Workers, Start(w)
  PROVE  Preserved
<1> DEFINE a == AttemptOf(w)
<1>0. a \in Attempts /\ jobs \in [Attempts -> Row] /\ pc[w] = "leased"
  BY PoolFacts DEF Start
<1>1. /\ jobs' = [jobs EXCEPT ![a] = [@ EXCEPT !.state = "RUNNING"]]
      /\ issued' = issued
      /\ pc' = [pc EXCEPT ![w] = "preparing"]
      /\ UNCHANGED <<held, result, cancelSeen, published, uploads, processVars>>
      /\ proc # "down"
  BY DEF Start, Transition
<1>2. LoopTypeOK'
  BY <1>0, <1>1 DEF Start, CreateWorkspace, LoopInv, LoopTypeOK, Phases, Executing, processVars
<1>3. ASSUME NEW b \in Attempts PROVE Orderly(b)
  <2>1. /\ jobs'[b].state = "SUCCEEDED" => jobs[b].state = "SUCCEEDED"
        /\ jobs'[b].state = "ABSENT" => jobs[b].state = "ABSENT"
    BY <1>0, <1>1 DEF Row
  <2> QED BY <1>1, <2>1, PlainStepIsOrderly DEF processVars
<1>4. ASSUME NEW v \in Workers PROVE WorkerChange(v)
  <2>1. CASE v = w
    BY <1>0, <1>1, <2>1 DEF WorkerChange, Moves, LoopInv, LoopTypeOK
  <2>2. CASE v # w
    <3>1. pc[v] = "leased" => jobs'[AttemptOf(v)].state = "LEASED" /\ jobs'[AttemptOf(v)].token = TokenOf(v)
      <4> SUFFICES ASSUME pc[v] = "leased"
                   PROVE  jobs'[AttemptOf(v)].state = "LEASED" /\ jobs'[AttemptOf(v)].token = TokenOf(v)
        OBVIOUS
      <4>1. /\ jobs[a].token = TokenOf(w)
            /\ AttemptOf(v) \in Attempts
            /\ jobs[AttemptOf(v)].state = "LEASED"
            /\ jobs[AttemptOf(v)].token = TokenOf(v)
        BY <1>0 DEF LoopInv, WorkerOK
      <4>2. AttemptOf(v) # a
        BY <1>0, <2>2, <4>1 DEF LoopInv, TokensDiffer
      <4> QED BY <1>0, <1>1, <4>1, <4>2
    <3>2. pc'[v] = pc[v]
      BY <1>1, <2>2 DEF LoopInv, LoopTypeOK
    <3> QED BY <1>1, <3>1, <3>2 DEF WorkerChange, Stays
  <2> QED BY <2>1, <2>2
<1> QED BY <1>1, <1>2, <1>3, <1>4 DEF Preserved, processVars

\* The commit of SUCCEEDED under the lease the artifact was uploaded with
\* (job_loop.py:430).
LEMMA CommitPreserves ==
  ASSUME LoopInv, NEW w \in Workers, Commit(w)
  PROVE  Preserved
<1> DEFINE a == AttemptOf(w)
<1>0. /\ pc[w] = "uploaded" /\ Running
      /\ a \in Attempts
      /\ TokenOf(w) \in Nat /\ TokenOf(w) > 0
      /\ jobs \in [Attempts -> Row]
      /\ LeaseShapeOf(jobs[a], issued[a])
  BY PoolFacts DEF Commit, At
<1>1. CASE /\ Transition(a, "SUCCEEDED", "RUNNING", w, TokenOf(w))
           /\ pc' = [pc EXCEPT ![w] = "committed"]
           /\ UNCHANGED <<held, result, cancelSeen, effectVars, processVars>>
  <2>1. /\ jobs' = [jobs EXCEPT ![a] = Closed(@, "SUCCEEDED")]
        /\ issued' = issued
        /\ jobs[a].state = "RUNNING" /\ jobs[a].token = TokenOf(w)
    BY <1>1 DEF Transition, CanTransition, Owned
  <2>2. issued[a] = TokenOf(w)
    BY <1>0, <2>1 DEF LeaseShapeOf
  <2>3. TokenOf(w) \in uploads[a]
    BY <1>0 DEF LoopInv, WorkerOK
  <2>4. jobs'[a].state = "SUCCEEDED"
    BY <1>0, <2>1, ClosedColumns
  <2>5. LoopTypeOK'
    BY <1>1 DEF LoopInv, LoopTypeOK, Phases, Executing, effectVars, processVars
  <2>6. ASSUME NEW b \in Attempts PROVE Orderly(b)
    <3>1. CASE b = a
      <4>1. ~Pruned(a) BY <2>4 DEF Pruned, NoRow
      <4> QED BY <1>0, <1>1, <2>1, <2>2, <2>3, <2>4, <3>1, <4>1
              DEF Orderly, effectVars, processVars
    <3>2. CASE b # a
      <4>1. jobs'[b] = jobs[b] BY <1>0, <2>1, <3>2
      <4> QED BY <1>0, <1>1, <2>1, <4>1, PlainStepIsOrderly DEF effectVars, processVars, Running
    <3> QED BY <3>1, <3>2
  <2>7. ASSUME NEW v \in Workers PROVE WorkerChange(v)
    <3>1. CASE v = w
      BY <1>0, <1>1, <2>4, <3>1 DEF WorkerChange, Moves, LoopInv, LoopTypeOK
    <3>2. CASE v # w
      BY <1>0, <1>1, <3>2, OthersStay DEF Running, LoopInv, LoopTypeOK
    <3> QED BY <3>1, <3>2
  <2> QED BY <1>0, <1>1, <2>5, <2>6, <2>7 DEF Preserved, processVars, Running
<1>2. CASE Crash(w)
  BY <1>0, <1>2, CrashPreserves
<1> QED BY <1>1, <1>2 DEF Commit

\* The last words of a worker: the acknowledgement of success, or the report of
\* a failure (job_loop.py:437, 186).
LEMMA FarewellPreserves ==
  ASSUME LoopInv, NEW w \in Workers, Acknowledge(w) \/ Report(w)
  PROVE  Preserved
<1> DEFINE a == AttemptOf(w)
<1>0. /\ pc[w] \in {"committed", "reporting"} /\ Running /\ Release(w)
      /\ UNCHANGED <<storeVars, uploads, processVars>>
      /\ space' \in [Attempts -> Workers \cup {NULL}]
  BY DEF Acknowledge, Report, At, RemoveWorkspace, LoopInv, LoopTypeOK
<1>1. /\ a \in Attempts
      /\ TokenOf(w) \in Nat /\ TokenOf(w) > 0
      /\ LeaseShapeOf(jobs[a], issued[a])
  BY <1>0, PoolFacts
<1>2. /\ pc[w] = "committed" => jobs[a].state = "SUCCEEDED"
      /\ pc[w] = "reporting" => result[w] \in {"none"} \cup Failures /\ jobs[a].token # TokenOf(w)
  BY <1>0 DEF LoopInv, WorkerOK
<1>3. jobs[a].token # TokenOf(w)
  BY <1>0, <1>1, <1>2 DEF LeaseShapeOf
<1>4. \/ published' = published
      \/ \E what \in Terminal : /\ published' = [published EXCEPT ![a] = @ \cup {what}]
                                /\ what = "SUCCEEDED" => jobs[a].state = "SUCCEEDED"
  <2>1. CASE Acknowledge(w)
    BY <1>2, <2>1 DEF Acknowledge, Publish, At
  <2>2. CASE Report(w)
    BY <1>2, <2>2 DEF Report, Publish, Failures
  <2> QED BY <2>1, <2>2
<1>5. LoopTypeOK'
  <2>1. published' \in [Attempts -> SUBSET ({"ready"} \cup Terminal)]
    BY <1>1, <1>4 DEF LoopInv, LoopTypeOK
  <2> QED BY <1>0, <2>1 DEF Release, NoLease, LoopInv, LoopTypeOK, Phases, Results, processVars
<1>6. ASSUME NEW b \in Attempts PROVE Orderly(b)
  <2>1. "SUCCEEDED" \in published'[b] => "SUCCEEDED" \in published[b] \/ jobs'[b].state = "SUCCEEDED"
    BY <1>0, <1>1, <1>4 DEF storeVars, LoopInv, LoopTypeOK
  <2> QED BY <1>0, <2>1, PlainStepIsOrderly DEF storeVars, processVars, Running
<1>7. ASSUME NEW v \in Workers PROVE WorkerChange(v)
  <2>1. CASE v = w
    BY <1>0, <1>3, <2>1 DEF Release, WorkerChange, Leaves, LoopInv, LoopTypeOK
  <2>2. CASE v # w
    BY <1>0, <2>2, OthersStay DEF Release, Running, LoopInv, LoopTypeOK
  <2> QED BY <2>1, <2>2
<1> QED BY <1>0, <1>5, <1>6, <1>7 DEF Preserved, processVars, Running

-----------------------------------------------------------------------------
\* A worker takes the oldest attempt there is; the attempts before it whose
\* cancellation was requested are cancelled (job_loop.py:129).
LEMMA AcquirePreserves ==
  ASSUME LoopInv, NEW w \in Workers, NEW a \in Attempts, Acquire(w, a)
  PROVE  Preserved
<1>0. /\ jobs \in [Attempts -> Row] /\ issued \in [Attempts -> Nat]
      /\ proc = "up" /\ proc' = "up" /\ LoopFree /\ pc[w] = "idle"
  BY DEF LoopInv, Inv, StoreTypeOK, Acquire
<1>1. /\ jobs'[a] = Leased(jobs[a], w, issued[a] + 1)
      /\ issued' = [issued EXCEPT ![a] = @ + 1]
      /\ \A b \in Attempts \ {a} :
           jobs'[b] = jobs[b] \/ jobs'[b] = Closed(jobs[b], "CANCELLED")
  BY DEF Acquire, AcquireLease
<1>2. /\ jobs'[a].state = "LEASED" /\ jobs'[a].owner = w
      /\ jobs'[a].token = issued[a] + 1
  BY <1>0, <1>1 DEF Leased, Row
<1>3. /\ pc' = [pc EXCEPT ![w] = "leased"]
      /\ held' = [held EXCEPT ![w] = [attempt |-> a, token |-> jobs'[a].token,
                                      url |-> a \in transient]]
      /\ stranded' = stranded \ {a}
      /\ UNCHANGED <<result, cancelSeen, space, published, uploads, draining, expiries, restarts>>
  BY DEF Acquire, effectVars
<1>4. Takes(w, a)
  BY <1>0, <1>1, <1>2, <1>3 DEF Takes, LoopInv, LoopTypeOK
<1>5. LoopTypeOK'
  <2>1. [attempt |-> a, token |-> jobs'[a].token, url |-> a \in transient]
          \in [attempt: Attempts \cup {NULL}, token: Nat, url: BOOLEAN]
    BY <1>0, <1>2
  <2>2. held' \in [Workers -> [attempt: Attempts \cup {NULL}, token: Nat, url: BOOLEAN]]
    BY <1>3, <2>1 DEF LoopInv, LoopTypeOK
  <2>3. pc' \in [Workers -> Phases]
    BY <1>3 DEF LoopInv, LoopTypeOK, Phases
  <2> QED BY <1>0, <1>3, <2>2, <2>3 DEF LoopInv, LoopTypeOK
<1>6. ASSUME NEW b \in Attempts PROVE Orderly(b)
  <2>1. CASE b = a
    <3>1. ~Pruned(a) BY <1>2 DEF Pruned, NoRow
    <3> QED BY <1>2, <1>3, <1>4, <2>1, <3>1 DEF Orderly
  <2>2. CASE b # a
    <3>1. /\ issued'[b] = issued[b]
          /\ jobs'[b].state = "SUCCEEDED" => jobs[b].state = "SUCCEEDED"
          /\ jobs'[b].state # "SUCCEEDED" \/ jobs'[b] = jobs[b]
          /\ jobs'[b].state = "ABSENT" => jobs[b].state = "ABSENT"
      BY <1>0, <1>1, <2>2, ClosedColumns
    <3>2. ~Pruned(b) BY <3>1 DEF Pruned, NoRow
    <3> QED BY <1>0, <1>3, <2>2, <3>1, <3>2 DEF Orderly
  <2> QED BY <2>1, <2>2
<1>7. ASSUME NEW v \in Workers PROVE WorkerChange(v)
  <2>1. CASE v = w
    BY <1>4, <2>1 DEF WorkerChange
  <2>2. CASE v # w
    BY <1>0, <1>3, <2>2, OthersStay DEF LoopInv, LoopTypeOK
  <2> QED BY <2>1, <2>2
<1> QED BY <1>0, <1>5, <1>6, <1>7 DEF Preserved

\* Steps that touch no worker: assignments, cancellations, draining, polls that
\* find nothing, the refresher, the monitor, time and SIGTERM.
LEMMA OutsideStepPreserves ==
  ASSUME LoopInv,
         \/ \E a \in Attempts : Assign(a)
         \/ \E targets \in CancelTargets : Cancel(targets)
         \/ \E on \in BOOLEAN : Drain(on)
         \/ Poll
         \/ \E w \in Workers : ObserveCancel(w) \/ Refresh(w)
         \/ \E a \in Attempts : ExpireHeld(a)
         \/ Stop
  PROVE  Preserved
<1>0. /\ jobs \in [Attempts -> Row] /\ issued \in [Attempts -> Nat]
      /\ LoopTypeOK
  BY DEF LoopInv, Inv, StoreTypeOK
<1> DEFINE Goal == /\ LoopTypeOK'
                   /\ LoopFree /\ UNCHANGED <<pc, held, result>>
                   /\ issued' = issued /\ proc' # "down" /\ uploads' = uploads
                   /\ \A b \in Attempts :
                        /\ "SUCCEEDED" \in published'[b] =>
                             "SUCCEEDED" \in published[b] \/ jobs'[b].state = "SUCCEEDED"
                        /\ jobs'[b].state = "SUCCEEDED" => jobs[b].state = "SUCCEEDED"
                        /\ jobs'[b].state = "ABSENT" => jobs[b].state = "ABSENT"
                        /\ (jobs'[b].state \in Active /\ b \in stranded) => b \in stranded'
<1>1. ASSUME NEW a \in Attempts, Assign(a) PROVE Goal
  <2>1. /\ issued' = issued
        /\ \A b \in Attempts : jobs'[b] = jobs[b] \/ jobs'[b].state = "QUEUED"
    <3>1. CASE Enqueue(a)
      BY <1>0, <3>1 DEF Enqueue, NoRow
    <3>2. CASE UNCHANGED storeVars
      BY <3>2 DEF storeVars
    <3> QED BY <1>1, <3>1, <3>2 DEF Assign
  <2>2. \/ published' = published
        \/ \E what \in Terminal : /\ published' = [published EXCEPT ![a] = @ \cup {what}]
                                  /\ what = "SUCCEEDED" => jobs'[a].state = "SUCCEEDED"
    BY <1>1 DEF Assign, Publish
  <2>3. published' \in [Attempts -> SUBSET ({"ready"} \cup Terminal)]
    BY <1>0, <2>2 DEF LoopTypeOK
  <2>4. \A b \in Attempts : "SUCCEEDED" \in published'[b] =>
          "SUCCEEDED" \in published[b] \/ jobs'[b].state = "SUCCEEDED"
    BY <1>0, <2>2 DEF LoopTypeOK
  <2> QED BY <1>0, <1>1, <2>1, <2>3, <2>4 DEF Assign, workerVars, processVars, LoopTypeOK
<1>2. ASSUME NEW targets \in CancelTargets, Cancel(targets) PROVE Goal
  <2>1. /\ issued' = issued
        /\ \A b \in Attempts : jobs'[b].state = jobs[b].state
    BY <1>0, <1>2 DEF Cancel, RequestCancel, Row
  <2> QED BY <1>0, <1>2, <2>1
          DEF Cancel, loopVars, workerVars, effectVars, processVars, LoopTypeOK
<1>3. ASSUME NEW on \in BOOLEAN, Drain(on) PROVE Goal
  BY <1>0, <1>3 DEF Drain, storeVars, workerVars, effectVars, LoopTypeOK
<1>4. ASSUME Poll PROVE Goal
  <2>1. /\ issued' = issued
        /\ \A b \in Attempts : \/ jobs'[b] = jobs[b] /\ b \notin Withdrawn
                               \/ jobs'[b] = Closed(jobs[b], "CANCELLED")
    BY <1>4 DEF Poll, AcquireNothing
  <2>2. \A b \in Attempts : \/ jobs'[b] = jobs[b] /\ b \notin Withdrawn
                            \/ jobs'[b].state = "CANCELLED"
    BY <1>0, <2>1, ClosedColumns
  <2> QED BY <1>0, <1>4, <2>1, <2>2
          DEF Poll, workerVars, effectVars, LoopTypeOK
<1>5. ASSUME NEW w \in Workers, ObserveCancel(w) PROVE Goal
  BY <1>0, <1>5 DEF ObserveCancel, At, Running, storeVars, effectVars, processVars, LoopTypeOK
<1>6. ASSUME NEW w \in Workers, Refresh(w) PROVE Goal
  <2>1. /\ issued' = issued
        /\ \A b \in Attempts : jobs'[b].state = jobs[b].state
    BY <1>0, <1>6 DEF Refresh, RefreshLease, Row
  <2> QED BY <1>0, <1>6, <2>1
          DEF Refresh, Running, loopVars, workerVars, effectVars, processVars, LoopTypeOK
<1>7. ASSUME NEW a \in Attempts, ExpireHeld(a) PROVE Goal
  <2>1. /\ issued' = issued
        /\ \A b \in Attempts : jobs'[b].state = jobs[b].state
    BY <1>0, <1>7 DEF ExpireHeld, LeaseExpires, Row
  <2>2. proc # "down"
    BY <1>7 DEF ExpireHeld, HeldLive, LoopInv, DownIsIdle
  <2>3. expiries' \in 0 .. MaxExpiries
    BY <1>0, <1>7, FaultsAssumption DEF ExpireHeld, LoopTypeOK
  <2> QED BY <1>0, <1>7, <2>1, <2>2, <2>3 DEF ExpireHeld, workerVars, effectVars, LoopTypeOK
<1>8. ASSUME Stop PROVE Goal
  <2>1. restarts' \in 0 .. MaxRestarts
    BY <1>0, <1>8, FaultsAssumption DEF Stop, LoopTypeOK
  <2> QED BY <1>0, <1>8, <2>1 DEF Stop, storeVars, workerVars, effectVars, LoopTypeOK
<1>9. Goal
  BY <1>1, <1>2, <1>3, <1>4, <1>5, <1>6, <1>7, <1>8
<1>10. \A b \in Attempts : Orderly(b)
  BY <1>9, PlainStepIsOrderly
<1>11. \A v \in Workers : WorkerChange(v)
  BY <1>9, OthersStay
<1> QED BY <1>9, <1>10, <1>11 DEF Preserved

\* A lease runs out after its worker is gone; this alone can happen while
\* another worker is about to start.
LEMMA ExpiryPreserves ==
  ASSUME LoopInv, NEW a \in Attempts, ExpireAbandoned(a)
  PROVE  Preserved
<1>0. jobs \in [Attempts -> Row] /\ LoopTypeOK /\ DownIsIdle
  BY DEF LoopInv, Inv, StoreTypeOK
<1>1. /\ issued' = issued
      /\ \A b \in Attempts : jobs'[b].state = jobs[b].state /\ jobs'[b].token = jobs[b].token
      /\ UNCHANGED loopVars
  BY <1>0 DEF ExpireAbandoned, LeaseExpires, Row
<1>2. LoopTypeOK'
  BY <1>0, <1>1 DEF LoopTypeOK, loopVars, workerVars, effectVars, processVars
<1>3. \A b \in Attempts : ~Pruned(b)
  BY <1>1 DEF Pruned, NoRow
<1>4. ASSUME NEW b \in Attempts PROVE Orderly(b)
  <2>1. (jobs[b].state \in Active /\ b \notin stranded) => proc # "down"
    BY <1>0 DEF LoopInv, NoAbandonedLease, HeldLive, DownIsIdle
  <2> QED BY <1>1, <1>3, <2>1 DEF Orderly, loopVars, effectVars, processVars
<1>5. ASSUME NEW v \in Workers PROVE WorkerChange(v)
  <2>1. pc[v] = "leased" => /\ AttemptOf(v) \in Attempts
                            /\ jobs[AttemptOf(v)].state = "LEASED"
                            /\ jobs[AttemptOf(v)].token = TokenOf(v)
    BY DEF LoopInv, WorkerOK
  <2> QED BY <1>1, <2>1 DEF WorkerChange, Stays, loopVars, workerVars
<1> QED BY <1>0, <1>1, <1>2, <1>4, <1>5 DEF Preserved, DownIsIdle, loopVars, workerVars, processVars

\* The process dies or exits, and starts again (commands.py:298-377).
LEMMA ProcessStepPreserves ==
  ASSUME LoopInv,
         Kill \/ Exit \/ (\E old \in SUBSET Attempts : Boot(old)) \/ UNCHANGED vars
  PROVE  Preserved
<1>0. jobs \in [Attempts -> Row] /\ LoopTypeOK /\ DownIsIdle
  BY DEF LoopInv, Inv, StoreTypeOK
<1>1. CASE Kill \/ Exit
  <2>1. /\ WorkersGone
        /\ space' \in [Attempts -> Workers \cup {NULL}]
        /\ restarts' \in 0 .. MaxRestarts
    BY <1>0, <1>1, FaultsAssumption DEF Kill, Exit, LoopTypeOK
  <2>2. LoopTypeOK'
    BY <1>0, <2>1 DEF WorkersGone, NoLease, LoopTypeOK, Phases, Results
  <2>3. \A b \in Attempts : ~Pruned(b)
    BY <2>1 DEF WorkersGone, storeVars, Pruned, NoRow
  <2>4. ASSUME NEW b \in Attempts PROVE Orderly(b)
    BY <2>1, <2>3 DEF WorkersGone, storeVars, Orderly
  <2>5. \A v \in Workers : pc'[v] = "idle" /\ WorkerChange(v)
    BY <2>1 DEF WorkersGone, WorkerChange, Vanishes
  <2> QED BY <2>2, <2>4, <2>5 DEF Preserved
<1>2. ASSUME NEW old \in SUBSET Attempts, Boot(old) PROVE Preserved
  <2>1. LoopTypeOK'
    BY <1>0, <1>2 DEF Boot, workerVars, LoopTypeOK
  <2>2. \A b \in Attempts : /\ b \in old => jobs'[b].state = "ABSENT" /\ published'[b] = {}
                            /\ b \notin old => jobs'[b] = jobs[b] /\ published'[b] = published[b]
    BY <1>2 DEF Boot, StartStore, NoRow
  <2>3. ASSUME NEW b \in Attempts PROVE Orderly(b)
    <3>1. Pruned(b) => b \in old
      BY <2>2 DEF Pruned, NoRow
    <3> QED BY <1>2, <2>2, <3>1 DEF Boot, StartStore, Orderly
  <2>4. LoopFree
    BY <1>0, <1>2 DEF Boot, DownIsIdle, LoopFree
  <2>5. \A v \in Workers : WorkerChange(v)
    BY <1>2, <2>4, OthersStay DEF Boot, workerVars
  <2> QED BY <1>2, <2>1, <2>3, <2>5 DEF Preserved, Boot
<1>3. CASE UNCHANGED vars
  <2>1. UNCHANGED <<jobs, issued, proc, pc, held, result, cancelSeen, space, published, uploads,
                    draining, stranded, expiries, restarts>>
    BY <1>3 DEF vars, storeVars, loopVars, workerVars, effectVars, processVars
  <2>2. LoopTypeOK'
    BY <1>0, <2>1 DEF LoopTypeOK
  <2>3. \A b \in Attempts : ~Pruned(b)
    BY <2>1 DEF Pruned, NoRow
  <2>4. ASSUME NEW b \in Attempts PROVE Orderly(b)
    <3>1. (jobs[b].state \in Active /\ b \notin stranded) => proc # "down"
      BY <1>0 DEF LoopInv, NoAbandonedLease, HeldLive, DownIsIdle
    <3> QED BY <2>1, <2>3, <3>1 DEF Orderly
  <2>5. ASSUME NEW v \in Workers PROVE WorkerChange(v)
    BY <2>1 DEF LoopInv, WorkerOK, WorkerChange, Stays
  <2> QED BY <1>0, <2>1, <2>2, <2>4, <2>5 DEF Preserved, DownIsIdle
<1> QED BY <1>1, <1>2, <1>3

-----------------------------------------------------------------------------
\* An empty queue with idle workers satisfies the invariant.
LEMMA LoopInvInit == Init => LoopInv
<1> SUFFICES ASSUME Init PROVE LoopInv
  OBVIOUS
<1>1. Inv
  BY InvInit DEF Init
<1>2. LoopTypeOK
  <2>1. expiries \in 0 .. MaxExpiries /\ restarts \in 0 .. MaxRestarts
    BY FaultsAssumption DEF Init
  <2>2. NoLease \in [attempt: Attempts \cup {NULL}, token: Nat, url: BOOLEAN]
    BY DEF NoLease
  <2>3. /\ held \in [Workers -> [attempt: Attempts \cup {NULL}, token: Nat, url: BOOLEAN]]
        /\ cancelSeen \in [Workers -> BOOLEAN] /\ draining \in BOOLEAN
    BY <2>2 DEF Init
  <2> QED BY <2>1, <2>3 DEF Init, LoopTypeOK, Phases, Results
<1>3. (\A w \in Workers : WorkerOK(w)) /\ TokensDiffer /\ DownIsIdle
  BY DEF Init, WorkerOK, TokensDiffer, DownIsIdle
<1>4. NoAbandonedLease /\ SuccessHasArtifact /\ PublishedSuccessIsDurable
  BY DEF Init, StoreInit, NoRow, NoAbandonedLease, SuccessHasArtifact, PublishedSuccessIsDurable
<1> QED BY <1>1, <1>2, <1>3, <1>4 DEF LoopInv

\* Every step of the pool, its backend, its clock and its process is orderly.
LEMMA LoopStepIsOrderly ==
  ASSUME LoopInv, [Next]_vars
  PROVE  Preserved
<1>1. ASSUME NEW w \in Workers, WorkerStep(w) PROVE Preserved
  <2>1. CASE Start(w)
    BY <2>1, StartPreserves
  <2>2. CASE Prepare(w) \/ Pull(w) \/ FinishBuild(w) \/ Package(w) \/ Upload(w)
    BY <2>2, PhaseStepPreserves
  <2>3. CASE CheckBuild(w)
    <3> DEFINE verdict == IF result[w] = "ok" THEN EnsureCurrentAttempt(w) ELSE result[w]
    <3>1. pc[w] = "checking" /\ Running
      BY <2>3 DEF CheckBuild, At
    <3>2. CASE verdict # "ok" /\ Fail(w, verdict)
      <4>1. verdict \in Failures BY <3>1, <3>2, VerdictType
      <4> QED BY <3>1, <3>2, <4>1, FailPreserves
    <3>3. CASE /\ result' = [result EXCEPT ![w] = "none"]
               /\ GoTo(w, "packaging")
               /\ UNCHANGED <<cancelSeen, effectVars>>
      <4>1. LoopTypeOK'
        BY <3>3 DEF GoTo, LoopInv, LoopTypeOK, Phases, Executing, Results, effectVars, processVars
      <4>2. \A b \in Attempts : Orderly(b)
        BY <3>1, <3>3, PlainStepIsOrderly DEF GoTo, storeVars, effectVars, processVars, Running
      <4>3. ASSUME NEW v \in Workers PROVE WorkerChange(v)
        <5>1. CASE v = w
          BY <3>1, <3>3, <5>1 DEF GoTo, WorkerChange, Moves, LoopInv, LoopTypeOK
        <5>2. CASE v # w
          BY <3>1, <3>3, <5>2, OthersStay DEF GoTo, Running, LoopInv, LoopTypeOK
        <5> QED BY <5>1, <5>2
      <4> QED BY <3>1, <3>3, <4>1, <4>2, <4>3 DEF Preserved, GoTo, processVars, Running
    <3> QED BY <2>3, <3>2, <3>3 DEF CheckBuild
  <2>4. CASE Commit(w)
    BY <2>4, CommitPreserves
  <2>5. CASE Acknowledge(w) \/ Report(w)
    BY <2>5, FarewellPreserves
  <2>6. CASE PhaseFails(w)
    <3>1. pc[w] # "idle" /\ Running /\ Fail(w, "FAILED")
      BY <2>6 DEF PhaseFails, PrepareFails, PullFails, BuildRefused, PackageFails,
                  UploadFails, At
    <3> QED BY <3>1, FailPreserves DEF Failures
  <2>7. CASE PhaseCrashes(w)
    <3>1. pc[w] # "idle" /\ Running /\ Crash(w)
      BY <2>7 DEF PhaseCrashes, At, Executing
    <3> QED BY <3>1, CrashPreserves
  <2> QED BY <1>1, <2>1, <2>2, <2>3, <2>4, <2>5, <2>6, <2>7 DEF WorkerStep
<1> QED
  BY <1>1, AcquirePreserves, OutsideStepPreserves, ExpiryPreserves, ProcessStepPreserves DEF Next

\* So it preserves the invariant.
LEMMA LoopInvNext == LoopInv /\ [Next]_vars => LoopInv'
<1> SUFFICES ASSUME LoopInv, [Next]_vars PROVE LoopInv'
  OBVIOUS
<1>1. [StoreNext]_storeVars
  BY LoopStepIsStoreStep
<1>2. Inv'
  BY <1>1, InvNext DEF LoopInv
<1>3. \A a \in Attempts : RowStep(a)
  BY <1>1, EveryCallIsRowSteps DEF LoopInv, Inv
<1>4. Preserved
  BY LoopStepIsOrderly
<1> QED BY <1>2, <1>3, <1>4, OrderlyStepsPreserve DEF Preserved

\* The worker pool uses the queue only through its methods and with leases it
\* was given, however many leases it loses and however often it is restarted
\* (job_loop.py, handlers.py over store.py).
THEOREM PoolImplementsStore == Spec => LoopImplementsStore
<1>1. Init => LoopInv BY LoopInvInit
<1>2. LoopInv /\ [Next]_vars => LoopInv' BY LoopInvNext
<1>3. Init => StoreInit BY DEF Init
<1>4. LoopInv /\ [Next]_vars => [StoreNext]_storeVars BY LoopStepIsStoreStep
<1> QED BY <1>1, <1>2, <1>3, <1>4, PTL DEF Spec, LoopImplementsStore, StoreSpec

\* Two workers on the same attempt always have different tokens, and a worker
\* that has just leased an attempt can start it (job_loop.py:139-156).
THEOREM LeasesStayDistinct == Spec => []LeasesAreDistinct
<1>1. Init => LoopInv BY LoopInvInit
<1>2. LoopInv /\ [Next]_vars => LoopInv' BY LoopInvNext
<1>3. LoopInv => LeasesAreDistinct
  <2> SUFFICES ASSUME LoopInv PROVE LeasesAreDistinct
    OBVIOUS
  <2>1. ASSUME NEW w \in Workers, pc[w] = "leased"
        PROVE  CanTransition(AttemptOf(w), "RUNNING", "LEASED", w, TokenOf(w))
    BY <2>1 DEF LoopInv, WorkerOK, CanTransition, Owned, LegalPreviousStates
  <2> QED BY <2>1 DEF LoopInv, TokensDiffer, LeasesAreDistinct
<1> QED BY <1>1, <1>2, <1>3, PTL DEF Spec

\* A SUCCEEDED attempt has the artifact that was uploaded under its last lease:
\* a worker that lost its lease cannot commit (job_loop.py:409-436).
THEOREM SuccessComesWithArtifact == Spec => []SuccessHasArtifact
<1>1. Init => LoopInv BY LoopInvInit
<1>2. LoopInv /\ [Next]_vars => LoopInv' BY LoopInvNext
<1>3. LoopInv => SuccessHasArtifact BY DEF LoopInv
<1> QED BY <1>1, <1>2, <1>3, PTL DEF Spec

\* Success that was published is in the row, for ever or until the row and its
\* events are pruned (job_loop.py:430-438).
THEOREM PublishedSuccessStaysDurable == Spec => []PublishedSuccessIsDurable
<1>1. Init => LoopInv BY LoopInvInit
<1>2. LoopInv /\ [Next]_vars => LoopInv' BY LoopInvNext
<1>3. LoopInv => PublishedSuccessIsDurable BY DEF LoopInv
<1> QED BY <1>1, <1>2, <1>3, PTL DEF Spec

\* No worker goes on to another attempt and leaves a lease behind, whatever way
\* execute_job ends (job_loop.py:157-232).
THEOREM NoLeaseIsAbandoned == Spec => []NoAbandonedLease
<1>1. Init => LoopInv BY LoopInvInit
<1>2. LoopInv /\ [Next]_vars => LoopInv' BY LoopInvNext
<1>3. LoopInv => NoAbandonedLease BY DEF LoopInv
<1> QED BY <1>1, <1>2, <1>3, PTL DEF Spec

\* The variables of the pool keep their types, in particular the workers their
\* phases and the lease they act on (job_loop.py:117-232).
THEOREM PoolTypesHold == Spec => []LoopTypeOK
<1>1. Init => LoopInv BY LoopInvInit
<1>2. LoopInv /\ [Next]_vars => LoopInv' BY LoopInvNext
<1>3. LoopInv => LoopTypeOK BY DEF LoopInv
<1> QED BY <1>1, <1>2, <1>3, PTL DEF Spec

\* So what the queue promises holds for the engine: an attempt that is terminal
\* is never run again, through lost leases, crashes and restarts
\* (docs/design.md:43).
THEOREM CompletedAttemptsAreNotRerun == Spec => TerminalIsFinal
BY PoolImplementsStore, TerminalAttemptsAreFinal, PTL DEF LoopImplementsStore

-----------------------------------------------------------------------------
(* While no lease runs out under a worker that is alive.                   *)
(*                                                                         *)
(* Then a worker keeps the row it leased until it gives it back itself: no *)
(* other worker acts on the attempt, the workspace is its own, and what it *)
(* reports is what it has written.  This holds through kills and restarts. *)

Busy(w) == pc[w] \in {"leased"} \cup Executing

CalmWorker(w) ==
  /\ (Busy(w) /\ pc[w] # "committed") =>
       /\ jobs[AttemptOf(w)].token = TokenOf(w)
       /\ jobs[AttemptOf(w)].expires = "live"
       /\ pc[w] # "leased" => jobs[AttemptOf(w)].state = "RUNNING"
  /\ pc[w] \in Executing => space[AttemptOf(w)] = w
  /\ (pc[w] = "reporting" /\ result[w] # "none") => jobs[AttemptOf(w)].state = result[w]

OneWorkerEach ==
  \A v, w \in Workers : (v # w /\ Busy(v) /\ Busy(w)) => AttemptOf(v) # AttemptOf(w)

Calm == OneWorkerEach /\ \A w \in Workers : CalmWorker(w)

\* The attempts of busy workers and of workers with an outcome to report are neither
\* up for a lease nor unknown.
LEMMA CalmFacts ==
  ASSUME LoopInv, Calm, NEW w \in Workers
  PROVE  /\ Busy(w) =>
              /\ AttemptOf(w) \in Attempts /\ TokenOf(w) \in Nat /\ TokenOf(w) > 0
              /\ ~Leasable(AttemptOf(w)) /\ jobs[AttemptOf(w)].state # "ABSENT"
         /\ (Busy(w) /\ pc[w] # "committed") =>
              /\ jobs[AttemptOf(w)].state \in Active
              /\ Owned(AttemptOf(w), w, TokenOf(w)) /\ HeldLive(AttemptOf(w))
         /\ (pc[w] = "reporting" /\ result[w] # "none") =>
              /\ AttemptOf(w) \in Attempts
              /\ jobs[AttemptOf(w)].state \in Terminal /\ ~Leasable(AttemptOf(w))
<1>1. Busy(w) => pc[w] # "idle"
  BY DEF Busy, Executing
<1>2. pc[w] = "leased" => jobs[AttemptOf(w)].state = "LEASED"
  BY DEF LoopInv, WorkerOK
<1>3. CASE Busy(w) /\ pc[w] # "committed"
  <2>1. jobs[AttemptOf(w)].state \in Active
    BY <1>2, <1>3 DEF Calm, CalmWorker
  <2>2. /\ jobs[AttemptOf(w)].expires = "live" /\ jobs[AttemptOf(w)].token = TokenOf(w)
        /\ jobs[AttemptOf(w)].owner = w
    BY <1>1, <1>3, PoolFacts DEF Calm, CalmWorker
  <2>. QED  BY <1>1, <1>3, <2>1, <2>2, PoolFacts DEF Leasable, Owned, HeldLive, Busy, Executing
<1>4. CASE pc[w] = "committed"
  <2>1. jobs[AttemptOf(w)].state = "SUCCEEDED"
    BY <1>4 DEF LoopInv, WorkerOK
  <2>. QED  BY <1>4, <2>1, PoolFacts DEF Leasable, Busy, Executing
<1>5. CASE pc[w] = "reporting" /\ result[w] # "none"
  <2>1. result[w] \in Failures /\ AttemptOf(w) \in Attempts
    BY <1>5 DEF LoopInv, WorkerOK
  <2>2. jobs[AttemptOf(w)].state = result[w]
    BY <1>5 DEF Calm, CalmWorker
  <2>. QED  BY <1>5, <2>1, <2>2 DEF Leasable, Busy, Executing, Failures
<1>. QED  BY <1>3, <1>4, <1>5 DEF Busy

\* A row that a step may change although a worker is on it: unknown, or up for a lease,
\* or changed in nothing that concerns a worker that is alive.
LooseRow(b) ==
  \/ jobs[b].state = "ABSENT" \/ Leasable(b)
  \/ /\ jobs'[b].state = jobs[b].state /\ jobs'[b].token = jobs[b].token
     /\ jobs'[b].expires \in {jobs[b].expires, "live"} \/ ~HeldLive(b)

\* A worker that a step does not touch stays calm.
LEMMA UntouchedStaysCalm ==
  ASSUME LoopInv, Calm, NEW v \in Workers,
         pc'[v] = pc[v], held'[v] = held[v], result'[v] = result[v],
         AttemptOf(v) \in Attempts => LooseRow(AttemptOf(v)),
         pc[v] \in Executing => space'[AttemptOf(v)] = space[AttemptOf(v)]
  PROVE  CalmWorker(v)'
<1>. DEFINE a == AttemptOf(v)
<1>1. AttemptOf(v)' = a /\ TokenOf(v)' = TokenOf(v) /\ Busy(v)' = Busy(v)
  BY DEF AttemptOf, TokenOf, Busy
<1>2. CASE Busy(v) /\ pc[v] # "committed"
  <2>1. /\ a \in Attempts /\ ~Leasable(a) /\ jobs[a].state # "ABSENT" /\ HeldLive(a)
        /\ CalmWorker(v)
    BY <1>2, CalmFacts DEF Calm
  <2>2. /\ jobs'[a].state = jobs[a].state /\ jobs'[a].token = jobs[a].token
        /\ jobs'[a].expires = "live"
    BY <1>2, <2>1 DEF LooseRow, CalmWorker
  <2>. QED  BY <1>1, <1>2, <2>1, <2>2 DEF CalmWorker, Busy, Executing
<1>3. CASE pc[v] = "committed"
  BY <1>1, <1>3 DEF Calm, CalmWorker, Executing
<1>4. CASE pc[v] = "reporting" /\ result[v] # "none"
  <2>1. a \in Attempts /\ jobs[a].state \in Terminal /\ ~Leasable(a) /\ CalmWorker(v)
    BY <1>4, CalmFacts DEF Calm
  <2>2. jobs'[a].state = jobs[a].state
    BY <2>1 DEF LooseRow
  <2>. QED  BY <1>1, <1>4, <2>1, <2>2 DEF CalmWorker, Busy, Executing
<1>5. CASE ~Busy(v) /\ ~(pc[v] = "reporting" /\ result[v] # "none")
  BY <1>1, <1>5 DEF CalmWorker, Busy
<1>. QED  BY <1>2, <1>3, <1>4, <1>5

\* A step that touches no worker keeps the pool calm.
LEMMA OutsideStepIsCalm ==
  ASSUME LoopInv, Calm, UNCHANGED <<pc, held, result, space>>,
         \A b \in Attempts : LooseRow(b)
  PROVE  Calm'
<1>1. \A v \in Workers : CalmWorker(v)'
  BY UntouchedStaysCalm
<1>2. OneWorkerEach'
  BY DEF Calm, OneWorkerEach, Busy, AttemptOf
<1>. QED  BY <1>1, <1>2 DEF Calm

\* A step of a busy worker keeps the pool calm if it touches only its own attempt, and
\* that only while the attempt is not terminal.
LEMMA BusyStepIsCalm ==
  ASSUME LoopInv, Calm, NEW w \in Workers, Busy(w),
         \A v \in Workers \ {w} : pc'[v] = pc[v] /\ held'[v] = held[v] /\ result'[v] = result[v],
         \A b \in Attempts \ {AttemptOf(w)} : jobs'[b] = jobs[b] /\ space'[b] = space[b],
         jobs'[AttemptOf(w)] = jobs[AttemptOf(w)] \/ jobs[AttemptOf(w)].state \notin Terminal,
         held'[w] = held[w] \/ pc'[w] = "idle",
         CalmWorker(w)'
  PROVE  Calm'
<1>1. ASSUME NEW v \in Workers, v # w PROVE CalmWorker(v)'
  <2>1. CASE AttemptOf(v) \in Attempts /\ AttemptOf(v) # AttemptOf(w)
    <3>1. LooseRow(AttemptOf(v)) /\ space'[AttemptOf(v)] = space[AttemptOf(v)]
      BY <2>1 DEF LooseRow
    <3>. QED  BY <1>1, <3>1, UntouchedStaysCalm
  <2>2. CASE AttemptOf(v) = AttemptOf(w)
    <3>1. ~Busy(v)
      BY <1>1, <2>2 DEF Calm, OneWorkerEach
    <3>2. CASE pc[v] = "reporting" /\ result[v] # "none"
      <4>1. jobs'[AttemptOf(v)] = jobs[AttemptOf(v)]
        BY <2>2, <3>2, CalmFacts
      <4>. QED  BY <1>1, <3>1, <4>1, UntouchedStaysCalm DEF LooseRow, Busy
    <3>3. CASE ~(pc[v] = "reporting" /\ result[v] # "none")
      BY <1>1, <3>1, <3>3 DEF CalmWorker, Busy
    <3>. QED  BY <3>2, <3>3
  <2>3. CASE AttemptOf(v) \notin Attempts
    <3>1. ~Busy(v)
      BY <2>3, CalmFacts
    <3>. QED  BY <1>1, <2>3, <3>1, UntouchedStaysCalm DEF Busy
  <2>. QED  BY <2>1, <2>2, <2>3
<1>2. OneWorkerEach'
  <2>. SUFFICES ASSUME NEW x \in Workers, NEW y \in Workers, x # y, Busy(x)', Busy(y)'
                PROVE  held'[x].attempt # held'[y].attempt
    BY DEF OneWorkerEach, AttemptOf
  <2>1. \A v \in {x, y} : Busy(v) /\ held'[v] = held[v]
    BY DEF Busy, Executing
  <2>. QED  BY <2>1 DEF Calm, OneWorkerEach, AttemptOf
<1>. QED  BY <1>1, <1>2 DEF Calm

\* What the steps of a worker start from: the shape of the variables.
LEMMA CalmTypes ==
  ASSUME LoopInv
  PROVE  /\ jobs \in [Attempts -> Row]
         /\ DOMAIN pc = Workers /\ DOMAIN held = Workers /\ DOMAIN result = Workers
         /\ DOMAIN space = Attempts
  BY DEF LoopInv, Inv, StoreTypeOK, LoopTypeOK

\* A BuildExecutionError: the outcome is written, and is what will be reported
\* (job_loop.py:167-195).
LEMMA FailIsCalm ==
  ASSUME LoopInv, Calm, NEW w \in Workers, pc[w] \in Executing \ {"committed"},
         NEW o \in Failures, Fail(w, o)
  PROVE  Calm'
<1>. DEFINE a == AttemptOf(w)
<1>1. /\ Busy(w) /\ a \in Attempts /\ jobs[a].state = "RUNNING"
      /\ Owned(a, w, TokenOf(w)) /\ jobs[a] \in Row
  BY CalmFacts, CalmTypes DEF Busy, Calm, CalmWorker, Executing
<1>2. CanTransition(a, o, jobs[a].state, w, TokenOf(w))
  BY <1>1 DEF CanTransition, LegalPreviousStates, Failures
<1>3. Transition(a, o, jobs[a].state, w, TokenOf(w)) /\ RemoveWorkspace(w)
  BY <1>2 DEF Fail
<1>4. jobs' = [jobs EXCEPT ![a] = Closed(@, o)]
  BY <1>3 DEF Transition, Failures
<1>5. /\ jobs'[a].state = o
      /\ \A b \in Attempts \ {a} : jobs'[b] = jobs[b] /\ space'[b] = space[b]
  BY <1>1, <1>3, <1>4, CalmTypes, ClosedColumns DEF RemoveWorkspace
<1>6. /\ pc'[w] = "reporting" /\ result'[w] = o /\ held' = held
      /\ \A v \in Workers \ {w} : pc'[v] = pc[v] /\ result'[v] = result[v]
  BY CalmTypes DEF Fail
<1>7. CalmWorker(w)'
  <2>1. AttemptOf(w)' = a /\ ~Busy(w)'
    BY <1>6 DEF AttemptOf, Busy, Executing
  <2>. QED  BY <1>5, <1>6, <2>1 DEF CalmWorker, Busy
<1>. QED  BY <1>1, <1>5, <1>6, <1>7, BusyStepIsCalm

\* A crash: FAILED is reported only when the row says so (job_loop.py:196-226).
LEMMA CrashIsCalm ==
  ASSUME LoopInv, Calm, NEW w \in Workers, pc[w] \in Executing, Crash(w)
  PROVE  Calm'
<1>. DEFINE a == AttemptOf(w)
<1>1. Busy(w) /\ a \in Attempts /\ jobs[a] \in Row
  BY CalmFacts, CalmTypes DEF Busy
<1>2. \A b \in Attempts \ {a} : space'[b] = space[b]
  BY CalmTypes DEF Crash, RemoveWorkspace
<1>3. CASE jobs[a].state \in Terminal
  <2>1. Release(w) /\ UNCHANGED storeVars
    BY <1>3 DEF Crash
  <2>2. /\ pc'[w] = "idle" /\ jobs' = jobs
        /\ \A v \in Workers \ {w} : pc'[v] = pc[v] /\ held'[v] = held[v] /\ result'[v] = result[v]
    BY <2>1, CalmTypes DEF Release, storeVars
  <2>3. CalmWorker(w)'
    BY <2>2 DEF CalmWorker, Busy, Executing
  <2>. QED  BY <1>1, <1>2, <2>2, <2>3, BusyStepIsCalm
<1>4. CASE jobs[a].state \notin Terminal
  <2>1. pc[w] # "committed"
    BY <1>4 DEF LoopInv, WorkerOK
  <2>2. CanRecordCrash(a, w, TokenOf(w))
    BY <1>1, <2>1, CalmFacts DEF CanRecordCrash
  <2>3. /\ RecordExecutorCrash(a, w, TokenOf(w))
        /\ result' = [result EXCEPT ![w] = IF CrashesExhausted(a) THEN "FAILED" ELSE "none"]
        /\ pc' = [pc EXCEPT ![w] = "reporting"] /\ held' = held
    BY <1>4, <2>2 DEF Crash
  <2>4. jobs' = [jobs EXCEPT ![a] = Closed(@, IF CrashesExhausted(a) THEN "FAILED" ELSE "QUEUED")]
    BY <2>3 DEF RecordExecutorCrash
  <2>5. /\ jobs'[a].state = IF CrashesExhausted(a) THEN "FAILED" ELSE "QUEUED"
        /\ \A b \in Attempts \ {a} : jobs'[b] = jobs[b]
    BY <1>1, <2>4, CalmTypes, ClosedColumns
  <2>6. /\ pc'[w] = "reporting"
        /\ result'[w] = IF CrashesExhausted(a) THEN "FAILED" ELSE "none"
        /\ \A v \in Workers \ {w} : pc'[v] = pc[v] /\ result'[v] = result[v]
    BY <2>3, CalmTypes
  <2>7. CalmWorker(w)'
    <3>1. AttemptOf(w)' = a /\ ~Busy(w)'
      BY <2>3, <2>6 DEF AttemptOf, Busy, Executing
    <3>. QED  BY <2>5, <2>6, <3>1 DEF CalmWorker, Busy
  <2>. QED  BY <1>1, <1>2, <1>4, <2>3, <2>5, <2>6, <2>7, BusyStepIsCalm
<1>. QED  BY <1>3, <1>4

\* A worker goes on to the next phase, in its own workspace and under its lease.
LEMMA GoOnIsCalm ==
  ASSUME LoopInv, Calm, NEW w \in Workers, pc[w] \in Executing \ {"committed"},
         NEW phase \in Executing \ {"committed"}, GoTo(w, phase), space' = space,
         \A v \in Workers \ {w} : result'[v] = result[v]
  PROVE  Calm'
<1>1. /\ jobs' = jobs /\ held' = held /\ pc'[w] = phase
      /\ \A v \in Workers \ {w} : pc'[v] = pc[v]
  BY CalmTypes DEF GoTo, storeVars
<1>2. Busy(w) /\ CalmWorker(w) /\ AttemptOf(w) \in Attempts
  BY CalmFacts DEF Busy, Calm
<1>3. CalmWorker(w)'
  BY <1>1, <1>2 DEF CalmWorker, Busy, AttemptOf, TokenOf, Executing
<1>. QED  BY <1>1, <1>2, <1>3, BusyStepIsCalm

\* LEASED to RUNNING, with a workspace of its own (job_loop.py:141-157).
LEMMA StartIsCalm ==
  ASSUME LoopInv, Calm, NEW w \in Workers, Start(w)
  PROVE  Calm'
<1>. DEFINE a == AttemptOf(w)
<1>1. /\ Busy(w) /\ a \in Attempts /\ CalmWorker(w) /\ jobs[a] \in Row /\ pc[w] = "leased"
      /\ jobs[a].state = "LEASED"
  BY CalmFacts, CalmTypes DEF Busy, Calm, Start, LoopInv, WorkerOK
<1>2. /\ jobs' = [jobs EXCEPT ![a] = [@ EXCEPT !.state = "RUNNING"]]
      /\ pc' = [pc EXCEPT ![w] = "preparing"] /\ space' = [space EXCEPT ![a] = w]
      /\ held' = held /\ result' = result
  BY DEF Start, Transition, CreateWorkspace
<1>3. /\ jobs'[a].state = "RUNNING" /\ jobs'[a].token = jobs[a].token
      /\ jobs'[a].expires = jobs[a].expires /\ space'[a] = w
      /\ \A b \in Attempts \ {a} : jobs'[b] = jobs[b] /\ space'[b] = space[b]
  BY <1>1, <1>2, CalmTypes DEF Row
<1>4. pc'[w] = "preparing" /\ \A v \in Workers \ {w} : pc'[v] = pc[v]
  BY <1>2, CalmTypes
<1>5. AttemptOf(w)' = a /\ TokenOf(w)' = TokenOf(w)
  BY <1>2 DEF AttemptOf, TokenOf
<1>6. CalmWorker(w)'
  BY <1>1, <1>3, <1>4, <1>5 DEF CalmWorker, Busy, Executing
<1>. QED  BY <1>1, <1>2, <1>3, <1>4, <1>6, BusyStepIsCalm

\* The commit of SUCCEEDED is not refused (job_loop.py:409-436).
LEMMA CommitIsCalm ==
  ASSUME LoopInv, Calm, NEW w \in Workers, Commit(w)
  PROVE  Calm'
<1>. DEFINE a == AttemptOf(w)
<1>1. /\ Busy(w) /\ a \in Attempts /\ CalmWorker(w) /\ jobs[a] \in Row
      /\ pc[w] = "uploaded" /\ jobs[a].state = "RUNNING" /\ Owned(a, w, TokenOf(w))
  BY CalmFacts, CalmTypes DEF Busy, Calm, CalmWorker, Commit, At, Executing
<1>2. CanTransition(a, "SUCCEEDED", "RUNNING", w, TokenOf(w))
  BY <1>1 DEF CanTransition, LegalPreviousStates
<1>3. /\ Transition(a, "SUCCEEDED", "RUNNING", w, TokenOf(w))
      /\ pc' = [pc EXCEPT ![w] = "committed"] /\ UNCHANGED <<held, result, space>>
  BY <1>2 DEF Commit, effectVars
<1>4. \A b \in Attempts \ {a} : jobs'[b] = jobs[b]
  BY <1>3 DEF Transition
<1>5. pc'[w] = "committed" /\ \A v \in Workers \ {w} : pc'[v] = pc[v]
  BY <1>3, CalmTypes
<1>6. CalmWorker(w)'
  BY <1>1, <1>3, <1>5 DEF CalmWorker, Busy, AttemptOf, TokenOf, Executing
<1>. QED  BY <1>1, <1>3, <1>4, <1>5, <1>6, BusyStepIsCalm

\* A worker that has reported becomes idle; with _ack(SUCCEEDED) its workspace goes.
LEMMA FarewellIsCalm ==
  ASSUME LoopInv, Calm, NEW w \in Workers, Acknowledge(w) \/ Report(w)
  PROVE  Calm'
<1>1. /\ jobs' = jobs /\ pc'[w] = "idle"
      /\ \A v \in Workers \ {w} : pc'[v] = pc[v] /\ held'[v] = held[v] /\ result'[v] = result[v]
  BY CalmTypes DEF Acknowledge, Report, Release, storeVars
<1>2. CalmWorker(w)'
  BY <1>1 DEF CalmWorker, Busy, Executing
<1>3. CASE Acknowledge(w)
  <2>1. Busy(w) /\ \A b \in Attempts \ {AttemptOf(w)} : space'[b] = space[b]
    BY <1>3, CalmTypes DEF Acknowledge, At, Busy, Executing, RemoveWorkspace
  <2>. QED  BY <1>1, <1>2, <2>1, BusyStepIsCalm
<1>4. CASE Report(w)
  <2>1. space' = space
    BY <1>4 DEF Report
  <2>2. \A b \in Attempts : LooseRow(b)
    BY <1>1 DEF LooseRow
  <2>3. ASSUME NEW v \in Workers, v # w PROVE CalmWorker(v)'
    BY <1>1, <2>1, <2>2, <2>3, UntouchedStaysCalm
  <2>4. OneWorkerEach'
    <3>. SUFFICES ASSUME NEW x \in Workers, NEW y \in Workers, x # y, Busy(x)', Busy(y)'
                  PROVE  held'[x].attempt # held'[y].attempt
      BY DEF OneWorkerEach, AttemptOf
    <3>1. \A v \in {x, y} : v # w /\ Busy(v) /\ held'[v] = held[v]
      BY <1>1 DEF Busy, Executing
    <3>. QED  BY <3>1 DEF Calm, OneWorkerEach, AttemptOf
  <2>. QED  BY <1>2, <2>3, <2>4 DEF Calm
<1>. QED  BY <1>3, <1>4

\* A lease is given only for an attempt that no worker is busy with (acquire_lease).
LEMMA AcquireIsCalm ==
  ASSUME LoopInv, Calm, NEW w \in Workers, NEW a \in Attempts, Acquire(w, a)
  PROVE  Calm'
<1>1. /\ pc[w] = "idle" /\ a \in Grantable
      /\ pc' = [pc EXCEPT ![w] = "leased"]
      /\ held' = [held EXCEPT ![w] = [attempt |-> a, token |-> jobs'[a].token,
                                      url |-> a \in transient]]
      /\ UNCHANGED <<result, space>>
      /\ jobs' = [b \in Attempts |->
                    IF b = a THEN Leased(jobs[a], w, issued[a] + 1)
                    ELSE IF b \in Withdrawn /\ Before(b, a)
                         THEN Closed(jobs[b], "CANCELLED") ELSE jobs[b]]
  BY DEF Acquire, AcquireLease, effectVars
<1>2. \A b \in Attempts : LooseRow(b)
  BY <1>1 DEF LooseRow, Grantable, Withdrawn
<1>3. jobs'[a].expires = "live"
  BY <1>1, CalmTypes DEF Leased, Row
<1>4. /\ pc'[w] = "leased" /\ held'[w].attempt = a /\ held'[w].token = jobs'[a].token
      /\ \A v \in Workers \ {w} : pc'[v] = pc[v] /\ held'[v] = held[v]
  BY <1>1, CalmTypes
<1>5. CalmWorker(w)'
  BY <1>3, <1>4 DEF CalmWorker, Busy, AttemptOf, TokenOf, Executing
<1>6. ASSUME NEW v \in Workers, v # w PROVE CalmWorker(v)'
  BY <1>1, <1>2, <1>4, <1>6, UntouchedStaysCalm
<1>7. ASSUME NEW v \in Workers, Busy(v) PROVE AttemptOf(v) # a
  BY <1>1, <1>7, CalmFacts DEF Grantable
<1>8. OneWorkerEach'
  <2>. SUFFICES ASSUME NEW x \in Workers, NEW y \in Workers, x # y, Busy(x)', Busy(y)'
                PROVE  held'[x].attempt # held'[y].attempt
    BY DEF OneWorkerEach, AttemptOf
  <2>1. \A v \in {x, y} : v # w => Busy(v) /\ held'[v] = held[v]
    BY <1>4 DEF Busy
  <2>. QED  BY <1>4, <1>7, <2>1 DEF Calm, OneWorkerEach, AttemptOf
<1>. QED  BY <1>5, <1>6, <1>8 DEF Calm

\* Every step keeps the pool calm, unless a lease runs out under a worker that is alive.
LEMMA StepIsCalm ==
  ASSUME LoopInv, Calm, [Next]_vars, ~\E a \in Attempts : ExpireHeld(a)
  PROVE  Calm'
<1>1. ASSUME NEW w \in Workers, WorkerStep(w) PROVE Calm'
  <2>1. CASE Start(w)
    BY <2>1, StartIsCalm
  <2>2. CASE Prepare(w) \/ Pull(w) \/ FinishBuild(w) \/ Package(w) \/ Upload(w)
    <3>1. /\ pc[w] \in Executing \ {"committed"} /\ space' = space
          /\ \A v \in Workers \ {w} : result'[v] = result[v]
          /\ \E phase \in Executing \ {"committed"} : GoTo(w, phase)
      BY <2>2, CalmTypes DEF Prepare, Pull, FinishBuild, Package, Upload, At, Executing, effectVars
    <3>. QED  BY <3>1, GoOnIsCalm
  <2>3. CASE CheckBuild(w)
    <3>. DEFINE verdict == IF result[w] = "ok" THEN EnsureCurrentAttempt(w) ELSE result[w]
    <3>1. pc[w] = "checking" /\ pc[w] \in Executing \ {"committed"}
      BY <2>3 DEF CheckBuild, At, Executing
    <3>2. CASE verdict # "ok" /\ Fail(w, verdict)
      <4>1. verdict \in Failures
        BY <3>1, <3>2, VerdictType
      <4>. QED  BY <3>1, <3>2, <4>1, FailIsCalm
    <3>3. CASE /\ result' = [result EXCEPT ![w] = "none"]
               /\ GoTo(w, "packaging")
               /\ UNCHANGED <<cancelSeen, effectVars>>
      <4>1. space' = space /\ \A v \in Workers \ {w} : result'[v] = result[v]
        BY <3>3, CalmTypes DEF effectVars
      <4>2. "packaging" \in Executing \ {"committed"}
        BY DEF Executing
      <4>. QED  BY <3>1, <3>3, <4>1, <4>2, GoOnIsCalm
    <3>. QED  BY <2>3, <3>2, <3>3 DEF CheckBuild
  <2>4. CASE Commit(w)
    BY <2>4, CommitIsCalm
  <2>5. CASE Acknowledge(w) \/ Report(w)
    BY <2>5, FarewellIsCalm
  <2>6. CASE PhaseFails(w)
    <3>1. pc[w] \in Executing \ {"committed"} /\ Fail(w, "FAILED")
      BY <2>6 DEF PhaseFails, PrepareFails, PullFails, BuildRefused, PackageFails, UploadFails,
                  At, Executing
    <3>. QED  BY <3>1, FailIsCalm DEF Failures
  <2>7. CASE PhaseCrashes(w)
    <3>1. pc[w] \in Executing /\ Crash(w)
      BY <2>7 DEF PhaseCrashes, At
    <3>. QED  BY <3>1, CrashIsCalm
  <2>. QED  BY <1>1, <2>1, <2>2, <2>3, <2>4, <2>5, <2>6, <2>7 DEF WorkerStep
<1>2. ASSUME NEW a \in Attempts, Assign(a) PROVE Calm'
  <2>1. \A b \in Attempts : jobs'[b] = jobs[b] \/ jobs[b].state = "ABSENT"
    <3>1. CASE Enqueue(a)
      BY <3>1, CalmTypes DEF Enqueue, Present
    <3>2. CASE UNCHANGED storeVars
      BY <3>2 DEF storeVars
    <3>. QED  BY <1>2, <3>1, <3>2 DEF Assign
  <2>. QED  BY <1>2, <2>1, OutsideStepIsCalm DEF LooseRow, Assign, workerVars
<1>3. ASSUME NEW targets \in CancelTargets, Cancel(targets) PROVE Calm'
  <2>1. \A b \in Attempts : LooseRow(b)
    BY <1>3, CalmTypes DEF Cancel, RequestCancel, LooseRow, Row
  <2>. QED  BY <1>3, <2>1, OutsideStepIsCalm DEF Cancel, loopVars, workerVars, effectVars
<1>4. CASE \/ \E on \in BOOLEAN : Drain(on)
           \/ \E w \in Workers : ObserveCancel(w)
           \/ Stop \/ UNCHANGED vars
  <2>1. UNCHANGED <<jobs, pc, held, result, space>>
    BY <1>4 DEF Drain, ObserveCancel, Stop, vars, storeVars, loopVars, workerVars, effectVars
  <2>. QED  BY <2>1, OutsideStepIsCalm DEF LooseRow
<1>5. ASSUME NEW w \in Workers, NEW a \in Attempts, Acquire(w, a) PROVE Calm'
  BY <1>5, AcquireIsCalm
<1>6. CASE Poll
  <2>1. \A b \in Attempts : LooseRow(b)
    BY <1>6 DEF Poll, AcquireNothing, Withdrawn, LooseRow
  <2>. QED  BY <1>6, <2>1, OutsideStepIsCalm DEF Poll, workerVars, effectVars
<1>7. ASSUME NEW w \in Workers, Refresh(w) PROVE Calm'
  <2>1. \A b \in Attempts : LooseRow(b)
    BY <1>7, CalmTypes DEF Refresh, RefreshLease, LooseRow, Row
  <2>. QED  BY <1>7, <2>1, OutsideStepIsCalm DEF Refresh, loopVars, workerVars, effectVars
<1>8. ASSUME NEW a \in Attempts, ExpireAbandoned(a) PROVE Calm'
  <2>1. \A b \in Attempts : LooseRow(b)
    BY <1>8, CalmTypes DEF ExpireAbandoned, LeaseExpires, LooseRow, Row
  <2>. QED  BY <1>8, <2>1, OutsideStepIsCalm DEF ExpireAbandoned, loopVars, workerVars, effectVars
<1>9. CASE Kill \/ Exit \/ \E old \in SUBSET Attempts : Boot(old)
  <2>1. \A w \in Workers : pc'[w] = "idle"
    BY <1>9 DEF Kill, Exit, WorkersGone, Boot, workerVars, LoopInv, DownIsIdle
  <2>. QED  BY <2>1 DEF Calm, OneWorkerEach, CalmWorker, Busy, Executing
<1>. QED  BY <1>1, <1>2, <1>3, <1>4, <1>5, <1>6, <1>7, <1>8, <1>9 DEF Next

\* The count of leases that ran out under a worker that is alive only grows.
LEMMA ExpiriesGrow ==
  ASSUME LoopInv, [Next]_vars, expiries' = 0
  PROVE  expiries = 0 /\ ~\E a \in Attempts : ExpireHeld(a)
<1>. USE DEF processVars, loopVars
<1>1. expiries \in Nat
  BY FaultsAssumption DEF LoopInv, LoopTypeOK
<1>2. ~\E a \in Attempts : ExpireHeld(a)
  BY <1>1 DEF ExpireHeld
<1>3. ASSUME NEW w \in Workers, WorkerStep(w) PROVE expiries' = expiries
  BY <1>3 DEF WorkerStep, Start, Prepare, Pull, FinishBuild, CheckBuild, Package, Upload, Commit,
              Acknowledge, PhaseFails, PrepareFails, PullFails, BuildRefused, PackageFails,
              UploadFails, PhaseCrashes, Report, GoTo, Fail, Crash
<1>4. expiries' = expiries
  BY <1>2, <1>3 DEF Next, vars, Assign, Cancel, Drain, Acquire, Poll, ObserveCancel, Refresh,
                    ExpireAbandoned, Kill, WorkersGone, Stop, Exit, Boot
<1>. QED  BY <1>2, <1>4

\* While no lease has run out under its worker, the pool is calm.
LEMMA CalmInit ==
  Init => Calm
  BY DEF Init, Calm, OneWorkerEach, CalmWorker, Busy, Executing

\* It stays so.
LEMMA CalmNext ==
  LoopInv /\ (expiries = 0 => Calm) /\ [Next]_vars => (expiries = 0 => Calm)'
<1>. SUFFICES ASSUME LoopInv, expiries = 0 => Calm, [Next]_vars, expiries' = 0
              PROVE  Calm'
  OBVIOUS
<1>. QED  BY ExpiriesGrow, StepIsCalm

\* As long as no lease ran out under its worker, a worker that executes an attempt has
\* the workspace to itself, through kills, restarts and drains, however many workers and
\* attempts there are (create_workspace, cleanup_workspace; job_loop.py:157-165).
THEOREM WorkspaceIsExclusive ==
  Spec => [](expiries = 0 => HolderHasWorkspace)
<1>1. Init => LoopInv /\ (expiries = 0 => Calm)
  BY LoopInvInit, CalmInit
<1>2. LoopInv /\ [Next]_vars => LoopInv'
  BY LoopInvNext
<1>3. LoopInv /\ (expiries = 0 => Calm) /\ [Next]_vars => (expiries = 0 => Calm)'
  BY CalmNext
<1>4. (expiries = 0 => Calm) => (expiries = 0 => HolderHasWorkspace)
  BY DEF Calm, CalmWorker, HolderHasWorkspace
<1>. QED  BY <1>1, <1>2, <1>3, <1>4, PTL DEF Spec

\* What a step may publish of the outcome of an attempt (OutcomesAreWrittenFirst).
Written(a) ==
  published'[a] \cap Terminal \subseteq
    published[a] \cup {jobs'[a].state} \cup (IF draining THEN {"FAILED"} ELSE {})

\* An outcome is published only when it is in the row, by the answer to an assignment, by
\* the report of a worker or by _ack(SUCCEEDED), or as the refusal of a draining engine.
LEMMA PublishesWhatIsWritten ==
  ASSUME LoopInv, Calm, [Next]_vars, NEW a \in Attempts
  PROVE  Written(a)
<1>. USE DEF effectVars, loopVars, Written
<1>0. published \in [Attempts -> SUBSET ({"ready"} \cup Terminal)]
  BY DEF LoopInv, LoopTypeOK
<1>1. CASE UNCHANGED published
  BY <1>1
<1>2. ASSUME NEW b \in Attempts, Assign(b)
      PROVE  \/ published' = published \/ Publish(b, jobs'[b].state)
             \/ draining /\ Publish(b, "FAILED")
  BY <1>2 DEF Assign
<1>3. ASSUME NEW w \in Workers, Report(w)
      PROVE  published' = published \/ (jobs' = jobs /\ Publish(AttemptOf(w), jobs[AttemptOf(w)].state))
  BY <1>3 DEF Report, storeVars, Calm, CalmWorker
<1>4. ASSUME NEW w \in Workers, Acknowledge(w)
      PROVE  jobs' = jobs /\ Publish(AttemptOf(w), jobs[AttemptOf(w)].state)
  BY <1>4 DEF Acknowledge, At, storeVars, LoopInv, WorkerOK
<1>5. ASSUME NEW w \in Workers, Package(w)
      PROVE  Publish(AttemptOf(w), "ready")
  BY <1>5 DEF Package
<1>6. ASSUME NEW old \in SUBSET Attempts, Boot(old)
      PROVE  published'[a] \subseteq published[a]
  BY <1>6 DEF Boot
<1>7. ASSUME NEW w \in Workers, WorkerStep(w), ~Report(w), ~Acknowledge(w), ~Package(w)
      PROVE  published' = published
  BY <1>7 DEF WorkerStep, Start, Prepare, Pull, FinishBuild, CheckBuild, Upload, Commit,
              PhaseFails, PrepareFails, PullFails, BuildRefused, PackageFails, UploadFails,
              PhaseCrashes, Fail, Crash
<1>8. ASSUME NEW b, NEW what, Publish(b, what)
      PROVE  published'[a] \subseteq published[a] \cup {what} /\ (b # a => published'[a] = published[a])
  BY <1>0, <1>8 DEF Publish
<1>9. ASSUME NEW w \in Workers, WorkerStep(w)
      PROVE  Written(a)
  <2>1. CASE Report(w)
    BY <1>1, <1>3, <1>8, <2>1
  <2>2. CASE Acknowledge(w)
    BY <1>4, <1>8, <2>2
  <2>3. CASE Package(w)
    BY <1>5, <1>8, <2>3
  <2>. QED  BY <1>1, <1>7, <1>9, <2>1, <2>2, <2>3
<1>10. ASSUME NEW b \in Attempts, Assign(b)
       PROVE  Written(a)
  BY <1>1, <1>2, <1>8, <1>10
<1>11. ASSUME \/ \E targets \in CancelTargets : Cancel(targets)
              \/ \E on \in BOOLEAN : Drain(on)
              \/ \E w \in Workers, b \in Attempts : Acquire(w, b)
              \/ Poll
              \/ \E w \in Workers : ObserveCancel(w) \/ Refresh(w)
              \/ \E b \in Attempts : ExpireAbandoned(b) \/ ExpireHeld(b)
              \/ Kill \/ Stop \/ Exit \/ UNCHANGED vars
       PROVE  published' = published
  BY <1>11 DEF Cancel, Drain, Acquire, Poll, ObserveCancel, Refresh, ExpireAbandoned, ExpireHeld,
               Kill, Stop, Exit, WorkersGone, vars
<1>. QED  BY <1>1, <1>6, <1>9, <1>10, <1>11 DEF Next

\* So an outcome that was published stays the outcome in the row.
LEMMA OutcomeStaysDurable ==
  ASSUME LoopInv, Calm, PublishedOutcomeIsDurable, ~draining, [Next]_vars
  PROVE  PublishedOutcomeIsDurable'
<1>. SUFFICES ASSUME NEW a \in Attempts PROVE published'[a] \cap Terminal \subseteq {jobs'[a].state}
  BY DEF PublishedOutcomeIsDurable
<1>1. published'[a] \cap Terminal \subseteq published[a] \cup {jobs'[a].state}
  BY PublishesWhatIsWritten DEF Written
<1>2. CASE published[a] \cap Terminal = {}
  BY <1>1, <1>2
<1>3. CASE published[a] \cap Terminal # {}
  <2>1. published[a] \cap Terminal = {jobs[a].state} /\ jobs[a].state \in Terminal
    BY <1>3 DEF PublishedOutcomeIsDurable
  <2>2. RowStep(a)
    BY LoopStepIsStoreStep, EveryCallIsRowSteps DEF LoopInv, Inv
  <2>3. Kept(a) \/ Pruned(a)
    BY <2>1, <2>2 DEF RowStep, Inserted, Granted, Grantable, Leasable, Adjusted, Requeued, Ended
  <2>4. Pruned(a) => published'[a] = {}
    BY LoopStepIsOrderly DEF Preserved, Orderly
  <2>. QED  BY <1>1, <2>1, <2>3, <2>4 DEF Kept
<1>. QED  BY <1>2, <1>3

\* If the engine is never drained, every outcome that was published is the one in the
\* row as long as no lease ran out under its worker, however often the process is killed
\* and whatever the workers, the executor and the backend do (_worker and _ack,
\* job_loop.py:157-230, 409-438; handlers.py).
THEOREM PublishedOutcomesAreDurable ==
  Spec /\ []~draining => [](expiries = 0 => PublishedOutcomeIsDurable)
<1>. DEFINE P == expiries = 0 => (Calm /\ PublishedOutcomeIsDurable)
<1>1. Init => LoopInv /\ P
  <2>1. Init => PublishedOutcomeIsDurable
    BY DEF Init, PublishedOutcomeIsDurable
  <2>. QED  BY <2>1, LoopInvInit, CalmInit
<1>2. LoopInv /\ [Next]_vars => LoopInv'
  BY LoopInvNext
<1>3. LoopInv /\ P /\ ~draining /\ [Next]_vars => P'
  <2>. SUFFICES ASSUME LoopInv, P, ~draining, [Next]_vars, expiries' = 0
                PROVE  Calm' /\ PublishedOutcomeIsDurable'
    OBVIOUS
  <2>1. expiries = 0 /\ ~\E a \in Attempts : ExpireHeld(a)
    BY ExpiriesGrow
  <2>. QED  BY <2>1, StepIsCalm, OutcomeStaysDurable
<1>4. P => (expiries = 0 => PublishedOutcomeIsDurable)
  OBVIOUS
<1>. HIDE DEF P
<1>. QED  BY <1>1, <1>2, <1>3, <1>4, PTL DEF Spec

\* However many workers, attempts, crashes, kills and drains there are: a step that
\* publishes a new outcome finds it in the row, as long as no lease ran out under its
\* worker; only the refusal of an assignment by a draining engine is published without
\* (_worker and _ack, job_loop.py:157-230, 409-438; handlers.py:33).
THEOREM OutcomesComeFromTheRow == Spec => OutcomesAreWrittenFirst
<1>1. Init => LoopInv /\ (expiries = 0 => Calm)
  BY LoopInvInit, CalmInit
<1>2. LoopInv /\ [Next]_vars => LoopInv'
  BY LoopInvNext
<1>3. LoopInv /\ (expiries = 0 => Calm) /\ [Next]_vars => (expiries = 0 => Calm)'
  BY CalmNext
<1>4. LoopInv /\ (expiries = 0 => Calm) /\ [Next]_vars =>
        [\A a \in Attempts :
           expiries' = 0 =>
             published'[a] \cap Terminal \subseteq
               published[a] \cup {jobs'[a].state}
                 \cup (IF draining THEN {"FAILED"} ELSE {})]_vars
  <2>. SUFFICES ASSUME LoopInv, expiries = 0 => Calm, [Next]_vars, expiries' = 0,
                       NEW a \in Attempts
                PROVE  Written(a)
    BY DEF Written
  <2>1. expiries = 0
    BY ExpiriesGrow
  <2>. QED  BY <2>1, PublishesWhatIsWritten
<1>. QED  BY <1>1, <1>2, <1>3, <1>4, PTL DEF Spec, OutcomesAreWrittenFirst

-----------------------------------------------------------------------------
(* Cancellation: what cancel_event stands for.                             *)

\* A worker whose cancel_event is set acts on a request that stands, unless its lease
\* is no longer the one in the row; a build that comes back as cancelled was told so.
Heard(v) ==
  /\ cancelSeen[v] =>
       /\ pc[v] \in Executing \cup {"reporting"}
       /\ jobs[AttemptOf(v)].token = TokenOf(v) => jobs[AttemptOf(v)].cancel
  /\ (pc[v] = "checking" /\ result[v] = "CANCELLED") => cancelSeen[v]

\* What a step does to a worker's cancel_event: it is off, it is as it was, or
\* _monitor_cancel has just set it.
EventOff(v) == ~cancelSeen'[v] /\ ~(pc'[v] = "checking" /\ result'[v] = "CANCELLED")

EventKept(v) ==
  /\ cancelSeen'[v] = cancelSeen[v] /\ held'[v] = held[v]
  /\ pc[v] \in Executing \cup {"reporting"} => pc'[v] \in Executing \cup {"reporting"}
  /\ (pc'[v] = "checking" /\ result'[v] = "CANCELLED") => cancelSeen[v]

EventSet(v) ==
  /\ pc[v] = "building" /\ pc'[v] = "building"
  /\ jobs' = jobs /\ held'[v] = held[v]
  /\ jobs[AttemptOf(v)].cancel \/ jobs[AttemptOf(v)].state = "CANCELLED"

\* While a worker's lease is in the row, a request that stands is not dropped.
LEMMA RequestStands ==
  ASSUME LoopInv, [Next]_vars, NEW v \in Workers, pc[v] # "idle",
         jobs'[AttemptOf(v)].token = TokenOf(v)
  PROVE  /\ jobs[AttemptOf(v)].token = TokenOf(v)
         /\ jobs[AttemptOf(v)].cancel => jobs'[AttemptOf(v)].cancel
<1>0. PICK a : a = AttemptOf(v)
  OBVIOUS
<1>1. /\ a \in Attempts /\ TokenOf(v) \in 1 .. issued[a]
      /\ jobs[a] \in Row /\ issued[a] \in Nat
  BY <1>0 DEF LoopInv, WorkerOK, Inv, StoreTypeOK
<1>2. RowStep(a)
  BY <1>1, LoopStepIsStoreStep, EveryCallIsRowSteps DEF LoopInv, Inv
<1>3. CASE Kept(a)
  BY <1>0, <1>3 DEF Kept
<1>4. CASE Adjusted(a)
  BY <1>0, <1>1, <1>4 DEF Adjusted, Row
<1>5. jobs'[a].token # 0 /\ jobs'[a].token # issued[a] + 1
  BY <1>0, <1>1
<1>6. ~Inserted(a) /\ ~Pruned(a)
  <2>1. ASSUME Inserted(a) PROVE jobs'[a].token = 0
    BY <2>1 DEF Inserted, NoRow
  <2>2. ASSUME Pruned(a) PROVE jobs'[a].token = 0
    BY <2>2 DEF Pruned, NoRow
  <2>. QED  BY <1>5, <2>1, <2>2
<1>7. ~Granted(a)
  <2>1. ASSUME Granted(a) PROVE jobs'[a].token = issued[a] + 1
    BY <1>1, <2>1 DEF Granted, Leased, Row
  <2>. QED  BY <1>5, <2>1
<1>8. ~Requeued(a) /\ ~Ended(a)
  <2>1. ASSUME Requeued(a) \/ Ended(a) PROVE jobs'[a].token = 0
    BY <1>1, <2>1 DEF Requeued, Ended, Closed, Row
  <2>. QED  BY <1>5, <2>1
<1>. QED  BY <1>2, <1>3, <1>4, <1>6, <1>7, <1>8 DEF RowStep

\* These changes keep what cancel_event stands for.
LEMMA EventsStayHeard ==
  ASSUME LoopInv, [Next]_vars, NEW v \in Workers, Heard(v),
         EventOff(v) \/ EventKept(v) \/ EventSet(v)
  PROVE  Heard(v)'
<1>1. CASE EventOff(v)
  BY <1>1 DEF EventOff, Heard
<1>2. CASE EventKept(v)
  <2>1. pc[v] # "idle" /\ jobs'[AttemptOf(v)].token = TokenOf(v) =>
          /\ jobs[AttemptOf(v)].token = TokenOf(v)
          /\ jobs[AttemptOf(v)].cancel => jobs'[AttemptOf(v)].cancel
    BY RequestStands
  <2>2. AttemptOf(v)' = AttemptOf(v) /\ TokenOf(v)' = TokenOf(v)
    BY <1>2 DEF EventKept, AttemptOf, TokenOf
  <2>3. cancelSeen[v] => pc[v] # "idle"
    BY DEF Heard, Executing
  <2>. QED  BY <1>2, <2>1, <2>2, <2>3 DEF EventKept, Heard
<1>3. CASE EventSet(v)
  <2>1. AttemptOf(v)' = AttemptOf(v) /\ TokenOf(v)' = TokenOf(v)
    BY <1>3 DEF EventSet, AttemptOf, TokenOf
  <2>2. /\ AttemptOf(v) \in Attempts /\ TokenOf(v) > 0 /\ TokenOf(v) \in Nat
        /\ LeaseShapeOf(jobs[AttemptOf(v)], issued[AttemptOf(v)])
    BY <1>3, PoolFacts DEF EventSet
  <2>3. jobs[AttemptOf(v)].token = TokenOf(v) => jobs[AttemptOf(v)].cancel
    BY <1>3, <2>2 DEF EventSet, LeaseShapeOf
  <2>. QED  BY <1>3, <2>1, <2>3 DEF EventSet, Heard, Executing
<1>. QED  BY <1>1, <1>2, <1>3

\* The shape of the variables of the workers.
LEMMA EventTypes ==
  ASSUME LoopInv
  PROVE  /\ DOMAIN pc = Workers /\ DOMAIN held = Workers /\ DOMAIN result = Workers
         /\ cancelSeen \in [Workers -> BOOLEAN]
  BY DEF LoopInv, LoopTypeOK

\* A step of one worker leaves the cancel_event of the others alone and drops its own
\* with the locals of execute_job (job_loop.py:315).
LEMMA WorkerStepIsHeard ==
  ASSUME LoopInv, NEW w \in Workers, NEW v \in Workers, Heard(v), WorkerStep(w)
  PROVE  EventOff(v) \/ EventKept(v)
<1>1. ASSUME NEW o \in Failures, Fail(w, o), pc[w] \in Executing
      PROVE  EventKept(v)
  BY <1>1, EventTypes DEF Fail, EventKept, Heard, Executing
<1>2. ASSUME Crash(w), pc[w] \in Executing
      PROVE  EventOff(v) \/ EventKept(v)
  <2>1. CASE Release(w)
    BY <2>1, EventTypes DEF Release, EventOff, EventKept, Heard, Executing
  <2>2. CASE /\ pc' = [pc EXCEPT ![w] = "reporting"]
             /\ UNCHANGED <<held, cancelSeen>>
             /\ \E r : result' = [result EXCEPT ![w] = r]
    BY <1>2, <2>2, EventTypes DEF EventKept, Heard, Executing
  <2>. QED  BY <1>2, <2>1, <2>2 DEF Crash
<1>3. CASE Start(w)
  <2>1. cancelSeen[w] = FALSE \/ w # v
    BY <1>3, EventTypes DEF Start, Heard, Executing
  <2>. QED  BY <1>3, <2>1, EventTypes DEF Start, EventKept, Heard, Executing
<1>4. CASE Prepare(w) \/ Pull(w) \/ Package(w) \/ Upload(w)
  BY <1>4, EventTypes DEF Prepare, Pull, Package, Upload, At, GoTo, EventKept, Heard, Executing
<1>5. CASE FinishBuild(w)
  BY <1>5, EventTypes DEF FinishBuild, At, GoTo, EventKept, Heard, Executing
<1>6. CASE CheckBuild(w)
  <2>. DEFINE verdict == IF result[w] = "ok" THEN EnsureCurrentAttempt(w) ELSE result[w]
  <2>1. pc[w] = "checking" /\ pc[w] \in Executing
    BY <1>6 DEF CheckBuild, At, Executing
  <2>2. CASE verdict # "ok" /\ Fail(w, verdict)
    <3>1. verdict \in Failures
      BY <2>1, <2>2, VerdictType
    <3>. QED  BY <1>1, <2>1, <2>2, <3>1
  <2>3. CASE /\ result' = [result EXCEPT ![w] = "none"]
             /\ GoTo(w, "packaging")
             /\ UNCHANGED <<cancelSeen, effectVars>>
    BY <2>3, EventTypes DEF GoTo, EventKept, Heard, Executing
  <2>. QED  BY <1>6, <2>2, <2>3 DEF CheckBuild
<1>7. CASE Commit(w)
  <2>1. pc[w] \in Executing
    BY <1>7 DEF Commit, At, Executing
  <2>2. CASE /\ pc' = [pc EXCEPT ![w] = "committed"]
             /\ UNCHANGED <<held, result, cancelSeen, effectVars, processVars>>
    BY <2>2, EventTypes DEF EventKept, Heard, Executing
  <2>. QED  BY <1>2, <1>7, <2>1, <2>2 DEF Commit
<1>8. CASE Acknowledge(w) \/ Report(w)
  BY <1>8, EventTypes DEF Acknowledge, Report, Release, EventOff, EventKept, Heard, Executing
<1>9. CASE PhaseFails(w)
  <2>1. pc[w] \in Executing /\ Fail(w, "FAILED")
    BY <1>9 DEF PhaseFails, PrepareFails, PullFails, BuildRefused, PackageFails, UploadFails,
                At, Executing
  <2>. QED  BY <1>1, <2>1 DEF Failures
<1>10. CASE PhaseCrashes(w)
  BY <1>2, <1>10 DEF PhaseCrashes, At
<1>. QED  BY <1>3, <1>4, <1>5, <1>6, <1>7, <1>8, <1>9, <1>10 DEF WorkerStep

\* No step of the system sets a cancel_event but _monitor_cancel.
LEMMA HeardNext ==
  ASSUME LoopInv, \A v \in Workers : Heard(v), [Next]_vars
  PROVE  (\A v \in Workers : Heard(v))'
<1>. SUFFICES ASSUME NEW v \in Workers PROVE EventOff(v) \/ EventKept(v) \/ EventSet(v)
  BY EventsStayHeard
<1>1. ASSUME NEW w \in Workers, WorkerStep(w) PROVE EventOff(v) \/ EventKept(v)
  BY <1>1, WorkerStepIsHeard
<1>2. ASSUME UNCHANGED workerVars PROVE EventKept(v)
  BY <1>2 DEF workerVars, EventKept, Heard
<1>3. ASSUME NEW w \in Workers, ObserveCancel(w) PROVE EventKept(v) \/ EventSet(v)
  BY <1>3, EventTypes DEF ObserveCancel, At, storeVars, EventKept, EventSet, Heard
<1>4. ASSUME NEW w \in Workers, NEW a \in Attempts, Acquire(w, a)
      PROVE  EventOff(v) \/ EventKept(v)
  BY <1>4, EventTypes DEF Acquire, EventOff, EventKept, Heard, Executing
<1>5. CASE Kill \/ Exit
  BY <1>5 DEF Kill, Exit, WorkersGone, EventOff
<1>6. CASE \/ \E a \in Attempts : Assign(a)
           \/ \E targets \in CancelTargets : Cancel(targets)
           \/ \E on \in BOOLEAN : Drain(on)
           \/ Poll \/ Stop
           \/ \E w \in Workers : Refresh(w)
           \/ \E a \in Attempts : ExpireAbandoned(a) \/ ExpireHeld(a)
           \/ \E old \in SUBSET Attempts : Boot(old)
           \/ UNCHANGED vars
  <2>1. UNCHANGED workerVars
    BY <1>6 DEF Assign, Cancel, Drain, Poll, Stop, Refresh, ExpireAbandoned, ExpireHeld, Boot,
                vars, loopVars
  <2>. QED  BY <1>2, <2>1
<1>. QED  BY <1>1, <1>3, <1>4, <1>5, <1>6 DEF Next

\* A worker that fails with CANCELLED, and whose lease is still in the row, finds the
\* request there (job_loop.py:378-391).
LEMMA CancelledVerdict ==
  ASSUME LoopInv, NEW w \in Workers, Heard(w), pc[w] = "checking",
         "CANCELLED" = IF result[w] = "ok" THEN EnsureCurrentAttempt(w) ELSE result[w],
         jobs[AttemptOf(w)].token = TokenOf(w)
  PROVE  jobs[AttemptOf(w)].cancel
<1>1. CASE result[w] = "ok"
  BY <1>1 DEF EnsureCurrentAttempt
<1>2. CASE result[w] = "CANCELLED"
  BY <1>2 DEF Heard
<1>. QED  BY <1>1, <1>2

\* A step that makes an attempt CANCELLED is the withdrawal of acquire_lease or the
\* outcome of a worker, and both find the request.
LEMMA EndsOnRequest ==
  ASSUME LoopInv, \A v \in Workers : Heard(v), [Next]_vars, NEW a \in Attempts,
         jobs[a].state # "CANCELLED", jobs'[a].state = "CANCELLED"
  PROVE  jobs[a].cancel
<1>0. jobs \in [Attempts -> Row]
  BY DEF LoopInv, Inv, StoreTypeOK
<1>1. ASSUME NEW w \in Workers, NEW o \in Failures, Fail(w, o)
      PROVE  o = "CANCELLED" /\ AttemptOf(w) = a /\ jobs[a].token = TokenOf(w)
  <2>1. Transition(AttemptOf(w), o, jobs[AttemptOf(w)].state, w, TokenOf(w))
    BY <1>1 DEF Fail, storeVars
  <2>2. AttemptOf(w) = a
    BY <1>0, <2>1 DEF Transition
  <2>3. jobs'[a] = Closed(jobs[a], o) /\ jobs[a].token = TokenOf(w)
    BY <1>0, <2>1, <2>2 DEF Transition, CanTransition, Owned, Failures
  <2>. QED  BY <1>0, <2>2, <2>3, ClosedColumns
<1>2. ASSUME NEW w \in Workers, Crash(w) PROVE FALSE
  <2>1. RecordExecutorCrash(AttemptOf(w), w, TokenOf(w))
    BY <1>2 DEF Crash, storeVars
  <2>2. jobs'[a] = jobs[a] \/ \E s \in {"FAILED", "QUEUED"} : jobs'[a] = Closed(jobs[a], s)
    BY <1>0, <2>1 DEF RecordExecutorCrash
  <2>. QED  BY <1>0, <2>2, ClosedColumns
<1>3. ASSUME NEW w \in Workers, NEW s \in {"RUNNING", "SUCCEEDED"}, NEW e, NEW b,
             Transition(b, s, e, w, TokenOf(w))
      PROVE  FALSE
  <2>1. \/ jobs'[a] = jobs[a] \/ jobs'[a] = Closed(jobs[a], s)
        \/ jobs'[a] = [jobs[a] EXCEPT !.state = s]
    BY <1>0, <1>3 DEF Transition
  <2>. QED  BY <1>0, <1>3, <2>1, ClosedColumns DEF Row
<1>4. ASSUME NEW w \in Workers, WorkerStep(w) PROVE jobs[a].cancel
  <2>1. CASE Start(w)
    BY <1>3, <2>1 DEF Start
  <2>2. CASE Prepare(w) \/ Pull(w) \/ FinishBuild(w) \/ Package(w) \/ Upload(w)
             \/ Acknowledge(w) \/ Report(w)
    <3>1. jobs' = jobs
      BY <2>2 DEF Prepare, Pull, FinishBuild, Package, Upload, Acknowledge, Report, GoTo, storeVars
    <3>. QED  BY <3>1
  <2>3. CASE CheckBuild(w)
    <3>. DEFINE verdict == IF result[w] = "ok" THEN EnsureCurrentAttempt(w) ELSE result[w]
    <3>1. pc[w] = "checking"
      BY <2>3 DEF CheckBuild, At
    <3>2. CASE verdict # "ok" /\ Fail(w, verdict)
      <4>1. verdict \in Failures
        BY <3>1, <3>2, VerdictType
      <4>2. "CANCELLED" = verdict /\ AttemptOf(w) = a /\ jobs[a].token = TokenOf(w)
        BY <1>1, <3>2, <4>1
      <4>. QED  BY <3>1, <4>2, CancelledVerdict
    <3>3. CASE GoTo(w, "packaging")
      BY <3>3 DEF GoTo, storeVars
    <3>. QED  BY <2>3, <3>2, <3>3 DEF CheckBuild
  <2>4. CASE Commit(w)
    BY <1>2, <1>3, <2>4 DEF Commit
  <2>5. CASE PhaseFails(w)
    <3>1. Fail(w, "FAILED")
      BY <2>5 DEF PhaseFails, PrepareFails, PullFails, BuildRefused, PackageFails, UploadFails
    <3>. QED  BY <1>1, <3>1 DEF Failures
  <2>6. CASE PhaseCrashes(w)
    BY <1>2, <2>6 DEF PhaseCrashes
  <2>. QED  BY <1>4, <2>1, <2>2, <2>3, <2>4, <2>5, <2>6 DEF WorkerStep
<1>5. ASSUME NEW b \in Attempts, Assign(b) PROVE FALSE
  <2>1. jobs'[a] = jobs[a] \/ jobs'[a].state = "QUEUED"
    BY <1>0, <1>5 DEF Assign, Enqueue, NoRow, storeVars
  <2>. QED  BY <2>1
<1>6. ASSUME NEW w \in Workers, NEW b \in Attempts, Acquire(w, b) PROVE jobs[a].cancel
  <2>1. \/ jobs'[a] = jobs[a] \/ jobs[a].cancel
        \/ jobs'[a] = Leased(jobs[a], w, issued[a] + 1)
    BY <1>6 DEF Acquire, AcquireLease, Withdrawn
  <2>. QED  BY <1>0, <2>1 DEF Leased, Row
<1>7. CASE Poll
  BY <1>7 DEF Poll, AcquireNothing, Withdrawn
<1>8. ASSUME \/ \E targets \in CancelTargets : Cancel(targets)
             \/ \E w \in Workers : Refresh(w)
             \/ \E b \in Attempts : ExpireAbandoned(b) \/ ExpireHeld(b)
      PROVE  FALSE
  <2>1. \/ jobs'[a] = jobs[a] \/ jobs'[a] = [jobs[a] EXCEPT !.cancel = TRUE]
        \/ \E x \in {"live", "past"} : jobs'[a] = [jobs[a] EXCEPT !.expires = x]
    BY <1>0, <1>8 DEF Cancel, RequestCancel, Refresh, RefreshLease, ExpireAbandoned, ExpireHeld,
                      LeaseExpires
  <2>. QED  BY <1>0, <2>1 DEF Row
<1>9. CASE \/ \E on \in BOOLEAN : Drain(on)
           \/ \E w \in Workers : ObserveCancel(w)
           \/ Kill \/ Stop \/ Exit \/ UNCHANGED vars
  <2>1. jobs' = jobs
    BY <1>9 DEF Drain, ObserveCancel, Kill, Stop, Exit, WorkersGone, vars, storeVars
  <2>. QED  BY <2>1
<1>10. ASSUME NEW old \in SUBSET Attempts, Boot(old) PROVE FALSE
  BY <1>10 DEF Boot, StartStore, NoRow
<1>. QED  BY <1>4, <1>5, <1>6, <1>7, <1>8, <1>9, <1>10 DEF Next

\* However many workers and attempts there are, through lost leases, crashes, requeues and
\* restarts: an attempt ends as CANCELLED only while a cancellation of it stands, so no
\* worker's cancel_event outlives the lease it was set for (job_loop.py:315,463).
THEOREM CancellationsAreRequested == Spec => CancelledOnlyOnRequest
<1>. DEFINE H == \A v \in Workers : Heard(v)
<1>1. Init => LoopInv /\ H
  <2>1. Init => H
    BY DEF Init, Heard
  <2>. QED  BY <2>1, LoopInvInit
<1>2. LoopInv /\ [Next]_vars => LoopInv'
  BY LoopInvNext
<1>3. LoopInv /\ H /\ [Next]_vars => H'
  BY HeardNext
<1>4. LoopInv /\ H /\ [Next]_vars =>
        [\A a \in Attempts :
           (jobs[a].state # "CANCELLED" /\ jobs'[a].state = "CANCELLED") =>
             jobs[a].cancel]_vars
  BY EndsOnRequest
<1>. HIDE DEF H
<1>. QED  BY <1>1, <1>2, <1>3, <1>4, PTL DEF Spec, CancelledOnlyOnRequest

=============================================================================
