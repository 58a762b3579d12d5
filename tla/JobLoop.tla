------------------------------- MODULE JobLoop -------------------------------
(***************************************************************************)
(* The worker pool of build_engine/agent/job_loop.py on top of the durable *)
(* queue: _worker, execute_job, the lease refresher and the cancellation   *)
(* monitor, under the process that hosts them (cli/commands.py), which may *)
(* be killed, stopped and started again.                                   *)
(*                                                                         *)
(* Everything runs on one asyncio event loop, so a step lasts from one     *)
(* await to the next: what a worker does between two awaits is one action. *)
(* The one exception is the stretch from acquire_lease to the transition   *)
(* to RUNNING, two SQLite transactions with no await in between: it is two *)
(* actions, and between them only the death of the process can happen.     *)
(*                                                                         *)
(* The phases of execute_job end in one of a few ways: go on, a            *)
(* BuildExecutionError, or any other exception (a failed publish included) *)
(* that _worker treats as a crash of the executor.  Which one is the       *)
(* choice of the environment.                                              *)
(***************************************************************************)
EXTENDS QueueStore

CONSTANTS
  MaxExpiries,  \* how often a lease runs out under a worker that is alive
  MaxRestarts,  \* how often the process is killed or stopped
  Drains        \* the drain commands that may come: TRUE to drain, FALSE to resume

ASSUME FaultsAssumption ==
  MaxExpiries \in Nat /\ MaxRestarts \in Nat /\ Drains \subseteq BOOLEAN

Workers == Owners

VARIABLES
  proc,       \* the process: "up", "stopping" (stop_event is set) or "down"
  pc,         \* where each worker is
  held,       \* the lease each worker acts on: lease.job as it was acquired
  result,     \* how the phase a worker is leaving ended, or what it will report
  cancelSeen, \* whether the worker's cancel_event is set
  space,      \* whose files the workspace directory of an attempt holds
  published,  \* what the durable events of an attempt say: "ready" or an outcome
  uploads,    \* per attempt, the tokens of the leases that uploaded an artifact
  draining,   \* whether the drain marker exists
  stranded,   \* attempts that were leased when the process last went down
  expiries,   \* leases that ran out under a live worker so far
  restarts    \* kills and stops so far

workerVars == <<pc, held, result, cancelSeen>>
effectVars == <<space, published, uploads>>
processVars == <<proc, draining, stranded, expiries, restarts>>
loopVars == <<workerVars, effectVars, processVars>>
vars == <<storeVars, loopVars>>

\* The awaits of execute_job, in their order, and the reports of _worker.
Executing == {"preparing", "pulling", "building", "checking", "packaging",
              "uploading", "uploaded", "committed"}
Phases == {"idle", "leased", "reporting"} \cup Executing
Results == {"none", "ok"} \cup Terminal

NoLease == [attempt |-> NULL, token |-> NoToken, url |-> FALSE]

Init ==
  /\ StoreInit
  /\ proc = "up"
  /\ pc = [w \in Workers |-> "idle"]
  /\ held = [w \in Workers |-> NoLease]
  /\ result = [w \in Workers |-> "none"]
  /\ cancelSeen = [w \in Workers |-> FALSE]
  /\ space = [a \in Attempts |-> NULL]
  /\ published = [a \in Attempts |-> {}]
  /\ uploads = [a \in Attempts |-> {}]
  /\ draining = FALSE
  /\ stranded = {}
  /\ expiries = 0
  /\ restarts = 0

\* No worker is between acquire_lease and its transition to RUNNING.
LoopFree == \A w \in Workers : pc[w] # "leased"

Running == proc # "down" /\ LoopFree

AttemptOf(w) == held[w].attempt
TokenOf(w) == held[w].token

Publish(a, what) == published' = [published EXCEPT ![a] = @ \cup {what}]

-----------------------------------------------------------------------------
(* Commands of the backend, SQLiteCommandHandlers.                         *)

\* job.assign: enqueue, then publish the state the row has.  While the engine
\* drains the assignment is refused, and FAILED is what is published; that
\* needs a row (it gives the event its number), so an attempt that was never
\* assigned before gets no answer.
Assign(a) ==
  /\ proc = "up" /\ LoopFree
  /\ \/ /\ ~draining
        /\ Enqueue(a)
        /\ IF jobs'[a].state \in Terminal THEN Publish(a, jobs'[a].state)
                                          ELSE UNCHANGED published
     \/ /\ draining
        /\ IF Present(a) THEN Publish(a, "FAILED") ELSE UNCHANGED published
        /\ UNCHANGED storeVars
  /\ UNCHANGED <<workerVars, space, uploads, processVars>>

\* drain, with action "drain" or "resume": the marker is written or removed.
Drain(on) ==
  /\ on \in Drains
  /\ proc = "up" /\ LoopFree
  /\ draining' = on
  /\ UNCHANGED <<storeVars, workerVars, effectVars, proc, stranded, expiries, restarts>>

\* job.cancel: the flag is set; the CANCELLING phase that is published says
\* nothing of the outcome.
Cancel(targets) ==
  /\ proc = "up" /\ LoopFree
  /\ RequestCancel(targets)
  /\ UNCHANGED loopVars

-----------------------------------------------------------------------------
(* _worker up to the call of execute_job.                                  *)

\* The lease keeps the payload as it is now: with the source URL only when
\* the assignment came during this life of the process.
Acquire(w, a) ==
  /\ proc = "up" /\ LoopFree
  /\ pc[w] = "idle"
  /\ AcquireLease(w, a)
  /\ pc' = [pc EXCEPT ![w] = "leased"]
  /\ held' = [held EXCEPT ![w] = [attempt |-> a, token |-> jobs'[a].token,
                                  url |-> a \in transient]]
  /\ stranded' = stranded \ {a}
  /\ UNCHANGED <<result, cancelSeen, effectVars, proc, draining, expiries, restarts>>

\* A poll that leases nothing but cancels the attempts it passes over.
Poll ==
  /\ proc = "up" /\ LoopFree
  /\ \E w \in Workers : pc[w] = "idle"
  /\ AcquireNothing
  /\ stranded' = stranded \ Withdrawn
  /\ UNCHANGED <<workerVars, effectVars, proc, draining, expiries, restarts>>

\* create_workspace empties the directory of the attempt first.
CreateWorkspace(w) == space' = [space EXCEPT ![AttemptOf(w)] = w]

\* LEASED to RUNNING, then into execute_job up to its first await.
Start(w) ==
  /\ proc # "down"
  /\ pc[w] = "leased"
  /\ Transition(AttemptOf(w), "RUNNING", "LEASED", w, TokenOf(w))
  /\ pc' = [pc EXCEPT ![w] = "preparing"]
  /\ CreateWorkspace(w)
  /\ UNCHANGED <<held, result, cancelSeen, published, uploads, processVars>>

-----------------------------------------------------------------------------
(* The ways out of execute_job.  Its finally clause removes the workspace  *)
(* directory, whoever's files it holds by then.                            *)

RemoveWorkspace(w) == space' = [space EXCEPT ![AttemptOf(w)] = NULL]

\* Variant: the state the attempt is expected in is the one it was leased in.
Fail_ExpectsLeased(w, outcome) ==
  LET a == AttemptOf(w) IN
  /\ \/ Transition(a, outcome, "LEASED", w, TokenOf(w))
     \/ /\ ~CanTransition(a, outcome, "LEASED", w, TokenOf(w))
        /\ UNCHANGED storeVars
  /\ RemoveWorkspace(w)
  /\ pc' = [pc EXCEPT ![w] = "reporting"]
  /\ result' = [result EXCEPT ![w] = outcome]
  /\ UNCHANGED <<held, cancelSeen, published, uploads, processVars>>

\* The outcome is committed if the lease is still this worker's.  It is
\* reported in any case.
Fail(w, outcome) ==
  LET a == AttemptOf(w) IN
  /\ \/ Transition(a, outcome, jobs[a].state, w, TokenOf(w))
     \/ /\ ~CanTransition(a, outcome, jobs[a].state, w, TokenOf(w))
        /\ UNCHANGED storeVars
  /\ RemoveWorkspace(w)
  /\ pc' = [pc EXCEPT ![w] = "reporting"]
  /\ result' = [result EXCEPT ![w] = outcome]
  /\ UNCHANGED <<held, cancelSeen, published, uploads, processVars>>

\* Variant: the cancel_event of one build is kept for the next.
Release_KeepsEvent(w) ==
  /\ pc' = [pc EXCEPT ![w] = "idle"]
  /\ held' = [held EXCEPT ![w] = NoLease]
  /\ result' = [result EXCEPT ![w] = "none"]
  /\ UNCHANGED cancelSeen

\* The locals of execute_job, its cancel_event among them, are gone.
Release(w) ==
  /\ pc' = [pc EXCEPT ![w] = "idle"]
  /\ held' = [held EXCEPT ![w] = NoLease]
  /\ result' = [result EXCEPT ![w] = "none"]
  /\ cancelSeen' = [cancelSeen EXCEPT ![w] = FALSE]

\* Variant: FAILED is reported for every crash.
Crash_AlwaysFailed(w) ==
  LET a == AttemptOf(w) IN
  /\ RemoveWorkspace(w)
  /\ \/ /\ jobs[a].state \in Terminal
        /\ Release(w)
        /\ UNCHANGED storeVars
     \/ /\ jobs[a].state \notin Terminal
        /\ \/ RecordExecutorCrash(a, w, TokenOf(w))
           \/ ~CanRecordCrash(a, w, TokenOf(w)) /\ UNCHANGED storeVars
        /\ result' = [result EXCEPT ![w] = "FAILED"]
        /\ pc' = [pc EXCEPT ![w] = "reporting"]
        /\ UNCHANGED <<held, cancelSeen>>
  /\ UNCHANGED <<published, uploads, processVars>>

\* Any other exception.  A terminal attempt is left alone; otherwise the crash
\* is recorded, and FAILED is reported when that dead-lettered the attempt.
Crash(w) ==
  LET a == AttemptOf(w) IN
  /\ RemoveWorkspace(w)
  /\ \/ /\ jobs[a].state \in Terminal
        /\ Release(w)
        /\ UNCHANGED storeVars
     \/ /\ jobs[a].state \notin Terminal
        /\ \/ /\ RecordExecutorCrash(a, w, TokenOf(w))
              /\ result' = [result EXCEPT ![w] =
                              IF CrashesExhausted(a) THEN "FAILED" ELSE "none"]
           \/ /\ ~CanRecordCrash(a, w, TokenOf(w))
              /\ result' = [result EXCEPT ![w] = "none"]
              /\ UNCHANGED storeVars
        /\ pc' = [pc EXCEPT ![w] = "reporting"]
        /\ UNCHANGED <<held, cancelSeen>>
  /\ UNCHANGED <<published, uploads, processVars>>

\* The terminal status, if there is one to report, and the end of _worker's
\* turn.  A publish that fails is suppressed.
Report(w) ==
  /\ Running /\ pc[w] = "reporting"
  /\ \/ result[w] # "none" /\ Publish(AttemptOf(w), result[w])
     \/ UNCHANGED published
  /\ Release(w)
  /\ UNCHANGED <<storeVars, space, uploads, processVars>>

-----------------------------------------------------------------------------
(* The phases of execute_job.                                              *)

At(w, phase) == Running /\ pc[w] = phase

GoTo(w, phase) ==
  /\ pc' = [pc EXCEPT ![w] = phase]
  /\ UNCHANGED <<storeVars, held, processVars>>

\* download_source, extract_source and plan_build, in one go.  Without the
\* source URL there is nothing but the error.
Prepare(w) ==
  /\ At(w, "preparing")
  /\ held[w].url
  /\ GoTo(w, "pulling")
  /\ UNCHANGED <<result, cancelSeen, effectVars>>

Pull(w) ==
  /\ At(w, "pulling")
  /\ GoTo(w, "building")
  /\ UNCHANGED <<result, cancelSeen, effectVars>>

\* _monitor_cancel finds the request, or finds the attempt cancelled.
ObserveCancel(w) ==
  /\ At(w, "building")
  /\ ~cancelSeen[w]
  /\ jobs[AttemptOf(w)].cancel \/ jobs[AttemptOf(w)].state = "CANCELLED"
  /\ cancelSeen' = [cancelSeen EXCEPT ![w] = TRUE]
  /\ UNCHANGED <<storeVars, pc, held, result, effectVars, processVars>>

\* run_container returns: it is only cancelled after cancel_event was set.
FinishBuild(w) ==
  /\ At(w, "building")
  /\ \E r \in {"ok", "FAILED", "TIMED_OUT", "CANCELLED"} :
       /\ r = "CANCELLED" => cancelSeen[w]
       /\ result' = [result EXCEPT ![w] = r]
  /\ GoTo(w, "checking")
  /\ UNCHANGED <<cancelSeen, effectVars>>

\* _ensure_current_attempt: the outcome it raises, "ok" when it does not.
\* A stale attempt is one that was superseded, that is not running or whose
\* lease is somebody else's; it becomes FAILED.
EnsureCurrentAttempt(w) ==
  LET a == AttemptOf(w) IN
  IF \/ ~IsCurrentAttempt(a)
     \/ jobs[a].state # "RUNNING"
     \/ ~Owned(a, w, TokenOf(w))
  THEN "FAILED"
  ELSE IF jobs[a].cancel THEN "CANCELLED" ELSE "ok"

CheckBuild(w) ==
  /\ At(w, "checking")
  /\ LET verdict == IF result[w] = "ok" THEN EnsureCurrentAttempt(w) ELSE result[w]
     IN  \/ /\ verdict # "ok"
            /\ Fail(w, verdict)
         \/ /\ verdict = "ok"
            /\ result' = [result EXCEPT ![w] = "none"]
            /\ GoTo(w, "packaging")
            /\ UNCHANGED <<cancelSeen, effectVars>>

\* package_output, then artifact.ready.
Package(w) ==
  /\ At(w, "packaging")
  /\ Publish(AttemptOf(w), "ready")
  /\ GoTo(w, "uploading")
  /\ UNCHANGED <<result, cancelSeen, space, uploads>>

\* Variant: the upload is bound to the worker, not to its lease.
Upload_ByWorker(w) ==
  /\ At(w, "uploading")
  /\ uploads' = [uploads EXCEPT ![AttemptOf(w)] = @ \cup {w}]
  /\ GoTo(w, "uploaded")
  /\ UNCHANGED <<result, cancelSeen, space, published>>

Upload(w) ==
  /\ At(w, "uploading")
  /\ uploads' = [uploads EXCEPT ![AttemptOf(w)] = @ \cup {TokenOf(w)}]
  /\ GoTo(w, "uploaded")
  /\ UNCHANGED <<result, cancelSeen, space, published>>

\* Variant: a refused commit goes unnoticed.
Commit_Unchecked(w) ==
  LET a == AttemptOf(w) IN
  /\ At(w, "uploaded")
  /\ \/ Transition(a, "SUCCEEDED", "RUNNING", w, TokenOf(w))
     \/ /\ ~CanTransition(a, "SUCCEEDED", "RUNNING", w, TokenOf(w))
        /\ UNCHANGED storeVars
  /\ pc' = [pc EXCEPT ![w] = "committed"]
  /\ UNCHANGED <<held, result, cancelSeen, effectVars, processVars>>

\* The commit of SUCCEEDED; when it is refused the QueueError is a crash.
Commit(w) ==
  LET a == AttemptOf(w) IN
  /\ At(w, "uploaded")
  /\ \/ /\ Transition(a, "SUCCEEDED", "RUNNING", w, TokenOf(w))
        /\ pc' = [pc EXCEPT ![w] = "committed"]
        /\ UNCHANGED <<held, result, cancelSeen, effectVars, processVars>>
     \/ /\ ~CanTransition(a, "SUCCEEDED", "RUNNING", w, TokenOf(w))
        /\ Crash(w)

\* _ack(SUCCEEDED), then the way out.
Acknowledge(w) ==
  /\ At(w, "committed")
  /\ Publish(AttemptOf(w), "SUCCEEDED")
  /\ RemoveWorkspace(w)
  /\ Release(w)
  /\ UNCHANGED <<storeVars, uploads, processVars>>

\* The errors that execute_job turns into a BuildExecutionError: a source that
\* is missing, altered, too large or not a project; an image that cannot be
\* pulled; limits that are not allowed, a cache that cannot be prepared, secrets
\* that cannot be fetched; output that cannot be packaged; storage that refuses
\* the artifact.  A build that ran and failed is a result of FinishBuild.
PrepareFails(w) == At(w, "preparing") /\ Fail(w, "FAILED")
PullFails(w)    == At(w, "pulling")   /\ Fail(w, "FAILED")
BuildRefused(w) == At(w, "building")  /\ Fail(w, "FAILED")
PackageFails(w) == At(w, "packaging") /\ Fail(w, "FAILED")
UploadFails(w)  == At(w, "uploading") /\ Fail(w, "FAILED")

PhaseFails(w) ==
  \/ PrepareFails(w)
  \/ PullFails(w)
  \/ BuildRefused(w)
  \/ PackageFails(w)
  \/ UploadFails(w)

PhaseCrashes(w) ==
  /\ \E phase \in Executing : At(w, phase)
  /\ Crash(w)

\* _refresh_lease: it has an effect only on a lease that is not fresh.
Refresh(w) ==
  /\ Running
  /\ pc[w] \in Executing \cup {"reporting"}
  /\ jobs[AttemptOf(w)].expires = "past"
  /\ RefreshLease(AttemptOf(w), w, TokenOf(w))
  /\ UNCHANGED loopVars

-----------------------------------------------------------------------------
(* Time and the process.                                                   *)

\* Some worker that is alive holds the lease in the row.
HeldLive(a) ==
  \E w \in Workers :
    pc[w] # "idle" /\ AttemptOf(w) = a /\ TokenOf(w) = jobs[a].token

\* A lease nobody refreshes runs out.  One that is refreshed runs out only
\* when the event loop was blocked (a long download or extraction) for longer
\* than the lease lasts.
ExpireAbandoned(a) ==
  /\ ~HeldLive(a)
  /\ LeaseExpires(a)
  /\ UNCHANGED loopVars

ExpireHeld(a) ==
  /\ LoopFree /\ HeldLive(a)
  /\ expiries < MaxExpiries
  /\ LeaseExpires(a)
  /\ expiries' = expiries + 1
  /\ UNCHANGED <<workerVars, effectVars, proc, draining, stranded, restarts>>

WorkersGone ==
  /\ proc' = "down"
  /\ pc' = [w \in Workers |-> "idle"]
  /\ held' = [w \in Workers |-> NoLease]
  /\ result' = [w \in Workers |-> "none"]
  /\ cancelSeen' = [w \in Workers |-> FALSE]
  /\ stranded' = {a \in Attempts : jobs[a].state \in Active}
  /\ UNCHANGED <<storeVars, published, uploads, draining, expiries>>

Kill ==
  /\ proc # "down"
  /\ restarts < MaxRestarts
  /\ restarts' = restarts + 1
  /\ WorkersGone
  /\ UNCHANGED space

\* SIGTERM: the drain marker is written, workers take no new attempt.  The
\* marker outlives the process.
Stop ==
  /\ proc = "up" /\ LoopFree
  /\ restarts < MaxRestarts
  /\ restarts' = restarts + 1
  /\ proc' = "stopping"
  /\ draining' = TRUE
  /\ UNCHANGED <<storeVars, workerVars, effectVars, stranded, expiries>>

\* The grace period is over, or nobody needed it.  What still executes is
\* cancelled: execute_job removes its workspace, and nothing is recorded.
Exit ==
  /\ proc = "stopping" /\ LoopFree
  /\ space' = [a \in Attempts |->
                 IF \E w \in Workers : pc[w] \in Executing /\ AttemptOf(w) = a
                 THEN NULL ELSE space[a]]
  /\ WorkersGone
  /\ UNCHANGED restarts

\* Variant: what was running is put back into the queue, its lease kept.
Boot_Requeues(old) ==
  /\ proc = "down"
  /\ \A a \in old : jobs[a].state \in Terminal
  /\ jobs' = [a \in Attempts |->
                IF a \in old THEN NoRow
                ELSE IF jobs[a].state \in Active
                     THEN [jobs[a] EXCEPT !.state = "QUEUED"] ELSE jobs[a]]
  /\ transient' = {}
  /\ proc' = "up"
  /\ published' = [a \in Attempts |-> IF a \in old THEN {} ELSE published[a]]
  /\ UNCHANGED <<dlq, issued, workerVars, space, uploads, draining, stranded, expiries, restarts>>

\* The events of a pruned attempt go with its row.
Boot(old) ==
  /\ proc = "down"
  /\ StartStore(old)
  /\ proc' = "up"
  /\ published' = [a \in Attempts |-> IF a \in old THEN {} ELSE published[a]]
  /\ UNCHANGED <<workerVars, space, uploads, draining, stranded, expiries, restarts>>

-----------------------------------------------------------------------------
WorkerStep(w) ==
  \/ Start(w)
  \/ Prepare(w)
  \/ Pull(w)
  \/ FinishBuild(w)
  \/ CheckBuild(w)
  \/ Package(w)
  \/ Upload(w)
  \/ Commit(w)
  \/ Acknowledge(w)
  \/ PhaseFails(w)
  \/ PhaseCrashes(w)
  \/ Report(w)

Next ==
  \/ \E a \in Attempts : Assign(a)
  \/ \E targets \in CancelTargets : Cancel(targets)
  \/ \E on \in BOOLEAN : Drain(on)
  \/ \E w \in Workers, a \in Attempts : Acquire(w, a)
  \/ Poll
  \/ \E w \in Workers : WorkerStep(w) \/ ObserveCancel(w) \/ Refresh(w)
  \/ \E a \in Attempts : ExpireAbandoned(a) \/ ExpireHeld(a)
  \/ Kill
  \/ Stop
  \/ Exit
  \/ \E old \in SUBSET Attempts : Boot(old)

Spec == Init /\ [][Next]_vars

\* Every await of a worker ends: downloads, pulls, containers and uploads have
\* timeouts.  Workers that are idle poll and the clock goes on.  A process that
\* went down is started again: by systemd after a failure (Restart=on-failure),
\* by the operator after a clean stop.
Fairness ==
  /\ \A w \in Workers : WF_vars(WorkerStep(w))
  /\ WF_vars(\E w \in Workers, a \in Attempts : Acquire(w, a))
  /\ WF_vars(Poll)
  /\ \A a \in Attempts : WF_vars(ExpireAbandoned(a))
  /\ WF_vars(Exit)
  /\ WF_vars(\E old \in SUBSET Attempts : Boot(old))

FairSpec == Spec /\ Fairness

-----------------------------------------------------------------------------
(* Properties                                                              *)

\* The variables of the worker pool have their types.
LoopTypeOK ==
  /\ proc \in {"up", "stopping", "down"}
  /\ pc \in [Workers -> Phases]
  /\ held \in [Workers -> [attempt: Attempts \cup {NULL}, token: Nat, url: BOOLEAN]]
  /\ result \in [Workers -> Results]
  /\ cancelSeen \in [Workers -> BOOLEAN]
  /\ space \in [Attempts -> Workers \cup {NULL}]
  /\ published \in [Attempts -> SUBSET ({"ready"} \cup Terminal)]
  /\ uploads \in [Attempts -> SUBSET Nat]
  /\ draining \in BOOLEAN
  /\ stranded \subseteq Attempts
  /\ expiries \in 0 .. MaxExpiries
  /\ restarts \in 0 .. MaxRestarts

\* Two workers never act on the same lease, also when one of them lost its
\* lease and keeps running: they can be told apart by the token.  A worker that
\* has just leased an attempt can always start it, so the "except QueueError"
\* of job_loop.py:148 is never taken.
LeasesAreDistinct ==
  /\ \A v, w \in Workers :
       (v # w /\ pc[v] # "idle" /\ pc[w] # "idle" /\ AttemptOf(v) = AttemptOf(w)) =>
         TokenOf(v) # TokenOf(w)
  /\ \A w \in Workers :
       pc[w] = "leased" => CanTransition(AttemptOf(w), "RUNNING", "LEASED", w, TokenOf(w))

\* Whatever way execute_job ends, the worker does not go on to the next attempt
\* with this one still leased to it: a leased attempt has its worker, or was
\* leased when the process went down (job_loop.py:157-230).
NoAbandonedLease ==
  \A a \in Attempts : jobs[a].state \in Active => HeldLive(a) \/ a \in stranded

\* A SUCCEEDED attempt has an artifact, uploaded under the very lease that
\* committed it and that no later lease replaced (job_loop.py:430).
SuccessHasArtifact ==
  \A a \in Attempts : jobs[a].state = "SUCCEEDED" => issued[a] \in uploads[a]

\* Success is never announced before it is durable, nor for an attempt that
\* ends otherwise (job_loop.py:430-438).
PublishedSuccessIsDurable ==
  \A a \in Attempts : "SUCCEEDED" \in published[a] => jobs[a].state = "SUCCEEDED"

\* Every outcome that is published is the one in the row
\* (docs/operations.md:70, docs/design.md:82).
PublishedOutcomeIsDurable ==
  \A a \in Attempts : published[a] \cap Terminal \subseteq {jobs[a].state}

\* "Commit the terminal state first, then publish" (docs/design.md:82): a step
\* that publishes a new outcome finds it in the row.  The two exceptions are the
\* code's: the refusal of an assignment while the engine drains (handlers.py:33),
\* and a worker whose lease ran out (job_loop.py:175,186).
OutcomesAreWrittenFirst ==
  [][\A a \in Attempts :
       expiries' = 0 =>
         published'[a] \cap Terminal \subseteq
           published[a] \cup {jobs'[a].state}
             \cup (IF draining THEN {"FAILED"} ELSE {})]_vars

\* An attempt ends as CANCELLED only while a cancellation of it stands: not by
\* what a worker saw of another attempt, or of this one under an earlier lease,
\* although the request is dropped when a crash requeues the attempt
\* (_monitor_cancel and cancel_event, job_loop.py:315,463; acquire_lease).
CancelledOnlyOnRequest ==
  [][\A a \in Attempts :
       (jobs[a].state # "CANCELLED" /\ jobs'[a].state = "CANCELLED") =>
         jobs[a].cancel]_vars

\* While a worker executes an attempt under a valid lease, the attempt's
\* workspace holds the files of that worker (create_workspace,
\* cleanup_workspace; docs/design.md:52).
HolderHasWorkspace ==
  \A w \in Workers :
    (pc[w] \in Executing /\ Owned(AttemptOf(w), w, TokenOf(w))) =>
      space[AttemptOf(w)] = w

\* The worker pool uses the queue only through its methods, with leases it was
\* given: every step is a step of QueueStore (job_loop.py, handlers.py).
LoopImplementsStore == StoreSpec

\* Every assigned attempt ends, through crashes of the executor, lost leases
\* and restarts of the process (_worker, acquire_lease).
EveryAttemptEnds ==
  \A a \in Attempts : (jobs[a].state = "QUEUED") ~> (jobs[a].state \in Terminal)

\* A cancellation that no worker can see, because the attempt waits in the queue
\* or its worker is gone, is carried out all the same, also when the process
\* went down after the request (acquire_lease, store.py:201).
UnheldCancelsEnd ==
  \A a \in Attempts :
    (jobs[a].cancel /\ ~HeldLive(a)) ~> (jobs[a].state = "CANCELLED")

\* A terminal attempt that no worker is busy with has its outcome published
\* (docs/design.md:82).
SettledIsPublished ==
  \A a \in Attempts :
    (jobs[a].state \in Terminal /\ \A w \in Workers : AttemptOf(w) # a) =>
      jobs[a].state \in published[a]

\* A cancellation request stands until the attempt is terminal
\* (docs/design.md:42).
CancelStands ==
  [][\A a \in Attempts :
       (jobs[a].cancel /\ jobs'[a].state \notin Terminal) => jobs'[a].cancel]_vars

=============================================================================
