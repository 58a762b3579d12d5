----------------------------- MODULE QueueStore -----------------------------
(***************************************************************************)
(* The durable queue of build attempts, SQLiteQueueStore in                *)
(* build_engine/queue/store.py: the tables jobs and dlq, and the payloads  *)
(* that are kept in memory only.  Each method is one SQLite transaction    *)
(* (or one statement) issued from the event-loop thread, so each is one    *)
(* action.  A method that raises QueueError rolls back and changes         *)
(* nothing; the guards below are the conditions under which it does not    *)
(* raise.                                                                  *)
(*                                                                         *)
(* The wall clock appears in two places only.  lease_expires_at is         *)
(* compared with the present, so it is abstracted to "live" or "past" and  *)
(* time passing is the action LeaseExpires.  created_at orders the queue;  *)
(* it is a number that never decreases from one insert to the next and     *)
(* may repeat, since it is a text with milliseconds.                       *)
(***************************************************************************)
EXTENDS Naturals

CONSTANTS
  Attempts,           \* attempt ids; ids are compared, so they are numbers
  BuildOf,            \* the build job an attempt belongs to
  Owners,             \* lease owners, "worker-0", "worker-1", ...
  NULL,               \* the NULL of SQLite
  MAX_LOCAL_CRASHES   \* leases after which a crash is final

ASSUME AttemptsAssumption == Attempts \subseteq Nat
ASSUME BuildAssumption == BuildOf \in [Attempts -> Nat]
ASSUME OwnersAssumption == NULL \notin Owners
ASSUME CrashLimitAssumption == MAX_LOCAL_CRASHES \in Nat \ {0}

VARIABLES
  jobs,       \* the table jobs: one row per attempt, NoRow where there is none
  dlq,        \* the table dlq: the attempts column, 0 where there is no entry
  transient,  \* _transient_payloads: attempts whose source URL is in memory
  issued      \* per attempt, how many lease tokens were ever generated

storeVars == <<jobs, dlq, transient, issued>>

Active == {"LEASED", "RUNNING"}
Terminal == {"SUCCEEDED", "FAILED", "CANCELLED", "TIMED_OUT"}
States == {"QUEUED"} \cup Active \cup Terminal

\* Lease tokens are fresh random strings: the n-th one is the number n, and
\* 0 stands for NULL.
NoToken == 0

Row == [state: States \cup {"ABSENT"}, owner: Owners \cup {NULL}, token: Nat,
        expires: {"none", "live", "past"}, attempts: Nat, cancel: BOOLEAN,
        created: Nat, rowid: Nat]

NoRow == [state |-> "ABSENT", owner |-> NULL, token |-> NoToken,
          expires |-> "none", attempts |-> 0, cancel |-> FALSE,
          created |-> 0, rowid |-> 0]

Present(a) == jobs[a].state # "ABSENT"

\* Variant: the token survives.
Closed_KeepsToken(row, state) ==
  [row EXCEPT !.state = state, !.owner = NULL, !.expires = "none", !.cancel = FALSE]

\* The row after its lease and its cancellation request have been cleared.
Closed(row, state) ==
  [row EXCEPT !.state = state, !.owner = NULL, !.token = NoToken,
              !.expires = "none", !.cancel = FALSE]

StoreInit ==
  /\ jobs = [a \in Attempts |-> NoRow]
  /\ dlq = [a \in Attempts |-> 0]
  /\ transient = {}
  /\ issued = [a \in Attempts |-> 0]

-----------------------------------------------------------------------------
(* enqueue: INSERT OR IGNORE.  The in-memory payload is remembered even    *)
(* when the row exists, which gives an attempt its source URL back after   *)
(* a restart.                                                              *)

\* created_at of a new row: the greatest so far, or later.
CreationTimes ==
  {c \in {jobs[b].created + d : b \in Attempts, d \in {0, 1}} :
      \A b \in Attempts : jobs[b].created <= c}

\* Variant: a free rowid below the greatest may be used.
NextRowid_FillsGaps(r) ==
  /\ \E b \in Attempts : r = jobs[b].rowid + 1
  /\ \A b \in Attempts : jobs[b].rowid # r

\* SQLite gives a new row the greatest rowid in the table plus one.
NextRowid(r) ==
  /\ \E b \in Attempts : r = jobs[b].rowid + 1
  /\ \A b \in Attempts : jobs[b].rowid < r

\* Variant: INSERT OR REPLACE.
Enqueue_Replaces(a) ==
  /\ transient' = transient \cup {a}
  /\ \E c \in CreationTimes, r \in {jobs[b].rowid + 1 : b \in Attempts} :
       /\ NextRowid(r)
       /\ jobs' = [jobs EXCEPT ![a] =
                     [NoRow EXCEPT !.state = "QUEUED", !.created = c, !.rowid = r]]
  /\ UNCHANGED <<dlq, issued>>

Enqueue(a) ==
  /\ transient' = transient \cup {a}
  /\ \/ Present(a) /\ UNCHANGED jobs
     \/ /\ ~Present(a)
        /\ \E c \in CreationTimes, r \in {jobs[b].rowid + 1 : b \in Attempts} :
             /\ NextRowid(r)
             /\ jobs' = [jobs EXCEPT ![a] =
                           [NoRow EXCEPT !.state = "QUEUED", !.created = c,
                                         !.rowid = r]]
  /\ UNCHANGED <<dlq, issued>>

\* is_current_attempt: no later row of the same build.
IsCurrentAttempt(a) ==
  \A b \in Attempts :
    (Present(b) /\ BuildOf[b] = BuildOf[a]) => jobs[b].rowid <= jobs[a].rowid

-----------------------------------------------------------------------------
(* acquire_lease: the oldest queued or expired attempt.  Attempts with a   *)
(* cancellation request that come up on the way are cancelled in the same  *)
(* transaction.                                                            *)

\* Variant: an expired lease counts only once the attempt is running.
Leasable_OnlyRunning(a) ==
  \/ jobs[a].state = "QUEUED"
  \/ jobs[a].state = "RUNNING" /\ jobs[a].expires = "past"

Leasable(a) ==
  \/ jobs[a].state = "QUEUED"
  \/ jobs[a].state \in Active /\ jobs[a].expires = "past"

Before(a, b) ==
  \/ jobs[a].created < jobs[b].created
  \/ jobs[a].created = jobs[b].created /\ a < b

\* Variant: the cancellation request is not looked at.
Grantable_IgnoresCancel == {a \in Attempts : Leasable(a)}

Grantable == {a \in Attempts : Leasable(a) /\ ~jobs[a].cancel}
Withdrawn == {a \in Attempts : Leasable(a) /\ jobs[a].cancel}

\* Variant: an expired lease is taken over with its token.
Leased_SameToken(row, owner, token) ==
  [row EXCEPT !.state = "LEASED", !.owner = owner,
              !.token = IF @ = NoToken THEN token ELSE @,
              !.expires = "live", !.attempts = @ + 1]

Leased(row, owner, token) ==
  [row EXCEPT !.state = "LEASED", !.owner = owner, !.token = token,
              !.expires = "live", !.attempts = @ + 1]

AcquireLease(owner, a) ==
  /\ a \in Grantable
  /\ \A b \in Grantable \ {a} : Before(a, b)
  /\ jobs' = [b \in Attempts |->
                IF b = a THEN Leased(jobs[a], owner, issued[a] + 1)
                ELSE IF b \in Withdrawn /\ Before(b, a)
                     THEN Closed(jobs[b], "CANCELLED")
                     ELSE jobs[b]]
  /\ issued' = [issued EXCEPT ![a] = @ + 1]
  /\ UNCHANGED <<dlq, transient>>

\* The call that returns None, after cancelling what was to be cancelled.
AcquireNothing ==
  /\ Grantable = {}
  /\ Withdrawn # {}
  /\ jobs' = [b \in Attempts |->
                IF b \in Withdrawn THEN Closed(jobs[b], "CANCELLED") ELSE jobs[b]]
  /\ UNCHANGED <<dlq, transient, issued>>

-----------------------------------------------------------------------------
(* Calls on a leased attempt.  Each names the owner and the token of the   *)
(* lease it acts on.                                                       *)

\* Variant: no fencing.
Owned_Unchecked(a, owner, token) == TRUE

Owned(a, owner, token) == jobs[a].owner = owner /\ jobs[a].token = token

\* refresh_lease asks for the owner, the token and an active state, not for
\* a lease that has not expired yet.
CanRefresh(a, owner, token) == Owned(a, owner, token) /\ jobs[a].state \in Active

RefreshLease(a, owner, token) ==
  /\ CanRefresh(a, owner, token)
  /\ jobs' = [jobs EXCEPT ![a].expires = "live"]
  /\ UNCHANGED <<dlq, transient, issued>>

LegalPreviousStates ==
  [QUEUED    |-> {"LEASED", "RUNNING"},
   LEASED    |-> {"QUEUED"},
   RUNNING   |-> {"LEASED"},
   SUCCEEDED |-> {"RUNNING"},
   FAILED    |-> {"QUEUED", "LEASED", "RUNNING"},
   CANCELLED |-> {"QUEUED", "LEASED", "RUNNING"},
   TIMED_OUT |-> {"QUEUED", "LEASED", "RUNNING"}]

CanTransition(a, state, expected, owner, token) ==
  /\ jobs[a].state = expected
  /\ Owned(a, owner, token)
  /\ jobs[a].state \in LegalPreviousStates[state]

Transition(a, state, expected, owner, token) ==
  /\ CanTransition(a, state, expected, owner, token)
  /\ jobs' = [jobs EXCEPT ![a] = IF state \in Terminal THEN Closed(@, state)
                                 ELSE [@ EXCEPT !.state = state]]
  /\ UNCHANGED <<dlq, transient, issued>>

\* record_executor_crash: attempts already counts the lease that crashed.
CanRecordCrash(a, owner, token) == Owned(a, owner, token) /\ jobs[a].state \in Active

\* Variant: one crash too many.
CrashesExhausted_OneMore(a) == jobs[a].attempts > MAX_LOCAL_CRASHES

CrashesExhausted(a) == jobs[a].attempts >= MAX_LOCAL_CRASHES

\* Variant: a state the schema does not have.
RecordExecutorCrash_NewState(a, owner, token) ==
  /\ CanRecordCrash(a, owner, token)
  /\ jobs' = [jobs EXCEPT ![a] =
                Closed(@, IF CrashesExhausted(a) THEN "DEAD_LETTERED" ELSE "QUEUED")]
  /\ UNCHANGED <<dlq, transient, issued>>

RecordExecutorCrash(a, owner, token) ==
  /\ CanRecordCrash(a, owner, token)
  /\ jobs' = [jobs EXCEPT ![a] =
                Closed(@, IF CrashesExhausted(a) THEN "FAILED" ELSE "QUEUED")]
  /\ dlq' = IF CrashesExhausted(a) /\ dlq[a] = 0
            THEN [dlq EXCEPT ![a] = jobs[a].attempts] ELSE dlq
  /\ UNCHANGED <<transient, issued>>

-----------------------------------------------------------------------------
(* request_cancel, for one attempt or for every attempt of a build.        *)

RequestCancel(targets) ==
  /\ jobs' = [a \in Attempts |->
                IF a \in targets /\ Present(a) /\ jobs[a].state \notin Terminal
                THEN [jobs[a] EXCEPT !.cancel = TRUE] ELSE jobs[a]]
  /\ UNCHANGED <<dlq, transient, issued>>

CancelTargets ==
  {{a} : a \in Attempts}
    \cup {{a \in Attempts : BuildOf[a] = BuildOf[b]} : b \in Attempts}

\* Variant: pruning looks at the age of a row only.
StartStore_AnyState(old) ==
  /\ jobs' = [a \in Attempts |-> IF a \in old THEN NoRow ELSE jobs[a]]
  /\ transient' = {}
  /\ UNCHANGED <<dlq, issued>>

\* The process starts: the in-memory payloads are gone and prune_terminal
\* deletes the terminal rows that are older than the retention period.
StartStore(old) ==
  /\ \A a \in old : jobs[a].state \in Terminal
  /\ jobs' = [a \in Attempts |-> IF a \in old THEN NoRow ELSE jobs[a]]
  /\ transient' = {}
  /\ UNCHANGED <<dlq, issued>>

\* Time passes a lease's lease_expires_at.
LeaseExpires(a) ==
  /\ jobs[a].expires = "live"
  /\ jobs' = [jobs EXCEPT ![a].expires = "past"]
  /\ UNCHANGED <<dlq, transient, issued>>

-----------------------------------------------------------------------------
(* The store under any client that presents owners and tokens it may have  *)
(* obtained at any time before.                                            *)

StoreNext ==
  \/ \E a \in Attempts : Enqueue(a)
  \/ \E a \in Attempts, o \in Owners : AcquireLease(o, a)
  \/ AcquireNothing
  \/ \E a \in Attempts, o \in Owners : \E t \in 1 .. issued[a] :
       \/ RefreshLease(a, o, t)
       \/ Transition(a, "RUNNING", "LEASED", o, t)
       \/ \E s \in Terminal, e \in States : Transition(a, s, e, o, t)
       \/ RecordExecutorCrash(a, o, t)
  \/ \E targets \in CancelTargets : RequestCancel(targets)
  \/ \E old \in SUBSET Attempts : StartStore(old)
  \/ \E a \in Attempts : LeaseExpires(a)

StoreSpec == StoreInit /\ [][StoreNext]_storeVars

-----------------------------------------------------------------------------
(* Properties                                                              *)

\* Every column keeps its type, the states those of the table's CHECK
\* constraint (store.py:763).
StoreTypeOK ==
  /\ jobs \in [Attempts -> Row]
  /\ dlq \in [Attempts -> Nat]
  /\ transient \subseteq Attempts
  /\ issued \in [Attempts -> Nat]

\* The lease columns are set together, exactly while an attempt is leased or
\* running, and the token in the row is the newest one ever generated for the
\* attempt.  An attempt that is not in the queue has no cancellation request.
\* A row that broke this would be leased to nobody and reclaimed by nobody, or
\* would let a former holder in again (acquire_lease, transition,
\* record_executor_crash).
LeaseShape ==
  \A a \in Attempts :
    /\ jobs[a].state \in Active => /\ jobs[a].owner \in Owners
                                  /\ jobs[a].token = issued[a]
                                  /\ issued[a] > 0
                                  /\ jobs[a].expires # "none"
    /\ jobs[a].state \notin Active => /\ jobs[a].owner = NULL
                                     /\ jobs[a].token = NoToken
                                     /\ jobs[a].expires = "none"
    /\ jobs[a].cancel => jobs[a].state \in {"QUEUED"} \cup Active

\* A requeued attempt has a lease left before it is dead-lettered, and nothing
\* is dead-lettered earlier than that (record_executor_crash, store.py:427).
RetryBudget ==
  \A a \in Attempts :
    /\ jobs[a].attempts <= issued[a]
    /\ jobs[a].state = "QUEUED" => jobs[a].attempts < MAX_LOCAL_CRASHES
    /\ dlq[a] # 0 => dlq[a] >= MAX_LOCAL_CRASHES

\* Rows have distinct rowids, in the order of their creation times, whatever
\* was pruned in between: so the queue is served first come first served and
\* is_current_attempt (store.py:151) picks one attempt of a build, the one
\* that was assigned last.
InsertionOrder ==
  \A a, b \in Attempts :
    (Present(a) /\ Present(b) /\ a # b) =>
      /\ jobs[a].rowid # jobs[b].rowid
      /\ jobs[a].rowid < jobs[b].rowid => jobs[a].created <= jobs[b].created

\* A terminal attempt is never leased, requeued, cancelled or finished a second
\* time, by any client with any lease it ever had: it can only be pruned
\* (docs/design.md:43, "A completed attempt is never rerun").
TerminalIsFinal ==
  [][\A a \in Attempts :
       jobs[a].state \in Terminal => jobs'[a] \in {jobs[a], NoRow}]_storeVars

\* The rows of the table, seen as the lifecycle the queue promises.
PhaseOf(row) ==
  CASE row.state = "ABSENT" -> "unknown"
    [] row.state = "QUEUED" -> "waiting"
    [] row.state \in Active -> "held"
    [] OTHER -> row.state

Lifecycle == INSTANCE AttemptLifecycle WITH
  phase <- [a \in Attempts |-> PhaseOf(jobs[a])],
  holder <- [a \in Attempts |-> jobs[a].token],
  grants <- issued

\* Each attempt goes through the lifecycle of AttemptLifecycle: one holder at a
\* time, each grant newer than all before, one outcome (the whole store).
FollowsLifecycle == Lifecycle!Spec

=============================================================================
