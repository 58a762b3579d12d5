# A TLA+ model of the build engine

The build engine (`src/src/build_engine`) is an agent that a host runs next to
Docker. A backend assigns it *build attempts* over a WebSocket; the engine keeps
them in a SQLite queue, a pool of workers builds them in containers, and the
outcome goes back as numbered, durable events. This directory holds TLA+ modules
for the parts of the engine that have to be right under concurrency and failure,
the configurations with which TLC checks them, and proofs that TLAPS checks.

Paths below are relative to `src/src/build_engine`; `docs/` is `src/docs`.

## 1. Inventory

| Part | State it keeps | Operations | Interacts with | What is hard |
|---|---|---|---|---|
| Durable queue, `queue/store.py` `SQLiteQueueStore` | tables `jobs`, `dlq`; `_transient_payloads` in memory | `enqueue`, `acquire_lease`, `refresh_lease`, `transition`, `record_executor_crash`, `request_cancel`, `prune_terminal` | handlers, workers | holders that lost their lease, expiry, retry budget, pruned rows, restarts without the in-memory payloads |
| Leases, `queue/leases.py` | a `QueueLease` per worker | `acquire_queue_lease` | queue | stale copies of a row |
| Worker pool, `agent/job_loop.py` | per worker: the lease, the phase, `cancel_event` | `_worker`, `execute_job`, `_refresh_lease`, `_monitor_cancel`, `_ensure_current_attempt` | queue, publisher, container, workspace | a phase may outlive its lease; three ways out of `execute_job`; publishing may fail |
| Service, `cli/commands.py` `_run_service` | drain marker | start, SIGTERM, grace period, exit | everything | death at any point, restart |
| Event outbox, `queue/store.py` `SQLiteEventOutbox` | table `events`, column `sequence_cursor` | `append`, `ack_through`, `replay_after`, `next_seq`, pruning | uplink | two transactions per event, a size limit, event age |
| Uplink, `agent/uplink.py` | `_ws`, session, `_publish_lock` | `run_forever`, `connect_once`, `publish_attempt_event`, `_handle_frame` | outbox, handlers, backend | live events during a replay, lost connections, replies that raise |
| Command handlers, `queue/handlers.py` | drain marker | `assign`, `cancel`, `drain`, `resume`, `cache_reset` | queue, cache | repeated commands, commands for unknown attempts |
| Container execution, `executor/docker_runner.py` | the docker CLI process, the cidfile | `run_container`, `_wait_for_process`, `_stop_container`, `_terminate_then_kill` | Docker | cancellation, timeout or shutdown at any point of `docker run` |
| Workspaces and artifacts, `executor/workspace.py`, `artifact.py` | a directory per attempt | create, remove, package, upload | workers | two workers on one attempt |
| Site cache, `executor/cache.py` | a directory per site with `.metadata.json` and a marker | `prepare_site_cache`, `prune_cache`, `reset_cache` | workers, handlers, the CLI as a process of its own | pruning in a thread without the locks, removal that is not atomic, kills half-way, age and size limits |
| Detection, `detect/` | none | `plan_build`: framework, package manager, Node version, script, output | workers | version ranges decided by two sample versions, several frameworks in one project |
| Authentication, `agent/auth.py`, `config.py` | credentials file; a copy in the uplink, another in the workers | `register_engine`, `refresh_session`, `refresh_session_if_needed`, `write_credentials`, `load_credentials` | uplink, workers, the CLI as processes of its own | refresh against expiry, copies that grow old, kills while the only copy of a secret is written |
| Heartbeat, metrics, dead-letter report, doctor, logging, config | counters | read or report | - | - |

What makes the parts correct, in one line each: an attempt is run by one holder
at a time and ends once; a worker never leaves a lease behind; success means an
artifact and a durable row; what is published agrees with the row; every attempt
ends; an event keeps its number, is not lost between replay and live stream, and
leaves the spool in the end; nothing of a build outlives it, and every build
ends; a build finds in its cache what its lockfile allows; a connection is opened
with a live token, and the credentials are never lost; a project is built by a
certified framework or refused, on a Node version it accepts. `PROJECT.json` lists the hazards
behind these at their lines.

## 2. Modules

| Module | Models | Composes |
|---|---|---|
| `AttemptLifecycle` | the abstract promise of the queue: an attempt is offered, granted to one holder at a time, finished once | - |
| `QueueStore` | `SQLiteQueueStore`, each method one action, under *any* client that presents old leases | refined to `AttemptLifecycle` |
| `JobLoop` | worker pool, handlers' effect on the queue, the process with kill, stop and restart | extends `QueueStore`, refined to its `StoreSpec` |
| `Outbox` | `SQLiteEventOutbox` | - |
| `Uplink` | session, publishing, commands, network, backend | extends `Outbox` |
| `Container` | `run_container` with the docker CLI and the daemon | - |
| `SiteCache` | the caches, the workers that prepare, prune and mount them, resets from the handler and from the CLI, kills and time | - |
| `Credentials` | the credentials file, CLI processes that replace it, the service with its two copies, expiry | - |
| `NodeRange` | how the code reads an `engines.node` range, beside what npm means by it | - |
| `Detection` | `plan_build` | extends `NodeRange` |
| `QueueStoreProofs`, `JobLoopProofs`, `UplinkProofs`, `ContainerProofs`, `SiteCacheProofs`, `CredentialsProofs`, `DetectionProofs` | TLAPS proofs | extend the modules they are about |
| `NaturalFacts` | least and greatest elements of sets of numbers, for the proofs | - |
| `MC*` | values of the constants for TLC | extend the module they check |

### How state and actions correspond to the code

**QueueStore.** `jobs[a]` is the row of an attempt, `NoRow` where there is none.
`lease_expires_at` is abstracted to `"live"` or `"past"` and the clock to
`LeaseExpires`; `created_at` is a number that never decreases and may repeat
(it is text with milliseconds). Tokens are random strings in the code; here the
n-th token generated for an attempt is the number n, which makes "newer"
expressible. A method that raises `QueueError` rolls back; its guard is the
condition for not raising. `AcquireLease` includes the cancellation of the
attempts the query passes over, as the code does in one transaction.

**JobLoop.** Everything runs on one asyncio loop, so an action lasts from one
`await` to the next. The stretch from `acquire_lease` to the transition to
`RUNNING` has no `await` but two transactions: it is two actions, and while a
worker is in between (`LoopFree` is false) only the process can die or an
abandoned lease run out. The values of `pc` are the awaits of `execute_job`.
Each phase may go on, raise what becomes a `BuildExecutionError` (`PrepareFails`
... `UploadFails`, then `Fail`), or raise anything else (`PhaseCrashes`, then
`Crash`); all include the `finally` clause that removes the workspace, and
`Fail` includes the compare-and-set and goes on to report even when it was
refused. `published[a]` holds what the durable events of an attempt say of its
outcome, `uploads[a]` the tokens of the leases under which an artifact was
uploaded, `stranded` the attempts that were leased when the process went down.
`Exit` is the end of the grace period: tasks are cancelled, or systemd kills
the process if a container keeps it waiting.

**Outbox and Uplink.** The outbox's connection is in autocommit mode, so `Insert`
and `Count` (cursor and pruning) are separate. `publish_attempt_event` holds a
lock from numbering to sending: `stage` says how far the one event under way is.
`connect_once` is `Connect` (which sets `_ws`), `ReceiveWelcome`, `ReadSpool`,
`ReplayNext`, then the frame loop, which does not read on while it replies.
`replay` is the set of events that `replay_after` returned and that are still to be
sent; `ReplayNext` takes the oldest, as the query orders them. Events are of one
size, so `max_bytes` is a number of events. The backend is
external: its cursor is the highest sequence it received.

Every way out of `connect_once` goes through `SessionEnds`: a broken connection, a
welcome or frame that the protocol does not allow (`RejectFrame`), a reply that
raises. The heartbeat is a task that may raise at any time (`HeartbeatFails`);
nobody awaits it before the session ends, and then the `finally` clause raises at
that await, before `_ws` is reset. The next event is sent into the old connection
and unsets `_ws`; it is durable and the next session replays it. What was on the
way when a session ended counts as lost. `Restart` includes what the service does
before it connects: `StartOutbox` prunes terminal rows, whose events go with them
by the foreign key's cascade and whose cursors start again, and then the spool.
`forgotten` remembers the attempts whose row was pruned.

**SiteCache.** `dirs[s]` is a site's directory: the lockfile its metadata names
(or none, or a file cut off while it was written), the marker of a disabled cache,
the files of builds with the lockfile they were made for, and whether its last
access is older than `cache_ttl_days`. What runs on the event loop excludes the
rest of the event loop (`LoopFree`): `prepare_site_cache` and the handler's reset.
`prune_cache` runs in a thread per worker and takes no lock; the CLI's reset is
another process. A removal is `Open`, one `Unlink` per entry and `Rmdir`; it goes
through the descriptor it opened, files of the top level first (`shutil.rmtree` of
Python 3.14), so the metadata goes before the contents. Whatever a worker's prune
or wipe raises fails its build. Sizes are numbers of files. `disturbed` is history:
the sites where operations overlapped or a removal was cut off; a site leaves it
once its directory is gone. `quiet` is history too: the sites nobody touched since
a prune began.

**Credentials.** A token is its owner and the ticks it has left. `write_credentials`
is `Stage` (temporary file) and `Replace` (rename), and a CLI process may be killed
before, between and after. The service loads the file once (`Boot`); `uplink` and
`workers` are its two copies, of which only the first is ever refreshed, and never
written back. There is one clock: the engine compares expiry times with its own, and
the model takes it to agree with the backend's. `slack` says how long the token under way may still take: requests
time out after seconds, the refresh window is five minutes.

**NodeRange and Detection.** A project is what the code looks at: the framework the
job names, the Hugo configuration, dependencies, `packageManager`, lockfiles,
scripts by the tool they run (the ones called `build` and `docs:build`, and all
`others`), and the range as a set of alternatives of tokens. A token is `plain` if the
code's regular expression matches it; npm reads others too (`v22`, `>= 22`, hyphen
ranges), and gives an empty alternative a meaning where the code passes over it.
`MajorSatisfies` is the code's decision by two versions of a major, `Means` the meaning
of one alternative to npm and `Allows` that of a range; `Detection`'s only step is `plan_build`, in the order
of its errors. The `.999.999` of the code is `Top`. `Token` and `Project` are all the
tokens and projects there can be; TLC is given a finite part of them (`Projects`).

**Container.** `pc` is the await `run_container` is at, `verdict` what it will
return; `cli`, `cidfile` and `container` are Docker's side. `docker stop` and
`docker rm` may fail, which the code does not look at.

## 3. Runs

| Run | Instance | Shows |
|---|---|---|
| `store` | 2 attempts of one build, 2 owners, 2 leases each, rowids to 3, crash limit 2 | typed rows; `LeaseShape`, `RetryBudget`, `InsertionOrder`; terminal rows are final; refinement of `AttemptLifecycle` |
| `loop` | 1 attempt, 2 workers, crash limit 2, 1 lease lost under a live worker, 1 kill or stop with its restart, the command to resume, with fairness | `LeasesAreDistinct`, `NoAbandonedLease`, `SuccessHasArtifact`, `PublishedSuccessIsDurable`; the pool refines `StoreSpec`; `EveryAttemptEnds`; a cancellation that no worker can see is carried out (`UnheldCancelsEnd`) |
| `loop_pair` | 2 attempts of one build, 2 workers, crash limit 2, the command to drain, no lost lease, no restart | outcomes are written before they are published (`OutcomesAreWrittenFirst`); a cancellation ends only the attempt it was meant for, and only while it stands (`CancelledOnlyOnRequest`) |
| `uplink` | 1 attempt, 3 events, room for 2, one each of: aged event, broken connection or rejected frame or failing heartbeat, kill, kill inside `append`, command for an unknown attempt; pruning at every start | no gap between replay and live events; statuses outlive logs, also in the pruning at start-up; a sequence number stands for one event |
| `uplink_live` | 2 events, 1 broken connection, rejected frame or failing heartbeat, 1 kill, 1 unknown command, with fairness | `SpoolDrains` |
| `container` | cancel at any time, deadline, shutdown, 2 failing docker commands, with fairness | nothing outlives the build; `BuildEnds` |
| `site_cache` | 2 sites, 2 workers, 2 lockfiles, 2 files per directory against a limit of 1; 3 builds, 1 reset or kill, 1 cache that expires | `ContentsMatchLockfile` on undisturbed sites; a prune leaves every site it had to itself within its limits; no cache in use is condemned as expired |
| `credentials` | 2 CLI processes, tokens of 3 ticks, window and handshake of 1, 2 registrations, 2 kills, with fairness | `UpgradeTokenLive`, `CredentialsSurvive`, `UplinkConnects` |
| `detection` | 395,000 projects, 21,500 of them ranges over three majors, for Node 22 | plans are certified; what the code reads of a range is decided as npm does but for the named exceptions |
| `aged_events` | violation of `EveryUnackedIsReplayed` | events older than five minutes are not replayed |
| `deferred_fallback` | violation of `NoFallbackToVite`, over the projects with Remix, Next, Astro and Vite in any combination | Remix is planned as Vite |
| `stale_session` | violation of `WorkersAuthenticated` | the workers' copy of the token is never refreshed |

### Bounds, and why they are enough

- *Store*: two leases per attempt are what it takes for a former holder to meet
  a new one and for the crash limit of 2 to be reached; rowid 3 lets a pruned
  attempt come back after another one, which is where the order of rows could
  go wrong. Two attempts make the order and the superseding visible.
- *Loop*: with one attempt and two workers the second can take over what the
  first lost; one more restart or lost lease only repeats that pattern, and
  the proofs of section 5 remove the bound for safety. Interference between
  attempts needs two attempts but neither lost leases nor restarts (`loop_pair`).
  `Drains` is the set of drain commands that may come: `loop_pair` drains, in `loop`
  SIGTERM writes the marker and the command removes it. Workers are
  interchangeable, so they are a symmetry set except in `loop`, which checks
  liveness.
- *Uplink*: three events with room for two overflow the spool once and leave
  one event before, one during and one after a replay. Each fault happens once;
  their orders are what matters.
- *Site cache*: overlapping needs two workers, or one and a reset; one site is
  built while the other is pruned. Three builds are one that fills a cache, one that
  finds it, and one that prunes. One file fits and two are over the limit. One kill
  or reset meets every state of the others; `MaxEvents` keeps the sum small, and
  every pair and triple of events fits in it. Sites, workers and lockfiles are
  symmetry sets.
- *Credentials*: three ticks give a token that is fresh, in the window and expired;
  two CLI processes are the fewest that can overwrite each other. Liveness is
  checked, so there is no symmetry.
- *Detection*: one family of projects varies what the framework, manager and
  scripts are chosen by, another the range, with up to two tokens in an
  alternative and up to two alternatives, empty ones and spellings that the code
  does not read among them; numbers from 0 to 2 below a `Top` of 3 tell apart every
  comparison the code makes. A third has deferred frameworks.
- *Container*: nothing is bounded but the failing commands, of which there are
  two per build.

`CHECK_DEADLOCK FALSE` is set for `store` and `site_cache`, whose bounds stop them,
for `container`, where a build that is over is over, and for `detection`, which
plans once.

### Fairness

- `JobLoop`: weak fairness of each worker's steps (downloads, pulls, containers
  and uploads have timeouts), of polling, of the clock that expires abandoned
  leases, of the end of the grace period and of a restart. The unit has
  `Restart=on-failure` (`packaging/systemd/build-engine.service:14`), so systemd
  starts the service again after a kill; after a clean stop it is the operator, and
  the liveness properties say nothing of an engine that is left stopped. None for
  the backend, for faults or for the refresher.
- `Uplink`: weak fairness of publishing, of the session (`run_forever` retries
  for ever), of replies, of delivery on a connection that stays, and of the
  backend's acknowledgements.
- `Container`: weak fairness of the engine's awaits and of the deadline. That
  `docker stop` and `docker rm` answer is an assumption: the code awaits them
  without a timeout. Nothing is assumed of the build.
- `Credentials`: weak fairness of the start of the service with a live token
  (systemd or the operator, as above) and of the check before each connection (`run_forever` retries for
  ever); strong fairness of the backend's answers to a refresh and to an upgrade:
  what is asked again and again is answered some time. None for the commands of
  the operator, for time or for the start with an expired token.

## 4. Known divergences

The three violation runs are findings in `PROJECT.json`. The model also shows the
following, which are not kept as runs of their own.

*Properties that are stated in the modules and fail; put into a configuration,
each gives its counterexample:*

- `SettledIsPublished` (`JobLoop`, in `MCJobLoopPair.cfg`): an attempt that is
  cancelled before it starts ends without any event (`queue/store.py:201`;
  docs/design.md:82).
- `CancelStands` (`JobLoop`, in `MCJobLoopPair.cfg`): a crash requeues the attempt
  and drops its cancellation (`queue/store.py:470`; docs/design.md:42).
- `ShutdownRemoves` (`Container`, in `MCContainer.cfg`): on shutdown the container is
  not stopped, `run_container` only waits for it (`executor/docker_runner.py:376`;
  docs/design.md:79).

*Queue and workers; the first three are properties stated in `JobLoop`:*

- `PublishedOutcomeIsDurable` fails with `MaxExpiries = 1` (in `MCJobLoop.cfg`): a worker that lost
  its lease has its transition refused, and publishes its outcome all the same
  (`agent/job_loop.py:175,186`; docs/operations.md:70 says that stale owners
  cannot terminalize an attempt).
- `HolderHasWorkspace` fails with `MaxExpiries = 1` (in `MCJobLoop.cfg`): the `finally` clause of the
  worker that lost its lease removes the directory of its successor
  (`agent/job_loop.py:456`; docs/design.md:53).
- `PublishedOutcomeIsDurable` fails with `Drains = {TRUE}` (in `MCJobLoopPair.cfg`): an
  assignment repeated while the engine drains is answered `FAILED` although the
  attempt runs (`queue/handlers.py:33`; docs/operations.md:59).
  `OutcomesAreWrittenFirst`, which holds, names this exception and the one of lost
  leases.
- SIGTERM leaves the drain marker behind: after a restart the engine refuses
  assignments until it is resumed.
- `artifact.ready` is published before the upload and the commit
  (`agent/job_loop.py:403`; docs/design.md:82).

*Events and the session:*

- A draining engine never answers the assignment of a new attempt: the refusal is an
  event of an attempt without a row, which cannot be stored (`queue/handlers.py:33`,
  `queue/store.py:738`; docs/operations.md:60). `ReplyRaises` is that step.
- Without `torn = 0`, `SequenceIdentifiesEvent` fails: after a death between the
  `INSERT` of an event and the `UPDATE` of the cursor (`queue/store.py:644-667`)
  and an acknowledgement of the first, the next event takes the same number
  (docs/protocol.md:55-58). Before that acknowledgement the next event of the
  attempt is refused, so `SpoolDrains` is checked without such deaths.
- A live event may be sent before older ones that are still to be replayed,
  because `_ws` is set before the replay (`agent/uplink.py:175`). A backend that
  acknowledges the highest number it saw then acknowledges events it never
  received. The order of arrival is not something the documents promise.
- An attempt whose row was pruned and that is assigned again starts its sequence at
  1, below the backend's cursor; `SequenceIdentifiesEvent` excludes `forgotten`
  attempts.
- When the heartbeat task raises, no heartbeat is sent any more while the session
  goes on, and at its end `_ws` keeps the old connection (`agent/uplink.py:185-189`).
  Nothing is lost by it: `ReplayLeavesNoGap` and `SpoolDrains` hold.
- A session that ends by an exception does not close its connection
  (`agent/uplink.py:174`). The model takes it for closed; what the backend does with
  two connections of an engine is not in the repository.

*Containers:*

- A build that is cancelled before the cidfile exists leaves its container:
  `_stop_container` does nothing without an id (`executor/docker_runner.py:450`;
  docs/design.md:79). `NothingOutlivesTheBuild` therefore speaks of builds whose
  id was read.

*Site caches; `ContentsMatchLockfile` fails without `disturbed` (docs/design.md:116-117,
docs/operations.md:65-66):*

- A removal that is killed has lost the metadata before the contents; the next build
  takes a directory without metadata for its own (`executor/cache.py:246`).
- A prune or reset that overlaps a build, the CLI's reset, which has locks of its own,
  and two builds of one site with different lockfiles mix contents the same way.
- The size rule may remove a cache that a build mounts, and the age rule one that a build
  prepares after it was judged; the build goes on with a directory that nobody sees.
- Two prunes at a time may fail a build: what one has listed the other removes, and
  the `stat` or `rmtree` that follows raises (`executor/cache.py:208`).
- A kill inside `_write_metadata` leaves a file that is not JSON, and every later
  build of the site raises `CacheError` until the cache expires or is reset
  (`executor/cache.py:323`).

*Credentials:*

- The service never writes its refreshed token back: a restart presents the token of
  the file to the self-test, and if the backend refuses an expired one, `serve`
  returns 1 until someone runs `session refresh` (`cli/commands.py:150`).
- `session refresh` that overlaps `register` writes the old identity back
  (`agent/auth.py:229`).
- A CLI process that is killed before the rename leaves a temporary file with the
  secret beside the credentials file.

*Detection:*

- A script `"build": "vitepress build docs"` gives the output `.vitepress/dist`, not
  the one under `docs`: only the name of the script decides.
- Ranges that npm satisfies with a Node 22 are refused: an exact `22.11.0`, `~22.3`,
  hyphen ranges, `v22`, `>= 22`, `^20 ||` (npm takes the empty alternative for any
  version, the code for none). `>22` is accepted for 22. `NodeRangeSound`
  names the last exception; `NodeRangeComplete` speaks of the alternatives that the code
  reads and of the two versions that it tries, and of the second nothing for partial
  versions.
- A Hugo project with a `yarn.lock` is refused, although it installs nothing; a
  pnpm project without a lockfile is installed with `--frozen-lockfile`.

## 5. Proofs

TLAPS checks the following for every set of attempts, every assignment of
attempts to builds, every pool of workers, every crash limit, capacity and cache
limit, every project, and every number of faults, of failing docker commands and of
CLI processes. The assumptions on the constants are named in the modules:

- attempt ids are numbers (positive ones where events carry them), builds are
  numbers, `NULL` is not an owner, and the crash limit and the capacity of the spool
  are positive;
- the bounds of the models are numbers;
- the refresh window is at least as long as the way of a token to the backend, which
  is shorter than the token's life;
- there are finitely many workers; the handler and the CLI are not workers and are
  not each other;
- the names `NoDir`, `NoSite`, `Absent`, `Torn`, `Stale`, `Metadata` and `Marker`
  stand for no directory, site, lockfile or file that exists;
- projects have the shape the code reads (`Project`), and the supported Node majors
  are a finite set of positive numbers that is not empty.

**QueueStoreProofs.** `Inv` is the conjunction of `StoreTypeOK`, `LeaseShape`,
`RetryBudget` and `InsertionOrder`; it is inductive as it stands, because each
conjunct speaks of one row (or a pair), and a call changes each row in one of
seven ways. The lemma `EveryCallIsRowSteps` classifies the calls once (`RowStep`);
every later proof is by cases on the seven.

- `StoreInvariant`: `StoreSpec => []Inv`; `ColumnsKeepTheirTypes`, `RetriesStayInBudget`
  and `RowsKeepTheirOrder` are its parts.
- `TerminalAttemptsAreFinal`: an action property from the same lemma.
- `StoreImplementsLifecycle`: each row step is a step of `AttemptLifecycle`. It
  needs `LeaseShape` (the token in a leased row is the newest one).

**JobLoopProofs.** None of the pool's invariants is inductive alone. `LoopInv`
adds what a worker knows of the lease it acts on (`WorkerOK`): its token was
generated; if the row has that token, the row names this worker; a worker that
uploaded did so under its token; one that has reported no longer has the row's
token; and a process that is down has idle workers. `LoopStepIsStoreStep` shows
that each step is a call of the queue, so the row steps apply; `WorkerChange` and
`Orderly` then say what a step may do to a worker and to what surrounds an
attempt, `OrderlyStepsPreserve` that such steps preserve `LoopInv`, and one lemma
per kind of step that it is of that form.

- `PoolImplementsStore`: `Spec => LoopImplementsStore`.
- `LeasesStayDistinct`, `SuccessComesWithArtifact`, `PublishedSuccessStaysDurable`,
  `NoLeaseIsAbandoned`, `PoolTypesHold`: the invariants of `loop`.
- `CompletedAttemptsAreNotRerun`: by the refinement, what the queue promises about
  terminal attempts holds for the engine.

`CancelledOnlyOnRequest` needs to know what `cancel_event` stands for. `Heard`: a worker
whose event is set finds the request in the row as long as the row has its token, and
a build comes back as cancelled only if the event was set. It is inductive because the
row steps that drop a request also take the token from the row, and because `Release`
drops the event with the locals of `execute_job`.

- `CancellationsAreRequested`: `Spec => CancelledOnlyOnRequest`, also with lost leases and
  restarts.

Three properties hold only under conditions that section 4 shows to be necessary, and
the theorems state the conditions. Until a lease runs out under a live worker
(`expiries = 0`), `Calm` holds on top of `LoopInv`: the row of a worker that executes
has its token, is not expired and is `RUNNING`, no other worker is at the attempt, the
workspace is its own, and what it is about to report is in the row. Kills and
restarts do not disturb it: the workers are gone then, and leases that run out
afterwards were abandoned.

- `OutcomesComeFromTheRow`: `Spec => OutcomesAreWrittenFirst`, whose conditions are part of
  the property: a step publishes an outcome only if it is in the row after the step, or
  refuses an assignment while the engine drains (`PublishesWhatIsWritten`).
- `WorkspaceIsExclusive`: `Spec => [](expiries = 0 => HolderHasWorkspace)`.
- `PublishedOutcomesAreDurable`: `Spec /\ []~draining => [](expiries = 0 =>
  PublishedOutcomeIsDurable)`: by the same lemma, and because by the row steps a
  terminal row stays.

**UplinkProofs.** `UplinkInv` has a part for the spool and a part for the session.
Of the spool: the event under way has the next number until it is inserted
(`UnderWay`), and unless an append was torn the cursor is past everything in the spool
and past everything ever made for an attempt whose row was never pruned
(`CursorCovers`), so that no number is given twice (`SequenceUnique`). Of the session:
while it replays, an unacknowledged event in the spool was sent or is still to be
replayed (`ReplayCovers`). This is inductive because `_ws` is set before the spool is
read: an event that is stored later is sent directly. Pruning is reasoned about
through `PruneFacts`: what it gives up is a log, is beyond its retention, or leaves a
spool without logs that is full of events that are not older.

- `ReplayIsComplete`, `SequenceNumbersIdentify`, `UplinkTypeCorrect`: the invariants of
  `uplink`.
- `LogsMakeRoom`: its action property `StatusOutlivesLogs`; only pruning gives up events
  (`OnlyPruningGivesUp`), and the facts above are about the spool of that very step, so
  they do not wear out as events come and go.

**ContainerProofs.** `NothingOutlivesTheBuild` speaks of the moment `run_container`
returns and is not inductive. `ContainerInv` adds how it gets there: the verdict is
found when the wait ends and signals are sent only after it; a CLI that exits
unsignalled leaves no container; past `docker rm` the container that was named to it
is gone, or a command has failed.

- `VerdictsAreTrue`, `BuildsLeaveNothing`: the invariants of `container`.

**SiteCacheProofs.** `CacheInv` has four parts. `Shape`: the types, and which prune or
wipe goes with which stage of a worker's build. `Fresh`: the directory a build mounts is
not expired. `SiteOK`: a site that is not disturbed has one user at most; if that is a
removal, whatever is in the directory is still on its list; if it is a build, marker,
metadata and files are what its stage calls for; and when nobody removes it, metadata
that names a lockfile tells the truth about the files, which is what the next build
relies on (`Labelled`). `PruneOK`: a site a prune has to itself is still on its list, or
within what the passes so far enforce. Nearly every action is a step of one actor
`a`, and one lemma per action shows that it is of the form `Alone(a)`: the tasks and
builds of the others stay, directories of others keep their contents and do not get
older, and `a` leaves a site that is its alone in order. `AloneKeepsInv` then gives
`CacheInv`. Three actions reach others and have their own proofs: `Rmdir`, which takes
the directory from whoever has it open or mounted, `TimePasses` and `Kill`.

- `CachesMatchTheirLockfiles`, `CacheTypesHold`: the invariants of `site_cache`.
- `PrunesEnforceLimits`, `PrunesSpareBuilds`: its action properties.

**CredentialsProofs.** `CredentialsInv` adds that the token under way has more ticks
left than the slack (`DialingCovered`): a tick takes one from both, and the check
before dialing gives it because the window covers the handshake. It also says that
the file and every CLI process hold identities that the backend issued, from which
follows that no write empties the file.

- `IdentitiesAreIssued`, `ConnectionsUseLiveTokens`, `CredentialsAreNeverLost`: the
  safety properties of `credentials`.

**DetectionProofs.** Detection is one step, so the invariant (`PlanInvariant`) only says
that a plan is what `plan_build` makes of the project; the rest is about operators. What
the code makes of one token of a range is compared with what npm means by it, by cases
on the operator and the numbers that were given (`SpecifierIsSound`,
`SpecifierIsComplete`); alternatives and conjunctions follow, because both sides read
them alike. This is for all version numbers: the bounds of `detection` do not enter.

- `PlansAreCertified`, `NodeRangesAreSound`, `NodeRangesAreComplete`: the invariants of
  `detection`.

**NaturalFacts.** The oldest event and the newest Node major are chosen from finite sets
of numbers. That they exist is proved from the well-foundedness of `<`: a smallest set
without a greatest element would be one element larger than one that has it.

Only model-checked: the liveness properties `EveryAttemptEnds`, `UnheldCancelsEnd`,
`SpoolDrains`, `BuildEnds` and `UplinkConnects` (fairness and `ENABLED` are outside the
prover's reach), and the three violations. Every safety property of a passing run is
proved. No module uses a `RECURSIVE` operator.

## 6. Not modelled

- The dead-letter report (it reads and prints), metrics and logging, most of the
  doctor and the parsing of the configuration: they change no state that the other
  parts depend on. The heartbeat is modelled as a task that may raise, not by what it
  reports; of the doctor, the self-test that `serve` runs; of the configuration, the
  credentials file.
- The contents of sources, images and artifacts, and HTTP. Downloads, pulls and
  uploads succeed or fail.
- Of the protocol, which fields an envelope has: a frame is accepted or rejected, and
  the five-minute skew is the one rule a property depends on.
- The retention of failed workspaces for debugging (off by default), the length of
  the reconnect backoff, temporary files for secrets.
- What a job says itself about its build (command, output directory, Node version),
  and a `package.json` that cannot be parsed: both replace the answer of `plan_build`.

## 7. Plan

Done: all modules of section 2, all runs of section 3 and the proofs of section 5.

What could come next:

1. `JobLoop` and `Uplink` composed: the drain and the commands are in both, each with
   the other side abstracted.
2. Compositional facts across the modules that are proved apart, for instance that a
   published outcome reaches the backend (liveness, so for TLC).
