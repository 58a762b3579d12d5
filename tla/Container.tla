------------------------------ MODULE Container ------------------------------
(***************************************************************************)
(* One build container: run_container in executor/docker_runner.py, the    *)
(* docker CLI it spawns and the container that the Docker daemon keeps.    *)
(*                                                                         *)
(* The engine learns the id of the container from the cidfile, which the   *)
(* CLI writes after the daemon has created the container and before it is  *)
(* started.  Three things end a build early: the cancel_event, the         *)
(* deadline, and the cancellation of the worker's task when the process    *)
(* shuts down.  Each await of run_container is a value of pc.              *)
(*                                                                         *)
(* Docker is external.  With --rm the daemon removes a container when it   *)
(* exits.  A SIGTERM ends a CLI that has not started its container, or is  *)
(* passed on to the container, which may ignore it; a SIGKILL ends the CLI *)
(* and nothing else.                                                       *)
(***************************************************************************)
EXTENDS Naturals

CONSTANTS
  MaxFailures,  \* how many docker stop and docker rm commands fail
  Shutdowns     \* whether the process is shut down meanwhile

ASSUME ContainerAssumption == MaxFailures \in Nat /\ Shutdowns \in BOOLEAN

VARIABLES
  pc,         \* the await run_container is at
  verdict,    \* how the build ends: what ContainerResult will say, or "shutdown"
  cancel,     \* cancel_event is set
  late,       \* the deadline has passed
  target,     \* whether _stop_container was given an id
  cli,        \* the process "docker run": "none", "running" or "exited"
  terminated, \* whether it was sent a SIGTERM
  cidfile,    \* whether it wrote the id
  container,  \* what the daemon has
  failures    \* docker commands that failed so far

engineVars == <<pc, verdict, target>>
dockerVars == <<cli, terminated, cidfile, container, failures>>
vars == <<engineVars, cancel, late, dockerVars>>

Stopped == {"none", "gone"}
Ended == {"returned", "raised"}
Awaits == {"spawning", "waiting", "stopping", "removing", "terminating", "draining"}

\* cancel_event may have been set while the image was pulled.
Init ==
  /\ pc = "spawning" /\ verdict = "none" /\ target = FALSE
  /\ cancel \in BOOLEAN /\ late = FALSE
  /\ cli = "none" /\ terminated = FALSE /\ cidfile = FALSE
  /\ container = "none" /\ failures = 0

-----------------------------------------------------------------------------
(* run_container and _wait_for_process.                                    *)

Spawn ==
  /\ pc = "spawning"
  /\ \/ pc' = "waiting" /\ cli' = "running"
     \/ pc' = "raised" /\ UNCHANGED cli
  /\ UNCHANGED <<verdict, target, cancel, late, terminated, cidfile, container, failures>>

\* The CLI exits by itself.
WaitEnds ==
  /\ pc = "waiting" /\ cli = "exited"
  /\ verdict' = "exited" /\ pc' = "draining"
  /\ UNCHANGED <<target, cancel, late, dockerVars>>

\* _terminate_then_kill up to its await.
Terminate ==
  /\ pc' = IF cli = "exited" THEN "draining" ELSE "terminating"
  /\ terminated' = (cli # "exited" \/ terminated)

\* Variant: the two flags of ContainerResult are mixed up.
Interrupted_Swapped == IF cancel THEN "timed_out" ELSE IF late THEN "cancelled" ELSE "none"

\* The event is looked at before the deadline.
Interrupted == IF cancel THEN "cancelled" ELSE IF late THEN "timed_out" ELSE "none"

\* _read_container_id, then _stop_container, which does nothing without an id.
Interrupt ==
  /\ pc = "waiting"
  /\ Interrupted # "none"
  /\ verdict' = Interrupted
  /\ target' = cidfile
  /\ \/ cidfile /\ pc' = "stopping" /\ UNCHANGED terminated
     \/ ~cidfile /\ Terminate
  /\ UNCHANGED <<cancel, late, cli, cidfile, container, failures>>

\* The exit codes of docker stop and docker rm are not looked at.
CommandFails == failures < MaxFailures /\ failures' = failures + 1 /\ UNCHANGED container

\* docker stop ends a container that runs.
StopAnswers ==
  /\ pc = "stopping"
  /\ pc' = "removing"
  /\ \/ /\ container' = IF container = "running" THEN "gone" ELSE container
        /\ UNCHANGED failures
     \/ CommandFails
  /\ UNCHANGED <<verdict, target, cancel, late, cli, terminated, cidfile>>

\* Variant: docker rm is left to --rm.
RemoveAnswers_Skipped ==
  /\ pc = "removing"
  /\ Terminate
  /\ UNCHANGED <<verdict, target, cancel, late, cli, cidfile, container, failures>>

RemoveAnswers ==
  /\ pc = "removing"
  /\ \/ container' = "gone" /\ UNCHANGED failures
     \/ CommandFails
  /\ Terminate
  /\ UNCHANGED <<verdict, target, cancel, late, cli, cidfile>>

TerminateEnds ==
  /\ pc = "terminating" /\ cli = "exited"
  /\ pc' = "draining"
  /\ UNCHANGED <<verdict, target, cancel, late, dockerVars>>

\* Variant: the grace period starts again.
GraceOver_Waits ==
  /\ pc = "terminating" /\ cli = "running"
  /\ UNCHANGED vars

\* The grace period is over: SIGKILL.
GraceOver ==
  /\ pc = "terminating" /\ cli = "running"
  /\ cli' = "exited"
  /\ pc' = "draining"
  /\ UNCHANGED <<verdict, target, cancel, late, terminated, cidfile, container, failures>>

\* pump_stream reads until the CLI closes its ends.
Drained ==
  /\ pc = "draining" /\ cli = "exited"
  /\ pc' = IF verdict = "shutdown" THEN "raised" ELSE "returned"
  /\ UNCHANGED <<verdict, target, cancel, late, dockerVars>>

\* The task is cancelled.  In create_subprocess_exec that kills the CLI; later
\* the finally clause still waits for the streams, unless that is what it was
\* waiting for.
Shutdown ==
  /\ Shutdowns /\ pc \in Awaits /\ verdict # "shutdown"
  /\ verdict' = "shutdown"
  /\ pc' = IF pc \in {"spawning", "draining"} THEN "raised" ELSE "draining"
  /\ cli' = IF pc = "spawning" THEN "exited" ELSE cli
  /\ UNCHANGED <<target, cancel, late, terminated, cidfile, container, failures>>

-----------------------------------------------------------------------------
(* The cancellation monitor and the clock.                                 *)

CancelArrives ==
  /\ ~cancel /\ pc \notin Ended
  /\ cancel' = TRUE
  /\ UNCHANGED <<engineVars, late, dockerVars>>

DeadlinePasses ==
  /\ ~late /\ pc = "waiting"
  /\ late' = TRUE
  /\ UNCHANGED <<engineVars, cancel, dockerVars>>

-----------------------------------------------------------------------------
(* The docker CLI and the daemon.                                          *)

CliCreates ==
  /\ cli = "running" /\ container = "none"
  /\ container' = "created"
  /\ UNCHANGED <<engineVars, cancel, late, cli, terminated, cidfile, failures>>

CliRecords ==
  /\ cli = "running" /\ container = "created" /\ ~cidfile
  /\ cidfile' = TRUE
  /\ UNCHANGED <<engineVars, cancel, late, cli, terminated, container, failures>>

CliStarts ==
  /\ cli = "running" /\ container = "created" /\ cidfile
  /\ container' = "running"
  /\ UNCHANGED <<engineVars, cancel, late, cli, terminated, cidfile, failures>>

\* With its container, on an error before there is one, or by the SIGTERM.
CliExits ==
  /\ cli = "running"
  /\ container \in Stopped \/ (terminated /\ container = "created")
  /\ cli' = "exited"
  /\ UNCHANGED <<engineVars, cancel, late, terminated, cidfile, container, failures>>

ContainerExits ==
  /\ container = "running"
  /\ container' = "gone"
  /\ UNCHANGED <<engineVars, cancel, late, cli, terminated, cidfile, failures>>

-----------------------------------------------------------------------------
Engine ==
  Spawn \/ WaitEnds \/ Interrupt \/ StopAnswers \/ RemoveAnswers
    \/ TerminateEnds \/ GraceOver \/ Drained

Docker == CliCreates \/ CliRecords \/ CliStarts \/ CliExits \/ ContainerExits

Next == Engine \/ Shutdown \/ CancelArrives \/ DeadlinePasses \/ Docker

Spec == Init /\ [][Next]_vars

\* The engine's awaits end: docker stop and docker rm answer, a killed process
\* is gone, grace periods and the deadline are finite.  Nothing is assumed of
\* the build itself, which may run for ever.
Fairness == WF_vars(Engine) /\ WF_vars(DeadlinePasses)

FairSpec == Spec /\ Fairness

-----------------------------------------------------------------------------
(* Properties                                                              *)

\* The variables have their types, a container exists only once the CLI ran, and
\* the verdict names what happened.
ContainerTypeOK ==
  /\ pc \in Awaits \cup Ended
  /\ verdict \in {"none", "exited", "cancelled", "timed_out", "shutdown"}
  /\ cancel \in BOOLEAN /\ late \in BOOLEAN /\ target \in BOOLEAN
  /\ cli \in {"none", "running", "exited"}
  /\ terminated \in BOOLEAN /\ cidfile \in BOOLEAN
  /\ container \in {"none", "created", "running", "gone"}
  /\ failures \in 0 .. MaxFailures
  /\ cli = "none" => container = "none"
  /\ verdict = "cancelled" => cancel
  /\ verdict = "timed_out" => late

\* When run_container returns, the CLI has exited and the container is gone, if
\* the build ended by itself or the id could be read when it was stopped and
\* Docker did as it was told: the workspace that execute_job removes next is
\* nobody's any more (_stop_container, docker_runner.py:442-471).
NothingOutlivesTheBuild ==
  (pc = "returned" /\ verdict # "shutdown") =>
    /\ cli = "exited"
    /\ (verdict = "exited" \/ target) /\ failures = 0 => container \in Stopped

\* Every build ends, also one that never would by itself and that ignores
\* SIGTERM, unless the process is shut down meanwhile (_wait_for_process,
\* _terminate_then_kill).
BuildEnds == (pc = "spawning") ~> (pc \in Ended \/ verdict = "shutdown")

\* The container is stopped and removed on shutdown (docs/design.md:79).
ShutdownRemoves == (verdict = "shutdown") ~> (container \in Stopped)

=============================================================================
