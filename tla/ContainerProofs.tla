-------------------------- MODULE ContainerProofs --------------------------
(***************************************************************************)
(* Proofs about Container, for every number of docker commands that fail.  *)
(*                                                                         *)
(* NothingOutlivesTheBuild speaks of the end of run_container; the         *)
(* invariant says what makes it true on the way there: a CLI that nobody   *)
(* signalled outlives its container, and past docker rm a container whose  *)
(* id was read is gone or a command has failed.                            *)
(***************************************************************************)
EXTENDS Container, TLAPS

Interruptions == {"cancelled", "timed_out"}

\* The CLI is spawned first, the verdict is found when the wait ends, and a signal
\* is sent after it.
VerdictFollowsWait ==
  /\ pc \in {"spawning", "waiting"} => verdict = "none" /\ ~terminated
  /\ pc \in {"stopping", "removing", "terminating"} => verdict \in Interruptions
  /\ pc \in {"draining", "returned"} => verdict # "none"
  /\ pc \notin {"spawning", "raised"} => cli # "none"
  /\ pc = "returned" => cli = "exited"

\* A CLI that exits unsignalled leaves no container.
ExitLeavesNothing ==
  ((pc = "waiting" /\ cli = "exited") \/ verdict = "exited") =>
    cli = "exited" /\ container \in Stopped

\* Past docker rm the container that was named to it is gone, if nothing failed.
RemovalTookPlace ==
  (pc \in {"terminating", "draining", "returned"} /\ verdict \in Interruptions
     /\ target /\ failures = 0) => container = "gone"

ContainerInv ==
  ContainerTypeOK /\ VerdictFollowsWait /\ ExitLeavesNothing /\ RemovalTookPlace

-----------------------------------------------------------------------------
(* One lemma per actor.                                                    *)

\* The steps of run_container up to the stop preserve the invariant.
LEMMA WaitPreserves ==
  ASSUME ContainerInv, Spawn \/ WaitEnds \/ Interrupt
  PROVE  ContainerInv'
<1>. USE ContainerAssumption
     DEF ContainerInv, VerdictFollowsWait, ExitLeavesNothing, RemovalTookPlace,
         ContainerTypeOK, Interruptions, Stopped, Awaits, Ended
<1>1. CASE Spawn
  BY <1>1 DEF Spawn
<1>2. CASE WaitEnds
  BY <1>2 DEF WaitEnds, dockerVars
<1>3. CASE Interrupt
  <2>1. verdict' \in Interruptions /\ (verdict' = "cancelled" => cancel) /\ (verdict' = "timed_out" => late)
    BY <1>3 DEF Interrupt, Interrupted
  <2>2. CASE cidfile /\ pc' = "stopping" /\ UNCHANGED terminated
    BY <1>3, <2>1, <2>2 DEF Interrupt
  <2>3. CASE ~cidfile /\ Terminate
    BY <1>3, <2>1, <2>3 DEF Interrupt, Terminate
  <2>. QED  BY <1>3, <2>2, <2>3 DEF Interrupt
<1>. QED  BY <1>1, <1>2, <1>3

\* So do the steps of _stop_container and _terminate_then_kill and the end.
LEMMA StopPreserves ==
  ASSUME ContainerInv,
         StopAnswers \/ RemoveAnswers \/ TerminateEnds \/ GraceOver \/ Drained
  PROVE  ContainerInv'
<1>. USE ContainerAssumption
     DEF ContainerInv, VerdictFollowsWait, ExitLeavesNothing, RemovalTookPlace,
         ContainerTypeOK, Interruptions, Stopped, Awaits, Ended
<1>1. CASE StopAnswers
  BY <1>1 DEF StopAnswers, CommandFails
<1>2. CASE RemoveAnswers
  <2>1. failures' \in 0 .. MaxFailures /\ (failures' = 0 => container' = "gone")
    BY <1>2 DEF RemoveAnswers, CommandFails
  <2>2. /\ pc' \in {"draining", "terminating"} /\ (pc' = "terminating" => cli # "exited")
        /\ terminated' \in BOOLEAN
    BY <1>2 DEF RemoveAnswers, Terminate
  <2>3. container' \in {"gone", container}
    BY <1>2 DEF RemoveAnswers, CommandFails
  <2>4. cli = "none" => container' = "none"
    BY <1>2, <2>3 DEF RemoveAnswers
  <2>. QED  BY <1>2, <2>1, <2>2, <2>3, <2>4 DEF RemoveAnswers
<1>3. CASE TerminateEnds
  BY <1>3 DEF TerminateEnds, dockerVars
<1>4. CASE GraceOver
  BY <1>4 DEF GraceOver
<1>5. CASE Drained
  BY <1>5 DEF Drained, dockerVars
<1>. QED  BY <1>1, <1>2, <1>3, <1>4, <1>5

\* Shutdown, a cancellation and the deadline may come at any point.
LEMMA InterruptionPreserves ==
  ASSUME ContainerInv, Shutdown \/ CancelArrives \/ DeadlinePasses
  PROVE  ContainerInv'
<1>. USE DEF ContainerInv, VerdictFollowsWait, ExitLeavesNothing, RemovalTookPlace,
             ContainerTypeOK, Interruptions, Stopped, Awaits, Ended
<1>1. CASE Shutdown
  BY <1>1 DEF Shutdown
<1>2. CASE CancelArrives
  BY <1>2 DEF CancelArrives, engineVars, dockerVars
<1>3. CASE DeadlinePasses
  BY <1>3 DEF DeadlinePasses, engineVars, dockerVars
<1>. QED  BY <1>1, <1>2, <1>3

\* The CLI and the daemon run beside the engine.
LEMMA DockerPreserves ==
  ASSUME ContainerInv, Docker
  PROVE  ContainerInv'
<1>. USE DEF ContainerInv, VerdictFollowsWait, ExitLeavesNothing, RemovalTookPlace,
             ContainerTypeOK, Interruptions, Stopped, Awaits, Ended
<1>1. CASE CliCreates
  BY <1>1 DEF CliCreates, engineVars
<1>2. CASE CliRecords
  BY <1>2 DEF CliRecords, engineVars
<1>3. CASE CliStarts
  BY <1>3 DEF CliStarts, engineVars
<1>4. CASE CliExits
  BY <1>4 DEF CliExits, engineVars
<1>5. CASE ContainerExits
  BY <1>5 DEF ContainerExits, engineVars
<1>. QED  BY <1>1, <1>2, <1>3, <1>4, <1>5 DEF Docker

-----------------------------------------------------------------------------
(* Theorems                                                                *)

\* The invariant holds before docker run is spawned.
LEMMA InvInit == Init => ContainerInv
<1>. SUFFICES ASSUME Init PROVE ContainerInv  OBVIOUS
<1>1. failures \in 0 .. MaxFailures
  BY ContainerAssumption DEF Init
<1>2. ContainerTypeOK
  BY <1>1, Zenon DEF Init, ContainerTypeOK, Awaits
<1>3. VerdictFollowsWait /\ ExitLeavesNothing /\ RemovalTookPlace
  BY DEF Init, VerdictFollowsWait, ExitLeavesNothing, RemovalTookPlace, Interruptions
<1>. QED  BY <1>2, <1>3 DEF ContainerInv

\* What has been shown of each actor, put together.
LEMMA InvNext == ContainerInv /\ [Next]_vars => ContainerInv'
<1>. SUFFICES ASSUME ContainerInv, [Next]_vars PROVE ContainerInv'  OBVIOUS
<1>1. CASE Next
  BY <1>1, WaitPreserves, StopPreserves, InterruptionPreserves, DockerPreserves
     DEF Next, Engine
<1>2. CASE UNCHANGED vars
  BY <1>2 DEF vars, engineVars, dockerVars, ContainerInv, VerdictFollowsWait,
              ExitLeavesNothing, RemovalTookPlace, ContainerTypeOK
<1>. QED  BY <1>1, <1>2

\* A container exists only once the CLI ran, and a build is reported as cancelled or
\* timed out only if it was (ContainerResult).
THEOREM VerdictsAreTrue == Spec => []ContainerTypeOK
<1>1. ContainerInv => ContainerTypeOK  BY DEF ContainerInv
<1>. QED  BY <1>1, InvInit, InvNext, PTL DEF Spec

\* When run_container returns, the CLI is gone, and so is the container, unless its id
\* could not be read or a docker command failed, however many do (_stop_container).
THEOREM BuildsLeaveNothing == Spec => []NothingOutlivesTheBuild
<1>1. ContainerInv => NothingOutlivesTheBuild
  BY DEF ContainerInv, ContainerTypeOK, VerdictFollowsWait, ExitLeavesNothing,
         RemovalTookPlace, NothingOutlivesTheBuild, Interruptions, Stopped
<1>. QED  BY <1>1, InvInit, InvNext, PTL DEF Spec

=============================================================================
