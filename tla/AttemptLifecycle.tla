-------------------------- MODULE AttemptLifecycle --------------------------
(***************************************************************************)
(* What the durable queue promises about each build attempt, seen by the   *)
(* backend that assigns it and by the workers that run it.                 *)
(*                                                                         *)
(* An attempt is offered, granted to one worker at a time, and finished    *)
(* once.  Every grant has a number of its own, larger than all earlier     *)
(* ones, so a worker that still acts on an old grant can be told apart.    *)
(* A finished attempt changes only by being forgotten altogether.          *)
(* Attempts are independent of one another: any number of them may take a  *)
(* step at once.                                                           *)
(***************************************************************************)
EXTENDS Naturals

CONSTANT Attempts

VARIABLES
  phase,   \* "unknown", "waiting", "held" or one of the outcomes
  holder,  \* number of the grant that holds the attempt, 0 when none does
  grants   \* how many grants have been made

lifecycleVars == <<phase, holder, grants>>

Outcomes == {"SUCCEEDED", "FAILED", "CANCELLED", "TIMED_OUT"}

Init ==
  /\ phase = [a \in Attempts |-> "unknown"]
  /\ holder = [a \in Attempts |-> 0]
  /\ grants = [a \in Attempts |-> 0]

Offer(a) ==
  /\ phase[a] = "unknown"
  /\ phase'[a] = "waiting"
  /\ holder'[a] = holder[a] /\ grants'[a] = grants[a]

\* A grant to a worker, or the takeover of a grant that ran out of time.
Grant(a) ==
  /\ phase[a] \in {"waiting", "held"}
  /\ phase'[a] = "held"
  /\ grants'[a] = grants[a] + 1
  /\ holder'[a] = grants[a] + 1

\* The holder gave the attempt back to be tried again.
Release(a) ==
  /\ phase[a] = "held"
  /\ phase'[a] = "waiting"
  /\ holder'[a] = 0 /\ grants'[a] = grants[a]

\* Success needs a holder; every other outcome can also strike a waiting one.
Finish(a) ==
  /\ phase[a] \in {"waiting", "held"}
  /\ phase'[a] \in Outcomes
  /\ phase'[a] = "SUCCEEDED" => phase[a] = "held"
  /\ holder'[a] = 0 /\ grants'[a] = grants[a]

Forget(a) ==
  /\ phase[a] \in Outcomes
  /\ phase'[a] = "unknown"
  /\ holder'[a] = holder[a] /\ grants'[a] = grants[a]

Rest(a) == phase'[a] = phase[a] /\ holder'[a] = holder[a] /\ grants'[a] = grants[a]

Step(a) == Offer(a) \/ Grant(a) \/ Release(a) \/ Finish(a) \/ Forget(a) \/ Rest(a)

Next == \A a \in Attempts : Step(a)

Spec == Init /\ [][Next]_lifecycleVars

=============================================================================
