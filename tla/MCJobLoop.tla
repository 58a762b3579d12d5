------------------------------ MODULE MCJobLoop ------------------------------
(* Model values for checking JobLoop.                                      *)
EXTENDS JobLoop, TLC

\* All attempts belong to one build: the later one supersedes the earlier.
MCBuildOf == [a \in Attempts |-> 1]

WorkerSymmetry == Permutations(Workers)
=============================================================================
