---------------------------- MODULE MCQueueStore ----------------------------
(* Model values and bounds for checking QueueStore.                        *)
EXTENDS QueueStore, TLC

CONSTANTS
  MaxGrants,  \* bound on the leases of one attempt
  MaxRowid    \* bound on the rowids, so on how often pruned rows come back

ASSUME MaxGrants \in Nat /\ MaxRowid \in Nat

WithinBounds ==
  \A a \in Attempts : issued[a] <= MaxGrants /\ jobs[a].rowid <= MaxRowid

BoundedSpec == StoreInit /\ [][StoreNext /\ WithinBounds']_storeVars

\* Attempts 1 and 2 are two attempts of one build.
MCBuildOf == [a \in Attempts |-> 1]

\* Owners are only compared for equality.
OwnerSymmetry == Permutations(Owners)
=============================================================================
