CONSTANTS
  Attempts = {1, 2}
  BuildOf <- MCBuildOf
  Owners = {w0, w1}
  NULL = NULL
  MAX_LOCAL_CRASHES = 2
  MaxGrants = 2
  MaxRowid = 3
SPECIFICATION BoundedSpec
INVARIANTS StoreTypeOK LeaseShape RetryBudget InsertionOrder
PROPERTIES TerminalIsFinal FollowsLifecycle
CHECK_DEADLOCK FALSE
SYMMETRY OwnerSymmetry
