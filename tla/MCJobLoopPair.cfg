CONSTANTS
  Attempts = {1, 2}
  BuildOf <- MCBuildOf
  Owners = {w0, w1}
  NULL = NULL
  MAX_LOCAL_CRASHES = 2
  MaxExpiries = 0
  MaxRestarts = 0
  Drains = {TRUE}
SPECIFICATION Spec
PROPERTIES OutcomesAreWrittenFirst CancelledOnlyOnRequest
SYMMETRY WorkerSymmetry
