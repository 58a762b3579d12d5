CONSTANTS
  Attempts = {1}
  BuildOf <- MCBuildOf
  Owners = {w0, w1}
  NULL = NULL
  MAX_LOCAL_CRASHES = 2
  MaxExpiries = 1
  MaxRestarts = 1
  Drains = {FALSE}
SPECIFICATION FairSpec
INVARIANTS LoopTypeOK LeasesAreDistinct NoAbandonedLease SuccessHasArtifact PublishedSuccessIsDurable
PROPERTIES LoopImplementsStore EveryAttemptEnds UnheldCancelsEnd
