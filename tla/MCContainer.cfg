CONSTANTS
  MaxFailures = 2
  Shutdowns = TRUE
SPECIFICATION FairSpec
INVARIANTS ContainerTypeOK NothingOutlivesTheBuild
PROPERTIES BuildEnds
CHECK_DEADLOCK FALSE
