CONSTANTS
  Top = 3
  Supported = {22}
  Projects <- MCProjects
SPECIFICATION Spec
INVARIANTS PlanIsCertified NodeRangeSound NodeRangeComplete
CHECK_DEADLOCK FALSE
