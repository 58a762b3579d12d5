CONSTANTS
  Top = 3
  Supported = {22}
  Projects <- DeferredProjects
SPECIFICATION Spec
INVARIANTS NoFallbackToVite
CHECK_DEADLOCK FALSE
