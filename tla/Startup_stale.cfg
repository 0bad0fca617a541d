SPECIFICATION Spec
CONSTANTS
  MaxLaunches = 2
INVARIANT ReadyMeansReady
CHECK_DEADLOCK FALSE
