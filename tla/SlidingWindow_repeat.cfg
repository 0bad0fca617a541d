SPECIFICATION Spec
CONSTANTS
  Times = {1,2,3,4}
  MaxClones = 2
  EnoughClones = 2
  MaxSlam = 1
  MaxMsckf = 1
  SlamDelay = 0
  TryZupt = TRUE
  OnlyAtBeginning = FALSE
  Anchored = TRUE
  SingleDepth = FALSE
  Tracks = {f1}
  Arucos = {a1}
CHECK_DEADLOCK FALSE
INVARIANT RetriangulationHasClone
