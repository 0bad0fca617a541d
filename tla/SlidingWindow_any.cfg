SPECIFICATION Spec
CONSTANTS
  Times = {1,2,3,4}
  MaxClones = 2
  EnoughClones = 2
  MaxSlam = 1
  MaxMsckf = 1
  SlamDelay = 1
  TryZupt = TRUE
  OnlyAtBeginning = TRUE
  Anchored = TRUE
  SingleDepth = TRUE
  Tracks = {f1}
  Arucos = {a1}
CHECK_DEADLOCK FALSE
INVARIANTS TypeOK WindowBound
