SPECIFICATION InOrderSpec
CONSTANTS
  Times = {1,2,3,4,5}
  MaxClones = 2
  EnoughClones = 1
  MaxSlam = 1
  MaxMsckf = 1
  SlamDelay = 0
  TryZupt = TRUE
  OnlyAtBeginning = TRUE
  Anchored = TRUE
  SingleDepth = FALSE
  Tracks = {f1,f2}
  Arucos = {a1}
CHECK_DEADLOCK TRUE
INVARIANTS AnchorsLive CloneAtStateTime NoMeasurementReused SlamBudget

SYMMETRY TrackSymmetry
