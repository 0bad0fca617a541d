SPECIFICATION MCSpec
CONSTANTS
  ImageTimes = {1,2,3}
  Features = {1,2}
  Arucos = {1}
  LandmarkSize <- MCLandmarkSize
  Relative = {2}
  OptionSets <- MCOptionSets
  MaxCameras = 2
  MaxStacked = 2
  Databases <- MCDatabases
  NewestTime = 8
  PoseGap = 3
  MinMeasurements = 2
  MinFeatures = 2
  NumPoses = 3
  Files <- MCFiles
CHECK_DEADLOCK FALSE
INVARIANTS TypeOK BlocksPartitionRows MapsMatchVariables NoExit TransitionMatchesState TransitionFollowsSensors JacobianMatchesState SystemIsFull GraphIsWhole FactorsFitGraph OneRig
