SPECIFICATION FairSpec
CONSTANTS
  Frames = 3
  ImuSamples = 3
  Period = 1
  MqMax = 2
  EarlyStop = TRUE
INVARIANTS TypeOK ImuStreamIntact
PROPERTIES ShutsDown NobodyStarves
CHECK_DEADLOCK FALSE
