SPECIFICATION Spec
CONSTANTS
  Frames = 3
  ImuSamples = 3
  Period = 1
  MqMax = 2
  EarlyStop = TRUE
INVARIANT NoStereoPairSkipped
CHECK_DEADLOCK FALSE
