SPECIFICATION Spec
CONSTANTS
  ImageTimes = {6,11,13,14,17,20,23}
  LastSample = 26
  Window = 8
  Margin = 3
  MaxClones = 2
  Modes = {TRUE}
CHECK_DEADLOCK FALSE
INVARIANT ImuCoversIntervalAlways
