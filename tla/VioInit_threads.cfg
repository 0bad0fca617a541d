SPECIFICATION FairSpec
CONSTANTS
  ImageTimes = {6,11,13,14,17,20,23}
  LastSample = 26
  Window = 8
  Margin = 3
  MaxClones = 2
  Modes = {TRUE, FALSE}
CHECK_DEADLOCK FALSE
INVARIANTS TypeOK StateHasOneOwner PoseMatchesTime ImagesGoForward ImuCoversInterval
PROPERTIES NeitherThreadWaits
