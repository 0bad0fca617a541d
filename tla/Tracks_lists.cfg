SPECIFICATION Spec
CONSTANTS
  Left = "left"
  Right = "right"
  Cams = {"left", "right"}
  Kinds = {"klt", "desc"}
  Stereos = {TRUE, FALSE}
  InitFeatures = 1
  NumFeatures = 2
  MinMatch = 2
  MaxNew = 2
  FirstId = 1
  MaxId = 5
  MaxTime = 3
CHECK_DEADLOCK TRUE
INVARIANTS TypeOK IdsUnique OneIdOnePoint LostMeansUntracked MeasuredOnce
PROPERTY NoIdReturns
