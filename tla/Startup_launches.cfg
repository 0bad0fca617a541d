SPECIFICATION FairSpec
CONSTANTS
  MaxLaunches = 2
INVARIANTS TypeOK AttachedToThisLaunch
PROPERTIES AllStream
CHECK_DEADLOCK FALSE
