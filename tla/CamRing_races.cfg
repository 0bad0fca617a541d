SPECIFICATION FairSpec
CONSTANTS
  BufferSize = 5
  Frames = 4
  Never = Never
INVARIANTS TypeOK DropsAccounted
PROPERTIES ImplementsStream Drains
CHECK_DEADLOCK FALSE
