CONSTANTS
  ReadyFrames = 3
  Waits = TRUE
SPECIFICATION FairSpec
INVARIANTS TypeOK ResourcesSafe StartAndStopInOrder
PROPERTIES BackendSpec CallsReturn
CHECK_DEADLOCK FALSE
