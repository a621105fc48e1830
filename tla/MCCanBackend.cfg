CONSTANTS
  m1 = m1
  m2 = m2
  Motor <- TwoMotors
  SlaveId <- TwoSlaveIds
  Targets <- OnlyIdle
  Silent <- Nothing
  Lossy = TRUE
  Prompt = FALSE
  OtherFrame <- EmptyFrames
SPECIFICATION FairSpec
INVARIANTS TypeOK HealthyIsFresh
PROPERTIES BackendSpec SilenceIsReported StopReturns
CHECK_DEADLOCK FALSE
