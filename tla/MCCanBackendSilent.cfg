CONSTANTS
  m1 = m1
  m2 = m2
  Motor <- TwoMotors
  SlaveId <- TwoSlaveIds
  Targets <- OnlyIdle
  Silent <- OnlyM2
  Lossy = FALSE
  Prompt = TRUE
  OtherFrame <- Nothing
SPECIFICATION FairSpec
PROPERTIES SilentMotorIsReported
CHECK_DEADLOCK FALSE
