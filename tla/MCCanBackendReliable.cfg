CONSTANTS
  m1 = m1
  m2 = m2
  Motor <- TwoMotors
  SlaveId <- TwoSlaveIds
  Targets <- DrivenOrReleased
  Silent <- Nothing
  Lossy = FALSE
  Prompt = TRUE
  OtherFrame <- OtherNodes
SPECIFICATION FairSpec
PROPERTIES CompleteFramesKeepComing DisableReachesMotor
CHECK_DEADLOCK FALSE
