CONSTANTS
  Motors <- TwoMotors
  Limits <- MotorLimits
  Starts <- StartPositions
  Requests <- PositionRequests
  Timings <- TimingChoices
  JointRequests <- LegTargets
  Scans <- FitScans
  Jumps <- StepJumps
  Probes <- TorqueProbes
  Period = 50
  SettleSamples = 4
  ReadySamples = 3
  MissLimit = 3
  Repeats = 2
  Drift = 5
  Solve <- LinearLeg
  Solvable <- Reachable
  MaxStep = 1600
SPECIFICATION Spec
INVARIANTS TypeOK CommandsInRange Attentive EndsDisabled
PROPERTIES EnabledAfterReady StepBounded Terminates
CHECK_DEADLOCK FALSE
