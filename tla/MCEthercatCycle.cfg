CONSTANTS
  m1 = m1
  m2 = m2
  d1 = d1
  d2 = d2
  Motor <- TwoMotors
  Domain <- OneDomain
  DomainOf <- Together
  Targets <- AllTargets
  Timeout = 2
  Lossy = TRUE
  MaxFaults = 1
SPECIFICATION Spec
SYMMETRY MotorSymmetry
INVARIANTS TypeOK ArmedOnlyOnRequest StaleMotorIsReleased SilentAppDisarmed
