CONSTANTS
  Documents <- CanDocuments
  ModeTables <- Modes
  CurrentTables <- NoTables
  BiasTables <- NoTables
  Requests <- MotorRequests
  MaxMotors = 2
  MaxInits = 1
  MaxSequence = 1
SPECIFICATION Spec
INVARIANT CanCommandWithinLimits
