CONSTANTS
  Documents <- AllDocuments
  ModeTables <- Modes
  CurrentTables <- Currents
  BiasTables <- Biases
  Requests <- MotorRequests
  MaxMotors = 2
  MaxInits = 3
  MaxSequence = 2
SPECIFICATION Spec
INVARIANTS TypeOK AllOrNothing SessionConsistent CommandsFaithful OneCommandForAll
