CONSTANTS
  Base = 4
  Size <- FrameSizes
  Header <- Headers
  DataId = 1
  Crc <- WeightedSum
  Payloads <- Measurements
  ChunkMax = 2
  MaxFaults = 1
  MaxStarts = 2
SPECIFICATION Spec
INVARIANTS TypeOK FramesFaithful
PROPERTY Responsive
