SPECIFICATION Spec
CONSTANTS
  Slots = 2
  ModulusBits <- FourPrimes
  BatchSize = 2
  Starts <- OneImage
  Nodes <- AveragesTwice
  MaxTensors = 4
  KnownDefects = TRUE
INVARIANT TensorsRight
