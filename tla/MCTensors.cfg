SPECIFICATION Spec
CONSTANTS
  Slots = 2
  ModulusBits <- FourPrimes
  BatchSize = 2
  Starts <- AllStarts
  Nodes <- AllNodes
  MaxTensors = 4
  KnownDefects = FALSE
INVARIANTS TensorsRight RescaledOnce NoFailure
