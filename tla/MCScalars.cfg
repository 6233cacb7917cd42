SPECIFICATION Spec
CONSTANTS
  Slots = 2
  ModulusBits <- ThreePrimes
  Starts <- AllStarts
  Ops <- AllOps
  MaxElements = 5
  BatchSize = 2
  KnownDefects = FALSE
INVARIANTS ResultsRight LevelsPayForMultiplications NoEarlyFailure
PROPERTY ArgumentsKept
