SPECIFICATION Spec
CONSTANTS
  Slots = 2
  ModulusBits <- FourPrimes
  BatchSize = 1
  Graphs <- AllGraphs
  Numbers <- AllNumbers
  Addresses <- TwelveAddresses
  KnownDefects = FALSE
INVARIANTS ArgumentsInMap FreshCallsSucceed MessageRight
PROPERTY ImplementsFunctionCalls
