SPECIFICATION Spec
CONSTANTS
  Slots = 2
  ModulusBits <- ThreePrimes
  Elements = 4
  Pointers <- Unshared
  OnlyMatched = TRUE
INVARIANTS AllMatched NoThreadThrows NeverBelowSmallest
PROPERTY EveryThreadEnds
