SPECIFICATION Spec
CONSTANTS
  Slots = 2
  ModulusBits <- ThreePrimes
  Elements = 3
  Pointers <- Unshared
  OnlyMatched = FALSE
INVARIANT AllMatched
