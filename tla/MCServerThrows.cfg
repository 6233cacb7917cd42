CONSTANTS
  Program <- ProgramWithZero
  ParameterSize = 2
  MaxReluMessageCnt = 2
  MaxDoneInit = {FALSE}
  Faults = {"lost"}
  Immediate = {"encryption_parameters", "parameter_size"}
SPECIFICATION Spec
INVARIANTS
  UnlockedAccessIsAlone
PROPERTIES
  NeitherOutlivesConnection
