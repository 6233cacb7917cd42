CONSTANTS
  Program <- MaxPoolProgram
  ParameterSize = 2
  MaxReluMessageCnt = 2
  MaxDoneInit = {FALSE, TRUE}
  Faults = {}
  Immediate = {"encryption_parameters", "parameter_size"}
SPECIFICATION Spec
INVARIANTS
  AllAnswersBeforeSet
