CONSTANTS
  Program <- ShortProgram
  ParameterSize = 2
  MaxReluMessageCnt = 2
  MaxDoneInit = {FALSE}
  Faults = {}
  Immediate = {"encryption_parameters", "parameter_size"}
SPECIFICATION Spec
INVARIANTS
  OutputReadBeforeEnd
