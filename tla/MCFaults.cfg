CONSTANTS
  Program <- ShortProgram
  ParameterSize = 2
  MaxReluMessageCnt = 2
  MaxDoneInit = {FALSE}
  Faults = {"refused", "lost"}
  Immediate = {"encryption_parameters", "parameter_size", "max_request"}
SPECIFICATION Spec
INVARIANTS
  HalfDuplex
  DoneMeansAnswered
  OutputsCorrect
  ResultCorrect
PROPERTIES
  NeitherOutlivesConnection
  SafeInference
