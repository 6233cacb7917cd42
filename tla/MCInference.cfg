CONSTANTS
  Program <- MixedProgram
  ParameterSize = 2
  MaxReluMessageCnt = 2
  MaxDoneInit = {FALSE}
  Faults = {}
  Immediate = {"encryption_parameters", "parameter_size"}
SPECIFICATION Spec
INVARIANTS
  TypeOK
  HalfDuplex
  WriteBuffersLive
  UnlockedAccessIsAlone
  DoneMeansAnswered
  OutputsCorrect
  EvaluatesWithKeysAndInputs
  ClientCanDecrypt
  ResultCorrect
  ServerEndsLast
PROPERTIES
  ImplementsInference
