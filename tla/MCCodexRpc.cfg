SPECIFICATION FairSpec
CONSTANTS
  Capacity = 1
  PipeSize = 1
  MaxNoise = 1
INVARIANTS
  OwnAnswer
  InjectedAfterResume
  AnswerArrives
PROPERTIES
  CallerReturns
  ReaderEnds
CHECK_DEADLOCK FALSE
