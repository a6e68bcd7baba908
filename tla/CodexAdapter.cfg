SPECIFICATION FairSpec
CONSTANTS
  MaxCalls = 2
  ConnCount = 3
  Attempts = 2
  ContinueLimit = 1
  MaxFaults <- MCMaxFaults
INVARIANT TypeOK
INVARIANT AnswersOwnTurn
PROPERTY EveryExecuteEnds
CHECK_DEADLOCK FALSE
