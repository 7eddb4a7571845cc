\* A cancellation that reaches the feeder leaves idle workers waiting.
SPECIFICATION FairSpec
CONSTANTS
  w1 = w1  w2 = w2
  Worker <- MCWorkers
  NumTargets = 2
  MaxRetries = 1
  TaskBuffer = 2
  ResultBuffer = 1
  ProbeErrors <- TestErrors
  MayCancel = TRUE
PROPERTY ExecuteReturns
CHECK_DEADLOCK FALSE
