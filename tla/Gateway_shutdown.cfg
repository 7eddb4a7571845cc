\* Two jobs, two workers; a shutdown at any moment.
SPECIFICATION GwSpec
CONSTANTS
  w1 = w1  w2 = w2  j1 = j1  j2 = j2
  Worker <- MCWorkers
  Job <- MCJobs
  NeedsSecret <- MCSecret
  ProbeErrors <- MCErrors
  NumTargets = 2
  MaxRetries = 0
  TaskBuffer = 1
  ResultBuffer = 1
  MayCancel = TRUE
  ZeroLimit = 1
  MinInterval = 1
  MaxInterval = 2
PROPERTIES StreamedBatchesAreWhole  
CHECK_DEADLOCK FALSE
