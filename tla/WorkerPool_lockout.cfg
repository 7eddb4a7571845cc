\* WinRM's rejection is retried.
SPECIFICATION Spec
CONSTANTS
  w1 = w1  w2 = w2
  Worker <- MCWorkers
  NumTargets = 1
  MaxRetries = 2
  TaskBuffer = 1
  ResultBuffer = 1
  ProbeErrors <- WinRMErrors
  MayCancel = FALSE
INVARIANT OneRejectionPerHost
