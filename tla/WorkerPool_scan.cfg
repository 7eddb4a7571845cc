\* Three hosts, two workers, small channels; a cancellation at any moment.
SPECIFICATION FairSpec
CONSTANTS
  w1 = w1  w2 = w2
  Worker <- MCWorkers
  NumTargets = 3
  MaxRetries = 1
  TaskBuffer = 2
  ResultBuffer = 1
  ProbeErrors <- TestErrors
  MayCancel = TRUE
INVARIANTS NoHostLostOrDoubled NoSendAfterClose RetriesAreUsedUp
 
CHECK_DEADLOCK FALSE
