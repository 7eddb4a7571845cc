\* Two jobs over three hosts, two workers that report within their leases.
SPECIFICATION Spec
CONSTANTS
  j1 = j1  j2 = j2  t1 = t1  t2 = t2  t3 = t3  w1 = w1  w2 = w2
  NoJob = NoJob  NoWorker = NoWorker
  Job <- MCTwoJobs
  Task <- MCTasks
  Worker <- MCWorkers
  BatchSize = {1, 2}
  LeaseTicks = {1}
  MaxRetries = 1
  MaxLate = 0
  MaxRestarts = 0
SYMMETRY MCSymmetry
INVARIANTS TypeOK LeaseIsExclusive TallyIsExact
PROPERTY ImplementsLedger
CHECK_DEADLOCK FALSE
