\* Late and repeated reports, a restart, crashing workers: what still holds.
SPECIFICATION FairSpec
CONSTANTS
  j1 = j1  j2 = j2  t1 = t1  t2 = t2  t3 = t3  w1 = w1  w2 = w2
  NoJob = NoJob  NoWorker = NoWorker
  Job <- MCOneJob
  Task <- MCTwoTasks
  Worker <- MCWorkers
  BatchSize = {0, 2}
  LeaseTicks = {1}
  MaxRetries = 1
  MaxLate = 2
  MaxRestarts = 1
INVARIANTS TallyNeverLags SettledJobIsCompleted
PROPERTY JobFinishes
CHECK_DEADLOCK FALSE
