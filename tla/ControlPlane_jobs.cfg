\* A scan job that may be cancelled, two endpoints, a log cut to two entries;
\* two CVEs, a page of one, over four ticks of the feeds.
SPECIFICATION BackgroundSpec
CONSTANTS
  j1 = j1  e1 = e1  e2 = e2
  Job <- MCOneJob
  Endpoint <- MCEndpoints
  Subnet <- MCSubnet
  isMock = TRUE
  MaxEntries = 2
  MaxWritten = 3
  CVE = {cve1, cve2}
  KevCVE = {cve1}
  PageSize = 1
  Overlap = 2
  Lag = 1
  SyncTimeout = 1
  MaxRetries = 2
  MaxRevision = 1
  VfMaxTime = 4
INVARIANT NothingMissed
PROPERTIES CancelledBetweenStagesIsFinal JobsEnd PromoteAllNeverDemotes
PROPERTY StopIsAnswered
CHECK_DEADLOCK FALSE
