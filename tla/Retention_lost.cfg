\* A file that cannot be written does not stop the archival.
SPECIFICATION Spec
CONSTANTS
  h1 = h1  h2 = h2
  SnapId <- MCIds
  Host <- MCHosts
  LastDay = 3
  Backdated = 1
  PageLimit = {1}
  RetentionDays = {1}
  WeekLength = 2
  Written = {TRUE, FALSE}
  MaxRuns = 1
INVARIANT ArchivedIsOnColdStorage
CHECK_DEADLOCK FALSE
