\* An appended entry is cut off by the next entry at the front.
SPECIFICATION CPSpec
CONSTANTS
  j1 = j1  e1 = e1  e2 = e2
  Job <- MCOneJob
  Endpoint <- MCEndpoints
  Subnet <- MCSubnet
  isMock = TRUE
  MaxEntries = 2
  MaxWritten = 3
INVARIANT NewestEntriesAreKept
CHECK_DEADLOCK FALSE
