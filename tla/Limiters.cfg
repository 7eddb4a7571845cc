\* Two API clients with a burst of two; three probes over two session slots;
\* two callers of a synchronisation; two requests over three sessions;
\* two operations on two servers over a credential of three versions.
SPECIFICATION LimitersSpec
CONSTANTS
  k1 = k1  k2 = k2  c1 = c1  c2 = c2  c3 = c3
  Key <- MCKeys
  Unit = 2
  Burst = 2
  Fill = 1
  Second = 2
  IdleLimit = 4
  MaxIdle = 5
  Client <- MCClients
  maxConcurrency = 2
  Syncer = {n1, n2}
  Interval = 2
  maxBurst = 3
  Budget = 3
  Backoffs <- MCBackoffs
  NvdAttempts = 3
  User = {u1}
  MFAUser = {u1}
  AuthRequest = {r1, r2}
  RefreshTTL = 1
  ChallengeTTL = 1
  Overlap = FALSE
  MaxSessions = 3
  SesMaxTime = 2
  Ref = {v1}
  Operation = {o1, o2}
  Server = {s1, s2}
  MaxVersion = 3
INVARIANTS RetryAfterSuffices ProbesAreLimited TokensAccounted
 
  
INVARIANTS NoRotationIsLost NoSecretWithoutAudit
PROPERTY ImplementsTokenBucket
CHECK_DEADLOCK FALSE
