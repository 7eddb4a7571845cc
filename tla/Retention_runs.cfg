\* Two runs over three snapshots and four days of two-day weeks, under a walk;
\* two calls over three snapshots of a laptop and three alert rules; two scans
\* of two inventories against two CVEs; two evaluations of five snapshots.
\* Files are all written: nothing looks at them but the property of
\* Retention_lost.
SPECIFICATION AnalysisSpec
CONSTANTS
  h1 = h1  h2 = h2  e1 = e1
  SnapId <- MCIds
  Host <- MCHosts
  LastDay = 3
  Backdated = 1
  PageLimit = {1}
  RetentionDays = {1}
  WeekLength = 2
  Written = {TRUE}
  MaxRuns = 2
  Call = {a1, a2}
  DaHost = {"h1"}
  Payload <- MCPayload
  AssetClass <- MCAssetClass
  AlertRule <- MCAlertRule
  MaxAttempts = 2
  MaxSnapshots = 3
  DaMaxTime = 3
  Scan = {s1, s2}
  Endpoint = {e1}
  Inventory <- MCInventory
  Feed <- MCFeed
  Within <- MCWithin
  TextFrom = 10
  FiMaxTime = 2
  Evaluation = {v1, v2}
  CoHost = {x1, x2}
  NumberIn <- MCNumberIn
  PartOf = {}
  CoPayload <- MCCoPayload
  BuiltinRules <- GetBuiltinCISWindows11Rules
  CustomRule <- MCCustomRule
  EvaluateExpression <- Passes
INVARIANTS NoWeekLosesItsLatest AuditAccountsForEffects DryRunIsExact WalkIsComplete
INVARIANTS DriftLogIsCurrent  SuppressionIsExact
INVARIANTS  ScansAreComplete
INVARIANTS ScoresMatchResults 
SYMMETRY MCSymmetry
PROPERTY FindingsKeepTheirIdentity
CHECK_DEADLOCK FALSE
