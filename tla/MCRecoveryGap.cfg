\* A restart before the lease expires.
SPECIFICATION FairSpec
CONSTANTS
  r1 = r1
  r2 = r2
  g1 = g1
  rel1 = rel1
  s1 = s1
  s2 = s2
  Nil = Nil
  Runs = {r1}
  Grants = {g1}
  Releases = {rel1}
  Slots = {s1}
  Daemons = {s1}
  OverCeiling = {}
  Drafts = {r1}
  Production = {}
  PluginRuns = {}
  NeedsApproval = {}
  Expiring = {}
  MaxAttempts = 2
  MaxEpoch = 1
  CostCap = 1
  MaxHalts = 1
  MaxFaults = 0
  ReleaseOf <- OneRelease
  Upper <- UnitCost
  Covers <- CoversAll
  MaxRunsOf <- TwoRunsEach
  BudgetOf <- BudgetTwo
  DaemonOf <- OwnDaemon
PROPERTIES
  RunningIsSettled
CHECK_DEADLOCK FALSE
