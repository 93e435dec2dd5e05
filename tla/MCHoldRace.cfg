\* A Plugin hold acts on run states it read before other transactions committed.
SPECIFICATION Spec
CONSTANTS
  r1 = r1
  r2 = r2
  g1 = g1
  rel1 = rel1
  s1 = s1
  s2 = s2
  Nil = Nil
  Runs = {r1}
  Grants = {g1}
  Releases = {rel1}
  Slots = {s1, s2}
  Daemons = {s1, s2}
  OverCeiling = {}
  Drafts = {r1}
  Production = {}
  PluginRuns = {r1}
  NeedsApproval = {}
  Expiring = {}
  MaxAttempts = 2
  MaxEpoch = 1
  CostCap = 1
  MaxHalts = 0
  MaxFaults = 0
  ReleaseOf <- OneRelease
  Upper <- UnitCost
  Covers <- CoversAll
  MaxRunsOf <- TwoRunsEach
  BudgetOf <- BudgetTwo
  DaemonOf <- OwnDaemon
INVARIANTS
  PublishedNeverCancelled
CHECK_DEADLOCK FALSE
