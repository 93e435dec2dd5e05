\* A run with a planned Plugin call, two grants, one crash and one lost store call.
SPECIFICATION Spec
CONSTANTS
  r1 = r1
  r2 = r2
  g1 = g1
  rel1 = rel1
  s1 = s1
  s2 = s2
  Nil = Nil
  Runs = {r1}
  Grants = {"g1", "g2"}
  Releases = {rel1}
  Slots = {s1, s2}
  Daemons = {s1, s2}
  OverCeiling = {}
  Drafts = {r1}
  Production = {}
  PluginRuns = {r1}
  NeedsApproval = {r1}
  Expiring = {}
  MaxAttempts = 2
  MaxEpoch = 1
  CostCap = 1
  MaxHalts = 1
  MaxFaults = 1
  ReleaseOf <- OneRelease
  Upper <- UnitCost
  Covers <- CoversAll
  MaxRunsOf <- TwoRunsEach
  BudgetOf <- BudgetTwo
  DaemonOf <- OwnDaemon
SYMMETRY RunsAndSlots
INVARIANTS
  EffectsAreFinal
CHECK_DEADLOCK FALSE
