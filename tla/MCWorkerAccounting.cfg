\* Two runs compete for the budget of one grant; one crash.
SPECIFICATION Spec
CONSTANTS
  r1 = r1
  r2 = r2
  g1 = g1
  rel1 = rel1
  s1 = s1
  s2 = s2
  Nil = Nil
  Runs = {r1, r2}
  Grants = {g1}
  Releases = {rel1}
  Slots = {s1, s2}
  Daemons = {s1, s2}
  OverCeiling = {}
  Drafts = {r1, r2}
  Production = {}
  PluginRuns = {}
  NeedsApproval = {}
  Expiring = {}
  MaxAttempts = 2
  MaxEpoch = 1
  CostCap = 1
  MaxHalts = 1
  MaxFaults = 0
  ReleaseOf <- OneRelease
  Upper <- UnitCost
  Covers <- CoversAll
  MaxRunsOf <- TwoRunsEach
  BudgetOf <- BudgetTwo
  DaemonOf <- OwnDaemon
SYMMETRY RunsAndSlots
INVARIANTS
  TypeOK
  ReservationExact
  BudgetRespected
  RevokedWorkIsStopping
  AttemptsBounded
  LedgerConsistent
  DecisionsStand
PROPERTIES
  SettledByOwner
CHECK_DEADLOCK FALSE
