\* From a request to a generated agent: interpretations and specifications,
\* generation jobs, the builder screen, the query cache of the browser, who
\* may call what, the seed of the database and the workstation broker.
SPECIFICATION SuiteSpec
CONSTANTS
  None = None
  Specs = {"s1"}
  Sections = {"outcomes", "knowledge"}
  Interps = {}
  Editors = {"e1"}
  MaxRevision = 3
  Jobs = {"j1", "j2"}
  Processes = {"p1", "p2"}
  Concurrency = 1
  MaxCrashes = 2
INVARIANTS
  SpecsAreConfirmed
  ScreensAreCurrent
PROPERTIES
  GenerationIsExact
  ReachedIsAuthorized
  SeedingIsRepeatable
CHECK_DEADLOCK FALSE
