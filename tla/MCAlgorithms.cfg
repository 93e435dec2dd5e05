\* The algorithms that answer in one go, on every input of a small size: the
\* check of an AIM manifest, its timeline, a Plugin call, Plugin schemas, the
\* certification contract of a release, the match of capabilities to a
\* request, the check of dependencies and the order of roadmap versions.
SPECIFICATION SuiteSpec
CONSTANTS
  Nil = Nil
  Groups = {"g1", "g2"}
  Parts = {"p1", "p2"}
  Anchors = {"x1", "x2", "x3"}
  Agents = {"a1"}
  Milestones = {"m1"}
  Unknown = "none"
  MaxEdits = 3
INVARIANTS
  ManifestAgrees
  CallIsContained
  SearchesAreSound
PROPERTIES
  TimelineIsHonest
  AlgorithmsEnd
CHECK_DEADLOCK FALSE
