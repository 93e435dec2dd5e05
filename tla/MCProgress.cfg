\* What must eventually happen, each with the fairness of its component:
\* schedules, briefings, planned Plugin calls, health probes, the catalog
\* index, certification and generation runs, listings, broker sessions,
\* requests and polled queries.
SPECIFICATION Spec
CONSTANTS
  Nil = Nil
INVARIANTS
  BoundsAreExact
PROPERTIES
  ListingIsFaithful
  SchedulesAreServed
  EventIsDelivered
  CatchesUp
  WorkEnds
CHECK_DEADLOCK FALSE
