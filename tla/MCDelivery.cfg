\* What is handed to a person: events through the digest cursor, occurrences
\* of schedules through their dispatches, learning candidates through reviews
\* and the attention queue through decisions.
SPECIFICATION SuiteSpec
CONSTANTS
  w1 = w1
  w2 = w2
  w3 = w3
  b1 = b1
  b2 = b2
  c1 = c1
  c2 = c2
  c3 = c3
  h1 = h1
  h2 = h2
  p1 = p1
  p2 = p2
  Nil = Nil
  Streams <- AllStreams
  Visible <- Seen
  Writers = {w1, w2, w3}
  StreamOf <- Together
  NotShown = {w3}
  Briefings = {b1, b2}
  DigestLimit = 2
  MaxFailures = 1
SYMMETRY Interchangeable
INVARIANTS
  NoEventSkipped
  QueueIsHonest
PROPERTIES
  DeliversInOrder
  OccurrencesSettleOnce
  ReviewsStand
CHECK_DEADLOCK FALSE
