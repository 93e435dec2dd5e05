\* One of two events belongs to a record that is not user-facing.
SPECIFICATION DigestSpec
CONSTANTS
  c1 = c1
  c2 = c2
  c3 = c3
  h1 = h1
  h2 = h2
  p1 = p1
  p2 = p2
  w1 = w1
  w2 = w2
  w3 = w3
  b1 = b1
  b2 = b2
  Nil = Nil
  Streams <- AllStreams
  Visible <- Seen
  Writers = {w1, w2}
  StreamOf <- Spread
  NotShown = {w1}
  Briefings = {b1}
  DigestLimit = 2
  MaxFailures = 0
PROPERTIES
  EventIsDelivered
CHECK_DEADLOCK FALSE
