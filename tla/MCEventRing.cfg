SPECIFICATION MCSpec
CONSTANTS
  RingSize = 4
  Producers = {p1, p2}
  Consumers = {c1}
  MaxEvents = 6
  MaxOverlap = 2
  p1 = p1
  c1 = c1
INVARIANTS
  EventsWaitOnce
PROPERTIES
  ImplementsQueue
  PollsReturn
CHECK_DEADLOCK FALSE
