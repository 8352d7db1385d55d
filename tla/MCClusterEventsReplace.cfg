SPECIFICATION FairSpec
CONSTANTS
  Null = Null
  Node = {a}
  Boot = {b1, b2}
  NodeTtl = 1
  Retention = 0
  BatchSize = 1
  MaxEvents = 2
  MaxTime = 1
  MaxFailures = 1
INVARIANTS
  TakenOverSafely
PROPERTIES
  CursorsAdvance
  EventsArrive
CHECK_DEADLOCK FALSE
