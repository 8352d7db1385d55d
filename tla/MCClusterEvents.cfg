SPECIFICATION Spec
CONSTANTS
  Null = Null
  Node = {a, b}
  Boot = {b1}
  NodeTtl = 1
  Retention = 0
  BatchSize = 2
  MaxEvents = 2
  MaxTime = 2
  MaxFailures = 1
INVARIANTS
  TypeOK
  NothingSkipped
PROPERTIES
  RetentionSparesLive
CHECK_DEADLOCK FALSE
SYMMETRY Symmetry
