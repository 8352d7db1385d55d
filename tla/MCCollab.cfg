CONSTANTS
  Node = {n1, n2}
  a = a b = b ua = ua ub = ub
  Client = {a, b}
  User = {ua, ub}
  Owner <- OwnTabs
  Edit = {e1, e2}
  Slot = {1, 2}
  MaxFaults = 1
  MaxQueue = 2
SPECIFICATION Spec
INVARIANTS TypeOK JournalTruthful OneDocument FlushedIsStored
CHECK_DEADLOCK FALSE
SYMMETRY AllSymmetric
