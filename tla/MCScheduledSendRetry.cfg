SPECIFICATION Spec
CONSTANTS
  w1 = w1
  w2 = w2
  r1 = r1
  r2 = r2
  j1 = j1
  j2 = j2
  Nobody = Nobody
  NoJob = NoJob
  NoOperation = NoOperation
  Job = {j1}
  Click = {}
  Local = {}
  Worker = {w1}
  Request = {r1}
  LeaseTicks = 1
  MaxAttempts = 2
  MaxDelay = 0
  MaxFaults = 0
  Setup <- OneWorker
INVARIANTS
  RetryFitsDraft
SYMMETRY Symmetry
CHECK_DEADLOCK FALSE
