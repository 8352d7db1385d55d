SPECIFICATION Spec
CONSTANTS
  w1 = w1
  w2 = w2
  r1 = r1
  r2 = r2
  j1 = j1
  j2 = j2
  Nobody = Nobody
  NoJob = NoJob
  NoOperation = NoOperation
  Job = {j1, j2}
  Click = {c1}
  Local = {j2}
  Worker = {w1, w2}
  Request = {r1, r2}
  LeaseTicks = 1
  MaxAttempts = 2
  MaxDelay = 0
  MaxFaults = 1
  Setup <- Setups
INVARIANTS
  TypeOK
  AcceptedOnce
  SentAsAsked
  OneOpenJob
  OutcomeTold
PROPERTIES
  DraftKept
SYMMETRY Symmetry
CHECK_DEADLOCK FALSE
