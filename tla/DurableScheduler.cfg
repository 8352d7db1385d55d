SPECIFICATION FairSpec
CONSTANTS
  Job = {send, poll}
  Recoverable = {poll}
  Worker = {w1, w2}
  Nobody = Nobody
  NoJob = NoJob
  LeaseTicks = 2
  MaxAttempts = 2
  MaxDelay = 1
  MaxFaults = 2
INVARIANTS
  TypeOK
PROPERTIES
  OnlyOwnerSettles
  KeepsPromise
  EveryJobSettles
