SPECIFICATION LeaseSpec
CONSTANTS
  NoHolder = NoHolder
  Worker = {w1, w2, ingest}
  Transactional = {w1, w2}
  Ttl = 2
  MaxTime = 3
  MaxToken = 3
INVARIANTS
  LeaseTypeOK
PROPERTIES
  OnlyOwnerChanges
  ImplementsFencedStore
CHECK_DEADLOCK FALSE
