CONSTANTS
  MaxKeys = 3
  MaxEtag = 3
  MaxVersion = 2
  MaxFaults = 1
  Profile <- Profiles
SPECIFICATION FairSpec
INVARIANTS TypeOK NoBlindOverwrite
PROPERTIES RecordKept Reconciles
CHECK_DEADLOCK FALSE
