CONSTANTS
  FolderOrder <- Folders
  MaxLoc = 6
  MaxVer = 7
  MaxEdits = 2
  MaxOthers = 3
  MaxFaults = 1
  Profile <- Profiles
SPECIFICATION FairSpec
INVARIANTS TypeOK EditsHonoured Reconciled
PROPERTY CatchesUp
CHECK_DEADLOCK FALSE
