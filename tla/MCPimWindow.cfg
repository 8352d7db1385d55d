CONSTANTS
  MaxKeys = 2
  MaxEtag = 3
  MaxVersion = 2
  MaxFaults = 0
  Profile <- Delta
SPECIFICATION Spec
INVARIANT ConflictSurfaces
CHECK_DEADLOCK FALSE
