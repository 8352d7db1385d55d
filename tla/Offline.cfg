CONSTANTS
  MaxKeys = 3
  MaxEdits = 2
  MaxVersion = 2
  MaxFaults = 1
SPECIFICATION FairSpec
INVARIANTS TypeOK ExactlyOnce NeverOvertaken
PROPERTY EditsSettle
CHECK_DEADLOCK FALSE
