SPECIFICATION FairSpec
CONSTANTS
  OpenaiTries = 2
  S3Tries = 3
  TryTime <- ShortTimes
  MaxWait <- ShortWaits
  LockTimeout = 24
CHECK_DEADLOCK FALSE
INVARIANTS
  ImageStays
  OrphansExplained
  WithinLease
PROPERTIES
  AttemptEnds
