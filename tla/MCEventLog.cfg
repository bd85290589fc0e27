SPECIFICATION FairSpec
CONSTANTS
  MaxTokens = 3
  MaxSegment = 4
  MaxFailures = 2
  MaxRestarts = 1
  MaxFlushes = 1
  SegmentMax = 2
  Faults = {"lostTail"}
INVARIANTS
  LogOK
PROPERTIES
  ImplementsAppendOnlyLog
  FailedBatchIsPublished
CHECK_DEADLOCK FALSE
