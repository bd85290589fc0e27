SPECIFICATION StreamSpec
CONSTANTS
  MaxTokens = 3
  MaxSegment = 4
  MaxFailures = 1
  MaxRestarts = 1
  MaxFlushes = 1
  SegmentMax = 2
  Faults = {"lostTail", "lyingHead"}
INVARIANT ReaderSeesTheLog
CHECK_DEADLOCK FALSE
