SPECIFICATION TimersSpec
CONSTANTS
  MaxRun = 2
  MaxTime = 14
  MaxQueue = 1
  MaxInFlight = 0
  MaxRenewing = 1
  Margin = 1
  Ttl = 8
  Grace = 16
  FileTime = 1
  GitTime = 1
  Skew = 0
  ApiWaits = FALSE
  Renew = 2
  MaxFailed = 1
INVARIANTS
  PromptHarnessKeepsItsFence
  HandoverIsBounded
CONSTRAINT OnlyFirstHarnessRuns
CHECK_DEADLOCK FALSE
