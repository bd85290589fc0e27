SPECIFICATION Spec
CONSTANTS
  MaxRun = 2
  MaxTime = 5
  MaxQueue = 1
  MaxInFlight = 1
  MaxRenewing = 2
  Margin = 2
  Ttl = 4
  Grace = 5
  FileTime = 1
  GitTime = 4
  Skew = 1
  ApiWaits = TRUE
INVARIANTS
  TypeOK
  OnlyNewestRunWrites
  WritesEndBeforeLease
  AtMostOneWriter
PROPERTIES
  ImplementsSingleWriter
CONSTRAINT LastRunHasNoSuccessor
CHECK_DEADLOCK FALSE
