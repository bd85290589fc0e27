SPECIFICATION FairSpec
CONSTANTS
  Kinds = {"message", "files", "inject", "abort", "stop", "invalid"}
  MaxCommand = 3
  MaxWriters = 1
  MaxExits = 1
  MaxFailures = 1
INVARIANTS
  QueueOK
  MessageRunsOnce
PROPERTIES
  TurnsInOrder
  AnnouncedIsHandled
