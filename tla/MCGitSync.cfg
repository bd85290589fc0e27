SPECIFICATION Spec
CONSTANTS
  Turns = {1, 2}
  UserEdits = {11}
  AddedFiles = {21}
  MaxStops = 1
  MaxFailures = 1
  MaxSyncs = 2
  MaxWaiting = 1
CONSTRAINT InBounds
INVARIANTS
  NoEditIsLost
  RepositoryOK
  PushIsKept
  UndoneStaysUndone
CHECK_DEADLOCK FALSE
