SPECIFICATION FairSpec
CONSTANTS
  i1 = i1
  b1 = b1
  b2 = b2
  Ids = {i1}
  Bundles = {b1, b2}
  Compiles = {b1, b2}
  Breaks <- MCBreaks
  None = None
  Mixed = Mixed
  LazyModes = {TRUE, FALSE}
  MaxDeployments = 1
  MaxOps = 3
  MaxCrashes = 1
  MaxFaults = 1
INVARIANT RegistryOK
PROPERTIES LiveVersionKeepsServing CompilingEnds
CHECK_DEADLOCK FALSE
