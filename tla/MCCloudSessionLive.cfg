SPECIFICATION FairSpec
CONSTANTS
  Messages = {m1}
  Parked = Parked
  Grace = 3
  Delays <- MCDelays
  Settle = 1
  Gap = 1
  MaxParkedRestarts = 1
  MaxActs = 1
  MaxFailures = 0
  MaxChainEnds = 1
PROPERTY PendingIsSeenTo
CHECK_DEADLOCK FALSE
