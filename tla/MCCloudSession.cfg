SPECIFICATION Spec
CONSTANTS
  Messages = {m1}
  Parked = Parked
  Grace = 2
  Delays <- MCDelays
  Settle = 1
  Gap = 1
  MaxParkedRestarts = 1
  MaxActs = 2
  MaxFailures = 2
  MaxChainEnds = 0
INVARIANTS SessionOK ViewMissesNothing
PROPERTY AutoStartsSpareEnded
CHECK_DEADLOCK FALSE
