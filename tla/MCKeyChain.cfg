SPECIFICATION FairSpec
CONSTANTS
  r1 = r1
  r2 = r2
  Requests = {r1, r2}
  Lifetime = 15
  RenewBefore = 5
  MinInterval = 2
  Delay = 1
  MaxRetries = 5
INVARIANTS KeyTypeOK ExpiredKeyIsBeingRenewed RetryCarriesNewerKey EndLeavesNoKey
PROPERTY DeadKeyIsNoticed
