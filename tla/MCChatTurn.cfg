SPECIFICATION FairSpec
CONSTANTS
  t1 = t1
  t2 = t2
  c1 = c1
  c2 = c2
  Turns = {t1, t2}
  Conversations = {c1, c2}
  Placements <- MCPlacements
  Kinds <- MCKinds
  MaxCalls <- MCCalls
  MaxInjects <- MCInjects
INVARIANTS ChatOK EveryCallIsAnswered InjectionsReachTheModel CallsFollowTheUser
PROPERTY TurnEnds
CHECK_DEADLOCK FALSE
