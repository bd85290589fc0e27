\* The residual waits for more events: the run may stop there.
SPECIFICATION Spec
CONSTANTS
  Contracts <- MCContracts
  Deeds <- MCDeeds
  Stamps = {1, 2, 3}
  MaxEvents = 3
  MaxBatch = 2
INVARIANTS MachineOK AnswerIsMeant
CHECK_DEADLOCK FALSE
