SPECIFICATION Spec
CONSTANTS
  Hardware <- MCHardware
  Role <- MCRole
  Pool <- MCPool
  Networks <- TwoPlans
  Losable <- AnyMessage
  MaxChunks = 2
  Persistent = TRUE
  Dynamic = FALSE
  Retries = 1
  Timely = TRUE
  MaxSessions = 2
  MaxLoss = 2
  MaxLate = 0
  MaxReboot = 2
  one = one
  two = two
CHECK_DEADLOCK FALSE
INVARIANT AllAwaitStart
INVARIANT WeightsAsPlanned
INVARIANT DistinctAddresses
