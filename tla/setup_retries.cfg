SPECIFICATION FairSpec
CONSTANTS
  Hardware <- MCHardware
  Role <- MCRole
  Pool <- MCPool
  Networks <- SensorNet
  Losable <- NotTheVerdict
  MaxChunks = 2
  Persistent = FALSE
  Dynamic = FALSE
  Retries = 1
  Timely = TRUE
  MaxSessions = 1
  MaxLoss = 2
  MaxLate = 1
  MaxReboot = 0
  one = one
  two = two
CHECK_DEADLOCK FALSE
INVARIANT TypeOK
INVARIANT RetriesSuffice
INVARIANT StartedAsPlanned
INVARIANT NoPartialWeights
PROPERTY SessionEnds
PROPERTY EveryoneStarts
