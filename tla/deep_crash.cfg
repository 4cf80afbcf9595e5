SPECIFICATION FairSpec
CONSTANTS
  Laptop = laptop
  Network <- Deep
  NodeId <- MCNodeId
  Run <- MCRun
  Device <- MCDevice
  Cfg <- MCCfg
  Inputs <- MCInputs
  Expected <- MCExpected
  LapGroups <- MCLapGroups
  Mortal <- MCMortal
  Lossy <- MCLossy
  MortalNodes = {0, 1, 2}
  LossyNodes = {}
  Runs = 1
  StallTicks = 2
  IdleTicks = 3
  GapTicks = 1
  LapTicks = 8
  DrainTicks = 1
  Timely = TRUE
  Loopback = FALSE
  MaxLoss = 0
  MaxStray = 0
  MaxCrash = 1
INVARIANT InputsComplete
PROPERTY RunsAnswered
PROPERTY RunsComplete
PROPERTY SubstitutionsReported
