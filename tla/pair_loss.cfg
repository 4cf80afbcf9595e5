SPECIFICATION Spec
CONSTANTS
  Laptop = laptop
  Network <- Mutual
  NodeId <- MCNodeId
  Run <- MCRun
  Device <- MCDevice
  Cfg <- MCCfg
  Inputs <- MCInputs
  Expected <- MCExpected
  LapGroups <- MCLapGroups
  Mortal <- MCMortal
  Lossy <- MCLossy
  MortalNodes = {0, 1, 2}
  LossyNodes = {0, 1}
  Runs = 1
  StallTicks = 2
  IdleTicks = 3
  GapTicks = 1
  LapTicks = 8
  DrainTicks = 1
  Timely = TRUE
  Loopback = FALSE
  MaxLoss = 1
  MaxStray = 1
  MaxCrash = 0
INVARIANT NeverTornDown
PROPERTY RunsComplete
