SPECIFICATION Spec
CONSTANTS
  Laptop = laptop
  Network <- Trio
  NodeId <- MCNodeId
  Run <- MCRun
  Device <- MCDevice
  Cfg <- MCCfg
  Inputs <- MCInputs
  Expected <- MCExpected
  LapGroups <- MCLapGroups
  Mortal <- MCMortal
  Lossy <- MCLossy
  MortalNodes = {0, 2}
  LossyNodes = {}
  Runs = 1
  StallTicks = 2
  IdleTicks = 4
  GapTicks = 1
  LapTicks = 8
  DrainTicks = 1
  Timely = TRUE
  Loopback = FALSE
  MaxLoss = 0
  MaxStray = 0
  MaxCrash = 1
INVARIANT LayerInv
INVARIANT DeadlineInv
PROPERTY RunsComplete
PROPERTY SubstitutionsReported
PROPERTY TurnOrder
PROPERTY AskAfterRound
PROPERTY RunAsPromised
