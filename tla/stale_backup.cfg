SPECIFICATION Spec
CONSTANTS
  Texts <- MCTexts
  Example <- AndGate
  Previews <- MCPreviews
  Hardware <- MCHardware
  Role <- MCRole
  Run <- MCRun
  NodeId <- MCNodeId
  Missing = Missing
  NoBackup = NoBackup
  FieldMax = 3
  ChunkFloats = 2
  MaxChunks = 2
  MaxPredecessors = 3
  Persistent = FALSE
  StallTicks = 1
  IdleTicks = 1
  GapTicks = 1
  MaxEdits = 2
  MaxSetups = 2
  MaxRuns = 1
  MaxFailures = 1
  MaxReboots = 1
CHECK_DEADLOCK FALSE
PROPERTY SubstitutesCorrect
