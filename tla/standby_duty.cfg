SPECIFICATION FairSpec
CONSTANTS
  NodeId <- MCNodeId
  Run <- MCRun
  Config <- MCConfig
  Observed <- MCObserved
INVARIANTS TypeOK VerdictOK QueuesOK
PROPERTIES DoesDuty RequestsResolved
