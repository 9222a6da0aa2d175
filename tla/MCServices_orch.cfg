SPECIFICATION FairSpec
CONSTANTS
  PartList <- MCPartList
  Monitors <- MCMonitors
  Cap <- MCCap
  MaxTrx = 1
  MaxHeads = 1
INVARIANTS OrchestratorSafe
\* the stopped server
CHECK_DEADLOCK FALSE
