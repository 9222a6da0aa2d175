SPECIFICATION FairSpec
CONSTANTS
  PartList <- MCPartList
  Monitors <- MCMonitors
  Cap <- MCCap
  MaxTrx = 1
  MaxHeads = 1
PROPERTIES StopCompletes
\* the stopped server
CHECK_DEADLOCK FALSE
