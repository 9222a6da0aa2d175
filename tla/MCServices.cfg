SPECIFICATION FairSpec
CONSTANTS
  PartList <- MCPartList
  Monitors <- MCMonitors
  Cap <- MCCap
  MaxTrx = 1
  MaxHeads = 1
INVARIANTS TypeOK PanicsDownstream SignalKept EndsLast
PROPERTIES StopSettles
\* the stopped server
CHECK_DEADLOCK FALSE
