SPECIFICATION FairSpec
CONSTANTS
  LastKnown = 2
  ReScan = 5
  Hysteresis = 2
  BlockCap = 1
  DispatchedCap = 1
  HeadsCap = 1
  RingCap = 2
  InitHeight = 2
  MaxHeight = 4
  MaxErrors = 1
  MaxLost = 1
PROPERTIES EventuallyProcessed
\* the goroutines may wait for each other in a circle, see the run pipeline_wait
CHECK_DEADLOCK FALSE
