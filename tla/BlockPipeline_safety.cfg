SPECIFICATION Spec
CONSTANTS
  LastKnown = 2
  ReScan = 1
  Hysteresis = 2
  BlockCap = 2
  DispatchedCap = 2
  HeadsCap = 2
  RingCap = 2
  InitHeight = 2
  MaxHeight = 5
  MaxErrors = 1
  MaxLost = 1
INVARIANTS TypeOK NoBlockSkipped NothingLeftBehind TransitionCovered
\* the goroutines may wait for each other in a circle, see the run pipeline_wait
CHECK_DEADLOCK FALSE
