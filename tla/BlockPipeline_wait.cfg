SPECIFICATION Spec
CONSTANTS
  LastKnown = 1
  ReScan = 200
  Hysteresis = 100
  BlockCap = 2
  DispatchedCap = 2
  HeadsCap = 2
  RingCap = 2
  InitHeight = 8
  MaxHeight = 8
  MaxErrors = 0
  MaxLost = 0
INVARIANTS NoCircularWait
CHECK_DEADLOCK FALSE
