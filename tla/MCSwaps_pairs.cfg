SPECIFICATION Spec
CONSTANTS
  own = own
  foreign = foreign
  Pair <- MCPair
  Listed <- MCListedBoth
  None = None
  MaxTrx = 2
  MaxAgain = 0
  MaxFailures = 0
  MaxCrashes = 0
INVARIANTS ApprovedPairs
\* the dispatcher idles when the logs are worked off
CHECK_DEADLOCK FALSE
