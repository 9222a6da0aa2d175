SPECIFICATION Spec
CONSTANTS
  own = own
  foreign = foreign
  Pair <- MCPair
  Listed <- MCListed
  None = None
  MaxTrx = 2
  MaxAgain = 2
  MaxFailures = 2
  MaxCrashes = 2
INVARIANTS TypeOK ActionsSettle
PROPERTIES ActionKept
\* the dispatcher idles when the logs are worked off
CHECK_DEADLOCK FALSE
