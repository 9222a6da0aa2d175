SPECIFICATION Spec
CONSTANTS
  Delegation = {d1}
  ReqId = {r1}
  None = None
  MaxLogs = 4
  MaxBatch = 0
  MaxAgain = 0
  MaxFailures = 0
SYMMETRY Symmetry
INVARIANTS SkipUnchanged
\* the ledger idles when the logs are worked off
CHECK_DEADLOCK FALSE
