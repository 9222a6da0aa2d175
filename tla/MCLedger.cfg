SPECIFICATION Spec
CONSTANTS
  Delegation = {d1, d2}
  ReqId = {r1}
  None = None
  MaxLogs = 4
  MaxBatch = 0
  MaxAgain = 1
  MaxFailures = 1
SYMMETRY Symmetry
CONSTRAINT BothWithThree
INVARIANTS TypeOK BalanceSettled CacheKeepsStaked RequestsFirstTime
\* the ledger idles when the logs are worked off
CHECK_DEADLOCK FALSE
