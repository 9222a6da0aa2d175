SPECIFICATION FairSpec
CONSTANTS
  None = None
  t1 = t1
  t2 = t2
  t3 = t3
  alice = alice
  bob = bob
  token = token
  Trx <- MCTwoTrx
  Account <- MCAccount
  Chain <- MCTwoBlocks
  From <- MCFrom
  To <- MCTo
  Created <- MCCreated
  Logs <- MCLogs
  ReScan = 1
  TrxCap = 1
  AccCap = 1
  LogCap = 1
  MaxAgain = 1
  MaxFailures = 1
  MaxCrashes = 1
INVARIANTS TypeOK StoredAfterWork CountersCover CheckpointBacked
PROPERTIES EventuallyStored
\* the server idles when the chain is stored
CHECK_DEADLOCK FALSE
