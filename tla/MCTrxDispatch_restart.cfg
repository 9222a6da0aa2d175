SPECIFICATION Spec
CONSTANTS
  None = None
  t1 = t1
  t2 = t2
  t3 = t3
  alice = alice
  bob = bob
  token = token
  Trx <- MCTrx
  Account <- MCAccount
  Chain <- MCChain
  From <- MCFrom
  To <- MCTo
  Created <- MCCreated
  Logs <- MCLogs
  ReScan = 1
  TrxCap = 1
  AccCap = 2
  LogCap = 1
  MaxAgain = 0
  MaxFailures = 0
  MaxCrashes = 1
INVARIANTS RestartCovers
\* the server idles when the chain is stored
CHECK_DEADLOCK FALSE
