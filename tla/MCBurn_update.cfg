SPECIFICATION Spec
CONSTANTS
  None = None
  t1 = t1
  t2 = t2
  t3 = t3
  t4 = t4
  t5 = t5
  Trx <- MCTrx
  Body <- MCBody
  MaxBlock = 5
  Period = 2
  MaxAgain = 2
  MaxFailures = 2
  MaxCrashes = 1
PROPERTIES RecordCompleted
\* the dispatcher idles when all blocks have come
CHECK_DEADLOCK FALSE
