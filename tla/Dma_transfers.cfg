SPECIFICATION FairSpec
CONSTANTS
  t1 = t1
  t2 = t2
  tx = tx
  rx = rx
  Threads = {t1, t2}
  Chans = {tx, rx}
  Calls <- MixedCalls
  NULL = NULL
  MaxCookie = 2
INVARIANTS
  TypeOK
  WaitedLegsMoved
  
  DeadCompletionOnlyAfterStop
PROPERTY EveryCallReturns
CHECK_DEADLOCK FALSE
