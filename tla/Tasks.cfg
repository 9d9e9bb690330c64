\* Two calls contend for the lock with each other and with somebody else.
\* The window holds up to three attempts, one at its very end; a worker may never stop.
SPECIFICATION FairSpec
CONSTANTS
  Callers = {c1, c2}
  LockRetry = 4
  TaskTimeout = 2
  FirstDelay = 1
  MaxDelay = 2
  Latency = 1
  LockWait = 1
  StartBy = 0
  MaxTime = 12
  MaxForeign = 1
  Foreign = Foreign
  None = None
CHECK_DEADLOCK FALSE
INVARIANTS
  TypeOK
  CarriedOutOnce
  OutcomeIsTrue
PROPERTY EveryCallSettles
