\* Four runs: one ignores ^C and can flood, the line of one is too long.
SPECIFICATION FairSpec
CONSTANTS
  c1 = c1
  c2 = c2
  c3 = c3
  c4 = c4
  Commands <- FourRuns
  TooLong <- LongRun
  Stubborn <- StubbornRun
  Floods <- StubbornRun
  Probe = Probe
  Login = Login
  None = None
CHECK_DEADLOCK FALSE
INVARIANTS
  TypeOK
  ResultIsOwnOnceHeard
  InterruptHitsItsOwn
PROPERTY EveryRunSettles
