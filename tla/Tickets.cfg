\* Two requests, one key rotation, long enough for a ticket to be renewed
\* (age 3) and to expire (age 5).
SPECIFICATION FairSpec
CONSTANTS
  Requests = {r1, r2}
  Lifetime = 5
  Margin = 2
  Latency = 1
  MaxTime = 5
  MaxRotations = 1
  Refusal = Refusal
  None = None
CHECK_DEADLOCK FALSE
INVARIANTS
  TypeOK
  NeverSendsExpired
  RetryUsesNewLogin
  RotationIsInvisible
PROPERTY RequestsSettle
