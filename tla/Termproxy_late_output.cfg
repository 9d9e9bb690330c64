\* A deadline that passes before the output of its command arrives.
SPECIFICATION Spec
CONSTANTS
  c1 = c1
  c2 = c2
  c3 = c3
  c4 = c4
  Commands <- TwoRuns
  TooLong <- NoRun
  Stubborn <- NoRun
  Floods <- NoRun
  Probe = Probe
  Login = Login
  None = None
CHECK_DEADLOCK FALSE
INVARIANTS
  ResultIsOwn
