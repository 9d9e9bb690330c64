\* One shell and one call of close().
SPECIFICATION Spec
CONSTANTS
  ShellKeys = {n1}
  ConsoleKeys = {}
  Sessions = {s1, s2}
  Callers = {c1}
  None = None
CHECK_DEADLOCK FALSE
INVARIANT CloseClosesEverySession
