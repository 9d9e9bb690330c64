\* A shell and two consoles, two sessions, two concurrent close callers, under
\* fairness: safety, the end of close calls, and the refinement of ConsoleLife.
SPECIFICATION FairSpec
CONSTANTS
  ShellKeys = {n1}
  ConsoleKeys = {v1, v2}
  Sessions = {s1, s2}
  Callers = {c1, c2}
  None = None
CHECK_DEADLOCK FALSE
INVARIANTS
  TypeOK
  EntriesLive
  NoOrphan
  CloseIsComplete
  OneCloser
PROPERTIES
  CloseTerminates
  ImplementsConsoleLife
