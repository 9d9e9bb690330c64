\* Two callers, contents of two pieces, three jobs, two faults.
SPECIFICATION Spec
CONSTANTS
  Callers = {c1, c2}
  K = 2
  MaxFaults = 2
  MaxJobs = 3
  Absent = Absent
  Old = Old
SYMMETRY Symmetry
CHECK_DEADLOCK FALSE
INVARIANTS
  TypeOK
  TargetIsWhole
  ResolvedIsGenuine
  LostShellIsDropped
  NothingLeftOnNode
