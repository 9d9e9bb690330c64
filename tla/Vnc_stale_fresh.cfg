\* A fresh screenshot asked for while an older update is on its way.
SPECIFICATION Spec
CONSTANTS
  Keys = {}
  Parts = {p1}
  Shots = {s1}
  MaxChanges = 1
  MaxUp = 0
CHECK_DEADLOCK FALSE
INVARIANT FreshIsFresh
