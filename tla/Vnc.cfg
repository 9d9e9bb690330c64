\* Two parts of the screen, one key, one fresh screenshot.
SPECIFICATION FairSpec
CONSTANTS
  Keys = {k1}
  Parts = {p1, p2}
  Shots = {s1}
  MaxChanges = 1
  MaxUp = 1
CHECK_DEADLOCK FALSE
INVARIANTS
  TypeOK
  NobodyLeftWaiting
  NoStuckKeys
  FreshWhenQuiet
PROPERTY ScreenConverges
