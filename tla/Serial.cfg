\* Two callers, one of whose lines may be empty, one of whose lines may hold
\* text like a prompt, and commands that print such text.
SPECIFICATION FairSpec
CONSTANTS
  c1 = c1
  c2 = c2
  Callers = {c1, c2}
  Lines <- MCLines
  Outputs = {"text", "sign"}
  MaxQueue = 1
  None = None
CHECK_DEADLOCK FALSE
INVARIANTS
  TypeOK
  NothingLost
  NothingLeftBehind
  PromptIsNew
PROPERTY PromptWakes
