SPECIFICATION Spec
CONSTANTS
  c1 = c1
  c2 = c2
  Cmds = {c1, c2}
  WriteCmds = {c1}
  Calls <- AutoCalls
  MaxCount = 10
  MaxCalls = 3
  LineMax = 3
  Faults = {}
INVARIANTS
  QuietWhenIdle
  OwnTags
  OwnData
PROPERTY ImplementsService
CHECK_DEADLOCK FALSE
