SPECIFICATION Spec
CONSTANTS
  c1 = c1
  c2 = c2
  Cmds = {c1, c2}
  WriteCmds = {c1}
  Calls <- SingleCalls
  MaxCount = 10
  MaxCalls = 3
  LineMax = 2
  Faults = {"request", "answer", "crc"}
INVARIANT SuccessHasData
PROPERTY ImplementsService
CHECK_DEADLOCK FALSE
