SPECIFICATION FairSpec
CONSTANTS
  c1 = c1
  c2 = c2
  Cmds = {c1}
  WriteCmds = {}
  Calls <- LoopCalls
  MaxCount = 10
  MaxCalls = 1
  LineMax = 2
  Faults = {"request"}
PROPERTY StopReturns
CHECK_DEADLOCK FALSE
