SPECIFICATION FairSpec
CONSTANTS
  c1 = c1
  c2 = c2
  Cmds = {c1}
  WriteCmds = {}
  Calls <- LoopCalls
  MaxCount = 10
  MaxCalls = 2
  LineMax = 2
  Faults = {"answer", "crc", "header", "split", "late"}
PROPERTIES
  CallReturns
  StopReturns
CHECK_DEADLOCK FALSE
