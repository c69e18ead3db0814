SPECIFICATION Spec
CONSTANTS
  c1 = c1
  c2 = c2
  Cmds = {c1}
  WriteCmds = {}
  Calls <- AllCalls
  MaxCount = 10
  MaxCalls = 2
  LineMax = 2
  Faults = {"request", "answer", "crc", "header", "split", "late"}
INVARIANT SuccessHasData
CHECK_DEADLOCK FALSE
