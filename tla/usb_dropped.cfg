SPECIFICATION Spec
CONSTANTS
  t1 = t1
  t2 = t2
  NoThread = NoThread
  Threads <- OneThread
  Ops = {"Write", "Flush"}
  BufSize = 4
  Lengths = {1, 3, 5}
  MaxCalls = 4
  MaxInput = 0
  Faults = {"write"}
INVARIANTS
  OutputInOrder
CHECK_DEADLOCK FALSE
