SPECIFICATION FairSpec
CONSTANTS
  t1 = t1
  t2 = t2
  NoThread = NoThread
  Threads <- TwoThreads
  Ops = {"Write", "Read", "Flush"}
  BufSize = 3
  Lengths = {2}
  MaxCalls = 3
  MaxInput = 3
  Faults = {"read"}
INVARIANTS
  TypeOK
  OutputInOrder
  InputInOrder
  NothingHeldBack
PROPERTIES CallsReturn
CHECK_DEADLOCK FALSE
