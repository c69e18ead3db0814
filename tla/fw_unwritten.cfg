SPECIFICATION Spec
CONSTANTS
  Blocks = 2
  Defaults = 0
  MaxTries = 4
  MaxReads = 5
  MaxUploads = 2
  MaxJunk = 2
  MaxFaults = 8
  Faults = {"late"}
INVARIANTS
  CallbackMeansWritten
CHECK_DEADLOCK FALSE
