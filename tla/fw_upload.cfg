SPECIFICATION FairSpec
CONSTANTS
  Blocks = 2
  Defaults = 1
  MaxTries = 1
  MaxReads = 1
  MaxUploads = 2
  MaxJunk = 1
  MaxFaults = 3
  Faults = {"request", "answer", "length", "split", "late", "file"}
INVARIANTS
  TypeOK
  SendsBounded
  NoGaps
  SuccessMeansWritten
PROPERTIES
  NeverBack
  UploadEnds
CHECK_DEADLOCK FALSE
