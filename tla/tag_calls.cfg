SPECIFICATION Spec
CONSTANTS
  Jobs <- MCJobs
  MaxCalls <- MCCalls
  V2MaxCount = 2
  V2LineMax = 2
  V2Lines <- MCLines
INVARIANTS
  TypeOK
  CardUnderstands
  CallerGetsReply
  V2AtMostOnce
  V2OwnAnswers
  V2SuccessIsDone
  FreedOnce
PROPERTIES
  V2CallsReturn
CHECK_DEADLOCK FALSE
