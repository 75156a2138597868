SPECIFICATION Spec
CONSTANTS
  PageSize = 2
  MaxStarts = 2
  MaxSubscriptions = 2
  MaxRecordings = 2
  MaxMessages = 0
  MaxFailures = 0
INVARIANT
  StopWouldWork
CHECK_DEADLOCK FALSE
