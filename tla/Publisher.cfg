SPECIFICATION Spec
CONSTANTS
  PageSize = 3
  MaxStarts = 2
  MaxSubscriptions = 3
  MaxRecordings = 4
  MaxMessages = 2
  MaxFailures = 1
INVARIANTS
  TypeOK
  FoundIsOurs
  StoppedMeansStopped
  
CHECK_DEADLOCK FALSE
