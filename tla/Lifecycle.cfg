SPECIFICATION FairSpec
CONSTANTS
  QueueCapacity = 2
  MaxMessages = 4
INVARIANTS
  TypeOK
  ProducersStopFirst
  AllJoinedAtExit
  HandlesOutliveRunning
PROPERTY
  ShutdownCompletes
CHECK_DEADLOCK FALSE
