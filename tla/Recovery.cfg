SPECIFICATION FairSpec
CONSTANTS
  PoolSize = 1
  WindowSize = 1
  Positions = {0, 1}
  MaxSessions = 2
  MaxMessages = 2
  MaxRecordings = 2
  MaxProcesses = 2
INVARIANTS
  TypeOK
  RestartLossIsExplained
  RepeatIsExplained
PROPERTIES
  ReceivableReachHandler
\* The numbers of sessions, messages and processes are bounded.
CHECK_DEADLOCK FALSE
