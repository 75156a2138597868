SPECIFICATION FairSpec
CONSTANTS
  b1 = b1
  b2 = b2
  Buffers <- MCBuffers
  NoBuffer = NoBuffer
  QueueCapacity = 1
  StatsCapacity = 1
  GapRecovery = TRUE
  DuplicateCheck = TRUE
  MaxGapTolerance = 1
  WindowSize = 2
  MaxSeen = 3
  MaxSkip = 1
  MaxMessages = 4
INVARIANTS
  TypeOK
  BufferConservation
  MessagesAccounted
  ProcessedInOrder
  CheckpointOfOneMessage
  NumbersProcessedOnce
  LossIsExplained
PROPERTIES
  UsesPoolAsPromised
  BuffersComeBack
CHECK_DEADLOCK FALSE
