SPECIFICATION Spec
CONSTANTS
  QueueCapacity = 2
  MaxMessages = 2
INVARIANT
  SavedIsProcessed
CHECK_DEADLOCK FALSE
