SPECIFICATION Spec
CONSTANTS
  PoolSize = 3
  QueueCapacity = 3
INVARIANTS
  PoolInv
  PartitionUntilOverlap
  QueueHasRoom
PROPERTIES
  AtomicUntilOverlap
