SPECIFICATION Spec
CONSTANTS
  PoolSize = 2
  QueueCapacity = 2
INVARIANT
  ExclusiveOwnership
