SPECIFICATION FairSpec
CONSTANTS
  Size = 4
  b1 = b1
  b2 = b2
  Items <- MCItems
  Null = Null
  Instrumented = TRUE
  CounterMod = 8
INVARIANTS
  RingInv
  NoSlotRace
  CountersAccountForSlots
PROPERTIES
  ImplementsFifo
  DeliveredEventually
