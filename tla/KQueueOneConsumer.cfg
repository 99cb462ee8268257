SPECIFICATION FairSpec
CONSTANTS
  Producers = {p1, p2, p3}
  Consumers = {c1}
  MaxPushes = 6
INVARIANTS
  TypeOK
  WakeupPending
  FifoOrder
PROPERTY EveryItemTaken
