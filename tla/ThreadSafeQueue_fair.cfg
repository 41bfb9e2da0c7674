SPECIFICATION FairSpec
CONSTANTS
  Producer = {p1, p2}
  Consumer = {c1, c2, c3}
  Destructor = d
  Item = {i1, i2}
  NoItem = NoItem
  NoThread = NoThread
CHECK_DEADLOCK FALSE
INVARIANTS
  TypeOK
  MutualExclusion
  NoLostWakeup
  NobodySleepsThroughStop
  PopsWhatItRead
PROPERTIES
  ImplementsWorkQueue
  EveryItemTaken
  StopEndsConsumers
