SPECIFICATION FairMutexSpec
CONSTANTS
  Thread = {1, 2, 3}
  Rounds = 2
INVARIANTS
  MutexTypeOK
  NoLostWakeup
PROPERTIES
  ImplementsMutex
  EverybodyGetsThrough
