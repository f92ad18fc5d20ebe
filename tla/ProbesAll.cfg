SPECIFICATION Spec
CONSTANTS
  Tid = {1, 2}
  Cpu = {c0, c1}
  Tgid = {10, 20}
  Target = 10
  InitTgid <- MC_OneThread
  UAddr = {7}
  FutexCmd = {0, 3, 10}
  FutexFlag = {384}
  Dev = {1, 2}
  Sector = {1, 2, 5}
  SectorMod = 4
  PreemptState = 0
  ExclusiveKeys = TRUE
  BlockStartCap = 1
  FutexStartCap = 1
  BlockIoStartCap = 2
  RingCap = 1
  MaxClock = 6
  MaxBorn = 1
SYMMETRY MC_Symmetry
INVARIANTS
  TypeOK
  SchedEventsReal
  FutexEventsReal
  BlockIoEventsReal
  NothingOwedIsMissing
  ReportedOnce
  SpansDisjoint
  NoStaleStarts
