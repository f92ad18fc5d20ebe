SPECIFICATION Spec
CONSTANTS
  Tid = {1, 2}
  Cpu = {0, 1}
  Tgid = {10, 20}
  Target = 10
  InitTgid <- MC_InitTgid
  UAddr = {}
  FutexCmd = {0}
  FutexFlag = {0}
  Dev = {1}
  Sector = {1}
  SectorMod = 4
  PreemptState = 0
  ExclusiveKeys = FALSE
  BlockStartCap = 2
  FutexStartCap = 2
  BlockIoStartCap = 2
  RingCap = 2
  MaxClock = 8
  MaxBorn = 1
INVARIANTS
  BlockIoEventsReal
