SPECIFICATION Spec
CONSTANTS
  Tid = {1, 2}
  Cpu = {0}
  Tgid = {10, 20}
  Target = 10
  InitTgid <- MC_InitTgid
  UAddr = {}
  FutexCmd = {0}
  FutexFlag = {0}
  Dev = {}
  Sector = {}
  SectorMod = 4
  PreemptState = 256
  ExclusiveKeys = TRUE
  BlockStartCap = 2
  FutexStartCap = 2
  BlockIoStartCap = 2
  RingCap = 2
  MaxClock = 8
  MaxBorn = 1
INVARIANTS
  SchedEventsReal
