SPECIFICATION FairSpec
CONSTANTS
  OldSize = 3
  NewSize = 2
  Tracepoints = 2
  RingCap = 2
  MaxClock = 3
  Offset = 0
INVARIANT RunsTraced
