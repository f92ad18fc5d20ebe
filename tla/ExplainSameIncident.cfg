SPECIFICATION Spec
CONSTANTS
  SectorMod = 4
  MATCH_WINDOW_NS = 3
  MAX_CHAIN_DEPTH = 2
  Traces <- MC_Traces
  Slowest = {1}
  Devs = {1}
INVARIANTS
  SameIncident
