SPECIFICATION FairSpec
CONSTANTS
  SectorMod = 4
  MATCH_WINDOW_NS = 3
  MAX_CHAIN_DEPTH = 2
  Traces <- MC_Traces
  Slowest = {0, 1, 3}
  Devs = {1}
INVARIANTS
  TypeOK
  ChainsWalkBack
  ChainsBounded
  HopsAreNearest
  ChainsComplete
  HeadlinesAreNearest
  SlowestExplained
  NamesConsistent
PROPERTIES
  Terminates
