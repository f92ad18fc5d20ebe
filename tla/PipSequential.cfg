SPECIFICATION Spec
CONSTANTS
  Run = {1, 2, 3}
  Received = {"good", "bad"}
  Concurrent = FALSE
INVARIANTS PipTypeOK OnlyGoodBinaryRuns CacheSound NoSpuriousFailure
PROPERTIES CacheKept
