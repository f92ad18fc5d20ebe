SPECIFICATION Spec
CONSTANTS
  Run = {1, 2}
  Received = {"good"}
  Concurrent = TRUE
INVARIANTS OnlyGoodBinaryRuns
