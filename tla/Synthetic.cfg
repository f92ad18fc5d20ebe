SPECIFICATION Spec
CONSTANTS
  Thread = {"holder", "waiter"}
  holder = "holder"
  waiter = "waiter"
  Rounds = 1
  READ_REPEATS = 6
INVARIANTS
  WaiterBehindReads
PROPERTIES
  Ends
