CONSTANTS
  NDim = 1
  MaxU64 = 7
  Accounts = {1}
  ResidualAccount = 9
  MaxWeight = 4
  MaxWeights = 3
SPECIFICATION Spec
INVARIANTS Conserved ClosestSplit
CHECK_DEADLOCK FALSE
