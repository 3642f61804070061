CONSTANTS
  IntMax = 127
  InnerLen = 8
  BufLen = 5
  NProcs = 3
  NTasks = 1
  TtyOf <- MCTtyOf
  Calls <- MCCalls
  Tails <- MCTails
  Vectors = {0, 14}
SPECIFICATION Spec
INVARIANT TaskAssertHalts
CHECK_DEADLOCK FALSE
