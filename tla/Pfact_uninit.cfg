SPECIFICATION Spec
CONSTANTS
  Inputs = {8, 20, 27}
  MaxProcs = 5
  PipeCap = 2
  MaxFds = 100
  StackInts = 100
  ExitMod = 256
  Garbage = {4, 9, 10}
  ForkMayFail = FALSE
CHECK_DEADLOCK FALSE
INVARIANTS PairIsPrime
