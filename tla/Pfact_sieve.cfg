SPECIFICATION Spec
CONSTANTS
  Inputs = {2, 3, 4, 5, 6, 8, 9, 15, 17, 25, 27, 30, 34, 49}
  MaxProcs = 5
  PipeCap = 2
  MaxFds = 10
  StackInts = 48
  ExitMod = 256
  Garbage = {}
  ForkMayFail = FALSE
CHECK_DEADLOCK FALSE
INVARIANTS NoBrokenPipe PairIsPrime
PROPERTIES AnswersAsSieve
