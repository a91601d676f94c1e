SPECIFICATION Spec
CONSTANTS
  Inputs = {2, 3, 4, 6, 8, 12, 15, 17, 25, 27, 30, 34, 49}
  MaxProcs = 5
  PipeCap = 3
  MaxFds = 7
  StackInts = 29
  ExitMod = 256
  Garbage = {4, 6, 9, 10, 15}
  ForkMayFail = TRUE
CHECK_DEADLOCK FALSE
INVARIANTS FullInv TypeOK KeysArePrimes PipesAreSieved VerdictSound OutcomeAfterVerdict
  NothingLeftBehind
PROPERTIES Terminates
