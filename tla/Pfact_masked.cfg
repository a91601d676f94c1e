SPECIFICATION Spec
CONSTANTS
  Inputs = {15, 17, 49}
  MaxProcs = 5
  PipeCap = 60
  MaxFds = 7
  StackInts = 100
  ExitMod = 256
  Garbage = {}
  ForkMayFail = FALSE
CHECK_DEADLOCK FALSE
INVARIANTS ReportMeansVerdict
