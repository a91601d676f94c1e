SPECIFICATION Spec
CONSTANTS
  Width = 3
  MaxLength = 5
  MaxCommands = 3
  MayFail = TRUE
  MaxIter = 4
  ForkMayFail = TRUE
  Seconds = {0, 1}
  MaxReads = 3
  N = 3
  MaxLevel = 2
  MaxRemovals = 1
  Highest = 7
  Patience = {TRUE, FALSE}
  SinDigits = 3
  IntWidth = 2048
  Capacity = 4
  MaxString = 5
  MaxNumber = 4200
CHECK_DEADLOCK FALSE
INVARIANTS TypeOK Restores NothingLost SaysTruth ParentsLast LinesOut ReportTrue FindsAll SilentMeansFree Meet IInv SecretInRange NoGuessTwice AsDocumented
PROPERTIES VerdictReported FindsSecret EveryProgramEnds
