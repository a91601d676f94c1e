SPECIFICATION Spec
CONSTANTS
  Names = {"Al", "Alan", "Katie"}
  Begins <- MCBegins
  TieNames = {"Katie"}
  GreetHeads = {"Al"}
  GreetParts = {"game"}
  Stack = {0, 2, 9}
  MayLeave = {0, 1}
  MaxRounds = 2
  MaxTotal = 3
CHECK_DEADLOCK FALSE
INVARIANTS TypeOK Lockstep TellsWinner StatsTrue
PROPERTIES PlaysMatch GameEnds LeavingEndsServer
