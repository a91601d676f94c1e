SPECIFICATION Spec
CONSTANTS
  Names = {"Al", "Alan", "Katie", "game"}
  Begins <- MCBegins
  TieNames = {"Katie"}
  GreetHeads = {"Al"}
  GreetParts = {"game"}
  Stack = {}
  MayLeave = {}
  MaxRounds = 1
  MaxTotal = 2
CHECK_DEADLOCK FALSE
INVARIANTS SaysWhoWon
