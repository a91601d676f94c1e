SPECIFICATION Spec
CONSTANTS
  Names = {"Alan"}
  Begins <- MCBegins
  TieNames = {"Katie"}
  GreetHeads = {"Al"}
  GreetParts = {"game"}
  Stack = {0, 2, 9}
  MayLeave = {0, 1}
  MaxRounds = 1
  MaxTotal = 2
CHECK_DEADLOCK FALSE
INVARIANTS RoundsArePlayed
