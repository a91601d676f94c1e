SPECIFICATION Spec
CONSTANTS
  Highest = 3
  Patience = {TRUE}
CHECK_DEADLOCK FALSE
PROPERTIES BothEnd
