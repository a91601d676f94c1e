SPECIFICATION Spec
CONSTANTS
  Bytes = {"a", "0", "CR", "LF"}
  MaxLen = 4
  MaxClients = 1
  BufSize = 4
CHECK_DEADLOCK FALSE
INVARIANTS FindsNewline
