SPECIFICATION Spec
CONSTANTS
  Bytes = {"a", "CR", "LF"}
  MaxLen = 6
  MaxClients = 2
  BufSize = 4
CHECK_DEADLOCK FALSE
INVARIANTS TypeOK
PROPERTIES LinesAsSent AllServed
