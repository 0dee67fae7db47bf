SPECIFICATION Spec
CONSTANTS
  Value <- MCValue
  MaxWords = 3
  MaxDirectives = 8
  DEFAULT_CONNECTIONS = 2
INVARIANTS
  AsWritten
  LoopIsReady
CHECK_DEADLOCK FALSE
