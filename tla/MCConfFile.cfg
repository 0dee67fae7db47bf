CONSTANTS
  Char <- MCChar
  MAX_CONF_BUFFER = 3
  MaxText = 5
SPECIFICATION Spec
INVARIANTS
  TokenInOnePiece
  NothingLost
PROPERTY ParseEnds
CHECK_DEADLOCK FALSE
