CONSTANTS
  Name <- MCName
  Failing = {"a.log"}
  LNX_ERROR_LOG_PATH = "error.log"
  Word <- MCWord
  MaxLogs = 3
SPECIFICATION Spec
CHECK_DEADLOCK FALSE
INVARIANT FileLogAlwaysExists
