CONSTANTS
  Name <- MCName
  Failing = {}
  LNX_ERROR_LOG_PATH = "error.log"
  Word <- MCWord
  MaxLogs = 3
  SignalName = {"stop", "reload"}
SPECIFICATION StartSpec
INVARIANTS
  AllReached
  FilesAreShared
  EveryLogHasFile
  FailureIsTold
  WritesLand
  StderrIsRight
CHECK_DEADLOCK FALSE
