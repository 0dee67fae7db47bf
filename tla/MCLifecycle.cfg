CONSTANTS
  Server = {"lingx"}
  Tester = {"lingx -t"}
  Signaller = {"lingx -s", "lingx -s again"}
  SignalName <- MCSignalName
  MaxStarts = 2
SPECIFICATION BusySpec
INVARIANTS
  RunningHasPidfile
  SentIsSeen
PROPERTY StopIsObeyed
CHECK_DEADLOCK FALSE
