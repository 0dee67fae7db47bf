CONSTANTS
  Server = {"lingx"}
  Tester = {"lingx -t"}
  Signaller = {"lingx -s"}
  SignalName <- MCSignalName
  MaxStarts = 2
SPECIFICATION FairSpec
PROPERTY StopIsObeyed
CHECK_DEADLOCK FALSE
