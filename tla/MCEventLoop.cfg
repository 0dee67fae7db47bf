CONSTANTS
  l = l
  c1 = c1
  f1 = f1
  f2 = f2
  Conn <- MCConn
  Fd <- MCFd
  Listening <- MCListening
  MaxOps = 2
  MaxDue = 1
SPECIFICATION FairLoopSpec
INVARIANTS
  QueueInv
  DrainOrder
PROPERTIES
  NoReportLost
  AllFound
  PostedIsHandled
