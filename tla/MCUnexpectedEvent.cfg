CONSTANTS
  c3 = c3
  c1 = c1
  c2 = c2
  f1 = f1
  f2 = f2
  Conn <- MCConn
  Fd <- MCFd
  Listening <- MCListening
  MaxOps = 2
  MaxDue = 0
  MaxStale = 2
SPECIFICATION EarlySpec
SYMMETRY Symm
INVARIANT OpenKeepWatched
PROPERTY ClosedIsSilenced
