CONSTANTS
  c1 = c1
  c2 = c2
  c3 = c3
  f1 = f1
  f2 = f2
  f3 = f3
  Conn <- MCConn
  Fd <- MCFd
SPECIFICATION Spec
INVARIANTS
  TypeOK
  IndexInv
  SlotInv
  OneSlotPerConnection
  WithinArray
PROPERTY ImplementsInterestSet
