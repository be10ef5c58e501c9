CONSTANTS
  Threads = {t1, t2}
  Conns = {c1, c2}
  NoThread = NoThread
  NoConn = NoConn
  MaximumConnections <- NoMaximum
  MaxRequests = 2
SPECIFICATION StatSpec
INVARIANTS
  ReportOrdered
PROPERTIES
  LockFreed
CHECK_DEADLOCK FALSE
