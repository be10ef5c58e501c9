CONSTANTS
  Threads = {t1, t2, t3}
  Conns = {c1, c2, c3, c4}
  NoThread = NoThread
  NoConn = NoConn
  MaximumConnections <- NoMaximum
  MaxRequests = 4
SPECIFICATION Spec
INVARIANTS
  TypeOK
  ExclusiveLoan
  QueuedAreOK
  LentIsOpen
  NothingOrphaned
  InUseAccounted
  TotalAccounted
PROPERTIES
  ImplementsLoan
SYMMETRY Symmetry
CHECK_DEADLOCK FALSE
