CONSTANTS
  Threads = {t1, t2}
  Strings = {s1, s2}
  Pools = {p1, p2, p3}
  Conns = {c1, c2, c3, c4}
  NoThread = NoThread
  NoString = NoString
  NoPool = NoPool
  NullPool = NullPool
SPECIFICATION Spec
INVARIANTS
  TypeOK
  OnePoolPerString
  RightServer
  NoNullSwept
PROPERTIES
  SweptAllFree
  ImplementsLoans
SYMMETRY Symmetry
CHECK_DEADLOCK FALSE
