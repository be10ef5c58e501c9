CONSTANTS
  Requests = {r1, r2}
  Links = {l1, l2, l3}
  Results = {k1}
  Conns = {c1, c2, c3}
  NoRequest = NoRequest
  NoLink = NoLink
  NoConn = NoConn
SPECIFICATION Spec
INVARIANTS
  TypeOK
  ReleasedOnce
  NothingOutlivesRequest
  NoticeToHolder
  ResultHasLink
  DroppedIsReleased
SYMMETRY Symmetry
CHECK_DEADLOCK FALSE
