CONSTANTS
  Requests = {r1}
  Links = {l1, l2}
  Results = {k1}
  Conns = {c1, c2}
  NoRequest = NoRequest
  NoLink = NoLink
  NoConn = NoConn
SPECIFICATION Spec
INVARIANTS
  NoNullDereference
CHECK_DEADLOCK FALSE
