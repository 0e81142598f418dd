SPECIFICATION Spec
CONSTANTS
  Client = {p1, p2}
  Conn = {c1, c2, c3, c4}
  NoConn = NoConn
  PoolSize = 1
  MinIdleConns = 1
  Expires = TRUE
  Reaping = TRUE
SYMMETRY Perms
INVARIANTS Accounting LoansSound NoLostSocket BreakerSound
PROPERTIES LendsCorrectly 
