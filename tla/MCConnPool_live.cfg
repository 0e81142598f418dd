SPECIFICATION FairSpec
CONSTANTS
  Client = {p1}
  Conn = {c1, c2, c3}
  NoConn = NoConn
  PoolSize = 1
  MinIdleConns = 1
  Expires = TRUE
  Reaping = TRUE
PROPERTIES TurnsServed BreakerHeals
