SPECIFICATION FairSpec
CONSTANTS
  Conn = {c1, c2}
  NoConn = NoConn
  Name = {n1}
  Ping = Ping
  ChanSize = 1
  Pings = TRUE
INVARIANTS ConnsSound InStep
PROPERTIES EndsWithOwner SilentReplaced
