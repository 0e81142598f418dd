SPECIFICATION FairSpec
CONSTANTS
  User = {u1, u2}
  Conn = {c1, c2}
  NoConn = NoConn
  MaxOwners = 2
  InitFails = TRUE
  Retries = TRUE
INVARIANT InOnePlace
PROPERTIES LendsOne OneSession GetReturns
