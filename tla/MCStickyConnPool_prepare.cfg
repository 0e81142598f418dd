SPECIFICATION Spec
CONSTANTS
  User = {u1, u2}
  Conn = {c1, c2}
  NoConn = NoConn
  MaxOwners = 2
  InitFails = FALSE
  Retries = TRUE
PROPERTY SameSession
