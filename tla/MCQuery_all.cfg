SPECIFICATION FairSpec
CONSTANTS
  Proc = {p1, p2}
  Nobody = Nobody
  Conn = {c1}
  NoConn = NoConn
  Kinds = {"pool", "sticky", "single"}
  Says = {"nil", "serial", "aborted", "fatal", "cancelled"}
  Executing = {p1}
  Copying = {p2}
  Cancellable = {p1}
  Panicking = {p2}
  Hooks = 2
  MaxRetries = 1
  RetryStatementTimeout = TRUE
INVARIANTS  CancelsItsOwn 
PROPERTIES BorrowsCorrectly CallReturns
