SPECIFICATION FairSpec
CONSTANTS
  Proc = {p1, p2}
  Nobody = Nobody
  Preparing = {p1}
  Dropping = {p2}
  MaxRetries = 1
  MaxStmts = 1
INVARIANTS ReturnsSettled CommitTold LateFails
PROPERTY CallsReturn
