SPECIFICATION LockFairSpec
CONSTANTS
  Proc = {p1, p2}
  Chan = {c1, c2, c3, c4}
  NoChan = NoChan
INVARIANT Excludes
PROPERTY CallsReturn
