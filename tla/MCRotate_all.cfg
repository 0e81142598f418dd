SPECIFICATION FairSpec
CONSTANTS
  Goroutine = {p1, p2}
  Nobody = Nobody
  Line = {l1, l2}
  LastDay = 4
  IntervalDay = 1
INVARIANT KeepsLogging
PROPERTY RotatesInTime
CHECK_DEADLOCK FALSE
