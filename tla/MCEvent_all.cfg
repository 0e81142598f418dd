SPECIFICATION EventFairSpec
CONSTANTS
  Caller = {p1, p2}
  Worker = {w1}
  Nobody = Nobody
  Handler = {h1, h2}
  NoHandler = NoHandler
  MaxQueue = 1
INVARIANT RunsHandlers
PROPERTIES CallsReturn QueuedIsPublished
