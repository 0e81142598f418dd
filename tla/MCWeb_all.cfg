SPECIFICATION FairSpec
CONSTANTS
  Req = {r1, r2}
  Ctx = {c1}
  NoCtx = NoCtx
  Handlers = 3
  MaxSegments = 3
  MaxSets = 2
  MaxNexts = 3
  Routes <- MCRoutes
  Paths <- MCPaths
  ServedTrees <- MCServedTrees
  ServedPaths <- MCServedPaths
INVARIANTS ServesRight RoutesRight
PROPERTIES EndStops Served
CHECK_DEADLOCK FALSE
